SPECIFICATION FairSpec
CONSTANTS
  Names <- TwoNames
  Metadata <- TwoMaps
  Unknown = Unknown
  NoMember = NoMember
  Tracked = {"ALL", "AVAILABLE"}
  Peers <- PairPeers
  LocalMetadata <- OwnMaps
  Slots = {1}
  PingReqCount = 1
  MaxClock = 9
  MaxPremature = 1
  Running = {"a"}
  MaxIncarnations = 1
  Crashing = {"b"}
  Checkers = {"a"}
  Gossipers <- TwoNames
  MaxUpdates = 1
  MaxEvents = 1
INVARIANTS TypeOK KnownAtRest HandlerAlive
PROPERTIES DetectorSpec Converges
