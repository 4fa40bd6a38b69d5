SPECIFICATION Spec
CONSTANTS
  Names <- TwoNames
  Metadata <- TwoMaps
  Unknown = Unknown
  NoMember = NoMember
  Tracked = {"ALL", "AVAILABLE"}
  Peers <- PairPeers
  LocalMetadata <- OwnMaps
  Slots = {1}
  PingReqCount = 1
  MaxClock = 9
  MaxPremature = 1
  Running = {"a", "b"}
  MaxIncarnations = 1
  Crashing = {}
  Checkers <- TwoNames
  Gossipers <- TwoNames
  MaxUpdates = 0
  MaxEvents = 1
INVARIANTS LocalOnline
