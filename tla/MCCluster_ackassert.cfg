SPECIFICATION Spec
CONSTANTS
  Names <- TwoNames
  Metadata <- TwoMaps
  Unknown = Unknown
  NoMember = NoMember
  Tracked = {"ALL", "AVAILABLE"}
  Peers <- PairPeers
  LocalMetadata <- OwnMaps
  Slots = {1}
  PingReqCount = 1
  MaxClock = 9
  MaxPremature = 0
  Running = {"a", "b"}
  MaxIncarnations = 2
  Crashing = {"b"}
  Checkers <- TwoNames
  Gossipers <- TwoNames
  MaxUpdates = 1
  MaxEvents = 2
INVARIANTS AckAssertionHolds
