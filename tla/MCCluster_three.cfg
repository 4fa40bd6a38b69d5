SPECIFICATION Spec
CONSTANTS
  Names <- ThreeNames
  Metadata <- TwoMaps
  Unknown = Unknown
  NoMember = NoMember
  Tracked = {"ALL", "AVAILABLE"}
  Peers <- FullPeers
  LocalMetadata <- OwnMaps
  Slots = {1}
  PingReqCount = 1
  MaxClock = 3
  MaxPremature = 0
  Running = {"a", "b"}
  MaxIncarnations = 2
  Crashing = {"c"}
  Checkers = {"a"}
  Gossipers = {"a", "b"}
  MaxUpdates = 1
  MaxEvents = 1
INVARIANTS Genuine NoPhantom KnownIsAcked MetadataAuthentic
