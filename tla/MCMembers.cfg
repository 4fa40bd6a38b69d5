SPECIFICATION Spec
CONSTANTS
  Names <- ThreeNames
  Metadata <- OneMap
  Unknown = Unknown
  NoMember = NoMember
  Tracked = {"ALL", "AVAILABLE"}
  Local = "a"
  Peers <- OnePeer
  Validities = {1}
  AckClocks = {4}
  MaxClock = 3
INVARIANTS TypeOK LamportAhead IndexAgrees FindOneReturns
PROPERTIES ClockMonotonic StatusPath LocalChangeIsNewest ResyncGossipsAll
