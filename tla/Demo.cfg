SPECIFICATION Spec
CONSTANTS
  Names = {"a", "b"}
  Local = "a"
  Metadata = {"m0", "m1"}
  Unknown = Unknown
  NoMember = NoMember
  Empty = "m0"
  MaxCalls = 2
  MaxClock = 3
INVARIANTS NextClockAhead
