SPECIFICATION Spec
CONSTANTS
  Local = "a"
  Remotes = {"b", "c"}
  Peers = {"b"}
  Keys = {"f"}
  Vals = {"v"}
  NoFile = NoFile
  Unknown = Unknown
  SameDev = FALSE
  MaxItems = 2
  MaxStarts = 2
INVARIANTS MirrorCurrent
