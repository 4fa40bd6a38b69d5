SPECIFICATION Spec
CONSTANTS
  Packets = {"small", "large", "foreign", "bare"}
  Size <- Sizes
  Signer <- Signers
  Secret = "shared"
  Name <- NamesOf
  Address <- Here
  None = None
  default_host = "h"
  default_port = 1
  mtu_size = 10
  SaltLen = 1
  DigestLen = 2
  MaxFaults = 2
PROPERTIES ChannelSpec Delivers Drains
