CONSTANTS
  Clients = {a}
  Readers = {a}
  NBlocks = 3
  LastLen = "part"
  BlockMod = 5
  MaxPort = 2
  MaxPcb = 2
  Keep = {}
  Repeat = {"ACK"}
  AbortCodes = {}
  Lossy = TRUE
  MayFail = FALSE
  Recover = FALSE
SPECIFICATION Spec
INVARIANTS ReceivedIsPrefix
CHECK_DEADLOCK FALSE
