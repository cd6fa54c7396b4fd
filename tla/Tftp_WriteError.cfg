CONSTANTS
  Clients = {a}
  Readers = {}
  NBlocks = 3
  LastLen = "part"
  BlockMod = 5
  MaxPort = 2
  MaxPcb = 2
  Keep = {}
  Repeat = {}
  AbortCodes = {}
  Lossy = FALSE
  MayFail = TRUE
  Recover = TRUE
SPECIFICATION Spec
INVARIANTS AckImpliesStored
CHECK_DEADLOCK FALSE
