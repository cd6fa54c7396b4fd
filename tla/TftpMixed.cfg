CONSTANTS
  Clients = {a, b, c}
  Readers = {c}
  NBlocks = 2
  LastLen = "part"
  BlockMod = 5
  MaxPort = 3
  MaxPcb = 2
  Keep = {}
  Repeat = {}
  AbortCodes = {2}
  Lossy = FALSE
  MayFail = TRUE
  Recover = FALSE
SPECIFICATION Spec
INVARIANTS ContentsIntact DownloadDoneMeansReceived PortsReturned
CHECK_DEADLOCK FALSE
