CONSTANTS
  Clients = {a}
  Readers = {}
  NBlocks = 3
  LastLen = "empty"
  BlockMod = 5
  MaxPort = 2
  MaxPcb = 2
  Keep = {"DATA", "ACK"}
  Repeat = {"DATA"}
  AbortCodes = {}
  Lossy = TRUE
  MayFail = FALSE
  Recover = FALSE
SPECIFICATION FairSpec
INVARIANTS TypeOK StoredIsPrefix AckImpliesStored UploadDoneMeansStored
PROPERTIES UploadIsCopy UploadStored
CHECK_DEADLOCK FALSE
