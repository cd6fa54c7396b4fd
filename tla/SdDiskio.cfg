CONSTANTS
  QueueSize = 3
  SdTimeout = 2
  TickMod = 5
SPECIFICATION FairSpec
INVARIANTS TypeOK QueueNeverOverflows OkMeansTransferred
PROPERTIES PollWindow ImplementsDiskTransfer CallReturns
