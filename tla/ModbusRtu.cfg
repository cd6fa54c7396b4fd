CONSTANTS
  Own = {own}
  Broadcast = {all}
  Foreign = {other}
  Size = 3
  BufSize = 3
  MaxFrames = 3
  None = None
SPECIFICATION FairSpec
INVARIANTS TypeOK AssertsHold RequestExecutedOnce ReplyIntact
PROPERTIES RequestServed
CHECK_DEADLOCK FALSE
