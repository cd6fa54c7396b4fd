CONSTANTS
  Own = {own}
  Broadcast = {all}
  Foreign = {other}
  Size = 3
  BufSize = 3
  MaxFrames = 3
  None = None
SPECIFICATION Spec
INVARIANTS OnlyForUsExecuted
CHECK_DEADLOCK FALSE
