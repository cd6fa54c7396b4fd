CONSTANTS
  QueueSize = 3
  SdTimeout = 2
  TickMod = 5
SPECIFICATION Spec
PROPERTY PollHonoursTimeout
