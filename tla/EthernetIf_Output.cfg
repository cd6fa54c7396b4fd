CONSTANTS
  RxDescs = 2
  TxDescs = 2
  Pbufs = 2
  MboxSize = 1
  MaxFrames = 2
  MaxOut = 2
SPECIFICATION Spec
CHECK_DEADLOCK FALSE
INVARIANT OkMeansHanded
