CONSTANTS
  RxDescs = 2
  TxDescs = 2
  Pbufs = 2
  MboxSize = 1
  MaxFrames = 4
  MaxOut = 3
SPECIFICATION FairSpec
CHECK_DEADLOCK FALSE
INVARIANTS TypeOK PbufsKept ReceivedInOrder SentInOrder NotForgotten
PROPERTIES FrameServed
