SPECIFICATION FairSpec
CONSTANTS
  NumRx = 3
  NumTx = 3
  MaxFrames = 5
PROPERTY FramesRead
CHECK_DEADLOCK FALSE
