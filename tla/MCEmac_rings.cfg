\* both rings with the controller as an independent actor
SPECIFICATION FairSpec
CONSTANTS
  NumRx = 3
  NumTx = 3
  MaxFrames = 5
INVARIANTS
  TypeOK
  WireInOrder
  TxRingFresh
PROPERTIES
  ReceiverIsQueue
  CleanFramesRead
CHECK_DEADLOCK FALSE
