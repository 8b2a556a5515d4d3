SPECIFICATION FairSpec
CONSTANTS
  FifoSize = 22
  Chunk = 2
  TxFifo = 1
  RxFifo = 3
  Trigger = 2
  DmxMax = 4
  LockAfter = 0
  Sizes = {3}
  MaxBreaks <- MCMaxBreaks
  MaxOctets = 2
 
PROPERTIES StreamKeepsOrder  EverythingSent 
CHECK_DEADLOCK FALSE
