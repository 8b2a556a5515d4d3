CONSTANTS
  Boards = {"llgip", "uart", "pwm"}
  Ports <- MCPorts
  FrameMax = 3
  Threshold = 0
  RxFifo = 2
  TxFrames <- MCTxFrames
  BreakPolls = 2
  MaxFrames = 4
  MaxBreaks <- MCMaxBreaks
  MaxOctets <- MCMaxOctets
SPECIFICATION FairSpec
INVARIANTS ReceiverConsistent 
PROPERTIES EveryWordRead
CHECK_DEADLOCK FALSE
