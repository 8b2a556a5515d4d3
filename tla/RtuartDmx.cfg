CONSTANTS
  Entries = {e1, e2}
  NULL = NULL
  DmxSlots = 3
  RdmSlots = 8
  PosPdl = 3
  DiscOctets = 2
  RequiredCount = 2
  Trigger = 3
  FifoSize = 3
  TxOctets = 1
  TxChunk = 1
  Scenarios <- AllScenarios
SPECIFICATION LiveSpec
 
PROPERTIES  DataAtFullSpeed TransmitterFreed
CHECK_DEADLOCK FALSE
