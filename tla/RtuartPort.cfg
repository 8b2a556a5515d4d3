CONSTANTS
  NULL = NULL
  Entries <- MCEntries
  Chips = {"pc16c550", "pl011"}
  DmxMax = 4
  DiscMax = 4
  DiscOctets = 1
  Required = 1
  Trigger = 2
  FifoSize = 3
  TxSpace = 1
  TxChunk = 1
  PollBelow = 2
  LevelOffset = 1
  TxOctets = 2
  Kinds = {"dmx", "rdm", "disc"}
  WireFrames <- MCWireFrames
  Replies <- MCReplies
  MaxSends = 1
  MaxWire = 3
  MaxTraffic = 3
  Prompt = TRUE
  Race = FALSE
SPECIFICATION FairSpec
  
PROPERTIES SendCompletes CleanupReturns
CHECK_DEADLOCK FALSE
