SPECIFICATION FairSpec
CONSTANTS
  Devices = {1, 2}
  FactoryUids <- TwoNeighbours
  Broadcast = 15
  Words = 64
  SearchRanges <- LongSearch
  MuteTargets <- OnlyBroadcast
  GetTargets <- Nobody
  Sets <- Nobody
  Gets = {}
  Preset <- DemoDevices
  WireSlots = 2
  PromptWire = TRUE
  PromptHandle = TRUE
PROPERTY SearchCompletes
