SPECIFICATION FairSpec
CONSTANTS
  Devices = {1, 2, 3}
  FactoryUids <- SpreadWith3
  Broadcast = 15
  Words = 64
  SearchRanges <- ThreeRanges
  MuteTargets <- BroadcastAnd3
  GetTargets <- Only3
  Sets <- SetAddressOrUid
  Gets = {g1, g2}
  Preset <- DemoDevices
  WireSlots = 2
  PromptWire = TRUE
  PromptHandle = TRUE
INVARIANTS AllFound FoundDevicesMuted 
PROPERTIES SearchCompletes
