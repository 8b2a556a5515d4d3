SPECIFICATION Spec
CONSTANTS
  Devices = {1, 2}
  FactoryUids <- OnePlacement
  Broadcast = 15
  Words = 64
  SearchRanges <- ShortSearch
  MuteTargets <- Nobody
  GetTargets <- Only4
  Sets <- Nobody
  Gets = {g1}
  Preset <- DemoDevices
  WireSlots = 2
  PromptWire = FALSE
  PromptHandle = FALSE
INVARIANTS FoundDevicesExist
