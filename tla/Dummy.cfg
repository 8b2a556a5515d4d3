SPECIFICATION FairSpec
CONSTANTS
  NULL = NULL
  Threads = {t1, t2}
  PoolSize = 2
  PortsCount = 1
  Data = {0, 1}
  MaxLoads = 1
INVARIANTS FrameOwnership NoLostWakeup
PROPERTIES NoLeakWhileLoaded ImplementsLink ReaderWoken
CHECK_DEADLOCK FALSE
