SPECIFICATION Spec
CONSTANTS
  NULL = NULL
  Threads = {t1, t2}
  NumCards = 2
  ContextCount = 2
  PoolSize = 2
  Ports = {0}
  Masks = {{0}}
  Data = {0, 1}
  Setups <- AllSetups
SYMMETRY Symmetry
INVARIANTS NoRequestForgotten EntryOwnership
PROPERTIES OnlyCloseLosesEntries ImplementsTap
CHECK_DEADLOCK FALSE
