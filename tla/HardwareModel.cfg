SPECIFICATION FairSpec
CONSTANTS
  NULL = NULL
  Creator = Creator
  Handler = Handler
  Threads <- MCThreads
  Programs <- MCPrograms
  AckDelay = 1
  AckLag = 2
 
PROPERTIES ImplementsBus EveryAccessReturns InterruptServed
