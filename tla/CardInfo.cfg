CONSTANTS
  Boards = {"loop", "llgip", "uart", "pwm", "suart"}
  Threads = {t1, t2}
  Ports = {0, 1, 2}
  NumPorts = 2
  Names = {"A"}
  Requests <- MCRequests
  MaxCalls = 3
  NULL = NULL
SPECIFICATION FairSpec
 
PROPERTIES  EveryIoctlReturns
CHECK_DEADLOCK FALSE
