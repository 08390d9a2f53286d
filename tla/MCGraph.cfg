CONSTANTS
  MAXIN = 10
  MAXRES = 10
  MAXOUT = 4
  NUM_PACKET = 3
  MAX_BUFFER = 2
  Programs <- MCPrograms
  FreeActors = {"X", "Y"}
  FreeEdges = 5
  FreeRes = 2
  FreeInp = 2
  Host = Host
  NULL = NULL
  CODE = CODE
SPECIFICATION Spec
INVARIANTS LoopsSeeGraph SchedulerAssumption
CHECK_DEADLOCK FALSE
