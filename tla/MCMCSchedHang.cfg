SPECIFICATION FairSpec
CONSTANTS
  Null = Null
  Host = Host
  Procs <- MCProcs
  Rings <- MCRings
  Elems <- MCTasks
  NCore = 2
  NTasks = 2
  MaxYield = 0
  Cap = 4
PROPERTIES
  JoinReturns
CHECK_DEADLOCK FALSE
