SPECIFICATION FairSpec
CONSTANTS
  Null = Null
  Host = Host
  Procs <- MCProcs
  Rings <- MCRings
  Elems <- MCTasks
  NCore = 1
  NTasks = 3
  MaxYield = 2
  Cap = 4
INVARIANTS
  EachInOnePlace
  JoinMeansFinished
PROPERTIES
  JoinReturns
CHECK_DEADLOCK FALSE
