SPECIFICATION Spec
CONSTANTS
  Null = Null
  Host = Host
  Procs <- MCProcs
  Rings <- MCRings
  Elems <- MCTasks
  NCore = 3
  NTasks = 3
  MaxYield = 0
  Cap = 4
INVARIANTS
  HandedOutOnce
CHECK_DEADLOCK FALSE
