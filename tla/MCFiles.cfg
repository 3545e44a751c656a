SPECIFICATION Spec
CONSTANTS
  NProc = 2
  NOFILE = 3
  NStd = 1
  MaxFiles = 4
  RefMod = 5
  MaxOff = 2
  MaxIov = 2
  MaxDepth = 2
  Walkers = {1}
  Movers = {1}
  Openers = {1}
  PipeFds = {0, 1}
  Names = {"a", "b"}
  OpenPaths <- MCOpenPaths
  ChdirPaths <- MCChdirPaths
INVARIANTS
  TypeOK
  RefsMatchSlots
  SharedBeforeDangling
  FaultHasCause
  ExitClosesRest
  OffsetMovesByResult
  CwdResolves
CHECK_DEADLOCK FALSE
