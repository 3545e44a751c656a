SPECIFICATION Spec
CONSTANTS
  w1 = w1
  w2 = w2
  t1 = t1
  t2 = t2
  Workers = {w1, w2}
  Tasks = {t1, t2}
  Hosts = {"rr", "mc", "security"}
  Steals = FALSE
  MemIdx = {1, 7}
  JmpIdx = {0, 1}
  MaxSets = 2
  MaxTraps = 2
INVARIANTS
  SandboxResumes
  BoundsFollowTask
  HandlerAtHome
  ReturnsToCaller
SYMMETRY TaskSymmetry
CHECK_DEADLOCK FALSE
