SPECIFICATION Spec
CONSTANTS
  w1 = w1
  w2 = w2
  t1 = t1
  t2 = t2
  Workers = {w1, w2}
  Tasks = {t1, t2}
  Hosts = {"mc"}
  Steals = TRUE
  MemIdx = {1}
  JmpIdx = {1}
  MaxSets = 0
  MaxTraps = 2
INVARIANTS
  ReturnsToCaller
CHECK_DEADLOCK FALSE
