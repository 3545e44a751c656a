SPECIFICATION FairSpec
CONSTANTS
  p1 = p1
  p2 = p2
  p3 = p3
  Procs = {p1, p2, p3}
  Ring = Ring
  Rings <- MCRings
  Elems <- MCItems
  Null = Null
  Role <- ClientRole
  Cap = 2
  PerProc = 3
  MaxBatch = 2
INVARIANTS
  HoldsTheRest
PROPERTIES
  CallsReturn
