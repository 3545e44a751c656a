SPECIFICATION Spec
CONSTANTS
  t1 = t1
  t2 = t2
  t3 = t3
  Threads = {t1, t2, t3}
  NoThread = NoThread
  WaitQueues <- MCWaitQueues
  NPIPE = 2
  PIPESZ = 1
  MaxN = 2
  MaxBytes = 2
SYMMETRY Symmetry
INVARIANTS
  TypeOK
  PlacedOnce
  NoLostWakeup
  StuckOnlyOnPeers
  NoUseAfterRelease
