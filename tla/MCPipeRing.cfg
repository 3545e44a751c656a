SPECIFICATION FairSpec
CONSTANTS
  t1 = t1
  t2 = t2
  t3 = t3
  Threads = {t1, t2, t3}
  NoThread = NoThread
  WaitQueues <- MCWaitQueues
  NPIPE = 1
  PIPESZ = 2
  MaxN = 2
  MaxBytes = 3
INVARIANTS
  InOrderDelivery
PROPERTIES
  ImplementsChannel
  NoStarvation
  ExitAnswersPeer
