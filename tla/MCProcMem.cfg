SPECIFICATION Spec
CONSTANTS
  NPages = 5
  PageSize = 32
  WordMod = 256
  BoxBase = 64
  ELFSEGMAXN = 2
  WordSize = 2
  ARGV_MAX = 2
  ENVP_MAX = 1
  ARGV_MAXLEN = 2
  Segments <- MCSegments
  BrkPages = 2
  StackPages = 1
  Args <- MCArgs
  Addrs <- MCAddrs
  Lengths <- MCLengths
  Breaks <- MCBreaks
INVARIANTS
  TypeOK
  ListSound
  TrackerMatchesHost
  FirstFitComplete
  BrkNearRegion
  StartupFindsArgs
PROPERTIES
  BrkKeepsHeap
  ImplementsPageMap
CHECK_DEADLOCK FALSE
