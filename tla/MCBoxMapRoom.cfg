SPECIFICATION Spec
CONSTANTS
  WordMod = 16
  Chunk = 2
  ADDR_REGION_MAX = 2
  TOTAL = 9
  SIZE = 8
  MIN = 2
  Space = 15
  Foreign <- MCForeign
  Wants <- MCWants
  MaxEngines = 2
INVARIANTS
  RoomPromised
CHECK_DEADLOCK FALSE
