SPECIFICATION AllSpec
CONSTANTS
  BIG_ACTIVATION_WINDOW = 20
  T_FAW = 12
  PROCESSOR_CLK_MULTIPLIER = 2
  INT_MAX1 = 100
  LIMIT = 99
  LEVEL = 7
  MAX_G = 200
  BITS = 8
  BLOCK_ORG = 100
  X = 3
  H = 4
INVARIANTS
  RingIsWindow
  InTurn CountWraps
  MapIsTree
\* A simulation stops after a number of evictions, and at LIMIT.
CHECK_DEADLOCK FALSE
