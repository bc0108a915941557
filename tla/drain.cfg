SPECIFICATION FairSpec
CONSTANTS
  LEVEL = 3
  RING_Z = 1
  RING_S = 2
  RING_A = 2
  TOP_CACHE = 0
  STASH_SIZE = 9
  DUMMY_TH = 1
  H = 2
  BLOCK_ORG = 2
  X = 2
  PLB_SET = 1
  Data <- MCData
  Pos <- MCPos
  PosTag <- MCPosTag
  PlbSets <- MCPlbSets
  PlbIndex <- MCPlbIndex
  NONE <- MCNone
INVARIANTS
  DummyBudget
  StashBound
PROPERTIES
  EvictionIsMaximal
  StashDrains
