SPECIFICATION Spec
CONSTANTS
  LEVEL = 2
  RING_Z = 2
  RING_S = 2
  RING_A = 1
  TOP_CACHE = 0
  STASH_SIZE = 9
  DUMMY_TH = 2
  H = 4
  BLOCK_ORG = 3
  X = 2
  PLB_SET = 1
  Data <- MCData
  Pos <- MCPos
  PosTag <- MCPosTag
  PlbSets <- MCPlbSets
  PlbIndex <- MCPlbIndex
  NONE <- MCNone
INVARIANTS
  TypeOK
  NoExit
  SingleCopy
  BlockOnItsPath
  PinnedStays
  ChainInPlb
  AccessGrowth
