SPECIFICATION FairSpec
CONSTANTS
  LEVEL = 2
  Z = 2
  EMPTY_TOP = 0
  STASH_SIZE = 6
  OV_THRESHOLD = 2
  H = 3
  BLOCK_ORG = 3
  X = 2
  PLB_SET = 1
  STT_WAY = 0
  Data <- MCData
  Pos <- MCPos
  PosTag <- MCPosTag
  PlbSets <- MCPlbSets
  PlbIndex <- MCPlbIndex
  SttIndex <- MCSttIndex
  Modes = {"trace", "snapshot"}
  NONE <- MCNone
INVARIANTS
  TypeOK
  NoExit
PROPERTIES
  WriteIsMaximal
  EvictionDrains
