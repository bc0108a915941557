SPECIFICATION Spec
CONSTANTS
  LEVEL = 3
  Z = 2
  EMPTY_TOP = 1
  STASH_SIZE = 6
  OV_THRESHOLD = 2
  H = 4
  BLOCK_ORG = 2
  X = 2
  PLB_SET = 1
  STT_WAY = 1
  Data <- MCData
  Pos <- MCPos
  PosTag <- MCPosTag
  PlbSets <- MCPlbSets
  PlbIndex <- MCPlbIndex
  SttIndex <- MCSttIndex
  Modes = {"trace", "snapshot", "timing"}
  NONE <- MCNone
INVARIANTS
  SinglePlace
  LabelsCurrent
PROPERTIES
  OutsideGrowth
