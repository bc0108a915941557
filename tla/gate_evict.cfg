SPECIFICATION FairSpec
CONSTANTS
  ROBSIZE = 7
  MAX_FETCH = 4
  MAX_RETIRE = 4
  PIPELINEDEPTH = 1
  PROCESSOR_CLK_MULTIPLIER = 2
  WQ_CAPACITY = 2
  HI_WM = 1
  LO_WM = 0
  WQ_LOOKUP_LATENCY = 1
  RQ_LOOKUP_LATENCY = 1
  READ_TIME = 2
  MAX_NONMEM = 1
  MAX_ACCESS = 2
  FIRST_LAST_READ = FALSE
  LEVELS = 2
  RING_Z = 1
  LZ = 2
  COUNTED = FALSE
  Accesses <- MCInserting
PROPERTY WaitEnds
CHECK_DEADLOCK FALSE
