SPECIFICATION FairSpec
CONSTANTS
  ROBSIZE = 4
  MAX_FETCH = 3
  MAX_RETIRE = 3
  PIPELINEDEPTH = 1
  PROCESSOR_CLK_MULTIPLIER = 2
  WQ_CAPACITY = 2
  HI_WM = 1
  LO_WM = 0
  WQ_LOOKUP_LATENCY = 0
  RQ_LOOKUP_LATENCY = 1
  READ_TIME = 2
  MAX_NONMEM = 1
  MAX_ACCESS = 3
  FIRST_LAST_READ = FALSE
  LEVELS = 2
  RING_Z = 2
  LZ = 2
  COUNTED = TRUE
  Accesses <- MCAccesses
INVARIANTS
  TypeOK
  EachFetchedOnce
  OneBatchInMemory
  WakeupPending
PROPERTIES
  TraceConsumed
CHECK_DEADLOCK FALSE
