SPECIFICATION FairSpec
CONSTANTS
  Addr = {a1, a2, a3}
  NUM_WAY = 2
  LLC_DIRTY = FALSE
  WARMUP_CACHE = 2
  TRACE_SIZE = 7
  SKIP = FALSE
  DUMMY_ENABLE = TRUE
  MAX_OPS = 2
  QUEUE_SIZE = 8
  NONE = NONE
INVARIANTS
  TypeOK
  NeverFails
  OperationsWhole
PROPERTIES
  VictimIsOldest
  ImplementsMissStream
  TraceEnds
CHECK_DEADLOCK FALSE
