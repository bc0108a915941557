SPECIFICATION Spec
CONSTANTS
  Addr = {a1, a2, a3}
  NUM_WAY = 2
  LLC_DIRTY = FALSE
  WARMUP_CACHE = 2
  TRACE_SIZE = 7
  SKIP = TRUE
  DUMMY_ENABLE = FALSE
  MAX_OPS = 2
  QUEUE_SIZE = 8
  NONE = NONE
INVARIANT NoRequestLost
CHECK_DEADLOCK FALSE
