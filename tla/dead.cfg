CONSTANTS
  BUCKETS = 2
  LZ = 4
  RING_Z = 1
  S_INC = 0
  DEADQ_SIZE = 1
  SHADQ_SIZE = 1
  REMOTE_CAP = 1
  RING_A = 2
SPECIFICATION Spec
INVARIANTS TypeOK OneHolder BudgetKept ChecksPass
CHECK_DEADLOCK FALSE
