CONSTANTS
  BUCKETS = 2
  LZ = 3
  RING_Z = 1
  S_INC = 1
  DEADQ_SIZE = 1
  SHADQ_SIZE = 0
  REMOTE_CAP = 2
  RING_A = 3
SPECIFICATION Spec
INVARIANT NeverTaken
CHECK_DEADLOCK FALSE
