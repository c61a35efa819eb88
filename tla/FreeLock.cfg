SPECIFICATION FreeLockFairSpec
CONSTANTS
    INT8_MAX = 127
    MaxMessages = 260
    MaxOpens = 1
INVARIANTS
    NoOverlap
PROPERTIES
    ReadsInOrder
    Delivered
CHECK_DEADLOCK FALSE
