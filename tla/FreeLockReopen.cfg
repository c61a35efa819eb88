SPECIFICATION FreeLockSpec
CONSTANTS
    INT8_MAX = 3
    MaxMessages = 3
    MaxOpens = 2
INVARIANT NoOverlap
CHECK_DEADLOCK FALSE
