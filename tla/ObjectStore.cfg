CONSTANTS
    Ids = {7, 8}
    MaxRequests = 4
SPECIFICATION ObjectsFairSpec
INVARIANTS
    StoreInv
    FindsLatest
PROPERTIES
    Answers
CHECK_DEADLOCK FALSE
