SPECIFICATION Spec
CONSTANTS
    a = a
    b = b
    None = None
    Nowhere = Nowhere
    p1 = p1
    dir = dir
    NoPath = NoPath
    NThreads = 3
    Width = 4
    Keys <- MCKeys
    IOKey = 2
    Entries = 1
    Files = {a, b}
    MyFiles = {b}
    Fds <- MCFds
    MaxFails = 1
    Paths = {p1, dir}
    Directory = dir
    MaxCalls = 3
    MaxConfig = 3
    MaxRequests = 3
INVARIANTS
    ConfigInOrder
    EachRequestOnce
    FilesHeld
PROPERTIES
    LoopServes
    CallsAnswered
CHECK_DEADLOCK FALSE
