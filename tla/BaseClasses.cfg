SPECIFICATION BaseSpec
CONSTANTS
    a = a
    b = b
    Keys = {1, 2, 3}
    MaxPushes = 6
    Tasks = {1, 2, 3}
    Intervals = {0, 1, 2, 5}
    TimeRange = 6
    MaxClock = 3
    Symbols = {a, b}
    MaxSource = 3
    Chunks = {1, 2}
    Paths = {1, 2}
    MaxFile = 2
    BufferSize = 1
INVARIANTS
    ExtractsSorted
    TimerRounds
    DataRestored
CHECK_DEADLOCK FALSE
