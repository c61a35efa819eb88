CONSTANTS
    Fds <- MixedFds
    Events = {"in", "done"}
    EpollEvents = {"in"}
    Masks = {{"done"}}
    MaxEvents = 300
    MaxStarts = 2
    NoFd <- Begin
SPECIFICATION FairSpec
INVARIANTS
    NewestKept
    ChainAlive
PROPERTIES
    EventsReach
    StopEnds
