CONSTANTS
    Fds <- MixedFds
    Events = {"in", "done"}
    EpollEvents = {"in"}
    Masks = {{"done"}}
    MaxEvents = 300
    MaxStarts = 1
    NoFd <- Begin
SPECIFICATION Spec
INVARIANTS IteratorValid
