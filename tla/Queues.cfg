SPECIFICATION QueuesSpec
CONSTANTS
    p1 = p1
    p2 = p2
    a = a
    zero = zero
    NoValue = NoValue
    o1 = o1
    o2 = o2
    Producers = {p1, p2}
    Inserters = {p2}
    MaxPush = 3
    Presize = 2
    IntRange = 3
    MinCapacity = 2
    Element <- ValueOrPushed
    Default = zero
    Objects = {o1, o2}
    Presizes = {0}
    MaxElements = 3
    Pushed = {a, zero}
SYMMETRY ObjectsSymmetry
INVARIANTS
    ConsumerInv
    ExactlyOnce
PROPERTIES
    ImplementsFifo
    ImplementsMutexQue
    ImplementsQueue
