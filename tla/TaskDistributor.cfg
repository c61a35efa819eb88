SPECIFICATION DistributorFairSpec
CONSTANTS
    c1 = c1
    m_size = 2
    Clients = {c1}
    MaxTasks = 3
    MaxStarts = 2
INVARIANTS
    QueueOrder
    AcceptedOnce
    QuietAfterShutdown
PROPERTIES
    AcceptedRuns
    ShutdownReturns
CHECK_DEADLOCK FALSE
