SPECIFICATION PoolSpec
CONSTANTS
    thread_count = 2
    Owner = Owner
    NoTask = NoTask
    MaxTasks = 3
INVARIANTS
    TasksPlaced
PROPERTIES
    OwnerTasksRun
    WorkersEnd
CHECK_DEADLOCK FALSE
