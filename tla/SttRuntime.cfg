SPECIFICATION Spec
CONSTANTS
    Requests = {"a", "b", "c"}
    QueueCapacity = 1
    JobCapacity = 2
    MaxJobs = 4
INVARIANTS
    CancelIsKept
    WorkIsAccountedFor
PROPERTY EveryJobEnds
CHECK_DEADLOCK FALSE
