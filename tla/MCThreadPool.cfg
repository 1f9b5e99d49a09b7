SPECIFICATION FairSpec
CONSTANTS
    Base = {b1, b2}
    Dynamic = {d1, d2}
    MaxThreads = 3
    MaxJobs = 4
    None = None
    b1 = b1
    b2 = b2
    d1 = d1
    d2 = d2
INVARIANTS
    Consistent
    FewThreads
    NoLostWakeup
PROPERTIES
    QueueSpec
    EveryJobRuns
    ShutdownReturns
CHECK_DEADLOCK FALSE
