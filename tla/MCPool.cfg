SPECIFICATION FairSpec
CONSTANTS
    Threads = {t1, t2, t3, t4, t5}
    PoolSize = 2
    None = None
    t1 = t1
    t2 = t2
    t3 = t3
    t4 = t4
    t5 = t5
INVARIANTS
    Accounted
    NoLostWakeup
PROPERTIES
    PromiseSpec
    BoundedWait
