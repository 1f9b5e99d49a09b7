SPECIFICATION FairSpec
CONSTANTS
    Threads = {t1, t2}
    PoolSize = 1
    u1 = u1
    u2 = u2
    Users = {u1, u2}
    Anonymous = Anonymous
    Invalid = Invalid
    Profiles <- MCProfiles
    MaxRequests = 2
    MaxAttempts = 3
    None = None
    t1 = t1
    t2 = t2
INVARIANTS
    Consistent
    ContextIsOwn
    RetriesAsDescribed
PROPERTY EveryRequestAnswered
CHECK_DEADLOCK FALSE
