SPECIFICATION FairSpec
CONSTANTS
    Migrators = {m1, m2, m3}
    Count = 4
    References <- MCReferences
    MaxCrashes = 2
INVARIANTS
    Consistent
    DoneIsComplete
    OneGetsThrough
PROPERTY Converges
