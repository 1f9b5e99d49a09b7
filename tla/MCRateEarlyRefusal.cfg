SPECIFICATION Spec
CONSTANTS
    Keys = {k1}
    Workers = {w1, w2}
    Limit = 2
    Per = 20
    MaxCrashes = 1
    MaxTime = 2
    None = None
    k1 = k1
    w1 = w1
    w2 = w2
SYMMETRY Symmetry
PROPERTY RefusedOnlyWhenEmpty
