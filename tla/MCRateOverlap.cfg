SPECIFICATION Spec
CONSTANTS
    Keys = {k1}
    Workers = {w1, w2}
    Limit = 2
    Per = 3
    MaxCrashes = 2
    MaxTime = 6
    None = None
    k1 = k1
    w1 = w1
    w2 = w2
SYMMETRY Symmetry
INVARIANTS
    TypeOK
    NoOverAdmission
    WindowBound
PROPERTIES
    NoLockout
    RefusedWhenEmptyOrOvertaken
