SPECIFICATION Spec
CONSTANTS
    Requests = {r1, r2}
    Keys = {k1}
    Fields = {f1, f2}
    Versions = 1
    PageSize = 1
    MaxUser = 3
    MaxId = 2
    None = None
    r1 = r1
    r2 = r2
    k1 = k1
    f1 = f1
    f2 = f2
SYMMETRY Symmetry
INVARIANTS
    Consistent
    FewDuplicates
    WipedIsGone
    WalkIsExact
PROPERTY OwnRowsOnly
