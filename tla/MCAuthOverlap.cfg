SPECIFICATION Spec
CONSTANTS
    Devices = {d1}
    Requests = {r1, r2}
    Draws = 2
    CacheFor = 3
    ValidFor = 5
    TicksPerSecond = 2
    Skew = 0
    MaxTime = 7
    None = None
    d1 = d1
    r1 = r1
    r2 = r2
SYMMETRY Symmetry
INVARIANTS
    Consistent
    FewLogins
PROPERTIES
    AcceptedInTime
    NoPrematureExpiry
    FreshAnswerAccepted
