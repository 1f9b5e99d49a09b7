SPECIFICATION FairSpec
CONSTANTS
    Producers = {p1, p2}
    MaxLines = 2
    p1 = p1
    p2 = p2
CHECK_DEADLOCK FALSE
PROPERTY ShutdownReturns
