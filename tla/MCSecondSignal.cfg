SPECIFICATION ServerSpec
CONSTANTS
    Producers = {p1, p2}
    Base = {p1}
    MaxLines = 1
    MaxConnections = 2
    MaxRequests = 2
    MaxSignals = 2
    Asserts = TRUE
    None = None
    p1 = p1
    p2 = p2
INVARIANT LinesWrittenAtEnd
CHECK_DEADLOCK FALSE
