SPECIFICATION ServerFairSpec
CONSTANTS
    Producers = {p1, p2}
    Base = {p1}
    MaxLines = 1
    MaxConnections = 2
    MaxRequests = 2
    MaxSignals = 2
    Asserts = FALSE
    None = None
    p1 = p1
    p2 = p2
INVARIANTS
    ServerConsistent
    LinesWrittenAtEnd
PROPERTIES
    LogSpec
    SinkSpec
    EveryLineWritten
    StopWorks
    ConnectionsServed
CHECK_DEADLOCK FALSE
