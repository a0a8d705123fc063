SPECIFICATION FairFresh
CONSTANTS
    Conns = {c1}
    TsThread = ts
    NoThread = none
    Faults = {"stall"}
    MAX_BUF_SIZE = 8
    MaxRecords = 2
    MaxLines = 2
    MaxSegments = 1
    MaxAlarms = 1
    MaxTerms = 1
INVARIANTS
    TypeOK
    TimestampsBounded
    LinesDroppedOnlyAtEof
PROPERTIES
    ConnectionsAccepted
    
    
    
