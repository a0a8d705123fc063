SPECIFICATION Spec
CONSTANTS
    Conns = {c1}
    TsThread = ts
    NoThread = none
    Faults = {"reset"}
    MAX_BUF_SIZE = 8
    MaxRecords = 1
    MaxLines = 1
    MaxSegments = 1
    MaxAlarms = 0
    MaxTerms = 1
INVARIANTS
    ListensWhileRunning
