SPECIFICATION Spec
CONSTANTS
    Conns = {c1, c2}
    TsThread = ts
    NoThread = none
    Faults = {}
    MAX_BUF_SIZE = 8
    MaxRecords = 1
    MaxLines = 1
    MaxSegments = 1
    MaxAlarms = 0
    MaxTerms = 1
SYMMETRY ConnSymmetry
INVARIANTS
    CleanupIsAlone
    HandlersListed
    AcceptedAreHandled
    ListensWhileRunning
PROPERTIES
    UsesDataFile
