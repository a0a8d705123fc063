SPECIFICATION Spec
CONSTANTS
    Conns = {c1, c2}
    TsThread = ts
    NoThread = none
    MAX_BUF_SIZE = 2
    DiskMayFail = TRUE
    SigpipeIgnored = TRUE
    MaxRecords = 1
SYMMETRY ConnSymmetry
INVARIANTS
    TypeOK
    MutualExclusion
    LinesComplete
    ReplyIsSnapshot
    RecordsContiguous
    RepliesAgree
 
