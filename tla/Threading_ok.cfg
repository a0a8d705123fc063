SPECIFICATION FairSpec
CONSTANTS
    Threads = {t1, t2, t3}
    Caller = caller
    NoThread = none
    MaxHolds = 1
INVARIANT JoinFindsSuccess
PROPERTY ThreadsComplete
