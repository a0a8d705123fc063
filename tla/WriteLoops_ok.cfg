SPECIFICATION FairSpec
CONSTANTS
    MAX_FAIL_COUNT = 2
    MaxLen = 4
PROPERTIES
    MeetsContract
    
