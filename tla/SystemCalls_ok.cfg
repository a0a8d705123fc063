SPECIFICATION FairSpec
CONSTANTS
    Others = {o1}
    MaxCalls = 3
INVARIANTS
    ResultIsOwn
    
PROPERTY CallReturns
