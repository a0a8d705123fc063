SPECIFICATION FairSpec
CONSTANTS
    Data = {"a", "b", "nl"}
    buf_chunk_size = 5
    MaxRecvs = 1
    MaxPackets = 9
INVARIANTS
    TypeOK
    NoOverrun
    
PROPERTY WellSpacedEnds
