SPECIFICATION FairSpec
CONSTANTS
    Data = {"a", "nl"}
    buf_chunk_size = 8
    MaxRecvs = 0
    MaxPackets = 3
PROPERTY TokensEnd
