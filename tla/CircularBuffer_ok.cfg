SPECIFICATION Spec
CONSTANTS
    N = 3
    Buffers = {b1, b2}
    NULL = null
    MaxSize = 2
    SIZE_MOD = 8
SYMMETRY BufferSymmetry
INVARIANTS
    TypeOK
    OffsetsAgree
    ForeachFreesLive
    FindsPosition
PROPERTY RemembersLastWrites
