SPECIFICATION Spec
CONSTANTS
    Word = 256
    BufferSize = 64
    HeaderSize = 16
    Sizes = {0, 25, 49, 240, 257}
    CLibBlocks = {c1, c2}
    MaxBlocks = 4
    NoBlock = NoBlock
    NoCall = NoCall
SYMMETRY Symmetry
INVARIANTS
    TypeOK
    CLibGetsItsOwn
    HeadersOfBuffer
    InitEnteredOnce
    BlocksInBuffer
CHECK_DEADLOCK FALSE
