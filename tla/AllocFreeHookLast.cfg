SPECIFICATION Spec
CONSTANTS
    Word = 256
    BufferSize = 64
    HeaderSize = 16
    Sizes = {0, 25, 49, 240, 257}
    CLibBlocks = {c1, c2}
    MaxBlocks = 3
    NoBlock = NoBlock
    NoCall = NoCall
SYMMETRY Symmetry
INVARIANTS
    NewestBlockIsLast
CHECK_DEADLOCK FALSE
