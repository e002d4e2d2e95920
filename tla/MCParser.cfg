SPECIFICATION Spec
CONSTANTS
    Byte = {1, 2}
    Capacity = 7
    Magic <- MCMagic
    HeaderSize = 2
    PackSize <- MCPackSize
    Intact <- MCIntact
    BuffSize = 8
    Chunk <- MCChunk
    MaxStream = 9
    Usage <- MCUsage
CHECK_DEADLOCK FALSE
INVARIANTS
    TypeOK
    HandlesTheFraming
PROPERTIES
    PacketsAreHandled
    RingGetsRoom
