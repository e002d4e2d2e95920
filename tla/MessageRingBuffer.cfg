SPECIFICATION Spec
CONSTANTS
    BufferSize = 4
    Message = {m1, m2}
    NoMessage = NoMessage
    Words = 2
    MaxCount = 3
    MaxOverlap = 1
INVARIANTS
    TypeOK
PROPERTIES
    ImplementsLossyFifo
