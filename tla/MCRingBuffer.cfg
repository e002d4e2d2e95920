SPECIFICATION CallsSpec
CONSTANTS
    BufferSize = 4
    Byte <- MCByte
    Argument <- MCArgument
    MaxRead = 5
    Width = 6
INVARIANTS
    MaskIsModulo
PROPERTIES
    CallsImplementFifo
