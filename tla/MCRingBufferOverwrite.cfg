SPECIFICATION OverwriteSpec
CONSTANTS
    BufferSize = 4
    Byte <- MCByte
    Argument <- MCArgument
    MaxRead = 3
    Usage <- MCUsage
INVARIANTS
    TypeOK
    NoOverlap
    ReadsWhatIsStored
PROPERTIES
    ImplementsFifoUnlessDisplaced
    OverwriteKeepsNewest
    PopRemovesOnlyWhatItReturned
