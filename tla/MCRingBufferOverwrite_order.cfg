SPECIFICATION OverwriteSpec
CONSTANTS
    BufferSize = 4
    Byte <- MCByte
    Argument <- MCArgument
    MaxRead = 3
    Usage <- MCPreempting
PROPERTIES
    FirstStoreExposesOldestOnly
