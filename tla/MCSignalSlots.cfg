SPECIFICATION Spec
CONSTANTS
    Signal = {s1, s2}
    Slot = {x1, x2, x3}
    NoSlot = NoSlot
    StorageSize = 3
    MaxDepth = 2
    Usage <- MCUsage
SYMMETRY Symmetry
CHECK_DEADLOCK FALSE
INVARIANTS
    TypeOK
    ListsStayApart
    NoNodeLost
    CursorIsNeverNull
PROPERTIES
    ImplementsBus
    ActivationRunsAll
