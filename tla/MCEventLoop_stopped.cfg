SPECIFICATION Spec
CONSTANTS
    TimeSignal = {t1, t2}
    SoftTimer = {t2}
    LoopSignal = {l1}
    Period = {2}
    MaxNodes = 3
    Usage <- OnlySelfStop
CHECK_DEADLOCK FALSE
PROPERTIES
    StoppedTimersRest
