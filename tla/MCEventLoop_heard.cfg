SPECIFICATION Spec
CONSTANTS
    TimeSignal = {t1, t2}
    SoftTimer = {t2}
    LoopSignal = {l1}
    Period = {2}
    MaxNodes = 3
    Usage <- OnlyActivDuringRun
CHECK_DEADLOCK FALSE
INVARIANTS
    EveryActivationIsHeard
