SPECIFICATION FairSpec
CONSTANTS
    TimeSignal = {t1, t2}
    SoftTimer = {t2}
    LoopSignal = {l1}
    Period = {2}
    MaxNodes = 3
    Usage <- MCUsage
CHECK_DEADLOCK FALSE
INVARIANTS
    TypeOK
    RegisteredOnce
    PresetIsRegistered
    ActivationNotForgotten
PROPERTIES
    OnlyArmedTimersRun
    PassVisitsAll
    ActivationsAreHandled
    PeriodsElapse
