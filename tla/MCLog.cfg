SPECIFICATION MCSpec
CONSTANTS
    Main = Main
    Handler = Handler
    Nobody = Nobody
    NoPlace = NoPlace
    LineSize = 2
    StringModulus = 4
    StringLength = {1, 5}
    Place = {p1}
    Timeout = 2
    TimeModulus = 8
    MaxTime = 3
    MaxSkipped = 1
    Usage <- MCUsage
    Width = 8
    Unsigned <- MCUnsigned
    Signed <- MCSigned
    Whole <- MCWhole
    Fraction <- MCFraction
    Base = {2, 10, 16, 36}
    MaxLen = 10
    Precision = {0, 1, 3}
CHECK_DEADLOCK FALSE
INVARIANTS
    TypeOK
    LineIsOwn
    MessageIsWhole
    NoLogLeavesTheLineTaken
    ExactWhenItFits
    PrefixWhenCut
PROPERTIES
    LineLeftAlone
    OnceKeepsDistance
