SPECIFICATION Spec
CONSTANTS
    Letter = {a}
    Space = Space
    Enter = Enter
    Cancel = Cancel
    Other = Other
    Nul = Nul
    Ring = {r1, r2}
    Console = r1
    MaxWaiting = 1
    NoRing = NoRing
    Leaving = Leaving
    LastCharPos = 5
    MaxArgCounter = 2
    Command <- MCCommand
    Usage <- MCUsage
CHECK_DEADLOCK FALSE
INVARIANTS
    TypeOK
    CommandGetsItsWords
    ConsoleShowsTheLine
PROPERTIES
    CharactersDoNotWait
