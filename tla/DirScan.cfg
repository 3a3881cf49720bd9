SPECIFICATION Spec
CONSTANTS
    Dirs = {0, 1, 2, 3}
    Files = {8, 9}
    Patterns <- AllButOne
    Closed <- AtMostOne
    Outside = 99
    Strays = {99}
    MAXDIRS = 2
    MAXNEST = 2
INVARIANTS
    ScanTypeOK
    NoneTwice
    Bracketed
    InPlace
    ScanWhole
PROPERTIES
    ScanEnds
CHECK_DEADLOCK FALSE
