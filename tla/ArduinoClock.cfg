SPECIFICATION Spec
CONSTANTS
    WRAP = 16
    SECOND = 3
    MAXWORK = 8
    NOWCAP = 40
    SEGCAP = 3
INVARIANTS
    CountTellsTime
    BehindOnlyWhenLate
PROPERTIES
    NoTwoInASecond
CHECK_DEADLOCK FALSE
