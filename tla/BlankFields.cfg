SPECIFICATION Spec
CONSTANTS
    Slots = {1, 2, 3, 4, 5, 6}
    PAST = 0
    PERFECT = FALSE
    SCALED = FALSE
    STABLE = 2
    DROPOUT = 4
    CYCLES = 3
    DROPOUTS = TRUE
    RUNCAP = 8
    Waypoints <- BackAndForth
INVARIANTS
    BlankTogether
CHECK_DEADLOCK FALSE
