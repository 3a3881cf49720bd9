SPECIFICATION SessionSpec
CONSTANTS
    Slots = {1, 2, 3, 4, 5, 6}
    PAST = 0
    PERFECT = FALSE
    SCALED = FALSE
    STABLE = 2
    DROPOUT = 4
    CYCLES = 3
    DROPOUTS = TRUE
    RUNCAP = 8
    Waypoints <- ShortFlight
    Arguments = {1, 9}
    DRAIN = 3
INVARIANTS
    GroupAgrees
    EmptyWhileDark
    WholeFlight
PROPERTIES
    KeepsSchedule
    ListStableBetweenDraws
    EverySecondOnce
    OneGroupPerSecond
    DrainsBeforeClose
    SessionEnds
CHECK_DEADLOCK FALSE
