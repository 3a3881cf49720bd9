SPECIFICATION CalSpec
CONSTANTS
    FirstDates <- YearsOfTheRun
    FirstTimes = {0, 38519}
    STEP = 3600
INVARIANTS
    WaypointsReadBack
    StampsTellTime
CHECK_DEADLOCK FALSE
