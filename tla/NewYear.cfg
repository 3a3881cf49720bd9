SPECIFICATION CalSpec
CONSTANTS
    FirstDates <- OrdinaryYear
    FirstTimes = {0}
    STEP = 21600
INVARIANTS
    StampsValidForTwoYears
CHECK_DEADLOCK FALSE
