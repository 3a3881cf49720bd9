SPECIFICATION CycleSpec
CONSTANTS
    STABLE = 17
    DROPOUT = 831
    CYCLES = 783
    DROPOUTS = TRUE
    RUNCAP = 21601
INVARIANTS
    CountersTellRun
PROPERTIES
    LongDropoutEverySixHours
    DropoutsRecur
