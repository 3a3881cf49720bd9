SPECIFICATION SatSpec
CONSTANTS
    Slots = {1, 2, 3, 4, 5, 6, 7}
    PAST = 0
    PERFECT = FALSE
    SCALED = FALSE
INVARIANTS
    CountMatchesList
PROPERTIES
    ImplementsChoice
    SimReturns
