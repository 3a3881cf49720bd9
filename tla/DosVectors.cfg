SPECIFICATION Spec
CONSTANTS
    Ports = {1, 3}
    BUFFSIZE = 1
    Bytes = {10}
    SPARE = FALSE
    KEPTUP = {}
INVARIANTS
    VectorsRestored
CHECK_DEADLOCK FALSE
