SPECIFICATION Spec
CONSTANTS
    Ports = {1, 2, 3}
    BUFFSIZE = 1
    Bytes = {10, 13}
    SPARE = FALSE
    KEPTUP = {1}
INVARIANTS
    ComTypeOK
    OnePortPerIrq
    HandlerInPlace
    HandlerLeftOnlyByBreak
PROPERTIES
    ImplementsInput
CHECK_DEADLOCK FALSE
VIEW Seen
