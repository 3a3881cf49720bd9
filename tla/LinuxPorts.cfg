SPECIFICATION Spec
CONSTANTS
    Ports = {1, 2}
    Failing = {2}
    QUEUE = 1
    FDS = 2
    Bytes = {10, 13}
    Lines <- OneCharacterLines
    CrLf <- CarriageReturnLineFeed
    Rates = {9600}
    RateBits <- RatesOfTheRun
    Widths = {8}
    REOPENED = {1}
INVARIANTS
    AvailSeesWaiting
    NotKilledBySignal
    SettingsRestored
PROPERTIES
    ImplementsInput
    LinesGoOutWhole
    LostOnlyByReopening
