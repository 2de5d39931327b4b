SPECIFICATION Spec
CONSTANTS
    Space = 8
    Window = 2
    SentMax = 18
    AcksMax = 2
CHECK_DEADLOCK FALSE
INVARIANTS
    TypeOK
    LiveIsRecent
PROPERTIES
    MatchedWasReceived
