SPECIFICATION FairSpec
CONSTANTS
    MaxPayload = 18
    Traffic <- MCTraffic
    SendMax = 2
    PieceSizes = {1, 3}
    Noise = {1, 16, 64, 255}
CHECK_DEADLOCK FALSE
INVARIANTS
    TypeOK
    FullBufferIsDecided
    PayloadIsReadable
    ControlsAreWhatWasRead
    OneContract
PROPERTIES
    ImplementsChannel
    EverythingArrives
