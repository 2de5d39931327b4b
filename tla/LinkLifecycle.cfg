SPECIFICATION Spec
CONSTANTS
    WireMajorMax = 1
    WireMajors = {0, 1, 2}
    ContextIds = {0}
    Generations = {0, 1}
    Bytes = {0, 1}
    DigestMax = 2
    ClaimMax = 3
INVARIANTS
    TypeOK
    AuthorizesExactlyTheGranted
    EstablishedWasNegotiated
