SPECIFICATION Spec
CONSTANTS
    WireMajorMax = 1
    WireMajors = {0, 1}
    ContextIds = {0}
    Generations = {0, 1}
    Bytes = {0}
    DigestMax = 1
    ClaimMax = 1
    LocalRefs = {0, 1}
    MigrationRefs = {1, 2, 3}
    Transports = {1, 2}
    Profiles = {1}
    Terms = {0, 1, 2}
    Sessions = {1, 2}
    Challenges = {0, 1}
    CountMax = 2
    MayOffer <- MCMayOffer
    FirstTransport = 1
    SupportedMajors = {1}
INVARIANTS
    TypeOK
    DrivenWhileEstablished
    EndpointIsTheOffered
PROPERTIES
    MoveKeepsContext
