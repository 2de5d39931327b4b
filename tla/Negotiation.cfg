SPECIFICATION FairSpec
CONSTANTS
    A = A
    B = B
    Peers <- MCPeers
    Configurations <- MCConfigurations
    NetMax = 3
    Majors = {0, 1}
    MajorMax = 15
    Features = {0, 1}
    FrameSizes = {1, 2, 3}
    Floor = 2
    ControlVersion = 0
INVARIANTS
    TypeOK
    OutcomeIsHonourable
    GlareResolves
PROPERTIES
    KnownOutcomesAgree
    AgreementIsReached
