SPECIFICATION Spec
CONSTANTS
    A = A
    B = B
    Peers <- MCPeers
    LocalRefs = {0, 1, 2}
    MigrationRefs = {1, 2, 3, 4}
    Transports = {1, 2, 3}
    Profiles = {1}
    Terms = {0}
    Sessions = {1, 2}
    Challenges = {0, 1, 2, 3, 4}
    CountMax = 2
    RefsOf <- AnyRefs
    FirstTransport = 1
    MayOffer <- SameMigration
    MayChoose <- OwnSession
    ChallengeOf <- ZeroChallenges
    MayGiveUp <- BeforeCommit
    MayClose = {A}
    RemembersOffers = TRUE
    Lossy = FALSE
CHECK_DEADLOCK FALSE
INVARIANTS
    TypeOK
    OneCarrier
    CommitIsAnswerable
    OneController
    PathProven
PROPERTIES
    MovesAsOne
