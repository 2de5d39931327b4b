SPECIFICATION Spec
CONSTANTS
    A = A
    B = B
    Peers <- MCPeers
    LocalRefs = {0, 1, 2}
    MigrationRefs = {1, 2}
    Transports = {1, 2}
    Profiles = {1}
    Terms = {0}
    Sessions = {1, 2}
    Challenges = {0, 1, 2, 3}
    CountMax = 3
    RefsOf <- UnequalRefs
    FirstTransport = 1
    MayOffer <- BothOffer
    MayChoose <- OwnSession
    ChallengeOf <- FreshChallenges
    MayGiveUp <- BeforeCommit
    MayClose = {}
    RemembersOffers = TRUE
    Lossy = FALSE
CHECK_DEADLOCK FALSE
INVARIANT SessionsAgree
