SPECIFICATION FairSpec
CONSTANTS
    A = A
    B = B
    Peers <- MCPeers
    LocalRefs = {0, 1, 2}
    MigrationRefs = {1, 2}
    Transports = {1, 2, 3}
    Profiles = {1}
    Terms = {0}
    Sessions = {1, 2}
    Challenges = {0, 1, 2, 3}
    CountMax = 3
    RefsOf <- UnequalRefs
    FirstTransport = 1
    MayOffer <- CrossOrOnward
    MayChoose <- OneSession
    ChallengeOf <- FreshChallenges
    MayGiveUp <- ByController
    MayClose = {}
    RemembersOffers = TRUE
    Lossy = TRUE
CHECK_DEADLOCK FALSE
PROPERTIES
    OfferMoves
    CommitSettles
