SPECIFICATION Spec
CONSTANTS
    LocalRefs = {0, 1}
    MigrationRefs = {1, 2}
    Transports = {1, 2}
    Profiles = {1}
    Terms = {0, 1}
    Sessions = {1, 2}
    Challenges = {0, 1}
    CountMax = 2
INVARIANTS
    TypeOK
    TransactionCoherent
    RepeatAnsweredAlike
PROPERTIES
    SessionOutlivesMigrations
    CommitIsIrrevocable
    MovesOnlyWhenValidated
    ProgressIsKept
    ImplementsContinuity
