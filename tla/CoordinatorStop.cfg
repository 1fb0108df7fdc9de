SPECIFICATION FairSpec
CONSTANTS
    db = db
    cache = cache
    app = app
    CRDs <- Pair
    DependsOn <- PairNeeds
    HealthyDeps <- NeedsHealthy
    StartupOrder <- PairSorted
    Flaky = {db, app}
    MaxFlips = 1
    MaxErrors = 0
    MayLose = TRUE
INVARIANT QueuesStopInOrder
PROPERTY LossEndsCoordinate
CHECK_DEADLOCK FALSE
