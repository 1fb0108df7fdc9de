SPECIFICATION FairSpec
CONSTANTS
    db = db
    cache = cache
    app = app
    CRDs <- Catalog
    DependsOn <- Needs
    HealthyDeps <- NeedsHealthy
    StartupOrder <- Sorted
    Flaky = {db, app}
    MaxFlips = 2
    MaxErrors = 1
    MayLose = FALSE
INVARIANT TypeOK
INVARIANT NoDoubleClose
INVARIANT OnlineMeansServing
PROPERTY StartsInOrder
PROPERTY NoSecondPool
PROPERTY Recovers
