SPECIFICATION FairSpec
CONSTANTS
    app = app
    job = job
    db = db
    ns = ns
    Stages <- ThreeStages
    Conditional = {2}
    ClusterScoped = {ns}
    HasCleanup = TRUE
    HasGrace = TRUE
    Protect = TRUE
    Strict = TRUE
    Aliased = FALSE
    MaxFaults = 1
    MaxFlips = 2
    MaxNudges = 1
INVARIANT NothingOrphaned
PROPERTY PromiseKept
PROPERTY GraceRecorded
PROPERTY DeletionCompletes
PROPERTY CleanupStarts
CHECK_DEADLOCK FALSE
