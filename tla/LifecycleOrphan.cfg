SPECIFICATION Spec
CONSTANTS
    app = app
    job = job
    db = db
    ns = ns
    Stages <- OneStage
    Conditional = {}
    ClusterScoped = {ns}
    HasCleanup = TRUE
    HasGrace = FALSE
    Protect = FALSE
    Strict = FALSE
    Aliased = TRUE
    MaxFaults = 1
    MaxFlips = 0
    MaxNudges = 0
INVARIANT NothingOrphaned
CHECK_DEADLOCK FALSE
