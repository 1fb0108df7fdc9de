SPECIFICATION FairSpec
CONSTANTS
    Keys = {k1}
    Drain = drain
    Enqueuers = {e1}
    Slots = {s1, s2}
    MaxGen = 2
    MaxEvents = 2
    CfgMaxDepth = 1
    Threshold = 0
    Conditions = FALSE
    MayRequeue = TRUE
    MayDeactivate = TRUE
    MayStop = TRUE
    Kinds = {"plain"}
    DepthLimits = {}
INVARIANT TypeOK
INVARIANT OneWorkerPerItem
PROPERTY WorkKept
PROPERTY CancelledWorkersStop
CHECK_DEADLOCK FALSE
