SPECIFICATION FairSpec
CONSTANTS
    Keys = {k1}
    Drain = drain
    Enqueuers = {e1, e2}
    Slots = {s1, s2}
    MaxGen = 1
    MaxEvents = 3
    CfgMaxDepth = 1
    Threshold = 0
    Conditions = FALSE
    MayRequeue = FALSE
    MayDeactivate = FALSE
    MayStop = FALSE
    Kinds <- KindsAll
    DepthLimits = {2}
INVARIANT NoOrphanedPayload
INVARIANT GateSeesOwnEvent
PROPERTY PayloadsReachTheGate
CHECK_DEADLOCK FALSE
