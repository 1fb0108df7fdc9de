SPECIFICATION FairSpec
CONSTANTS
    MaxGen = 2
    MaxOverrides = 2
    BaseWorkers = 1
    BaseDepth = 5
    DoWorkers = 2
    DoDepth = 9
    DoResync = 1
    Cooldown = 1
INVARIANT BaselineInForce
INVARIANT PoolCoversCapacity
INVARIANT OneLateResync
PROPERTY CooldownRespected
PROPERTY OverridesEnd
