SPECIFICATION FairSpec
CONSTANTS
    Replicas = {r1, r2}
    Components <- Started
    HealthServer <- HS
    LeaseDuration = 3
    RenewDeadline = 2
    RetryPeriod = 1
    MaxFaults = 2
INVARIANT LeaderHoldsLease
PROPERTY NoWorkAfterLoss
PROPERTY SomeoneCoordinates
PROPERTY SignalEnds
