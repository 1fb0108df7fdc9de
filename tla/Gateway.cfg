SPECIFICATION FairSpec
CONSTANTS
    validating = validating
    mutating = mutating
    Replicas = {r1, r2}
    Hooks <- Admission
    Mutating = {mutating}
    Bundles = {b1, b2, b3, b4, b5, b6, b7, b8, b9}
    AutoRotate = TRUE
    CleanupOnShutdown = TRUE
    MaxDisturbances = 2
INVARIANT ServesStored
PROPERTY Settles
PROPERTY HooksSettle
PROPERTY SecretReturns
PROPERTY Quiet
