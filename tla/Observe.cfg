CONSTANTS
    k1 = k1  s1 = s1  a = a  b = b
    Nobody = Nobody  Absent = Absent  Tombstone = Tombstone
    DrainSentinel = DrainSentinel
    Keys = {k1}
    Secondaries = {s1}
    Owner <- NoOwners
    RuleSets = {{}, {k1}, {s1}}
    Specs = {a, b}
    Workers = 1
    MaxChanges = 2
    MaxFaults = 1
SPECIFICATION FairSpec
INVARIANT LossAccounted
INVARIANT RestrictedUntouched
PROPERTY Converges
CHECK_DEADLOCK FALSE
