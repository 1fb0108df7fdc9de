SPECIFICATION Spec
CONSTANTS
    Names = {1, 2, 3, 4}
    Unknown = {5}
    MaxDeps = 2
INVARIANT Topological
INVARIANT Deterministic
INVARIANT Decides
CHECK_DEADLOCK FALSE
