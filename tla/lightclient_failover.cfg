SPECIFICATION Spec
CONSTANTS
    MaxHeight = 2
    Grandpa = FALSE
    Justified = {}
    Change <- NoChanges
    Honest = FALSE
    Pruning = 2
    MaxCrashes = 1
    MaxFailures = 1
INVARIANTS Failover
CHECK_DEADLOCK FALSE
