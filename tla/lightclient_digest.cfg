SPECIFICATION Spec
CONSTANTS
    MaxHeight = 3
    Grandpa = TRUE
    Justified = {1, 3}
    Change <- ChangeAtOnce
    Honest = TRUE
    Pruning = 3
    MaxCrashes = 0
    MaxFailures = 0
INVARIANTS FollowsDigest
CHECK_DEADLOCK FALSE
