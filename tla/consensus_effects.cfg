SPECIFICATION Spec
CONSTANTS
    n1 = n1
    n2 = n2
    c1 = c1
    Nodes = {n1, n2}
    Primary = n1
    Authorities <- BothAuthorities
    Calls = {c1}
    HashRank <- LaterFirst
    MaxSlot = 2
    MaxHeight = 0
    MaxRestarts = 0
    MaxFailures = 0
INVARIANTS EffectsBeforeCommit
CHECK_DEADLOCK FALSE
