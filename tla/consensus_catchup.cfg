SPECIFICATION TimelySpec
CONSTANTS
    n1 = n1
    n2 = n2
    Nodes = {n1, n2}
    Connected = {n1}
    Primary = n1
    Authorities <- OneAuthority
    Calls = {}
    HashRank <- LaterFirst
    MaxSlot = 3
    MaxHeight = 1
    MaxRestarts = 0
    MaxFailures = 1
PROPERTIES CatchUp
CHECK_DEADLOCK FALSE
ACTION_CONSTRAINT OnlyEffectsFail
