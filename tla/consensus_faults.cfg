SPECIFICATION ValidateersSpec
CONSTANTS
    n1 = n1
    n2 = n2
    Nodes = {n1, n2}
    Primary = n1
    Authorities <- BothAuthorities
    Calls = {}
    HashRank <- LaterFirst
    MaxSlot = 3
    MaxHeight = 1
    MaxRestarts = 1
    MaxFailures = 1
INVARIANTS TypeOK ParentchainInOrder ExecutedAfterImport  CommittedWasBroadcast
PROPERTIES AppendOnly
CHECK_DEADLOCK FALSE
