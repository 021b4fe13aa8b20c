SPECIFICATION DeliverySpec
CONSTANTS
    n1 = n1
    n2 = n2
    Nodes = {n1, n2}
    Connected = {n1, n2}
    Primary = n1
    Authorities <- BothAuthorities
    Calls = {}
    HashRank <- LaterFirst
    MaxSlot = 3
    MaxHeight = 1
    MaxRestarts = 0
    MaxFailures = 0
    MaxXtFaults = 1
    MaxBatches = 2
    RootCertificates <- Roots
    HostRoots <- Hosts
    MaxRounds = 2
    MaxReregistrations = 1
    MaxOracleFaults = 1
    Confirmers = {"v", "w"}
    TIMEOUT_BLOCKS = 2
    MaxChainHeight = 3
PROPERTIES AllImport ExtrinsicsGetThrough ReportsAreTrue
CHECK_DEADLOCK FALSE
