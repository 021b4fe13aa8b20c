SPECIFICATION StoresSpec
CONSTANTS
    Shards = {s1, s2}
    MaxNumber = 5
    Keep = 2
    NumberSpace = 16
    MaxFailures = 2
    Mutators = {"m1", "m2"}
    Observers = {"o1", "o2"}
    SnapshotCacheSize = 2
    MaxStateIds = 3
    MaxStateFaults = 2
    MaxKeys = 4
    ProvClients = {"c", "d"}
    ClientCert <- Certs
    MaxProvHeight = 1
    MaxProvFaults = 1
    Sessions = {1, 2}
    AttestationOps = {"ias_cert", "dcap_cert", "verify_quote", "collateral"}
    TreeBlocks = {"a1", "a2", "a3", "b2", "b3", "c1"}
    ParentOf <- Parents
    Marked = {"a1", "a3", "b2"}
    PoolOps = {1, 2, 3, 4, 5}
    PoolTags = {1, 2, 3}
    Requires <- TagsRequired
    Provides <- TagsProvided
    Priority <- Priorities
    ReadyLimit = 2
    FutureLimit = 1
    RejectFuture = FALSE
    MaxUnlocks = 3
    PoolTops = {"a", "b", "c"}
    TopTag <- Tags
    ValidTill <- Till
    Submitters = {"s"}
    EXPECTED_SIZE = 1
    BAN_TIME = 0
    MaxPrunings = 1
    MaxPoolClock = 1
    TopOps = {1, 2, 3, 4}
    OpKind <- Kinds
    OpAccount <- Senders
    OpNonce <- Nonces
    Clients = {"c1", "c2"}
    TopLimit = 1
    BanCapacity = 1
    MaxRequests = 2
    MaxTopBlocks = 1
    WsPeers = {"p", "q"}
    MaxWsConns = 3
    MaxWsSignals = 2
    Commands = {"p", "q"}
    MaxDirectFaults = 2
INVARIANTS TypeOK UnbrokenRun RestartIsInvisible ReadersAreServed  
PROPERTIES PruneSparesNewest ImplementsWindow   ForkTreeSound 
CHECK_DEADLOCK FALSE
