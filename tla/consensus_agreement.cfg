SPECIFICATION WorkersSpec
CONSTANTS
    n1 = n1
    n2 = n2
    c1 = c1
    Nodes = {n1, n2}
    Connected = {n1, n2}
    Primary = n1
    Authorities <- BothAuthorities
    Calls = {c1}
    HashRank <- LaterFirst
    MaxSlot = 3
    MaxHeight = 1
    MaxRestarts = 0
    MaxFailures = 0
    StateWorkers = {"v", "w"}
    MaxStateBlocks = 2
    MaxWrites = 1
    NetworkWorkers = {"v", "w"}
    BLOCK_NUMBER_FINALIZATION_DIFF = 2
    MaxNetworkBlocks = 3
    MaxNetworkFaults = 1
    SLOT_DURATION = 5
    SlotShards <- TwoShards
    TargetChains = {"TargetA"}
    MaxClock = 13
    MaxTargetBlocks = 2
INVARIANTS NoForks CallsTakeEffectOnce StatesAgree  
CHECK_DEADLOCK FALSE
ACTION_CONSTRAINT JustInTimeCalls
