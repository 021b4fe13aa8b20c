SPECIFICATION HostSpec
CONSTANTS
    MaxHeight = 5
    Grandpa = TRUE
    Justified = {1, 2, 3, 5}
    Change <- Changes
    Honest = FALSE
    Pruning = 3
    MaxCrashes = 3
    MaxFailures = 1
    VoteTree <- BranchingBlocks
    VoterWeight <- WeightedVoters
    OtherSigners = {"x"}
    FinalizedTarget = "a1"
    StartWorkers = {"v", "w"}
    Modes = {"Sidechain", "OffChainWorker", "Teeracle"}
    Targets = {"TargetA"}
    GrandpaChains = {"Integritee"}
    ShieldingTarget = "Integritee"
    MaxStarts = 2
    HostThreads = {"slot"}
    BufferSize = 1
    MaxAnswer = 2
    MaxEcalls = 2
    Headers = {"h1", "h2"}
    Parentchains = {"Integritee", "TargetA", "TargetB"}
    ChainBlocks <- BlocksOfChains
    VaultAccounts = {"va", "vb"}
    MaxCallPool = 4
    StfAccounts = {"bob", "carol"}
    STF_TX_FEE = 100
    ExistentialDeposit = 500
    Endowment = 3000
    ShardWorkers = {"v", "w"}
    VaultChain = "Integritee"
    VaultMetadata <- Metadata
    ParentchainBlocks <- AccountBlocks
    DirectCalls <- AccountCalls
    MaxParentchain = 2
    MaxSidechain = 2
    MaxDirect = 1
    OffchainChains = {"Integritee"}
    OffchainShards <- TwoShards
    OffchainCalls = {"a", "b", "c"}
    ShardOf <- ShardOfCall
    EffectOf <- EffectOfCall
    FailingCalls = {"b"}
    MaxSubmissions = 2
    MaxImports = 3
    MaxOffchainFaults = 1
INVARIANTS TypeOK Durable HeaderRun NeverEarly StartsAreComplete AnswersAreTrue 
    
PROPERTIES VaultAndCreationSettled
CHECK_DEADLOCK FALSE
