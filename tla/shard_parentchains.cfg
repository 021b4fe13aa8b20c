SPECIFICATION ShardParentchainsSpec
CONSTANTS
    Parentchains = {"Integritee", "TargetA"}
    ChainBlocks <- OneBlockEach
    VaultAccounts = {"va"}
    MaxCallPool = 4
INVARIANTS InstanceHoldsItsChain
CHECK_DEADLOCK FALSE
