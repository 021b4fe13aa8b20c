------------------------------- MODULE MCHost -------------------------------
(* What a worker does for and with its parentchains, one component per       *)
(* behaviour: light client, justifications, start-up, enclave bridge, the    *)
(* parentchains of a shard, the accounts of a shard, and the offchain        *)
(* worker. The components share no variable; `part` says which one moves.    *)
EXTENDS LightClient, Justification, Startup, EnclaveBridge, ShardParentchains, ShardAccounts,
        OffchainWorker

VARIABLE part

\* An authority change at the next block, and a later one.
Changes == [n \in Heights |-> CASE n = 1 -> 1 [] n = 3 -> 2 [] OTHER -> NoChange]

\* A block above the one to be finalized, two below it in a row and one beside them; two of
\* the voters have exactly two thirds of the weight.
BranchingBlocks == [a0 |-> "root", a1 |-> "a0", a2 |-> "a1", a3 |-> "a2", b2 |-> "a1"]
WeightedVoters == [v1 |-> 1, v2 |-> 2, v3 |-> 3]

\* Blocks of three parentchains: transfers to two accounts that may be vaults and to
\* another account, and a block whose extrinsics do not parse.
ChainBlock(time, to, parses) == [time |-> time, transfers |-> <<to>>, parses |-> parses]
BlocksOfChains ==
    [Integritee |-> <<ChainBlock(1, "va", TRUE), ChainBlock(2, "x", TRUE)>>,
     TargetA |-> <<ChainBlock(4, "va", TRUE), ChainBlock(5, "vb", FALSE)>>,
     TargetB |-> <<ChainBlock(6, "va", TRUE)>>]

\* A transfer to the vault; a block with shield_funds that succeeded and that failed and
\* an indirect invocation; two calls of one account.
CallOf(kind, sender, who, value) ==
    [kind |-> kind, sender |-> sender, nonce |-> 0, who |-> who, value |-> value,
     chain |-> "none", origin |-> <<0, "none", 0>>]
VaultTransfer ==
    [chain |-> "Integritee", xts |-> <<[kind |-> "timestamp", success |-> TRUE, value |-> 1]>>,
     transfers |-> <<[from |-> "bob", to |-> "vault", amount |-> 5710, decodes |-> TRUE]>>]
Invocations ==
    [chain |-> "Integritee", transfers |-> <<>>,
     xts |-> <<[kind |-> "shield_funds", success |-> TRUE, who |-> "carol", value |-> 571],
               [kind |-> "shield_funds", success |-> FALSE, who |-> "bob", value |-> 571],
               [kind |-> "invoke", success |-> TRUE, call |-> CallOf("unshield", "bob", "bob", 2000)]>>]
AccountBlocks == {VaultTransfer, Invocations}
AccountCalls == {CallOf("transfer", "bob", "carol", 900), CallOf("unshield", "bob", "bob", 1000)}
Metadata == {"proxy", "publish_hash"}

\* Two shards; one call has its effect on a parentchain the worker does not follow.
TwoShards == <<"s", "r">>
ShardOfCall == [a |-> "s", b |-> "s", c |-> "r"]
EffectOfCall == [a |-> "Integritee", b |-> "TargetA", c |-> "Integritee"]

HostInit ==
    /\ part \in {"lightclient", "justification", "startup", "bridge", "parentchains", "accounts",
                 "offchain"}
    /\ Init /\ StartupInit /\ EnclaveBridgeInit /\ ShardParentchainsInit /\ ShardAccountsInit
    /\ OffchainInit /\ JustificationInit
    /\ part # "startup" => workerMode = "Sidechain"

HostNext ==
    /\ UNCHANGED part
    /\ \/ /\ part = "justification" /\ JustificationNext
          /\ UNCHANGED <<vars, startupVars, enclaveBridgeVars, shardParentchainsVars, shardAccountsVars,
                         offchainVars>>
       \/ /\ part = "lightclient" /\ Next
          /\ UNCHANGED <<justificationVars, startupVars, enclaveBridgeVars, shardParentchainsVars,
                         shardAccountsVars, offchainVars>>
       \/ /\ part = "startup" /\ StartupNext
          /\ UNCHANGED <<justificationVars, vars, enclaveBridgeVars, shardParentchainsVars,
                         shardAccountsVars, offchainVars>>
       \/ /\ part = "bridge" /\ EnclaveBridgeNext
          /\ UNCHANGED <<justificationVars, vars, startupVars, shardParentchainsVars,
                         shardAccountsVars, offchainVars>>
       \/ /\ part = "parentchains" /\ ShardParentchainsNext
          /\ UNCHANGED <<justificationVars, vars, startupVars, enclaveBridgeVars,
                         shardAccountsVars, offchainVars>>
       \/ /\ part = "accounts" /\ ShardAccountsNext
          /\ UNCHANGED <<justificationVars, vars, startupVars, enclaveBridgeVars,
                         shardParentchainsVars, offchainVars>>
       \/ /\ part = "offchain" /\ OffchainNext
          /\ UNCHANGED <<justificationVars, vars, startupVars, enclaveBridgeVars,
                         shardParentchainsVars, shardAccountsVars>>

HostSpec ==
    HostInit /\ [][HostNext]_<<vars, justificationVars, startupVars, enclaveBridgeVars, shardParentchainsVars,
                               shardAccountsVars, offchainVars, part>>
-----------------------------------------------------------------------------
\* What a worker takes from its parentchain: a block is final exactly if its justification
\* proves it (justification.rs), and the accounts of a shard hold no more than final blocks
\* paid in, each deposit credited once and not forgotten (enclave_signer, trusted_call).
ProvenAndCovered == FinalityIsProven /\ FundsAreSound
=============================================================================
