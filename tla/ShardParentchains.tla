-------------------------- MODULE ShardParentchains --------------------------
(***************************************************************************)
(* What the state of a shard knows of its parentchains.  The STF holds one *)
(* instance of the parentchain pallet for each parentchain, with the       *)
(* latest block, the time, the creation block and the vault.  Every block  *)
(* of every parentchain is imported: its header is written to the state    *)
(* (update_states), the transfers to the vault and the timestamp extrinsic *)
(* become trusted calls of the enclave, which are executed later with a    *)
(* sidechain block.  The service sets vault and creation blocks when it    *)
(* starts, and asks for them again after each restart.                     *)
(*                                                                         *)
(* A block is [time, transfers, parses]: the value of its timestamp        *)
(* extrinsic, the accounts of the transfers in it, and whether the worker  *)
(* can decode its extrinsics.  A failed extrinsic is not in it.            *)
(***************************************************************************)
EXTENDS Integers, Sequences, FiniteSets, FiniteSetsExt, SequencesExt, Functions

CONSTANTS
    Parentchains,    \* the configured parentchains
    ChainBlocks,     \* parentchain -> its finalized blocks, a sequence
    VaultAccounts,   \* accounts the service may ask to make the vault
    MaxCallPool      \* bound of the model: trusted calls in the pool

ASSUME ShardParentchainsAssumption ==
    /\ "Integritee" \in Parentchains
    /\ \A c \in Parentchains : ChainBlocks[c] \in Seq([time : Nat, transfers : Seq(STRING), parses : BOOLEAN])
    /\ MaxCallPool \in Nat

VARIABLES
    instances,     \* the pallet instances in the state of the shard
    chainHeight,   \* parentchain -> number of the last imported block
    callPool,      \* trusted calls of the enclave, in the order of their nonces
    confirmations, \* history: blocks the worker has confirmed as processed
    shielded       \* history: the deposits that were credited

shardParentchainsVars == <<instances, chainHeight, callPool, confirmations, shielded>>

Unset == "unset"

\* One instance of pallet_parentchain before anything is known of its chain.
EmptyInstance == [vault |-> Unset, block |-> <<>>, creation |-> <<>>, creation_timestamp |-> 0, now |-> 0]

ShardParentchainsInit ==
    /\ instances = [c \in Parentchains |-> EmptyInstance]
    /\ chainHeight = [c \in Parentchains |-> 0]
    /\ callPool = <<>> /\ confirmations = {} /\ shielded = {}

------------------------------------------------------------------------------
(* The vault.                                                              *)
get_vaults == {c \in Parentchains : instances[c].vault # Unset}

\* The mutated query looks only at the chain that is asked for.
get_shard_vault_ensure_single_parentchain_mut(id) == {c \in {id} : instances[c].vault # Unset}

\* The chains with a vault; more than one is an error.
get_shard_vault_ensure_single_parentchain(id) == get_vaults

\* init_shard_vault_account: a vault is never moved to another chain or account.
init_vault(id, account) ==
    /\ get_shard_vault_ensure_single_parentchain(id) = {}
    /\ instances' = [instances EXCEPT ![id].vault = account]
    /\ UNCHANGED <<chainHeight, callPool, confirmations, shielded>>

------------------------------------------------------------------------------
(* The creation blocks.                                                    *)
shard_creation_info(id) == instances[id].creation

\* init_shard_creation_parentchain_header_internal refuses a second header.
set_creation_block(id) ==
    /\ shard_creation_info(id) = <<>>
    /\ chainHeight[id] > 0
    /\ instances' = [instances EXCEPT ![id].creation = <<id, chainHeight[id]>>]
    /\ UNCHANGED <<chainHeight, callPool, confirmations, shielded>>

------------------------------------------------------------------------------
(* The import of a parentchain block.                                      *)

\* update_states writes the header of every parentchain to the Integritee instance.
update_states(state, id, number) == [state EXCEPT !["Integritee"].block = <<id, number>>]

\* get_transfer_events, filtered by the account of the vault.
transfers_to(transfers, account) == SelectSeq(transfers, LAMBDA to : to = account)

\* handle_events of the chain: target B handles no event.  The vault is the shard's,
\* whichever chain it is on.
handle_transfer_events(id, transfers) ==
    IF get_vaults = {} \/ id = "TargetB" THEN <<>>
    ELSE LET account == instances[CHOOSE c \in get_vaults : TRUE].vault
         IN [i \in DOMAIN transfers_to(transfers, account) |->
                [kind |-> "balance_shield", chain |-> id, deposit |-> i]]

\* The extrinsics that parse as timestamp_set.
timestamp_calls(id, block) ==
    IF block.parses THEN <<[kind |-> "timestamp_set", chain |-> id, now |-> block.time]>> ELSE <<>>

Numbered(calls, number) ==
    [i \in DOMAIN calls |->
        IF calls[i].kind = "balance_shield"
        THEN [kind |-> "balance_shield", chain |-> calls[i].chain, deposit |-> <<number, calls[i].deposit>>]
        ELSE calls[i]]

\* execute_indirect_calls_in_extrinsics: shielding calls first, then the extrinsics; only
\* Integritee gets a confirmation.  The number of statuses may differ from the number of
\* extrinsics: then the shielding calls are already in the pool.
execute_indirect_calls(id, number, statusesMatch) ==
    LET block == ChainBlocks[id][number]
        shields == Numbered(handle_transfer_events(id, block.transfers), number)
    IN /\ callPool' = callPool \o shields
                      \o (IF statusesMatch THEN timestamp_calls(id, block) ELSE <<>>)
       /\ confirmations' = IF statusesMatch /\ id = "Integritee"
                           THEN confirmations \cup {<<id, number>>} ELSE confirmations

import_parentchain_block(id) ==
    LET number == chainHeight[id] + 1 IN
    /\ number <= Len(ChainBlocks[id])
    /\ Len(callPool) + Len(ChainBlocks[id][number].transfers) < MaxCallPool
    /\ chainHeight' = [chainHeight EXCEPT ![id] = number]
    /\ instances' = update_states(instances, id, number)
    /\ \E statusesMatch \in BOOLEAN : execute_indirect_calls(id, number, statusesMatch)
    /\ UNCHANGED shielded

------------------------------------------------------------------------------
(* The execution of the trusted calls.                                     *)

\* The mutated check of balance_shield is satisfied by any vault.
may_shield_mut(chain) == get_vaults # {}

\* The deposit must have been made on the chain of the vault.
may_shield(chain) == get_vaults # {} /\ chain = CHOOSE c \in get_vaults : TRUE

\* The mutated execution sets the creation timestamp with every call.
set_timestamp_mut(state, chain, now) ==
    [state EXCEPT ![chain].now = now,
                  ![chain].creation_timestamp = IF chain = "Integritee" THEN now ELSE @]

\* timestamp_set: only Integritee gets a creation timestamp, with the first call.
set_timestamp(state, chain, now) ==
    [state EXCEPT ![chain].now = now,
                  ![chain].creation_timestamp = IF chain = "Integritee" /\ @ = 0 THEN now ELSE @]

\* The call with the lowest nonce is executed; a call that fails is dropped.
execute_enclave_call ==
    /\ callPool # <<>> /\ callPool' = Tail(callPool)
    /\ LET call == Head(callPool) IN
         IF call.kind = "balance_shield"
         THEN /\ shielded' = IF may_shield(call.chain)
                             THEN shielded \cup {<<call.chain, call.deposit>>} ELSE shielded
              /\ UNCHANGED instances
         ELSE /\ instances' = set_timestamp(instances, call.chain, call.now) /\ UNCHANGED shielded
    /\ UNCHANGED <<chainHeight, confirmations>>

ShardParentchainsNext ==
    \/ execute_enclave_call
    \/ \E id \in Parentchains :
         \/ \E account \in VaultAccounts : init_vault(id, account)
         \/ set_creation_block(id)
         \/ import_parentchain_block(id)

------------------------------------------------------------------------------
(* A shard has its vault on one parentchain, whatever the order in which   *)
(* the service asked for one on several of them: deposits and withdrawals  *)
(* go through one account.                                                 *)
OneVault == Cardinality(get_vaults) <= 1

(* A deposit is credited only on the chain of the vault.  The events are   *)
(* filtered by the account of the vault on every chain and the call waits  *)
(* in the pool, so that only the execution can tell the chains apart.      *)
OnlyVaultChainCredits == \A d \in shielded : get_vaults = {d[1]}

(* The creation block and the creation timestamp of a shard never change   *)
(* once they are set, through restarts of the service and late calls.      *)
CreationKept ==
    [][\A c \in Parentchains :
        /\ instances[c].creation # <<>> => instances'[c].creation = instances[c].creation
        /\ instances[c].creation_timestamp # 0
             => instances'[c].creation_timestamp = instances[c].creation_timestamp]_shardParentchainsVars

(* The instance of a parentchain holds the latest imported block of that   *)
(* parentchain, as parentchain_pallet.rs documents for each of the three   *)
(* update functions.                                                       *)
InstanceHoldsItsChain ==
    \A c \in Parentchains : chainHeight[c] > 0 => instances[c].block = <<c, chainHeight[c]>>

(* The vault and the creation of a shard are settled once, for all chains. *)
VaultAndCreationSettled == [](OneVault /\ OnlyVaultChainCredits) /\ CreationKept
==============================================================================
