--------------------------- MODULE ShardAccounts ----------------------------
(***************************************************************************)
(* The money of a shard, on the parentchain and on the sidechain.  Every   *)
(* worker imports the parentchain blocks for itself, turns the deposits in *)
(* them into shielding calls signed with the enclave's account, and puts   *)
(* them into its own pool with the calls of the users.  The author of a    *)
(* sidechain block executes its pool; the others take over the state and   *)
(* remove the calls of the block from their pools.                         *)
(*                                                                         *)
(* The sidechain has no forks here: SidechainConsensus is about those.     *)
(***************************************************************************)
EXTENDS Stf

CONSTANTS
    ShardWorkers,
    VaultChain,          \* parentchain of the vault
    VaultMetadata,       \* call indexes that the metadata of this chain has
    ParentchainBlocks,   \* what a parentchain block may hold
    DirectCalls,         \* what the users may submit to a worker
    MaxParentchain, MaxSidechain, MaxDirect  \* bounds of the model

ASSUME ShardAccountsAssumption ==
    /\ IsFiniteSet(ShardWorkers) /\ VaultChain \in ChainIds
    /\ MaxParentchain \in Nat /\ MaxSidechain \in Nat /\ MaxDirect \in Nat

VARIABLES
    parentchain,    \* finalized blocks
    sidechain,      \* blocks: state after it, calls executed, parentchain blocks known to its author
    imported,       \* worker -> parentchain blocks imported
    height,         \* worker -> sidechain blocks imported
    topPool,        \* worker -> calls in the order they came in
    payments,       \* parentchain calls sent, by sidechain block
    direct          \* calls submitted by users

shardAccountsVars == <<parentchain, sidechain, imported, height, topPool, payments, direct>>

GenesisState == init_shard_vault_account(init_state, "vault", VaultChain)
StateAt(h) == IF h = 0 THEN GenesisState ELSE sidechain[h].state
StateOf(w) == StateAt(height[w])

ShardAccountsInit ==
    /\ parentchain = <<>> /\ sidechain = <<>>
    /\ imported = [w \in ShardWorkers |-> 0] /\ height = [w \in ShardWorkers |-> 0]
    /\ topPool = [w \in ShardWorkers |-> <<>>] /\ payments = <<>> /\ direct = 0
-----------------------------------------------------------------------------
\* A block of the parentchain is finalized. A call in it is signed with the nonce that
\* its sender saw on the sidechain.
finalize_parentchain_block(template) ==
    /\ Len(parentchain) < MaxParentchain
    /\ parentchain' = Append(parentchain,
          [chain |-> template.chain, number |-> Len(parentchain) + 1, transfers |-> template.transfers,
           xts |-> [i \in DOMAIN template.xts |->
                      IF template.xts[i].kind # "invoke" THEN template.xts[i]
                      ELSE [template.xts[i] EXCEPT
                              !.call.nonce = StateAt(Len(sidechain)).nonce[template.xts[i].call.sender],
                              !.call.origin = <<Len(parentchain) + 1, "xt", i>>]]])
    /\ UNCHANGED <<sidechain, imported, height, topPool, payments, direct>>

PendingOf(pool, account) == SelectSeq(pool, LAMBDA c : c.sender = account)

\* The calls that already wait are not counted.
sign_call_with_self_mut(w, pool, c) == [c EXCEPT !.nonce = StateOf(w).nonce["enclave"]]

\* The nonce of the account, and the calls of it that wait in the pool.
sign_call_with_self(w, pool, c) ==
    [c EXCEPT !.nonce = StateOf(w).nonce["enclave"] + Len(PendingOf(pool, "enclave"))]

\* The pool has one call for each sender and nonce.
submit_top(pool, c) ==
    IF \E i \in DOMAIN pool : pool[i].sender = c.sender /\ pool[i].nonce = c.nonce THEN pool ELSE Append(pool, c)

SubmitIndirect(w, pool, c) == submit_top(pool, IF c.nonce = -1 THEN sign_call_with_self(w, pool, c) ELSE c)

execute_parentchain_block(w) ==
    /\ imported[w] < Len(parentchain)
    /\ imported' = [imported EXCEPT ![w] = @ + 1]
    /\ topPool' = [topPool EXCEPT ![w] =
                     FoldLeft(LAMBDA pool, c : SubmitIndirect(w, pool, c), @,
                              execute_indirect_calls_in_extrinsics(parentchain[imported[w] + 1], "vault"))]
    /\ UNCHANGED <<parentchain, sidechain, height, payments, direct>>

\* A user asks a worker for its nonce, adds what waits, signs and submits.
submit_direct_call(w, c) ==
    LET getter == [public |-> FALSE, signer |-> c.sender, account |-> c.sender, what |-> "nonce"] IN
    /\ direct < MaxDirect /\ is_authorized(getter)
    /\ direct' = direct + 1
    /\ topPool' = [topPool EXCEPT ![w] =
          submit_top(@, [c EXCEPT !.nonce = get_state(StateOf(w), getter) + Len(PendingOf(topPool[w], c.sender)),
                                  !.origin = <<0, "direct", direct + 1>>])]
    /\ UNCHANGED <<parentchain, sidechain, imported, height, payments>>

RemoveCalls(pool, gone) == SelectSeq(pool, LAMBDA c : c \notin gone)

\* After the blocks, the calls for one chain after the other, until that fails.
send_blocks_and_extrinsics(calls, chains) ==
    SelectSeq(calls, LAMBDA c : \E i \in 1 .. chains : c.chain = AllParentchains[i])

\* execute_trusted_calls, in a slot of the worker w: it has imported what was there to
\* import, and executes what it has time for. What failed leaves its pool now, what was
\* executed when the block is imported.
propose(w, n, chains) ==
    LET batch == execute_all(StateOf(w), SubSeq(topPool[w], 1, n), VaultMetadata) IN
    /\ height[w] = Len(sidechain) /\ Len(sidechain) < MaxSidechain
    /\ n <= Len(topPool[w])
    /\ sidechain' = Append(sidechain,
          [state |-> batch.state, executed |-> batch.executed, imported |-> imported[w]])
    /\ topPool' = [topPool EXCEPT ![w] = RemoveCalls(@, batch.failed)]
    /\ payments' = Append(payments, send_blocks_and_extrinsics(batch.calls, chains))
    /\ UNCHANGED <<parentchain, imported, height, direct>>

\* The block is imported without the parentchain blocks its author knew.
knows_parentchain_mut(w, block) == TRUE

knows_parentchain(w, block) == imported[w] >= block.imported

\* import_block: first the parentchain blocks up to the one of the block, then the state
\* and, with update_top_pool, the pool.
import_sidechain_block(w) ==
    /\ height[w] < Len(sidechain)
    /\ knows_parentchain(w, sidechain[height[w] + 1])
    /\ height' = [height EXCEPT ![w] = @ + 1]
    /\ topPool' = [topPool EXCEPT ![w] = RemoveCalls(@, ToSet(sidechain[height[w] + 1].executed))]
    /\ UNCHANGED <<parentchain, sidechain, imported, payments, direct>>

ShardAccountsNext ==
    \/ \E b \in ParentchainBlocks : finalize_parentchain_block(b)
    \/ \E w \in ShardWorkers :
          \/ execute_parentchain_block(w) \/ import_sidechain_block(w)
          \/ \E c \in DirectCalls : submit_direct_call(w, c)
          \/ \E n \in 0 .. Len(topPool[w]), chains \in {0, Len(AllParentchains)} : propose(w, n, chains)
-----------------------------------------------------------------------------
TotalIssuance(s) == FoldFunction(+, 0, s.free)
Amount(calls) == FoldLeft(LAMBDA sum, c : sum + c.value, 0, calls)
Executed == FlattenSeq([h \in DOMAIN sidechain |-> sidechain[h].executed])
Payments == SelectSeq(FlattenSeq(payments), LAMBDA c : c.kind = "proxy_transfer")

\* What was paid into the vault: transfers to it, and shield_funds extrinsics.
DepositsOf(b) == SelectSeq(execute_indirect_calls_in_extrinsics(b, "vault"), LAMBDA c : c.kind = "shield")
Deposits == FlattenSeq([i \in DOMAIN parentchain |-> DepositsOf(parentchain[i])])

\* However the workers take turns, how far behind each is with the parentchain and which
\* calls fail or are not sent: nobody's funds on the sidechain exceed what the vault holds.
Solvent ==
    TotalIssuance(StateAt(Len(sidechain))) - TotalIssuance(GenesisState) <= Amount(Deposits) - Amount(Payments)

\* Every worker makes a shielding call of a deposit; one of them is executed.
DepositShieldedOnce ==
    \A i, j \in DOMAIN Executed :
        i # j => ~(Executed[i].kind = "shield" /\ Executed[i].origin = Executed[j].origin)

\* Once everything is imported and no pool holds anything, every deposit has reached its
\* account.
NoDepositLost ==
    (\A w \in ShardWorkers : imported[w] = Len(parentchain) /\ height[w] = Len(sidechain) /\ topPool[w] = <<>>) =>
        \A i \in DOMAIN Deposits : \E j \in DOMAIN Executed : Executed[j].origin = Deposits[i].origin

\* The accounts of a shard hold no more than was shielded, and each deposit is credited once
\* and not forgotten, whoever signs, proposes and imports (enclave_signer, trusted_call).
FundsAreSound == Solvent /\ DepositShieldedOnce /\ NoDepositLost
=============================================================================
