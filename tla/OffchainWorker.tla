--------------------------- MODULE OffchainWorker ---------------------------
(***************************************************************************)
(* The worker without a sidechain: when a block of a parentchain has been  *)
(* imported, ImmediateDispatcher calls Executor::execute, which runs the   *)
(* pending calls of every shard on a copy of its state, writes the copy    *)
(* back and sends the effects to the parentchain.                          *)
(*                                                                         *)
(* Every parentchain the worker follows has a thread, a dispatcher and an  *)
(* executor of its own; pool and state handler are shared, and no lock     *)
(* spans an execution.  A state is the set of calls whose nonces are used  *)
(* up and the number of the last header written into it.  A call that is   *)
(* submitted again has a new hash and the old nonce.                       *)
(***************************************************************************)
EXTENDS Integers, Sequences, FiniteSets

CONSTANTS
    OffchainChains,   \* the parentchains the worker follows
    OffchainShards,   \* list_shards, a sequence
    OffchainCalls,    \* trusted calls
    ShardOf,          \* call -> its shard
    EffectOf,         \* call -> the parentchain its effect is for, or "none"
    FailingCalls,     \* calls whose execution fails after the nonce is used up
    MaxSubmissions,   \* bound of the model: submissions of one call
    MaxImports,       \* bound of the model: imported blocks
    MaxOffchainFaults \* bound of the model: failing operations and crashes

ASSUME OffchainAssumption ==
    /\ OffchainShards \in Seq({OffchainShards[i] : i \in DOMAIN OffchainShards})
    /\ ShardOf \in [OffchainCalls -> {OffchainShards[i] : i \in DOMAIN OffchainShards}]
    /\ FailingCalls \subseteq OffchainCalls
    /\ MaxSubmissions \in Nat /\ MaxImports \in Nat /\ MaxOffchainFaults \in Nat

VARIABLES
    offPool,       \* the pending calls, all shards
    offState,      \* shard -> [used: calls, header: Nat], in memory and on disk
    offThread,     \* chain -> where its thread is
    submissions,   \* call -> how often it was submitted
    offImports,    \* blocks imported so far
    succeeded,     \* history: calls removed from the pool as executed
    offSent,       \* history: call -> how often its effect was sent
    offFaults      \* faults so far

offchainVars == <<offPool, offState, offThread, submissions, offImports, succeeded, offSent,
                  offFaults>>

Shards == {OffchainShards[i] : i \in DOMAIN OffchainShards}
Resting == [at |-> "rest"]

OffchainInit ==
    /\ offPool = {} /\ offState = [s \in Shards |-> [used |-> {}, header |-> 0]]
    /\ offThread = [t \in OffchainChains |-> Resting]
    /\ submissions = [c \in OffchainCalls |-> 0] /\ offImports = 0
    /\ succeeded = {} /\ offSent = [c \in OffchainCalls |-> 0] /\ offFaults = 0

\* A user submits a call, for the first time or again.
submit_offchain(c) ==
    /\ c \notin offPool /\ submissions[c] < MaxSubmissions
    /\ offPool' = offPool \cup {c}
    /\ submissions' = [submissions EXCEPT ![c] = @ + 1]
    /\ UNCHANGED <<offState, offThread, offImports, succeeded, offSent, offFaults>>

OffGoto(t, thread) == offThread' = [offThread EXCEPT ![t] = thread]
OffFails == offFaults < MaxOffchainFaults /\ offFaults' = offFaults + 1

\* dispatch_import: the block importer mutates the state of each shard under the lock
\* of the state handler, then the observer runs the executor, which first asks the
\* light client for the latest header.
dispatch_import(t) ==
    /\ offThread[t] = Resting /\ offImports < MaxImports
    /\ offImports' = offImports + 1
    /\ offState' = [s \in Shards |-> [offState[s] EXCEPT !.header = offImports']]
    /\ OffGoto(t, [at |-> "shard", i |-> 1, effects |-> {}])
    /\ UNCHANGED <<offPool, submissions, succeeded, offSent, offFaults>>

ShardOfThread(t) == OffchainShards[offThread[t].i]

get_pending_trusted_calls(t) ==
    /\ offThread[t].at = "shard" /\ offThread[t].i <= Len(OffchainShards)
    /\ OffGoto(t, [at |-> "propose", i |-> offThread[t].i, effects |-> offThread[t].effects,
                   pending |-> {c \in offPool : ShardOf[c] = ShardOfThread(t)}])
    /\ UNCHANGED <<offPool, offState, submissions, offImports, succeeded, offSent, offFaults>>

\* Executing a call on a state: ExecutionStatus::Success or Failure.
IsSuccess_mut(state, c) == c \notin FailingCalls
IsSuccess(state, c) == c \notin state.used /\ c \notin FailingCalls

\* get_extrinsic_callbacks of the batch: the effects of the calls that succeeded.
get_extrinsic_callbacks(success) == {c \in success : EffectOf[c] # "none"}

\* propose_state_update on a copy of the state, within five seconds: some of the pending
\* calls are not reached.  The failed ones leave the pool at once.
propose_state_update(t) ==
    /\ offThread[t].at = "propose"
    /\ \E done \in SUBSET offThread[t].pending :
        LET state == offState[ShardOfThread(t)]
            success == {c \in done : IsSuccess(state, c)}
        IN  /\ offPool' = offPool \ (done \ success)
            /\ OffGoto(t, [at |-> "apply", i |-> offThread[t].i, success |-> success,
                           effects |-> offThread[t].effects
                                           \cup get_extrinsic_callbacks(success),
                           after |-> [state EXCEPT !.used = @ \cup done]])
    /\ UNCHANGED <<offState, submissions, offImports, succeeded, offSent, offFaults>>

\* reset writes the whole state, whatever happened to it since the copy was made.
apply_state_update_mut(t) ==
    /\ offThread[t].at = "apply"
    /\ OffGoto(t, [at |-> "remove", i |-> offThread[t].i, success |-> offThread[t].success,
                   effects |-> offThread[t].effects])
    /\ UNCHANGED <<offPool, offState, submissions, offImports, succeeded, offSent, offFaults>>
apply_state_update(t) ==
    /\ offThread[t].at = "apply"
    /\ offState' = [offState EXCEPT ![ShardOfThread(t)] = offThread[t].after]
    /\ OffGoto(t, [at |-> "remove", i |-> offThread[t].i, success |-> offThread[t].success,
                   effects |-> offThread[t].effects])
    /\ UNCHANGED <<offPool, submissions, offImports, succeeded, offSent, offFaults>>

remove_calls_from_pool(t) ==
    /\ offThread[t].at = "remove"
    /\ offPool' = offPool \ offThread[t].success
    /\ succeeded' = succeeded \cup offThread[t].success
    /\ OffGoto(t, [at |-> "shard", i |-> offThread[t].i + 1, effects |-> offThread[t].effects])
    /\ UNCHANGED <<offState, submissions, offImports, offSent, offFaults>>

\* send_parentchain_effects: only calls of the Integritee chain become extrinsics; they
\* are signed for, and sent to, the parentchain of this executor.
integritee_calls(effects) == {c \in effects : EffectOf[c] = "Integritee"}

send_parentchain_effects(t) ==
    /\ offThread[t].at = "shard" /\ offThread[t].i > Len(OffchainShards)
    /\ offSent' = [c \in OffchainCalls |->
                      offSent[c] + IF c \in integritee_calls(offThread[t].effects) THEN 1 ELSE 0]
    /\ OffGoto(t, Resting)
    /\ UNCHANGED <<offPool, offState, submissions, offImports, succeeded, offFaults>>

\* Any operation may fail: execute returns, the error is logged, the effects of the
\* shards already executed are gone.
execute_fails(t) ==
    /\ offThread[t].at \in {"propose", "apply", "shard"} /\ OffFails
    /\ OffGoto(t, Resting)
    /\ UNCHANGED <<offPool, offState, submissions, offImports, succeeded, offSent>>

\* The worker starts again: pool and threads are in memory, the state is on disk.
offchain_restart ==
    /\ OffFails /\ offPool' = {} /\ offThread' = [t \in OffchainChains |-> Resting]
    /\ UNCHANGED <<offState, submissions, offImports, succeeded, offSent>>

OffchainNext ==
    \/ \E c \in OffchainCalls : submit_offchain(c)
    \/ \E t \in OffchainChains :
          \/ dispatch_import(t) \/ get_pending_trusted_calls(t) \/ propose_state_update(t)
          \/ apply_state_update(t) \/ remove_calls_from_pool(t)
          \/ send_parentchain_effects(t) \/ execute_fails(t)
    \/ offchain_restart

OffchainTypeOK ==
    /\ offPool \subseteq OffchainCalls /\ succeeded \subseteq OffchainCalls
    /\ \A s \in Shards : offState[s].used \subseteq OffchainCalls
    /\ offSent \in [OffchainCalls -> Nat]
-----------------------------------------------------------------------------
(* However often a call is submitted, and wherever an execution fails or  *)
(* the worker stops between writing the state, cleaning the pool and      *)
(* sending, its effect is sent at most once: no second unshielding.       *)
EffectsAtMostOnce == \A c \in OffchainCalls : offSent[c] <= 1

(* What Executor says of itself (executor.rs, line 38): the state diffs   *)
(* of executed calls are applied.  A call reported as executed is in the  *)
(* state from then on.                                                    *)
SuccessStays == \A c \in succeeded : c \in offState[ShardOf[c]].used

(* What a worker without a sidechain owes the callers of one parentchain. *)
OffchainSound == OffchainTypeOK /\ EffectsAtMostOnce /\ SuccessStays
=============================================================================
