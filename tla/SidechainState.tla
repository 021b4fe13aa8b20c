--------------------------- MODULE SidechainState ---------------------------
(***************************************************************************)
(* The state of a shard, SgxExternalities, and how a block carries its     *)
(* changes from the author to the other workers: every write goes into the *)
(* state and into a diff; the author executes on a clone and puts the diff *)
(* with the hashes before and after into the block; everybody, the author  *)
(* too, applies the diff to the state it has.                              *)
(*                                                                         *)
(* A state is a function from keys to values; its hash is the state, as    *)
(* hashes do not collide.  Values are numbers, of a list the number of its *)
(* elements.                                                               *)
(***************************************************************************)
EXTENDS Integers, FiniteSets

CONSTANTS
    StateWorkers,    \* enclaves with the shard
    MaxStateBlocks,  \* bound of the model: blocks composed
    MaxWrites        \* bound of the model: writes of the calls in one block

ASSUME SidechainStateAssumption ==
    IsFiniteSet(StateWorkers) /\ MaxStateBlocks \in Nat /\ MaxWrites \in Nat

StoreKeys == {"Number", "LastBlock", "ParentchainBlock", "Events", "EventTopicsA", "EventTopicsB", "Account"}
EventTopics == {"EventTopicsA", "EventTopicsB"}
CallKeys == {"Account"} \cup EventTopics
Absent == -1
Unchanged == -2

VARIABLES
    ext,             \* worker -> its SgxExternalities: state and state_diff
    clone,           \* the externalities of the block in the making
    base,            \* the state it was cloned from: state_hash_before_execution
    author,          \* who makes it, or "none"
    environment,     \* the thread of the author runs inside execute_with
    transaction,     \* state at start_transaction, or NoTransaction
    blocks,          \* blocks composed
    writes

sidechainStateVars == <<ext, clone, base, author, environment, transaction, blocks, writes>>

NoDiff == [k \in StoreKeys |-> Unchanged]
NoTransaction == [k \in StoreKeys |-> Unchanged]
Empty == [state |-> [k \in StoreKeys |-> Absent], diff |-> NoDiff]

SidechainStateInit ==
    /\ ext = [w \in StateWorkers |-> Empty] /\ clone = Empty /\ base = Empty.state /\ author = "none"
    /\ environment = FALSE /\ transaction = NoTransaction /\ blocks = {} /\ writes = 0
-----------------------------------------------------------------------------
(* SgxExternalities *)

insert(e, k, v) == [state |-> [e.state EXCEPT ![k] = v], diff |-> [e.diff EXCEPT ![k] = v]]

\* A missing key gets a diff all the same.
remove(e, k) == [state |-> [e.state EXCEPT ![k] = Absent], diff |-> [e.diff EXCEPT ![k] = Absent]]

\* StorageAppend: a list one longer, a new one where there is none.
\* (A value that is no list is replaced: the runtime appends to its events only.)
appended(value) == IF value = Absent THEN 1 ELSE value + 1

\* The element is added to the list in place, the diff takes the whole list.
append(e, k) == insert(e, k, appended(e.state[k]))

\* Keys are dropped from the state and not from the diff.
clear_prefix_mut(e, prefix) ==
    [e EXCEPT !.state = [k \in StoreKeys |-> IF k \in prefix THEN Absent ELSE e.state[k]]]

\* All keys with the prefix that the state has; the limit is ignored.
clear_prefix(e, prefix) ==
    LET gone == {k \in prefix : e.state[k] # Absent} IN
    [state |-> [k \in StoreKeys |-> IF k \in gone THEN Absent ELSE e.state[k]],
     diff |-> [k \in StoreKeys |-> IF k \in gone THEN Absent ELSE e.diff[k]]]

prune_state_diff(e) == [e EXCEPT !.diff = NoDiff]

ApplyDiff(state, diff) == [k \in StoreKeys |-> IF diff[k] = Unchanged THEN state[k] ELSE diff[k]]

\* SidechainSystemExt::reset_events
reset_events(e) == clear_prefix(remove(e, "Events"), EventTopics)

\* LastBlock stands for the block and its hash, LastHash.
set_last_block(e, b) == insert(e, "LastBlock", b.id)

StateUpdateOf(apriori, aposteriori, update) ==
    [state_hash_apriori |-> apriori, state_hash_aposteriori |-> aposteriori, state_update |-> update]

\* get_block_number and get_last_block of a state without them.
NumberOf(state) == IF state["Number"] = Absent THEN 0 ELSE state["Number"]
NextNumber(state) ==
    IF state["LastBlock"] = Absent THEN 1
    ELSE (CHOOSE b \in blocks : b.id = state["LastBlock"]).number + 1
-----------------------------------------------------------------------------
(* The author *)

\* propose_state_update: a clone of the state with its diff, which may still hold
\* what was written since the last block; prepare_state_function (the time it also sets
\* is a key like the block number).
load_cloned(w) ==
    /\ author = "none" /\ Cardinality(blocks) < MaxStateBlocks
    /\ author' = w /\ writes' = 0
    /\ clone' = insert(reset_events(ext[w]), "Number", NumberOf(ext[w].state) + 1)
    /\ base' = ext[w].state
    /\ UNCHANGED <<ext, environment, transaction, blocks>>

\* set_and_run_with_externalities: the thread's externalities are those of the clone
\* until the closure ends.
execute_with ==
    /\ author # "none" /\ ~environment /\ writes < MaxWrites
    /\ environment' = TRUE
    /\ UNCHANGED <<ext, clone, base, author, transaction, blocks, writes>>

storage_write(e) ==
    /\ environment /\ writes < MaxWrites /\ writes' = writes + 1
    /\ clone' = e
    /\ UNCHANGED <<ext, base, author, environment, transaction, blocks>>

\* sp_io::storage, by the runtime.
storage_call ==
    \/ \E k \in CallKeys, v \in 0 .. 1 : storage_write(insert(clone, k, v))
    \/ \E k \in CallKeys : storage_write(remove(clone, k))
    \/ storage_write(append(clone, "Events"))
    \/ storage_write(clear_prefix(clone, EventTopics))

\* A dispatch opens a transaction, and rolls it back when it fails. All three are
\* unimplemented: what was written stays.
start_transaction ==
    /\ environment /\ transaction = NoTransaction
    /\ transaction' = clone.state
    /\ UNCHANGED <<ext, clone, base, author, environment, blocks, writes>>

commit_transaction ==
    /\ environment /\ transaction # NoTransaction
    /\ transaction' = NoTransaction
    /\ UNCHANGED <<ext, clone, base, author, environment, blocks, writes>>

rollback_transaction ==
    /\ environment /\ transaction # NoTransaction
    /\ transaction' = NoTransaction /\ writes' = MaxWrites
    /\ UNCHANGED <<ext, clone, base, author, environment, blocks>>

leave_environment ==
    /\ environment /\ transaction = NoTransaction
    /\ environment' = FALSE
    /\ UNCHANGED <<ext, clone, base, author, transaction, blocks, writes>>

\* compose_block, with the whole diff of the clone. The clone is dropped: the author
\* gets its block as the others do.
compose_sidechain_block ==
    LET number == NextNumber(clone.state) IN
    /\ author # "none" /\ ~environment
    /\ author' = "none" /\ clone' = Empty /\ base' = Empty.state /\ writes' = 0
    /\ blocks' = IF number # NumberOf(clone.state) THEN blocks
                 ELSE blocks \cup {[id |-> Cardinality(blocks) + 1, number |-> number,
                                    payload |-> StateUpdateOf(base, clone.state, clone.diff)]}
    /\ UNCHANGED <<ext, environment, transaction>>
-----------------------------------------------------------------------------
(* Every worker *)

\* The hashes are not compared.
SameHash_mut(state, hash) == TRUE

SameHash(state, hash) == state = hash

\* apply_state_update fails, with the state as it was, unless both hashes match; the
\* diff is pruned; then set_last_block, which begins the next diff.
import_block(w, b) ==
    LET updated == ApplyDiff(ext[w].state, b.payload.state_update) IN
    /\ SameHash(ext[w].state, b.payload.state_hash_apriori)
    /\ SameHash(updated, b.payload.state_hash_aposteriori)
    /\ ext' = [ext EXCEPT ![w] =
                  set_last_block(prune_state_diff([state |-> updated, diff |-> ext[w].diff]), b)]
    /\ UNCHANGED <<clone, base, author, environment, transaction, blocks, writes>>

\* update_parentchain_integritee_block writes the header, also while a block is made.
update_parentchain_block(w) ==
    /\ ext[w].state["ParentchainBlock"] < 1
    /\ ext' = [ext EXCEPT ![w] = insert(@, "ParentchainBlock", @.state["ParentchainBlock"] + 1)]
    /\ UNCHANGED <<clone, base, author, environment, transaction, blocks, writes>>

SidechainStateNext ==
    \/ execute_with \/ storage_call \/ start_transaction \/ commit_transaction \/ rollback_transaction
    \/ leave_environment \/ compose_sidechain_block
    \/ \E w \in StateWorkers :
          load_cloned(w) \/ update_parentchain_block(w) \/ \E b \in blocks : import_block(w, b)
-----------------------------------------------------------------------------
\* A block can be imported by whoever has the state it was made on, whatever its calls
\* wrote, appended, removed and cleared: the diff leads from the one hash to the other.
DiffLeadsToState ==
    \A b \in blocks :
        ApplyDiff(b.payload.state_hash_apriori, b.payload.state_update) = b.payload.state_hash_aposteriori

\* Workers with the same last block have the same state, but for the parentchain header
\* that each writes in its own time.
WorkersConverge ==
    \A v, w \in StateWorkers : ext[v].state["LastBlock"] = ext[w].state["LastBlock"] =>
        \A k \in StoreKeys \ {"ParentchainBlock"} : ext[v].state[k] = ext[w].state[k]

\* State diffs are what workers agree by: a block's diff leads everybody who has its
\* parent's state to the same state.
StatesAgree == DiffLeadsToState /\ WorkersConverge
=============================================================================
