---------------------------- MODULE StateHandler ----------------------------
(***************************************************************************)
(* The state of one shard: StateHandler with its map of states in memory,  *)
(* the snapshot repository with its files, the loader that runs at every   *)
(* start, and the observer from which getters read.                        *)
(*                                                                         *)
(* A state is known by its version, the number of mutations that made it.  *)
(* The threads that mutate it (slot thread, import of a target             *)
(* parentchain, set-up calls) hold the lock of the map from                *)
(* load_for_mutation until the new state is in the map, and not while its  *)
(* snapshot is written.  State ids come from a clock that advances.        *)
(***************************************************************************)
EXTENDS Integers, Sequences, FiniteSets

CONSTANTS
    Mutators,            \* threads that mutate the state
    Observers,           \* threads that observe it
    SnapshotCacheSize,   \* STATE_SNAPSHOTS_CACHE_SIZE
    MaxStateIds,         \* bound of the model: snapshots ever written
    MaxStateFaults       \* bound of the model: crashes and failing file operations

ASSUME StateHandlerAssumption ==
    /\ IsFiniteSet(Mutators) /\ IsFiniteSet(Observers) /\ "unlocked" \notin Mutators
    /\ SnapshotCacheSize \in Nat \ {0} /\ MaxStateIds \in Nat /\ MaxStateFaults \in Nat

VARIABLES
    stateUp,         \* the enclave runs and has loaded its snapshots
    stateInMap,      \* states_map: the version, or NoState
    mapLock,         \* who holds states_map_lock for writing
    mutation,        \* mutator -> where it is
    snapshotHistory, \* the shard's snapshots, latest first, or NoShard
    stateFiles,      \* state id -> version in the file, or Torn
    stateClock,      \* the last state id
    queuedUpdate,    \* queued_state_updates of the observer
    currentState,    \* current_state of the observer
    drained,         \* observer -> the update it has taken off the queue
    durable,         \* history: the latest version whose snapshot was completed
    mutators,        \* history: who mutated so far
    observers,       \* history: who observed so far
    stateFaults      \* faults so far

stateHandlerVars == <<stateUp, stateInMap, mapLock, mutation, snapshotHistory, stateFiles,
                      stateClock, queuedUpdate, currentState, drained, durable, mutators,
                      observers, stateFaults>>
repositoryVars == <<snapshotHistory, stateFiles, stateClock, durable>>
observerVars == <<queuedUpdate, currentState, drained, observers>>

NoState == -1
InitialState == 0
NoShard == <<>>
Torn == -2
AtRest == [at |-> "rest"]
NoLock == "unlocked"

StateHandlerInit ==
    /\ stateUp = FALSE /\ stateInMap = NoState /\ mapLock = NoLock
    /\ mutation = [m \in Mutators |-> AtRest]
    /\ snapshotHistory = NoShard /\ stateFiles = <<>> /\ stateClock = 0
    /\ queuedUpdate = NoState /\ currentState = NoState
    /\ drained = [o \in Observers |-> NoState]
    /\ durable = NoState /\ mutators = {} /\ observers = {} /\ stateFaults = 0
-----------------------------------------------------------------------------
(* The loader, and what the enclave makes of the repository at its start. *)

state_ids_for_shard == DOMAIN stateFiles

\* load: a file that was not written to its end cannot be decrypted and decoded.
Loadable(id) == stateFiles[id] # Torn

\* The file io's write: a new file that is torn until it is complete.
io_write(id, content) ==
    [i \in state_ids_for_shard \cup {id} |-> IF i = id THEN content ELSE stateFiles[i]]

load_latest(history) == IF history = NoShard THEN NoState ELSE Head(history).hash

\* A file that cannot be decoded counts as a snapshot.
map_to_snapshot_metadata_mut ==
    LET ids == state_ids_for_shard
    IN  [i \in 1 .. Cardinality(ids) |->
            LET id == CHOOSE x \in ids : Cardinality({y \in ids : y > x}) = i - 1
            IN  [hash |-> 0, id |-> id]]

\* The state ids in the directory of the shard, latest first; a file that cannot
\* be decrypted and decoded is ignored.
map_to_snapshot_metadata ==
    LET ids == {id \in state_ids_for_shard : Loadable(id)}
    IN  [i \in 1 .. Cardinality(ids) |->
            LET id == CHOOSE x \in ids : Cardinality({y \in ids : y > x}) = i - 1
            IN  [hash |-> stateFiles[id], id |-> id]]

\* The latest file decides, valid or not.
load_and_initialize_mut ==
    LET ids == state_ids_for_shard
    IN  IF ids # {} /\ Loadable(CHOOSE x \in ids : \A y \in ids : y <= x)
        THEN map_to_snapshot_metadata ELSE <<>>

\* The history the loader finds: none without a directory or a valid file.
load_and_initialize == map_to_snapshot_metadata

initialize_state_observer(history) == currentState' = load_latest(history)

\* load_snapshot_repository, load_from_repository and initialize_state_observer.
\* A shard without a valid file gets the initial state, in a new file.
load_snapshot_repository ==
    LET found == load_and_initialize
        id == stateClock + 1
        initial == found = <<>> /\ state_ids_for_shard # {}
        history == IF initial THEN <<[hash |-> InitialState, id |-> id]>> ELSE found
    IN  /\ ~stateUp /\ stateUp' = TRUE
        /\ snapshotHistory' = history
        /\ stateFiles' = IF initial THEN io_write(id, InitialState) ELSE stateFiles
        /\ stateClock' = IF initial THEN id ELSE stateClock
        /\ durable' = IF initial /\ durable = NoState THEN InitialState ELSE durable
        /\ stateInMap' = load_latest(history)
        /\ initialize_state_observer(history)
        /\ UNCHANGED <<mapLock, mutation, queuedUpdate, drained, mutators, observers, stateFaults>>
-----------------------------------------------------------------------------
(* Mutations *)

ToMap(m, state) == mutation' = [mutation EXCEPT ![m] = [at |-> "map", state |-> state]]

\* initialize_shard, when the service starts and finds no state of the shard.
initialize_shard(m) ==
    /\ stateUp /\ stateInMap = NoState /\ mapLock = NoLock /\ mutation[m] = AtRest
    /\ stateInMap' = InitialState
    /\ ToMap(m, InitialState)
    /\ mutators' = mutators \cup {m}
    /\ UNCHANGED <<stateUp, mapLock, stateFaults, repositoryVars, observerVars>>

\* The state is copied under the lock, and the lock given up.
load_for_mutation_mut(m) ==
    /\ stateUp /\ stateInMap # NoState /\ mapLock = NoLock /\ mutation[m] = AtRest
    /\ mutation' = [mutation EXCEPT ![m] = [at |-> "mutating", state |-> stateInMap]]
    /\ mutators' = mutators \cup {m}
    /\ UNCHANGED <<stateUp, stateInMap, mapLock, stateFaults, repositoryVars, observerVars>>

load_for_mutation(m) ==
    /\ stateUp /\ stateInMap # NoState /\ mapLock = NoLock /\ mutation[m] = AtRest
    /\ mapLock' = m
    /\ mutation' = [mutation EXCEPT ![m] = [at |-> "mutating", state |-> stateInMap]]
    /\ mutators' = mutators \cup {m}
    /\ UNCHANGED <<stateUp, stateInMap, stateFaults, repositoryVars, observerVars>>

\* The mutation fails: the lock is dropped and nothing is written.
drop_mutation(m) ==
    /\ mutation[m].at = "mutating"
    /\ mapLock' = NoLock
    /\ mutation' = [mutation EXCEPT ![m] = AtRest]
    /\ UNCHANGED <<stateUp, stateInMap, mutators, stateFaults, repositoryVars, observerVars>>

\* write_after_mutation, up to the drop of the lock.
write_after_mutation(m) ==
    /\ mutation[m].at = "mutating"
    /\ stateInMap' = mutation[m].state + 1
    /\ mapLock' = NoLock
    /\ ToMap(m, mutation[m].state + 1)
    /\ UNCHANGED <<stateUp, mutators, stateFaults, repositoryVars, observerVars>>

\* The lock that update_state_snapshot takes.
RepositoryFree == \A m \in Mutators : mutation[m].at # "file"

\* update takes the repository's lock and creates the file.
write_new_state(m) ==
    LET id == stateClock + 1 IN
    /\ mutation[m].at = "map" /\ RepositoryFree /\ id <= MaxStateIds
    /\ stateClock' = id
    /\ stateFiles' = io_write(id, Torn)
    /\ mutation' = [mutation EXCEPT ![m] = [at |-> "file", state |-> mutation[m].state, id |-> id]]
    /\ UNCHANGED <<stateUp, stateInMap, mapLock, mutators, stateFaults, snapshotHistory, durable, observerVars>>

\* The most recent snapshots are drained instead of the oldest.
retained_mut(history) ==
    IF Len(history) > SnapshotCacheSize
    THEN SubSeq(history, Len(history) - SnapshotCacheSize + 1, Len(history)) ELSE history

\* What prune_snapshot_history_by_range(cache_size ..) leaves of the history.
retained(history) ==
    IF Len(history) > SnapshotCacheSize THEN SubSeq(history, 1, SnapshotCacheSize) ELSE history

IdsIn(history) == {history[i].id : i \in 1 .. Len(history)}

\* The file is complete, the history updated and pruned. A file that cannot be
\* removed stays where it is.
update(m) ==
    LET entry == [hash |-> mutation[m].state, id |-> mutation[m].id]
        history == <<entry>> \o snapshotHistory
        pruned == IdsIn(history) \ IdsIn(retained(history))
        written == io_write(mutation[m].id, mutation[m].state)
    IN  /\ mutation[m].at = "file"
        /\ snapshotHistory' = retained(history)
        /\ \E stays \in SUBSET pruned :
              /\ stateFaults' = stateFaults + Cardinality(stays) /\ stateFaults' <= MaxStateFaults
              /\ stateFiles' = [i \in DOMAIN written \ (pruned \ stays) |-> written[i]]
        /\ durable' = IF durable > entry.hash THEN durable ELSE entry.hash
        /\ mutation' = [mutation EXCEPT ![m] = [at |-> "snapshot", state |-> mutation[m].state]]
        /\ UNCHANGED <<stateUp, stateInMap, mapLock, mutators, stateClock, observerVars>>

\* The write fails: the map keeps the new state, the observer does not hear of it.
write_fails(m) ==
    /\ mutation[m].at = "file" /\ stateFaults < MaxStateFaults
    /\ stateFaults' = stateFaults + 1
    /\ mutation' = [mutation EXCEPT ![m] = AtRest]
    /\ UNCHANGED <<stateUp, stateInMap, mapLock, mutators, repositoryVars, observerVars>>

\* An update that waits is kept.
queue_state_update_mut(m) ==
    /\ mutation[m].at = "snapshot"
    /\ queuedUpdate' = IF queuedUpdate = NoState THEN mutation[m].state ELSE queuedUpdate
    /\ mutation' = [mutation EXCEPT ![m] = AtRest]
    /\ UNCHANGED <<stateUp, stateInMap, mapLock, mutators, stateFaults, repositoryVars, currentState, drained, observers>>

queue_state_update(m) ==
    /\ mutation[m].at = "snapshot"
    /\ queuedUpdate' = mutation[m].state
    /\ mutation' = [mutation EXCEPT ![m] = AtRest]
    /\ UNCHANGED <<stateUp, stateInMap, mapLock, mutators, stateFaults, repositoryVars, currentState, drained, observers>>
-----------------------------------------------------------------------------
(* Observation, and the crash of the worker *)

\* apply_pending_update drains the queue, and lets go of its lock.
drain_updates(o) ==
    /\ stateUp /\ drained[o] = NoState /\ queuedUpdate # NoState
    /\ drained' = [drained EXCEPT ![o] = queuedUpdate]
    /\ queuedUpdate' = NoState
    /\ observers' = observers \cup {o}
    /\ UNCHANGED <<stateUp, stateInMap, mapLock, mutation, mutators, stateFaults, repositoryVars, currentState>>

\* Then the update becomes the current state, which observe_state shows.
apply_pending_update(o) ==
    /\ drained[o] # NoState
    /\ currentState' = drained[o]
    /\ drained' = [drained EXCEPT ![o] = NoState]
    /\ UNCHANGED <<stateUp, stateInMap, mapLock, mutation, mutators, stateFaults, repositoryVars, queuedUpdate, observers>>

\* The crash loses the memory; a file that was being written stays torn.
crash_state ==
    /\ stateUp /\ stateFaults < MaxStateFaults
    /\ stateFaults' = stateFaults + 1
    /\ stateUp' = FALSE /\ stateInMap' = NoState /\ mapLock' = NoLock
    /\ mutation' = [m \in Mutators |-> AtRest]
    /\ snapshotHistory' = NoShard
    /\ queuedUpdate' = NoState /\ currentState' = NoState
    /\ drained' = [o \in Observers |-> NoState]
    /\ UNCHANGED <<stateFiles, stateClock, durable, mutators, observers>>

StateHandlerNext ==
    \/ load_snapshot_repository
    \/ \E m \in Mutators :
          \/ initialize_shard(m) \/ load_for_mutation(m) \/ drop_mutation(m) \/ write_after_mutation(m)
          \/ write_new_state(m) \/ update(m) \/ write_fails(m) \/ queue_state_update(m)
    \/ \E o \in Observers : drain_updates(o) \/ apply_pending_update(o)
    \/ crash_state
-----------------------------------------------------------------------------
StateHandlerTypeOK ==
    /\ stateUp \in BOOLEAN /\ stateInMap \in Int /\ mapLock \in Mutators \cup {NoLock}
    /\ \A m \in Mutators : mutation[m].at \in {"rest", "mutating", "map", "file", "snapshot"}
    /\ \A id \in DOMAIN stateFiles : id \in 1 .. stateClock /\ stateFiles[id] \in Int
    /\ queuedUpdate \in Int /\ currentState \in Int /\ stateFaults \in 0 .. MaxStateFaults

AllAtRest == \A m \in Mutators : mutation[m] = AtRest

\* What the history lists can be loaded: for every snapshot in memory there is a
\* whole file with the state of its hash, and snapshots are never more than the
\* cache holds, those of failed removals aside (update, load_latest).
HistoryOnDisk ==
    stateUp /\ snapshotHistory # NoShard =>
        /\ \A i \in 1 .. Len(snapshotHistory) :
              /\ snapshotHistory[i].id \in DOMAIN stateFiles
              /\ stateFiles[snapshotHistory[i].id] = snapshotHistory[i].hash
        /\ Len(snapshotHistory) <= SnapshotCacheSize + stateFaults
        /\ \A i, j \in 1 .. Len(snapshotHistory) : i < j => snapshotHistory[i].id > snapshotHistory[j].id

\* The state in memory is among the snapshots once every writer is done and no
\* write failed, however their snapshots were ordered (write_after_mutation drops
\* the lock of the map before it writes the snapshot).
MemoryIsOnDisk ==
    stateUp /\ stateInMap # NoState /\ AllAtRest /\ stateFaults = 0 =>
        \E i \in 1 .. Len(snapshotHistory) : snapshotHistory[i].hash = stateInMap

\* With one thread that mutates, a start restores the last state whose snapshot
\* was complete, or a later one: a crash in the middle of a write costs that write.
RestartKeepsSnapshots ==
    [][load_snapshot_repository /\ durable # NoState /\ Cardinality(mutators) = 1
          => stateInMap' >= durable]_stateHandlerVars

\* Two threads that mutate never start from the same state: each version but the
\* initial one is written to the map once, and after the version before it.
MutationsInSequence ==
    [][stateUp /\ stateUp' /\ stateInMap # NoState => stateInMap' \in {stateInMap, stateInMap + 1}]_stateHandlerVars

\* While one thread mutates and one observes, nothing a getter could be shown is
\* lost: once the mutations are done and no write failed, the state in memory is
\* the update that waits, or is shown (queue_state_update, apply_pending_update).
ObserverConverges ==
    stateUp /\ AllAtRest /\ stateFaults = 0 /\ Cardinality(mutators) <= 1 /\ Cardinality(observers) <= 1 =>
        LET pending == {drained[o] : o \in Observers} \ {NoState}
        IN  stateInMap = IF queuedUpdate # NoState THEN queuedUpdate
                         ELSE IF pending # {} THEN CHOOSE v \in pending : TRUE ELSE currentState

\* What the handler, the files and the observer promise together: the history is
\* on disk and holds what is in memory, the observer gets to see it, mutations come
\* one after the other and a restart finds the snapshots.
StateIsKept ==
    /\ [](StateHandlerTypeOK /\ HistoryOnDisk /\ MemoryIsOnDisk /\ ObserverConverges)
    /\ RestartKeepsSnapshots /\ MutationsInSequence
=============================================================================
