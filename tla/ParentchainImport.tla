-------------------------- MODULE ParentchainImport --------------------------
(***************************************************************************)
(* How the blocks of the integritee parentchain get into one worker: the   *)
(* sync thread of the service fetches them in chunks, the triggered        *)
(* dispatcher queues blocks and events under two separate locks, and the   *)
(* slot thread pops and imports them.  At the start of the primary worker  *)
(* the chunks are imported at once.                                        *)
(*                                                                         *)
(* A block is its number, the events of block n are n, 0 is an empty event *)
(* vector.  The light client (module LightClient) is the last header in    *)
(* memory and the one that was sealed.                                     *)
(***************************************************************************)
EXTENDS Integers, Sequences, FiniteSets

CONSTANTS
    MaxHeight,      \* bound: parentchain blocks
    Batch,          \* BLOCK_SYNC_BATCH_SIZE
    MaxCrashes,     \* bound: crashes of the worker
    MaxFailures     \* bound: failing requests, imports and file writes

ASSUME ImportAssumption ==
    /\ MaxHeight \in Nat \ {0} /\ Batch \in Nat \ {0}
    /\ MaxCrashes \in Nat /\ MaxFailures \in Nat

Heights == 1 .. MaxHeight
NoEvents == 0

VARIABLES
    finalized,      \* the latest finalized block
    touched,        \* the parentchain has a status for the shard
    thread,         \* the sync thread, or the start-up
    until,          \* block that registers the enclave at this start
    synced,         \* last_synced_header of the sync thread
    chunk,          \* blocks whose events are pushed, and which are not yet
    events_queue, import_queue,
    importer,       \* where import_until and import_parentchain_blocks are
    pending,        \* popped blocks, with their events once these are popped
    calls,          \* confirmations gathered by the import that runs
    lc, sealed,     \* last header of the light client, in memory and on disk
    creation,       \* shard creation block in the state, 0 if there is none
    state,          \* parentchain block in the state
    done,           \* history: blocks whose indirect calls were executed
    confirmed,      \* history: blocks whose confirmations were sent
    crashes, failures

chain == <<finalized, touched>>
sync == <<thread, until, synced, chunk>>
queues == <<events_queue, import_queue>>
disk == <<sealed, creation, state>>
history == <<done, confirmed>>
vars == <<chain, sync, queues, importer, pending, calls, lc, disk, history, crashes, failures>>

\* The variables have their types, and nothing that is not finalized gets into the
\* worker.
TypeOK ==
    /\ finalized \in 0 .. MaxHeight /\ touched \in BOOLEAN
    /\ thread \in {"down", "immediate", "subscribed", "pushing", "terminated"}
    /\ until \in 0 .. finalized /\ synced \in 0 .. finalized
    /\ chunk \in Seq(Heights) /\ import_queue \in Seq(Heights)
    /\ events_queue \in Seq(0 .. MaxHeight)
    /\ importer \in {"idle", "popped", "submit", "update", "execute", "send"}
    /\ pending \in Seq([block : Heights, events : 0 .. MaxHeight])
    /\ calls \in Seq(Heights)
    /\ lc \in 0 .. finalized /\ sealed \in 0 .. finalized
    /\ creation \in 0 .. finalized /\ state \in 0 .. finalized
    /\ done \in Seq([block : Heights, events : 0 .. MaxHeight])
    /\ confirmed \in Seq(Heights)
    /\ crashes \in 0 .. MaxCrashes /\ failures \in 0 .. MaxFailures

Init ==
    /\ finalized \in {0, 1} /\ touched = FALSE
    /\ thread = "down" /\ until = 0 /\ synced = 0 /\ chunk = <<>>
    /\ events_queue = <<>> /\ import_queue = <<>>
    /\ importer = "idle" /\ pending = <<>> /\ calls = <<>>
    /\ lc = 0 /\ sealed = 0 /\ creation = 0 /\ state = 0
    /\ done = <<>> /\ confirmed = <<>>
    /\ crashes = 0 /\ failures = 0

-----------------------------------------------------------------------------
(* The parentchain.                                                        *)

Finalize ==
    /\ finalized < MaxHeight
    /\ finalized' = finalized + 1
    /\ UNCHANGED <<touched, sync, queues, importer, pending, calls, lc, disk, history,
                   crashes, failures>>

\* An extrinsic of the worker (its shard config, a confirmation) is included.
Touch ==
    /\ ~touched /\ creation # 0
    /\ touched' = TRUE
    /\ UNCHANGED <<finalized, sync, queues, importer, pending, calls, lc, disk, history,
                   crashes, failures>>

-----------------------------------------------------------------------------
(* Start of the worker.                                                    *)

\* The light client is unsealed, the enclave registers itself in a new block and
\* waits for its finality.  It becomes the creation block of a shard that the
\* parentchain does not know; the state of such a shard is initialised again.  The
\* primary worker then imports up to that block at once, the others only subscribe,
\* with a light client that was provisioned or sealed behind the creation block.
Start(register, primary) ==
    /\ thread = "down" /\ register > finalized
    /\ ~primary => touched /\ sealed >= creation
    /\ lc' = sealed /\ synced' = sealed
    /\ until' = register /\ finalized' = register
    /\ IF touched
       THEN UNCHANGED <<creation, state, done>>
       ELSE creation' = register /\ state' = 0 /\ done' = <<>>
    /\ thread' = IF primary THEN "immediate" ELSE "subscribed"
    /\ UNCHANGED <<touched, chunk, queues, importer, pending, calls, sealed, confirmed,
                   crashes, failures>>

\* The memory of the worker is lost.
Down ==
    /\ thread' = "down" /\ chunk' = <<>>
    /\ events_queue' = <<>> /\ import_queue' = <<>>
    /\ importer' = "idle" /\ pending' = <<>> /\ calls' = <<>>
    /\ UNCHANGED <<until, synced, lc>>

Crash ==
    /\ thread # "down" /\ crashes < MaxCrashes
    /\ crashes' = crashes + 1
    /\ Down
    /\ UNCHANGED <<chain, disk, history, failures>>

-----------------------------------------------------------------------------
(* sync_parentchain_until_latest_finalized                                 *)

Smaller(a, b) == IF a < b THEN a ELSE b

\* Mutant: the chunk is not cut at the latest finalized block.
ChunkEnds_mut == {synced + Batch}

\* The end of the next chunk: the latest finalized block was asked for before,
\* and more may be finalized since.
ChunkEnds == synced + 1 .. Smaller(synced + Batch, finalized)

Blocks(to) == [i \in 1 .. to - synced |-> synced + i]

\* Mutant: off by one, the creation block itself is skipped.
Events_mut(to) == IF to <= creation THEN <<>> ELSE Blocks(to)

\* No events are fetched for a chunk that is older than the shard.
Events(to) == IF to < creation THEN <<>> ELSE Blocks(to)

\* The enclave is handed a chunk, also behind the block waited for, as far as the
\* chain was finalized when it was asked.  In import_parentchain_blocks a block without
\* events gets an empty vector.
ImportImmediately(to) ==
    /\ thread = "immediate" /\ importer = "idle"
    /\ to \in ChunkEnds
    /\ pending' = [i \in 1 .. to - synced |->
                     [block |-> synced + i,
                      events |-> IF Events(to) = <<>> THEN NoEvents ELSE Events(to)[i]]]
    /\ importer' = "submit"
    /\ synced' = to
    /\ UNCHANGED <<chain, thread, until, chunk, queues, calls, lc, disk, history,
                   crashes, failures>>

\* await_sync_and_import_parentchain_until_at_least is through, block production
\* and the header subscription start.
Subscribe ==
    /\ thread = "immediate" /\ importer = "idle" /\ synced >= until
    /\ thread' = "subscribed"
    /\ UNCHANGED <<chain, until, synced, chunk, queues, importer, pending, calls, lc, disk,
                   history, crashes, failures>>

\* dispatch_import, up to the first push.
PushEvents(to) ==
    /\ thread = "subscribed"
    /\ to \in ChunkEnds
    /\ events_queue' = events_queue \o Events(to)
    /\ chunk' = Blocks(to)
    /\ thread' = "pushing"
    /\ synced' = to
    /\ UNCHANGED <<chain, until, import_queue, importer, pending, calls, lc, disk, history,
                   crashes, failures>>

PushBlocks ==
    /\ thread = "pushing"
    /\ import_queue' = import_queue \o chunk
    /\ chunk' = <<>>
    /\ thread' = "subscribed"
    /\ UNCHANGED <<chain, until, synced, events_queue, importer, pending, calls, lc, disk,
                   history, crashes, failures>>

\* A request to the node fails, or the subscription ends.  The thread is not
\* started again; at the start-up the worker panics.
SyncFails ==
    /\ failures < MaxFailures
    /\ failures' = failures + 1
    /\ \/ thread = "immediate" /\ importer = "idle" /\ Down
       \/ /\ thread = "subscribed" /\ thread' = "terminated"
          /\ UNCHANGED <<until, synced, chunk, queues, importer, pending, calls, lc>>
    /\ UNCHANGED <<chain, disk, history, crashes>>

-----------------------------------------------------------------------------
(* import_until                                                            *)

\* The slot worker runs.
Producing == thread \in {"subscribed", "pushing", "terminated"}

\* Mutant: the block that was asked for stays in the queue.
pop_until_mut(k) == k - 1

\* The number of blocks drained when the k-th is the one that is asked for.
pop_until(k) == k

\* Without a block that matches nothing is popped, and nothing changes.
PopBlocks(k) ==
    /\ Producing /\ importer = "idle"
    /\ k \in 1 .. Len(import_queue)
    /\ LET n == pop_until(k) IN
       /\ pending' = [i \in 1 .. n |-> [block |-> import_queue[i], events |-> NoEvents]]
       /\ import_queue' = SubSeq(import_queue, n + 1, Len(import_queue))
    /\ importer' = "popped"
    /\ UNCHANGED <<chain, sync, events_queue, calls, lc, disk, history, crashes, failures>>

\* The import ends, with or without an error, and what is left of it is dropped.
\* An error at the start-up is a panic.
Return(failed) ==
    IF failed /\ thread = "immediate" THEN Down
    ELSE /\ importer' = "idle" /\ pending' = <<>> /\ calls' = <<>>
         /\ UNCHANGED <<sync, queues, lc>>

\* pop_from_front_until takes as many events as blocks, or fails.
PopEvents ==
    /\ importer = "popped"
    /\ IF Len(pending) <= Len(events_queue)
       THEN /\ pending' = [i \in DOMAIN pending |-> [pending[i] EXCEPT !.events = events_queue[i]]]
            /\ events_queue' = SubSeq(events_queue, Len(pending) + 1, Len(events_queue))
            /\ importer' = IF pending = <<>> THEN "send" ELSE "submit"
            /\ UNCHANGED <<sync, import_queue, calls, lc>>
       ELSE Return(TRUE)
    /\ UNCHANGED <<chain, disk, history, crashes, failures>>

-----------------------------------------------------------------------------
(* import_parentchain_blocks                                               *)

Block == Head(pending).block

\* The next block, or the extrinsics if there is none.
NextBlock ==
    /\ pending' = Tail(pending)
    /\ importer' = IF Tail(pending) = <<>> THEN "send" ELSE "submit"

\* Mutant: the ancestry is not checked.
IsChild_mut(b) == b > lc

\* submit_block takes the child of the last header only.
IsChild(b) == b = lc + 1

\* Mutant: the light client is accessed without sealing it.
SealedBy_mut(b) == sealed

\* execute_mut_on_validator seals the last header, after an error of submit_block too.
SealedBy(b) == b

\* A block older than the shard is done with.
SubmitBlock ==
    /\ importer = "submit"
    /\ IF IsChild(Block)
       THEN /\ lc' = Block /\ sealed' = SealedBy(Block)
            /\ IF Block < creation THEN NextBlock
               ELSE importer' = "update" /\ UNCHANGED pending
            /\ UNCHANGED <<sync, queues, calls>>
       ELSE Return(TRUE) /\ sealed' = SealedBy(lc)
    /\ UNCHANGED <<chain, creation, state, history, crashes, failures>>

\* The justification is invalid (the header is in all the same), or the seal
\* fails and the header is in memory only.
SubmitFails(durable) ==
    /\ importer = "submit" /\ failures < MaxFailures
    /\ failures' = failures + 1
    /\ LET last == IF IsChild(Block) THEN Block ELSE lc IN
       /\ sealed' = IF durable THEN last ELSE sealed
       /\ IF thread = "immediate" THEN Down
          ELSE /\ lc' = last
               /\ importer' = "idle" /\ pending' = <<>> /\ calls' = <<>>
               /\ UNCHANGED <<sync, queues>>
    /\ UNCHANGED <<chain, creation, state, history, crashes>>

UpdateStates ==
    /\ importer = "update"
    /\ state' = Block
    /\ importer' = "execute"
    /\ UNCHANGED <<chain, sync, queues, pending, calls, lc, sealed, creation, history,
                   crashes, failures>>

\* Before the state is written, or after it, with the new shards.
UpdateStatesFails ==
    /\ importer = "update" /\ failures < MaxFailures
    /\ failures' = failures + 1
    /\ state' \in {state, Block}
    /\ Return(TRUE)
    /\ UNCHANGED <<chain, sealed, creation, history, crashes>>

\* execute_indirect_calls_in_extrinsics; after an error, which is only logged,
\* some calls may have been executed or none, and there is no confirmation.
Execute(succeeds) ==
    /\ importer = "execute"
    /\ succeeds \/ failures < MaxFailures
    /\ failures' = IF succeeds THEN failures ELSE failures + 1
    /\ done' \in {Append(done, Head(pending))} \cup (IF succeeds THEN {} ELSE {done})
    /\ calls' = IF succeeds THEN Append(calls, Block) ELSE calls
    /\ NextBlock
    /\ UNCHANGED <<chain, sync, queues, lc, disk, confirmed, crashes>>

\* create_extrinsics and send_extrinsics; when the seal that follows fails, they are
\* sent all the same.
SendExtrinsics(succeeds) ==
    /\ importer = "send"
    /\ succeeds \/ failures < MaxFailures
    /\ failures' = IF succeeds THEN failures ELSE failures + 1
    /\ confirmed' \in {confirmed \o calls} \cup (IF succeeds THEN {} ELSE {confirmed})
    /\ Return(~succeeds)
    /\ UNCHANGED <<chain, disk, done, crashes>>

-----------------------------------------------------------------------------
Importer ==
    \/ PopEvents \/ SubmitBlock \/ (\E durable \in BOOLEAN : SubmitFails(durable))
    \/ UpdateStates \/ UpdateStatesFails
    \/ \E succeeds \in BOOLEAN : Execute(succeeds) \/ SendExtrinsics(succeeds)

SyncThread ==
    \/ \E to \in Heights : ImportImmediately(to) \/ PushEvents(to)
    \/ Subscribe \/ PushBlocks

Next ==
    \/ Finalize \/ Touch
    \/ \E register \in Heights, primary \in BOOLEAN : Start(register, primary)
    \/ Crash
    \/ SyncThread \/ SyncFails
    \/ \E k \in Heights : PopBlocks(k)
    \/ Importer

Spec == Init /\ [][Next]_vars

\* A slot whose block refers to the latest queued parentchain block comes again and
\* again, and the threads run.
FairSpec ==
    /\ Spec
    /\ WF_vars(SyncThread) /\ WF_vars(Importer)
    /\ WF_vars(PopBlocks(Len(import_queue)))
    /\ WF_vars(\E register \in Heights : Start(register, TRUE))
-----------------------------------------------------------------------------
(* Properties.                                                             *)

\* The indirect calls of a block are executed with the block's own events, although
\* blocks and events go through two queues that are locked one after the other by
\* both threads, and imports fail half way.
EventsMatch == \A i \in DOMAIN done : done[i].events = done[i].block

Increasing(s) == \A i, j \in DOMAIN s : i < j => s[i] < s[j]

\* No shielding is executed twice and no block confirmed twice, whatever fails and
\* wherever the worker crashes: after a restart it goes on behind every block that
\* had an effect.
CallsOnce ==
    /\ Increasing([i \in DOMAIN done |-> done[i].block])
    /\ Increasing(confirmed)
    /\ \A i \in DOMAIN done : done[i].block <= sealed

\* The state is never ahead of the sealed light client, so that no header is given
\* to the state twice.
StateNeverAhead == thread # "down" => state <= sealed /\ sealed <= lc

Executed == {done[i].block : i \in DOMAIN done}
Skipped == {b \in Heights : creation # 0 /\ b \in creation .. lc /\ b \notin Executed}

\* Each failure or crash costs the indirect calls of one block at most, however many
\* blocks were popped with it: the rest is refused until a restart fetches it again.
NothingElseSkipped ==
    Cardinality(Skipped) <= crashes + failures + (IF importer \in {"update", "execute"} THEN 1 ELSE 0)

\* As long as nothing fails or crashes, every finalized block of the shard is eventually
\* executed and confirmed, whether it came at the start-up or through the queues.
AllExecuted ==
    \A b \in Heights :
        (finalized >= b /\ creation # 0 /\ b >= creation) ~>
            \/ b \in Executed /\ \E i \in DOMAIN confirmed : confirmed[i] = b
            \/ failures + crashes > 0

\* Every block's calls run once, with the events of their block, on a state that is not
\* ahead of what is sealed.
CallsOnceInOrder == EventsMatch /\ CallsOnce /\ StateNeverAhead
=============================================================================
