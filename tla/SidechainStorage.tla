-------------------------- MODULE SidechainStorage --------------------------
(***************************************************************************)
(* The sidechain block storage of the untrusted service: a RocksDB with an *)
(* in-memory copy of the shard list and of the last block of every shard   *)
(* (sidechain/storage).  Blocks reach it through the store_sidechain_blocks*)
(* ocall, after the enclave has committed them; a pruning loop on its own  *)
(* thread removes old ones; peers read it to synchronise.  Every public    *)
(* operation runs under one RwLock and is one action here.                 *)
(*                                                                         *)
(* The chain of a shard, as the enclave commits it, has one block per      *)
(* number, so a block and its hash are both the pair <<shard, number>>, its*)
(* parent is <<shard, number - 1>>, and number 0 is the default hash.      *)
(*                                                                         *)
(* What can go wrong is modelled too: a db.write that fails after the      *)
(* in-memory copy was changed, and a restart, also between the commit of a *)
(* block in the enclave and its ocall.                                     *)
(***************************************************************************)
EXTENDS Integers, FiniteSets

CONSTANTS
    Shards,          \* shard identifiers
    MaxNumber,       \* bound: the highest block number of any shard
    Keep,            \* SIDECHAIN_PURGE_LIMIT, the number of blocks to keep
    NumberSpace,     \* 2^64: BlockNumber is a u64 and wraps in release builds
    MaxFailures      \* bound: how many db.write calls may fail

ASSUME StorageAssumption ==
    /\ IsFiniteSet(Shards)
    /\ MaxNumber \in Nat \ {0}
    /\ Keep \in Nat
    /\ MaxFailures \in Nat
    /\ NumberSpace \in Nat /\ NumberSpace > MaxNumber + Keep

\* No entry: the Option::None of a lookup.
None == 0

Numbers == 1 .. MaxNumber

VARIABLES
    head,        \* head[s]: number of the last block the enclave committed
    unstored,    \* unstored[s]: committed, the store ocall has not run yet
    dbBlocks,    \* DB: Blockhash -> SignedBlock and (Shard, Number) -> Blockhash
    dbLast,      \* DB: (LAST_BLOCK_KEY, Shard) -> LastSidechainBlock
    dbShards,    \* DB: STORED_SHARDS_KEY -> Vec<Shard>
    last_blocks, \* memory: SidechainStorage.last_blocks
    shards,      \* memory: SidechainStorage.shards
    failures     \* history: number of failed writes so far

db == <<dbBlocks, dbLast, dbShards>>
memory == <<last_blocks, shards>>
vars == <<head, unstored, dbBlocks, dbLast, dbShards, last_blocks, shards, failures>>

Stored(s, n) == <<s, n>> \in dbBlocks

TypeOK ==
    /\ head \in [Shards -> 0 .. MaxNumber]
    /\ unstored \in [Shards -> BOOLEAN]
    /\ dbBlocks \subseteq Shards \X Numbers
    /\ dbLast \in [Shards -> 0 .. MaxNumber]
    /\ dbShards \subseteq Shards
    /\ last_blocks \in [Shards -> 0 .. MaxNumber]
    /\ shards \subseteq Shards
    /\ failures \in 0 .. MaxFailures

\* An empty database directory; the enclave's chain may already be long when
\* its state was fetched from a peer.
Init ==
    /\ head \in [Shards -> 0 .. MaxNumber]
    /\ unstored = [s \in Shards |-> FALSE]
    /\ dbBlocks = {}
    /\ dbLast = [s \in Shards |-> None]
    /\ dbShards = {}
    /\ last_blocks = [s \in Shards |-> None]
    /\ shards = {}
    /\ failures = 0

\* A u64 subtraction, wrapping as in a release build.
Sub(a, b) == IF a >= b THEN a - b ELSE a - b + NumberSpace

\* Outcome of a db.write: TRUE when the batch is applied.
Write(ok) ==
    \/ ok /\ UNCHANGED failures
    \/ ~ok /\ failures < MaxFailures /\ failures' = failures + 1

-----------------------------------------------------------------------------
(* The enclave, as far as the storage sees it.                             *)

\* import_block committed the next block of the shard; the ocall follows.
Commit(s) ==
    /\ ~unstored[s] /\ head[s] < MaxNumber
    /\ head' = [head EXCEPT ![s] = @ + 1]
    /\ unstored' = [unstored EXCEPT ![s] = TRUE]
    /\ UNCHANGED <<db, memory, failures>>

-----------------------------------------------------------------------------
(* store_blocks, called with the one block of the ocall.                   *)

\* Mutant: any later block of the shard is taken.
verify_block_ancestry_mut(s, n) == last_blocks[s] # None /\ last_blocks[s] < n

\* The block continues the numbers of its shard (the parent hash is not looked
\* at); a listed shard without a last block takes no block.
verify_block_ancestry(s, n) ==
    last_blocks[s] # None /\ last_blocks[s] = Sub(n, 1)

\* add_block_to_batch failed: the error is logged and an empty batch written.
StoreRejected(s) ==
    /\ unstored[s] /\ s \in shards /\ ~verify_block_ancestry(s, head[s])
    /\ unstored' = [unstored EXCEPT ![s] = FALSE]
    /\ UNCHANGED <<head, db, memory, failures>>

\* Mutant: the flag new_shard is never set.
ShardList_mut(s) == dbShards

\* What STORED_SHARDS_KEY holds after a block of s: the list in memory is
\* written only when it just grew.
ShardList(s) == IF s \in shards THEN dbShards ELSE shards \cup {s}

\* The block goes to the batch and its number to memory; a shard met for the
\* first time is pushed to the list.
StoreAccepted(s, ok) ==
    LET n == head[s] IN
    /\ unstored[s] /\ (s \in shards => verify_block_ancestry(s, n))
    /\ Write(ok)
    /\ unstored' = [unstored EXCEPT ![s] = FALSE]
    /\ shards' = shards \cup {s}
    /\ last_blocks' = [last_blocks EXCEPT ![s] = n]
    /\ IF ok
       THEN /\ dbBlocks' = dbBlocks \cup {<<s, n>>}
            /\ dbLast' = [dbLast EXCEPT ![s] = n]
            /\ dbShards' = ShardList(s)
       ELSE UNCHANGED db
    /\ UNCHANGED head

-----------------------------------------------------------------------------
(* Pruning.                                                                *)

\* The run of stored numbers of s that ends at `from`, going down.
RunDown(s, from) == {n \in 1 .. from : \A k \in n .. from : Stored(s, k)}

Block(s, numbers) == {<<s, n>> : n \in numbers}

\* Mutant: one block fewer is kept.
threshold_block_mut(s) == Sub(last_blocks[s] + 1, Keep)

threshold_block(s) == Sub(last_blocks[s], Keep)

\* prune_shards skips a shard without a last block.
Prunable == {s \in shards : last_blocks[s] # None}

\* The shards prune_shard_from_block_number hands on to purge_shard.
Purged == {s \in Prunable : threshold_block(s) = last_blocks[s]}

\* The blocks of s whose deletion is put into the batch: in a purge the last
\* one and those below it, otherwise those from the threshold down.
Deleted(s) ==
    IF s \in Purged
    THEN Block(s, {last_blocks[s]} \cup RunDown(s, last_blocks[s] - 1))
    ELSE IF threshold_block(s) \in Numbers
         THEN Block(s, RunDown(s, threshold_block(s)))
         ELSE {}

\* prune_shards: one batch per shard, in the order of the list, errors logged.
\* `failed` are the shards whose write fails.  Every purge drops its shard from
\* memory first and writes the list as it is then, so a purge that succeeds
\* after one that failed also writes the removal of the failed one.
PruneShards(failed, alsoRemoved) ==
    LET written == Prunable \ failed IN
    /\ failures + Cardinality(failed) <= MaxFailures
    /\ failures' = failures + Cardinality(failed)
    /\ dbBlocks' = dbBlocks \ UNION {Deleted(s) : s \in written}
    /\ dbLast' = [s \in Shards |-> IF s \in Purged \cap written THEN None ELSE dbLast[s]]
    /\ dbShards' = IF Purged \cap written = {} THEN dbShards
                   ELSE shards \ ((Purged \cap written) \cup alsoRemoved)
    /\ shards' = shards \ Purged
    /\ last_blocks' = [s \in Shards |-> IF s \in Purged THEN None ELSE last_blocks[s]]
    /\ UNCHANGED <<head, unstored>>

prune_shards ==
    \E failed \in SUBSET Prunable : \E alsoRemoved \in SUBSET (Purged \cap failed) :
        PruneShards(failed, alsoRemoved)

-----------------------------------------------------------------------------
(* Restart of the worker: load_from_base_path.  The enclave continues from *)
(* its sealed state, so an ocall that did not run never will.              *)

\* Mutant: takes the number stored for that of the next block.
load_from_base_path_mut ==
    /\ shards' = dbShards
    /\ last_blocks' = [s \in Shards |-> IF s \in dbShards THEN dbLast[s] + 1 ELSE None]
    /\ unstored' = [s \in Shards |-> FALSE]
    /\ UNCHANGED <<head, db, failures>>

load_from_base_path ==
    /\ shards' = dbShards
    /\ last_blocks' = [s \in Shards |-> IF s \in dbShards THEN dbLast[s] ELSE None]
    /\ unstored' = [s \in Shards |-> FALSE]
    /\ UNCHANGED <<head, db, failures>>

-----------------------------------------------------------------------------
(* Reads.                                                                  *)

\* The walk over parents, from the last block to the block after `from` (0 is
\* the default hash).  Mutant: it includes the starting block.
Walk_mut(s, from) == from .. last_blocks[s]

Walk(s, from) == (from + 1) .. last_blocks[s]

\* An unknown start gives no blocks; a missing last block or a missing block on
\* the walk is an error.
get_blocks_after(s, from) ==
    IF from # 0 /\ ~Stored(s, from) THEN [ok |-> TRUE, blocks |-> {}]
    ELSE IF last_blocks[s] = None \/ \E n \in Walk(s, from) : ~Stored(s, n)
         THEN [ok |-> FALSE, blocks |-> {}]
         ELSE [ok |-> TRUE, blocks |-> Walk(s, from)]

\* get_blocks_in_range: oldest first, up to and without `until`.
get_blocks_in_range(s, from, until) ==
    LET after == get_blocks_after(s, from) IN
    [after EXCEPT !.blocks = {n \in @ : until \notin @ \/ n < until}]

-----------------------------------------------------------------------------
Next ==
    \/ \E s \in Shards : Commit(s)
    \/ \E s \in Shards : StoreRejected(s)
    \/ \E s \in Shards, ok \in BOOLEAN : StoreAccepted(s, ok)
    \/ prune_shards
    \/ load_from_base_path

Spec == Init /\ [][Next]_vars
-----------------------------------------------------------------------------
(* Properties.                                                             *)

\* As long as every write succeeded, the DB holds for each shard an unbroken
\* run of blocks that ends at its last block, whatever was pruned, purged or
\* lost between a commit and its ocall.
UnbrokenRun ==
    failures = 0 =>
        \A s \in Shards, n \in Numbers : Stored(s, n) =>
            /\ n <= dbLast[s]
            /\ \A k \in n .. dbLast[s] : Stored(s, k)

\* As long as every write succeeded, the copy in memory equals what a restart
\* would load, and the shards listed are those with a stored last block.
RestartIsInvisible ==
    failures = 0 =>
        /\ shards = dbShards /\ last_blocks = dbLast
        /\ \A s \in Shards : s \in shards <=> Stored(s, last_blocks[s])

\* As long as every write succeeded, a peer that asks for the blocks after any
\* block this node has gets all of them, and a range without its two bounds.
FetchIsComplete ==
    failures = 0 =>
        \A s \in Shards, from \in Numbers : Stored(s, from) =>
            /\ get_blocks_after(s, from) =
                  [ok |-> TRUE, blocks |-> {n \in Numbers : n > from /\ Stored(s, n)}]
            /\ \A until \in Numbers : Stored(s, until) /\ from < until =>
                  get_blocks_in_range(s, from, until).blocks = (from + 1) .. (until - 1)

\* storage.rs: "if the hash is the default hash, which represents block 0. In
\* that case we want to return all blocks."
DefaultHashReturnsAll ==
    failures = 0 =>
        \A s \in Shards : last_blocks[s] # None =>
            get_blocks_after(s, 0) = [ok |-> TRUE, blocks |-> {n \in Numbers : Stored(s, n)}]

\* The last block the DB names is there to be read, also after one write failed, as
\* long as pruning keeps more than one block.  A second failing write can cost it: the
\* list of shards was not written, so a restart forgets the last block of a shard, the
\* write of a block that is Keep ahead of it fails, and pruning counts from that one.
LastBlockReadable ==
    failures <= 1 /\ failures < Keep =>
        \A s \in Shards : dbLast[s] # None => Stored(s, dbLast[s])

\* "Prune all blocks except the newest n": whatever failed before, and although
\* the threshold wraps around on a short chain, a block leaves the DB only when
\* the enclave's chain is at least Keep blocks ahead of it.
PruneSparesNewest ==
    [][\A s \in Shards, n \in Numbers :
          Stored(s, n) /\ ~Stored(s, n)' => n + Keep <= head[s]]_vars

\* The window of stored blocks that a reader sees.
Window == INSTANCE BlockWindow WITH
    window <- [s \in Shards |-> {n \in Numbers : Stored(s, n)}],
    broken <- failures # 0

\* Up to the first failing write the storage implements the sliding window: storing
\* appends on top, pruning trims below, a restart changes nothing for a reader.
ImplementsWindow == Window!Spec

\* What a worker that starts again and a peer that fetches blocks read is there and
\* complete.
ReadersAreServed == FetchIsComplete /\ LastBlockReadable
=============================================================================
