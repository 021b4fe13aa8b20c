----------------------- MODULE SidechainStorageProofs -----------------------
(***************************************************************************)
(* Proofs about SidechainStorage, for any set of shards, any Keep and any  *)
(* number of failing writes.                                               *)
(***************************************************************************)
EXTENDS SidechainStorage, FiniteSetTheorems, TLAPS

-----------------------------------------------------------------------------
(* The inductive invariant.                                                *)

\* Neither copy of the last block number runs ahead of the enclave's chain.
BehindHead ==
    \A s \in Shards : last_blocks[s] <= head[s] /\ dbLast[s] <= head[s]

\* A block waiting for its ocall has a number.
Pending == \A s \in Shards : unstored[s] => head[s] # 0

\* The shards listed are those that have a last block, and it is stored.
Listed ==
    \A s \in Shards :
        /\ s \in shards <=> dbLast[s] # None
        /\ dbLast[s] # None => Stored(s, dbLast[s])

\* Below the last block nothing is missing down to the oldest block.
Run ==
    \A s \in Shards, n \in Numbers : Stored(s, n) =>
        /\ n <= dbLast[s]
        /\ \A k \in n .. dbLast[s] : Stored(s, k)

\* The state while no write has failed.
Clean == shards = dbShards /\ last_blocks = dbLast /\ Listed /\ Run

IInv == TypeOK /\ BehindHead /\ Pending /\ (failures = 0 => Clean)

-----------------------------------------------------------------------------
\* The pruning threshold is a block number only when the chain is long enough;
\* otherwise it wrapped around beyond every block number.
LEMMA ThresholdBelow ==
    ASSUME NEW l \in 0 .. MaxNumber, Sub(l, Keep) \in Numbers
    PROVE  Sub(l, Keep) + Keep <= l
BY StorageAssumption DEF Sub, Numbers

\* Only blocks at least Keep below the last block are deleted.
LEMMA DeletedIsOld ==
    ASSUME TypeOK, NEW s \in Shards, NEW b \in Deleted(s), s \in Prunable
    PROVE  \E n \in Numbers : b = <<s, n>> /\ n + Keep <= last_blocks[s]
<1>1. last_blocks[s] \in 0 .. MaxNumber /\ last_blocks[s] # 0
  BY DEF TypeOK, Prunable, None
<1>2. CASE s \in Purged
  <2>1. Keep = 0
    BY <1>1, <1>2, StorageAssumption DEF Purged, threshold_block, Sub
  <2>2. PICK n \in {last_blocks[s]} \cup RunDown(s, last_blocks[s] - 1) : b = <<s, n>>
    BY <1>2 DEF Deleted, Block
  <2>3. n \in 1 .. last_blocks[s]
    BY <1>1, <2>2, StorageAssumption DEF RunDown
  <2> QED
    BY <1>1, <2>1, <2>2, <2>3, StorageAssumption DEF Numbers
<1>3. CASE s \notin Purged
  <2>1. threshold_block(s) \in Numbers
    BY <1>3 DEF Deleted
  <2>2. PICK n \in RunDown(s, threshold_block(s)) : b = <<s, n>>
    BY <1>3, <2>1 DEF Deleted, Block
  <2>3. threshold_block(s) + Keep <= last_blocks[s]
    BY <1>1, <2>1, ThresholdBelow DEF threshold_block
  <2>4. n \in 1 .. threshold_block(s)
    BY <2>2 DEF RunDown
  <2> QED
    BY <1>1, <2>1, <2>2, <2>3, <2>4, StorageAssumption DEF Numbers
<1> QED
  BY <1>2, <1>3

-----------------------------------------------------------------------------
\* The empty database and the empty copy of load_from_base_path satisfy IInv.
LEMMA InitInv == Init => IInv
<1> SUFFICES ASSUME Init PROVE IInv
  OBVIOUS
<1>1. TypeOK
  BY StorageAssumption DEF Init, TypeOK, None
<1>2. BehindHead /\ Pending
  BY StorageAssumption DEF Init, BehindHead, Pending, None
<1>3. Clean
  BY DEF Init, Clean, Listed, Run, Stored
<1> QED
  BY <1>1, <1>2, <1>3 DEF IInv

\* A block committed in the enclave only moves the head up, so IInv stays.
LEMMA CommitInv == ASSUME IInv, NEW s \in Shards, Commit(s) PROVE IInv'
<1>1. TypeOK'
  BY StorageAssumption DEF IInv, TypeOK, Commit, db, memory, Numbers
<1>2. BehindHead' /\ Pending'
  BY StorageAssumption DEF IInv, TypeOK, BehindHead, Pending, Commit, db, memory
<1>3. (failures = 0 => Clean)'
  BY DEF IInv, Clean, Listed, Run, Stored, Commit, db, memory
<1> QED
  BY <1>1, <1>2, <1>3 DEF IInv

\* A rejected block (add_block_to_batch failed) leaves DB and memory alone.
LEMMA StoreRejectedInv == ASSUME IInv, NEW s \in Shards, StoreRejected(s) PROVE IInv'
<1>1. TypeOK'
  BY DEF IInv, TypeOK, StoreRejected, db, memory
<1>2. BehindHead' /\ Pending'
  BY DEF IInv, TypeOK, BehindHead, Pending, StoreRejected, db, memory
<1>3. (failures = 0 => Clean)'
  BY DEF IInv, Clean, Listed, Run, Stored, StoreRejected, db, memory
<1> QED
  BY <1>1, <1>2, <1>3 DEF IInv

\* A restart reloads the copy of load_from_base_path from the DB.
LEMMA LoadInv == ASSUME IInv, load_from_base_path PROVE IInv'
<1>1. TypeOK'
  BY StorageAssumption DEF IInv, TypeOK, load_from_base_path, db, None
<1>2. BehindHead' /\ Pending'
  BY DEF IInv, TypeOK, BehindHead, Pending, load_from_base_path, db, None
<1>3. ASSUME failures = 0 PROVE Clean'
  <2>1. last_blocks' = last_blocks
    BY <1>3 DEF IInv, TypeOK, Clean, Listed, load_from_base_path
  <2> QED
    BY <1>3, <2>1 DEF IInv, Clean, Listed, Run, Stored, load_from_base_path, db
<1>4. failures' = failures
  BY DEF load_from_base_path
<1> QED
  BY <1>1, <1>2, <1>3, <1>4 DEF IInv

\* store_blocks keeps IInv, whether its db.write succeeds or fails.
LEMMA StoreAcceptedInv ==
    ASSUME IInv, NEW s \in Shards, NEW ok \in BOOLEAN, StoreAccepted(s, ok)
    PROVE  IInv'
<1> DEFINE n == head[s]
<1>1. n \in 0 .. MaxNumber
  BY DEF IInv, TypeOK
<1>2. CASE ok
  <2>1. /\ shards' = shards \cup {s}
        /\ last_blocks' = [last_blocks EXCEPT ![s] = n]
        /\ dbBlocks' = dbBlocks \cup {<<s, n>>}
        /\ dbLast' = [dbLast EXCEPT ![s] = n]
        /\ dbShards' = IF s \in shards THEN dbShards ELSE shards \cup {s}
        /\ head' = head /\ failures' = failures
        /\ unstored' = [unstored EXCEPT ![s] = FALSE]
    BY <1>2 DEF StoreAccepted, Write, ShardList
  <2>0. n # 0
    BY DEF IInv, Pending, StoreAccepted
  <2>2. TypeOK' /\ BehindHead' /\ Pending'
    BY <1>1, <2>0, <2>1 DEF IInv, TypeOK, BehindHead, Pending, Numbers
  <2>3. ASSUME failures = 0 PROVE Clean'
    <3>1. shards' = dbShards' /\ last_blocks' = dbLast'
      BY <2>1, <2>3 DEF IInv, Clean
    <3>2. n # None /\ (dbLast[s] # None => n = dbLast[s] + 1)
      BY <1>1, <2>0, <2>3, StorageAssumption
      DEF IInv, TypeOK, Clean, Listed, StoreAccepted, verify_block_ancestry, Sub, None
    <3>3. Listed'
      BY <2>1, <2>3, <3>2 DEF IInv, TypeOK, Clean, Listed, Stored
    <3>4. ASSUME NEW t \in Shards, NEW m \in Numbers, Stored(t, m)'
          PROVE  m <= dbLast'[t] /\ \A k \in m .. dbLast'[t] : Stored(t, k)'
      <4>1. CASE t # s
        BY <2>1, <2>3, <3>4, <4>1 DEF IInv, TypeOK, Clean, Run, Stored
      <4>2. CASE t = s /\ m = n
        BY <1>1, <2>1, <3>4, <4>2 DEF IInv, TypeOK, Stored, Numbers
      <4>3. CASE t = s /\ m # n
        <5>1. Stored(s, m) /\ m <= dbLast[s] /\ \A k \in m .. dbLast[s] : Stored(s, k)
          BY <2>1, <2>3, <3>4, <4>3 DEF IInv, Clean, Run, Stored
        <5>2. n = dbLast[s] + 1
          BY <3>2, <5>1 DEF IInv, TypeOK, Numbers, None
        <5> QED
          BY <2>1, <4>3, <5>1, <5>2 DEF IInv, TypeOK, Stored, Numbers
      <4> QED
        BY <4>1, <4>2, <4>3
    <3> QED
      BY <3>1, <3>3, <3>4 DEF Clean, Run
  <2> QED
    BY <2>1, <2>2, <2>3 DEF IInv
<1>3. CASE ~ok
  <2>1. failures' = failures + 1 /\ failures < MaxFailures
    BY <1>3 DEF StoreAccepted, Write
  <2>2. TypeOK' /\ BehindHead' /\ Pending'
    BY <1>1, <1>3, <2>1, StorageAssumption
    DEF IInv, TypeOK, BehindHead, Pending, StoreAccepted, db
  <2>3. failures' # 0
    BY <2>1 DEF IInv, TypeOK
  <2> QED
    BY <2>2, <2>3 DEF IInv
<1> QED
  BY <1>2, <1>3

\* prune_shards keeps IInv, whichever of its writes fail.
LEMMA PruneInv ==
    ASSUME IInv,
           NEW failed \in SUBSET Prunable,
           NEW alsoRemoved \in SUBSET (Purged \cap failed),
           PruneShards(failed, alsoRemoved)
    PROVE  IInv'
<1>1. IsFiniteSet(failed) /\ Cardinality(failed) \in Nat
  <2>1. failed \in SUBSET Shards
    BY DEF IInv, TypeOK, Prunable
  <2> QED
    BY <2>1, StorageAssumption, FS_Subset, FS_CardinalityType
<1>2. TypeOK'
  BY <1>1, StorageAssumption DEF IInv, TypeOK, PruneShards, None
<1>3. BehindHead' /\ Pending'
  BY DEF IInv, TypeOK, BehindHead, Pending, PruneShards, None
<1>4. ASSUME failures' = 0 PROVE Clean'
  <2>1. failures = 0 /\ Cardinality(failed) = 0
    BY <1>1, <1>4 DEF IInv, TypeOK, PruneShards
  <2>2. failed = {}
    BY <1>1, <2>1, FS_EmptySet
  <2>3. /\ dbBlocks' = dbBlocks \ UNION {Deleted(s) : s \in Prunable}
        /\ dbLast' = [s \in Shards |-> IF s \in Purged THEN None ELSE dbLast[s]]
        /\ dbShards' = shards \ Purged
        /\ shards' = shards \ Purged
        /\ last_blocks' = [s \in Shards |-> IF s \in Purged THEN None ELSE last_blocks[s]]
    BY <2>1, <2>2 DEF PruneShards, IInv, Clean, Purged
  <2>4. Clean
    BY <2>1 DEF IInv
  <2>5. Prunable = shards
    BY <2>4 DEF IInv, TypeOK, Clean, Listed, Prunable
  <2>6. shards' = dbShards' /\ last_blocks' = dbLast'
    BY <2>3, <2>4 DEF Clean
  <2>7. ASSUME NEW s \in Shards, NEW m \in Numbers, Stored(s, m)'
        PROVE  /\ s \notin Purged /\ m <= dbLast[s]
               /\ \A k \in m .. dbLast[s] : Stored(s, k)'
    <3>0. /\ Stored(s, m) /\ m <= dbLast[s]
          /\ \A k \in m .. dbLast[s] : Stored(s, k)
      BY <2>3, <2>4, <2>7 DEF Clean, Run, Stored
    <3>1. /\ Stored(s, m) /\ m <= dbLast[s]
          /\ \A k \in m .. dbLast[s] : Stored(s, k)
          /\ last_blocks[s] = dbLast[s] /\ s \in Prunable
      BY <2>4, <2>5, <3>0 DEF IInv, TypeOK, Clean, Listed, Numbers, None
    <3>2. <<s, m>> \notin Deleted(s)
      BY <2>3, <2>7, <3>1 DEF Stored
    <3>3. s \notin Purged
      <4> SUFFICES ASSUME s \in Purged PROVE FALSE
        OBVIOUS
      <4>1. m # last_blocks[s] /\ m \notin RunDown(s, last_blocks[s] - 1)
        BY <3>2 DEF Deleted, Block
      <4> QED
        BY <3>1, <4>1 DEF RunDown, IInv, TypeOK, Numbers
    <3>4. ASSUME NEW k \in m .. dbLast[s] PROVE <<s, k>> \notin Deleted(s)
      <4> SUFFICES ASSUME <<s, k>> \in Deleted(s) PROVE FALSE
        OBVIOUS
      <4>1. k \in RunDown(s, threshold_block(s)) /\ threshold_block(s) \in Numbers
        BY <3>3 DEF Deleted, Block
      <4>2. m \in RunDown(s, threshold_block(s))
        <5>1. k \in 1 .. threshold_block(s) /\ \A j \in k .. threshold_block(s) : Stored(s, j)
          BY <4>1 DEF RunDown
        <5>2. m \in 1 .. threshold_block(s)
          BY <3>4, <4>1, <5>1 DEF IInv, TypeOK, Numbers
        <5>3. \A j \in m .. threshold_block(s) : Stored(s, j)
          BY <3>1, <3>4, <4>1, <5>1, <5>2 DEF IInv, TypeOK, Numbers
        <5> QED
          BY <5>2, <5>3 DEF RunDown
      <4> QED
        BY <3>2, <3>3, <4>1, <4>2 DEF Deleted, Block
    <3>5. ASSUME NEW k \in m .. dbLast[s], NEW t \in Prunable
          PROVE  <<s, k>> \notin Deleted(t)
      <4>1. CASE t = s
        BY <3>4, <4>1
      <4>2. CASE t # s
        BY <4>2 DEF Deleted, Block
      <4> QED
        BY <4>1, <4>2
    <3> QED
      BY <2>3, <3>1, <3>3, <3>5 DEF Stored
  <2>8. Run'
    BY <2>3, <2>7 DEF Run
  <2>9. ASSUME NEW s \in Shards, dbLast'[s] # None PROVE Stored(s, dbLast[s])'
    <3>1. s \notin Purged /\ dbLast'[s] = dbLast[s] /\ Stored(s, dbLast[s]) /\ s \in Prunable
      BY <2>3, <2>4, <2>5, <2>9 DEF Clean, Listed
    <3>2. dbLast[s] \in 1 .. MaxNumber /\ last_blocks[s] = dbLast[s]
      BY <2>4, <2>9, <3>1 DEF IInv, TypeOK, Clean, None
    <3>3. ASSUME NEW t \in Prunable PROVE <<s, dbLast[s]>> \notin Deleted(t)
      <4>1. CASE t # s
        BY <4>1 DEF Deleted, Block
      <4>2. CASE t = s
        <5> SUFFICES ASSUME <<s, dbLast[s]>> \in Deleted(s) PROVE FALSE
          BY <4>2
        <5>1. PICK n \in Numbers : <<s, dbLast[s]>> = <<s, n>> /\ n + Keep <= last_blocks[s]
          BY <3>1, DeletedIsOld DEF IInv
        <5>2. Keep = 0
          BY <3>2, <5>1, StorageAssumption DEF Numbers
        <5> QED
          BY <3>1, <3>2, <5>2, StorageAssumption DEF Purged, threshold_block, Sub
      <4> QED
        BY <4>1, <4>2
    <3> QED
      BY <2>3, <3>1, <3>3 DEF Stored
  <2>10. Listed'
    BY <2>3, <2>4, <2>9 DEF Clean, Listed
  <2> QED
    BY <2>6, <2>8, <2>10 DEF Clean
<1> QED
  BY <1>2, <1>3, <1>4 DEF IInv

\* Every operation of the storage keeps IInv.
LEMMA NextInv == IInv /\ [Next]_vars => IInv'
<1> SUFFICES ASSUME IInv, [Next]_vars PROVE IInv'
  OBVIOUS
<1>1. ASSUME NEW s \in Shards, Commit(s) PROVE IInv'
  BY <1>1, CommitInv
<1>2. ASSUME NEW s \in Shards, StoreRejected(s) PROVE IInv'
  BY <1>2, StoreRejectedInv
<1>3. ASSUME NEW s \in Shards, NEW ok \in BOOLEAN, StoreAccepted(s, ok) PROVE IInv'
  BY <1>3, StoreAcceptedInv
<1>4. CASE prune_shards
  BY <1>4, PruneInv DEF prune_shards
<1>5. CASE load_from_base_path
  BY <1>5, LoadInv
<1>6. CASE UNCHANGED vars
  BY <1>6 DEF vars, IInv, TypeOK, BehindHead, Pending, Clean, Listed, Run, Stored
<1> QED
  BY <1>1, <1>2, <1>3, <1>4, <1>5, <1>6 DEF Next

\* The inductive invariant holds in every reachable state.
THEOREM Invariance == Spec => []IInv
BY InitInv, NextInv, PTL DEF Spec

\* Every reachable state has the types declared: in particular the numbers kept
\* in memory and in the DB are block numbers or absent.
THEOREM TypeCorrect == Spec => []TypeOK
BY Invariance, PTL DEF IInv

\* Without a failed write the blocks of a shard are an unbroken run up to its
\* last block, for every interleaving of stores, pruning and restarts.
THEOREM UnbrokenRunHolds == Spec => []UnbrokenRun
<1>1. IInv => UnbrokenRun
  BY DEF IInv, Clean, Run, UnbrokenRun
<1> QED
  BY <1>1, Invariance, PTL

\* Without a failed write a restart loads exactly what was in memory.
THEOREM RestartIsInvisibleHolds == Spec => []RestartIsInvisible
<1> SUFFICES IInv => RestartIsInvisible
  BY Invariance, PTL
<1> SUFFICES ASSUME IInv, failures = 0 PROVE RestartIsInvisible
  BY DEF RestartIsInvisible
<1>1. Clean
  BY DEF IInv
<1>2. ASSUME NEW s \in Shards PROVE s \in shards <=> Stored(s, last_blocks[s])
  <2>1. Stored(s, dbLast[s]) => dbLast[s] # None
    BY DEF IInv, TypeOK, Stored, Numbers, None
  <2> QED
    BY <1>1, <2>1 DEF Clean, Listed
<1> QED
  BY <1>1, <1>2 DEF RestartIsInvisible, Clean

\* What a step removes from the DB is at least Keep blocks old.
LEMMA RemovedIsOld ==
    ASSUME IInv, [Next]_vars, NEW s \in Shards, NEW n \in Numbers,
           Stored(s, n), ~Stored(s, n)'
    PROVE  n + Keep <= head[s]
<1>1. CASE prune_shards
  <2>1. PICK failed \in SUBSET Prunable :
          \E alsoRemoved \in SUBSET (Purged \cap failed) : PruneShards(failed, alsoRemoved)
    BY <1>1 DEF prune_shards
  <2>2. PICK t \in Prunable : <<s, n>> \in Deleted(t)
    BY <2>1 DEF PruneShards, Stored
  <2>3. t \in Shards
    BY <2>2 DEF Prunable, IInv, TypeOK
  <2>4. \E m \in Numbers : <<s, n>> = <<t, m>> /\ m + Keep <= last_blocks[t]
    BY <2>2, <2>3, DeletedIsOld DEF IInv
  <2>5. n + Keep <= last_blocks[s]
    BY <2>4
  <2> QED
    BY <2>5, StorageAssumption DEF IInv, TypeOK, BehindHead, Numbers
<1>2. CASE UNCHANGED dbBlocks
  BY <1>2 DEF Stored
<1>3. CASE \E t \in Shards, ok \in BOOLEAN : StoreAccepted(t, ok)
  BY <1>3 DEF StoreAccepted, Stored, db
<1> QED
  BY <1>1, <1>2, <1>3 DEF Next, vars, Commit, StoreRejected, load_from_base_path, db

\* Pruning spares the newest Keep blocks even if writes failed before.
THEOREM PruneSparesNewestHolds == Spec => PruneSparesNewest
<1>1. IInv /\ [Next]_vars =>
        [\A s \in Shards, n \in Numbers :
            Stored(s, n) /\ ~Stored(s, n)' => n + Keep <= head[s]]_vars
  BY RemovedIsOld
<1> QED
  BY <1>1, Invariance, PTL DEF Spec, PruneSparesNewest

-----------------------------------------------------------------------------
(* Refinement of BlockWindow.                                              *)

w == [s \in Shards |-> {n \in Numbers : Stored(s, n)}]

\* A failed write stays counted.
LEMMA FailuresStay ==
    ASSUME IInv, IInv', [Next]_vars, failures' = 0
    PROVE  failures = 0
<1>1. CASE prune_shards
  <2>1. PICK failed \in SUBSET Prunable : failures' = failures + Cardinality(failed)
    BY <1>1 DEF prune_shards, PruneShards
  <2>2. Prunable \subseteq Shards
    BY DEF Prunable, IInv, TypeOK
  <2>3. IsFiniteSet(failed)
    BY <2>2, StorageAssumption, FS_Subset
  <2>4. Cardinality(failed) \in Nat
    BY <2>3, FS_CardinalityType
  <2> QED
    BY <2>1, <2>4 DEF IInv, TypeOK
<1>2. CASE UNCHANGED failures
  BY <1>2
<1>3. CASE \E s \in Shards, ok \in BOOLEAN : StoreAccepted(s, ok)
  BY <1>3 DEF StoreAccepted, Write, IInv, TypeOK
<1> QED
  BY <1>1, <1>2, <1>3 DEF Next, vars, Commit, StoreRejected, load_from_base_path

\* A successful store_blocks is an Append of the window.
LEMMA AppendStep ==
    ASSUME IInv, failures = 0, NEW s \in Shards, NEW ok \in BOOLEAN,
           StoreAccepted(s, ok), failures' = 0
    PROVE  Window!Append(s, head[s]) /\ head[s] \in 1 .. MaxNumber
<1> DEFINE n == head[s]
<1>1. n \in Numbers
  BY DEF IInv, TypeOK, Pending, StoreAccepted, Numbers
<1>2. dbBlocks' = dbBlocks \cup {<<s, n>>}
  BY DEF StoreAccepted, Write
<1>3. Clean
  BY DEF IInv
<1>4. dbLast[s] # None => n = dbLast[s] + 1
  BY <1>1, <1>3, StorageAssumption
  DEF IInv, TypeOK, Clean, Listed, StoreAccepted, verify_block_ancestry, Sub, None, Numbers
<1>5. ASSUME NEW m \in Numbers, Stored(s, m)
      PROVE  m < n /\ n - 1 \in Numbers /\ Stored(s, n - 1)
  <2>1. m <= dbLast[s] /\ dbLast[s] \in Numbers
    BY <1>3, <1>5 DEF IInv, TypeOK, Clean, Run, Numbers
  <2>2. n = dbLast[s] + 1 /\ Stored(s, dbLast[s])
    BY <1>3, <1>4, <2>1 DEF Clean, Listed, None, Numbers
  <2> QED
    BY <2>1, <2>2 DEF Numbers
<1>6. w' = [w EXCEPT ![s] = @ \cup {n}]
  BY <1>1, <1>2 DEF w, Stored
<1>7. w[s] = {m \in Numbers : Stored(s, m)}
  BY DEF w
<1> QED
  BY <1>1, <1>5, <1>6, <1>7 DEF Window!Append, w, Numbers

\* prune_shards with reliable writes is a Trim of the window.
LEMMA TrimStep ==
    ASSUME IInv, failures = 0, prune_shards, IInv', failures' = 0
    PROVE  Window!Trim
<1> DEFINE old(s) == {n \in Numbers : Stored(s, n)}
           new(s) == {n \in Numbers : Stored(s, n)'}
<1>1. w' = [s \in Shards |-> new(s)] /\ w = [s \in Shards |-> old(s)]
  BY DEF w
<1>2. Clean /\ Clean'
  BY DEF IInv
<1>3. ASSUME NEW s \in Shards, NEW m \in old(s) \ new(s)
      PROVE  /\ \A n \in new(s) : m < n
             /\ \A n \in 1 .. MaxNumber :
                   n \in old(s) /\ (\A k \in old(s) : k <= n) => m <= n - Keep
  <2>1. ASSUME NEW n \in new(s) PROVE m < n
    <3>1. /\ \A k \in n .. dbLast'[s] : Stored(s, k)'
          /\ dbLast'[s] = dbLast[s] \/ dbLast'[s] = None
          /\ n <= dbLast'[s]
      <4>1. n <= dbLast'[s] /\ \A k \in n .. dbLast'[s] : Stored(s, k)'
        BY <1>2 DEF Clean, Run
      <4>2. dbLast'[s] = dbLast[s] \/ dbLast'[s] = None
        BY DEF prune_shards, PruneShards
      <4> QED
        BY <4>1, <4>2
    <3>2. m <= dbLast[s]
      BY <1>2 DEF Clean, Run
    <3>3. dbLast'[s] = dbLast[s]
      BY <3>1 DEF IInv, TypeOK, Numbers, None
    <3> QED
      BY <1>3, <3>1, <3>2, <3>3 DEF IInv, TypeOK, Numbers
  <2>2. ASSUME NEW n \in 1 .. MaxNumber, n \in old(s), \A k \in old(s) : k <= n
        PROVE  m <= n - Keep
    <3>1. m <= dbLast[s] /\ Stored(s, dbLast[s]) /\ dbLast[s] = last_blocks[s] /\ dbLast[s] \in Numbers
      BY <1>2 DEF Clean, Run, Listed, IInv, TypeOK, Numbers, None
    <3>2. dbLast[s] <= n
      BY <2>2, <3>1
    <3>3. m + Keep <= last_blocks[s]
      <4>1. PICK failed \in SUBSET Prunable :
              \E alsoRemoved \in SUBSET (Purged \cap failed) : PruneShards(failed, alsoRemoved)
        BY DEF prune_shards
      <4>2. PICK t \in Prunable : <<s, m>> \in Deleted(t)
        BY <4>1 DEF PruneShards, Stored
      <4>3. t \in Shards
        BY <4>2 DEF Prunable, IInv, TypeOK
      <4>4. \E j \in Numbers : <<s, m>> = <<t, j>> /\ j + Keep <= last_blocks[t]
        BY <4>2, <4>3, DeletedIsOld DEF IInv
      <4> QED
        BY <4>4
    <3> QED
      BY <3>1, <3>2, <3>3, StorageAssumption DEF Numbers
  <2> QED
    BY <2>1, <2>2
<1>4. ASSUME NEW s \in Shards PROVE new(s) \subseteq old(s)
  BY DEF prune_shards, PruneShards, Stored
<1>5. w' \in [Shards -> SUBSET (1 .. MaxNumber)]
  BY <1>1 DEF Numbers
<1> QED
  BY <1>1, <1>3, <1>4, <1>5 DEF Window!Trim, w

\* Every behaviour of the storage is, for its readers, a behaviour of the sliding
\* window, whatever the constants are and wherever a write fails.
THEOREM Refinement == Spec => ImplementsWindow
<1>1. Init => Window!Init
  BY DEF Init, Window!Init, w, Stored
<1>2. ASSUME IInv, IInv', [Next]_vars PROVE [Window!Next]_<<w, failures # 0>>
  <2>1. CASE failures' # 0
    <3>1. w' \in [Shards -> SUBSET (1 .. MaxNumber)]
      BY DEF w, Numbers
    <3> QED
      BY <2>1, <3>1 DEF Window!Next, Window!Break, w
  <2>2. CASE failures' = 0
    <3>1. failures = 0
      BY <1>2, <2>2, FailuresStay
    <3>2. CASE \E s \in Shards, ok \in BOOLEAN : StoreAccepted(s, ok)
      BY <1>2, <2>2, <3>1, <3>2, AppendStep DEF Window!Next
    <3>3. CASE prune_shards
      BY <1>2, <2>2, <3>1, <3>3, TrimStep DEF Window!Next
    <3>4. CASE UNCHANGED dbBlocks
      BY <2>2, <3>1, <3>4 DEF w, Stored
    <3> QED
      BY <1>2, <3>2, <3>3, <3>4 DEF Next, vars, Commit, StoreRejected, load_from_base_path, db
  <2> QED
    BY <2>1, <2>2
<1> QED
  BY <1>1, <1>2, Invariance, PTL DEF Spec, ImplementsWindow, Window!Spec, w
-----------------------------------------------------------------------------
(* What readers find.                                                      *)

\* Up to one failing write, when pruning keeps more than that: the last block the DB
\* names is stored, and memory is ahead of it by no more than the write that failed.
Close ==
    failures <= 1 /\ failures < Keep =>
        \A s \in Shards : dbLast[s] # None =>
            Stored(s, dbLast[s]) /\ last_blocks[s] <= dbLast[s] + failures

\* store_blocks keeps Close: a write that succeeds names the block it stores, and the
\* first one that fails leaves memory one block ahead.
LEMMA StoreAcceptedClose ==
    ASSUME IInv, Close, NEW s \in Shards, NEW ok \in BOOLEAN, StoreAccepted(s, ok)
    PROVE  Close'
<1> DEFINE n == head[s]
<1>0. n \in Nat /\ failures \in Nat /\ Keep \in Nat
  BY StorageAssumption DEF IInv, TypeOK
<1>1. last_blocks' = [last_blocks EXCEPT ![s] = n]
  BY DEF StoreAccepted
<1> SUFFICES ASSUME failures' <= 1, failures' < Keep, NEW t \in Shards, dbLast'[t] # None
             PROVE  Stored(t, dbLast[t])' /\ last_blocks'[t] <= dbLast'[t] + failures'
  BY DEF Close
<1>2. CASE ok
  <2>1. /\ dbBlocks' = dbBlocks \cup {<<s, n>>}
        /\ dbLast' = [dbLast EXCEPT ![s] = n]
        /\ failures' = failures
    BY <1>2 DEF StoreAccepted, Write
  <2>2. CASE t = s
    BY <1>0, <1>1, <2>1, <2>2 DEF IInv, TypeOK, Stored
  <2>3. CASE t # s
    <3>1. dbLast'[t] = dbLast[t] /\ last_blocks'[t] = last_blocks[t]
      BY <1>1, <2>1, <2>3 DEF IInv, TypeOK
    <3>2. Stored(t, dbLast[t]) /\ last_blocks[t] <= dbLast[t] + failures
      BY <2>1, <3>1 DEF Close
    <3> QED
      BY <2>1, <3>1, <3>2 DEF Stored
  <2> QED
    BY <2>2, <2>3
<1>3. CASE ~ok
  <2>1. dbBlocks' = dbBlocks /\ dbLast' = dbLast /\ failures' = failures + 1
    BY <1>3 DEF StoreAccepted, Write, db
  <2>2. failures = 0 /\ 0 < Keep
    BY <1>0, <2>1
  <2>3. Clean
    BY <2>2 DEF IInv
  <2>4. Stored(t, dbLast[t]) /\ last_blocks[t] = dbLast[t] /\ t \in shards
    BY <2>1, <2>3 DEF Clean, Listed
  <2>5. last_blocks[t] \in Nat /\ last_blocks[t] # None
    BY <2>1, <2>4 DEF IInv, TypeOK
  <2>6. CASE t = s
    <3>1. n = last_blocks[s] + 1
      <4>1. last_blocks[s] = Sub(n, 1) /\ last_blocks[s] # 0
        BY <2>4, <2>6 DEF StoreAccepted, verify_block_ancestry, None
      <4>2. last_blocks[s] \in 0 .. MaxNumber /\ n \in 0 .. MaxNumber
        BY DEF IInv, TypeOK
      <4>3. n # 0
        BY DEF StoreAccepted, IInv, Pending
      <4> QED
        BY <4>1, <4>2, <4>3, StorageAssumption DEF Sub
    <3>2. last_blocks'[s] = n
      BY <1>1 DEF IInv, TypeOK
    <3> QED
      BY <2>1, <2>2, <2>4, <2>5, <2>6, <3>1, <3>2 DEF Stored
  <2>7. CASE t # s
    BY <1>1, <2>1, <2>2, <2>4, <2>5, <2>7 DEF Stored, IInv, TypeOK
  <2> QED
    BY <2>6, <2>7
<1> QED
  BY <1>2, <1>3

\* prune_shards keeps Close: it counts from the number in memory, which is ahead of the
\* last block by less than Keep, so that block is not among the deleted.
LEMMA PruneClose ==
    ASSUME IInv, Close, NEW failed \in SUBSET Prunable,
           NEW alsoRemoved \in SUBSET (Purged \cap failed),
           PruneShards(failed, alsoRemoved)
    PROVE  Close'
<1>1. Cardinality(failed) \in Nat
  <2>1. failed \in SUBSET Shards
    BY DEF IInv, TypeOK, Prunable
  <2> QED
    BY <2>1, StorageAssumption, FS_Subset, FS_CardinalityType
<1> SUFFICES ASSUME failures' <= 1, failures' < Keep, NEW t \in Shards, dbLast'[t] # None
             PROVE  Stored(t, dbLast[t])' /\ last_blocks'[t] <= dbLast'[t] + failures'
  BY DEF Close
<1>2. failures \in Nat /\ Keep \in Nat /\ failures' = failures + Cardinality(failed)
  BY StorageAssumption DEF IInv, TypeOK, PruneShards
<1>3. failures <= 1 /\ failures < Keep /\ failures <= failures' /\ failures' \in Nat /\ Keep # 0
  BY <1>1, <1>2
<1>4. Purged = {}
  <2> SUFFICES ASSUME NEW s \in Purged PROVE FALSE
    OBVIOUS
  <2>1. last_blocks[s] \in 0 .. MaxNumber /\ last_blocks[s] = Sub(last_blocks[s], Keep)
    BY DEF Purged, Prunable, threshold_block, IInv, TypeOK
  <2> QED
    BY <1>3, <2>1, StorageAssumption DEF Sub
<1>5. /\ dbLast' = dbLast /\ last_blocks' = last_blocks
      /\ dbBlocks' = dbBlocks \ UNION {Deleted(s) : s \in Prunable \ failed}
  BY <1>4 DEF PruneShards, IInv, TypeOK
<1>6. Stored(t, dbLast[t]) /\ last_blocks[t] <= dbLast[t] + failures
  BY <1>3, <1>5 DEF Close
<1>7. dbLast[t] \in Nat /\ last_blocks[t] \in Nat
  BY DEF IInv, TypeOK
<1>8. ASSUME NEW s \in Prunable PROVE <<t, dbLast[t]>> \notin Deleted(s)
  <2> SUFFICES ASSUME <<t, dbLast[t]>> \in Deleted(s) PROVE FALSE
    OBVIOUS
  <2>1. s \in Shards
    BY DEF Prunable, IInv, TypeOK
  <2>2. PICK n \in Numbers : <<t, dbLast[t]>> = <<s, n>> /\ n + Keep <= last_blocks[s]
    BY <2>1, DeletedIsOld DEF IInv
  <2> QED
    BY <1>2, <1>3, <1>6, <1>7, <2>2
<1>9. Stored(t, dbLast[t])'
  BY <1>5, <1>6, <1>8 DEF Stored
<1>10. last_blocks'[t] <= dbLast'[t] + failures'
  BY <1>2, <1>3, <1>5, <1>6, <1>7
<1> QED
  BY <1>9, <1>10

\* Every operation of the storage keeps Close.
LEMMA CloseStep == IInv /\ Close /\ [Next]_vars => Close'
<1> SUFFICES ASSUME IInv, Close, [Next]_vars PROVE Close'
  OBVIOUS
<1>1. CASE \E s \in Shards, ok \in BOOLEAN : StoreAccepted(s, ok)
  BY <1>1, StoreAcceptedClose
<1>2. CASE prune_shards
  BY <1>2, PruneClose DEF prune_shards
<1>3. CASE load_from_base_path
  <2>1. dbBlocks' = dbBlocks /\ dbLast' = dbLast /\ failures' = failures
    BY <1>3 DEF load_from_base_path, db
  <2>2. \A s \in Shards : last_blocks'[s] \in {0, dbLast[s]} /\ dbLast[s] \in Nat
    BY <1>3 DEF load_from_base_path, IInv, TypeOK, None
  <2>3. failures \in Nat
    BY DEF IInv, TypeOK
  <2> QED
    BY <2>1, <2>2, <2>3 DEF Close, Stored
<1>4. CASE UNCHANGED <<db, memory, failures>>
  BY <1>4 DEF Close, Stored, db, memory
<1> QED
  BY <1>1, <1>2, <1>3, <1>4 DEF Next, Commit, StoreRejected, vars, db, memory

\* get_blocks_after and get_blocks_in_range return what they should while no write has
\* failed: the walk over parents meets every stored block above its start.
LEMMA FetchInv == IInv => FetchIsComplete
<1> SUFFICES ASSUME IInv, failures = 0, NEW s \in Shards, NEW from \in Numbers, Stored(s, from)
             PROVE
               /\ get_blocks_after(s, from) =
                    [ok |-> TRUE, blocks |-> {n \in Numbers : n > from /\ Stored(s, n)}]
               /\ \A until \in Numbers : Stored(s, until) /\ from < until =>
                    get_blocks_in_range(s, from, until).blocks = (from + 1) .. (until - 1)
  BY DEF FetchIsComplete
<1>1. Clean
  BY DEF IInv
<1>2. /\ last_blocks[s] = dbLast[s] /\ last_blocks[s] \in 0 .. MaxNumber
      /\ from <= last_blocks[s] /\ from \in 1 .. MaxNumber
      /\ \A k \in from .. last_blocks[s] : Stored(s, k)
      /\ MaxNumber \in Nat
  BY <1>1, StorageAssumption DEF Clean, Run, IInv, TypeOK, Numbers
<1>3. \A n \in Numbers : Stored(s, n) => n <= last_blocks[s]
  BY <1>1 DEF Clean, Run
<1>4. Walk(s, from) = {n \in Numbers : n > from /\ Stored(s, n)}
  BY <1>2, <1>3 DEF Walk, Numbers
<1>5. get_blocks_after(s, from) = [ok |-> TRUE, blocks |-> Walk(s, from)]
  <2>1. ~(from # 0 /\ ~Stored(s, from)) /\ last_blocks[s] # None
    BY <1>2 DEF None
  <2>2. ~ \E n \in Walk(s, from) : ~Stored(s, n)
    BY <1>4
  <2> QED
    BY <2>1, <2>2 DEF get_blocks_after
<1>6. ASSUME NEW until \in Numbers, Stored(s, until), from < until
      PROVE  get_blocks_in_range(s, from, until).blocks = (from + 1) .. (until - 1)
  <2>1. until \in Walk(s, from) /\ until \in Int
    BY <1>4, <1>6 DEF Numbers
  <2>2. get_blocks_in_range(s, from, until).blocks = {n \in Walk(s, from) : n < until}
    BY <1>5, <2>1 DEF get_blocks_in_range
  <2> QED
    BY <1>2, <2>1, <2>2 DEF Walk
<1> QED
  BY <1>4, <1>5, <1>6

\* What a worker that starts again and a peer that fetches blocks read is there: nothing
\* is missing from get_blocks_after and get_blocks_in_range while no write has failed,
\* and the last block survives any single failing write.
THEOREM ReadersAreServedHolds == Spec => []ReadersAreServed
<1>1. Init => Close
  BY DEF Init, Close
<1>2. Spec => []Close
  BY <1>1, CloseStep, Invariance, PTL DEF Spec
<1>3. IInv /\ Close => ReadersAreServed
  BY FetchInv DEF Close, ReadersAreServed, LastBlockReadable
<1> QED
  BY <1>2, <1>3, Invariance, PTL
=============================================================================
