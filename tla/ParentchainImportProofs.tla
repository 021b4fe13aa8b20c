----------------------- MODULE ParentchainImportProofs -----------------------
(***************************************************************************)
(* Proofs about ParentchainImport.  The inductive invariant ImportInv says *)
(* that the blocks under way form one unbroken line behind the light       *)
(* client (popped, queued, about to be queued), that the events queue is   *)
(* the same line, and that every effect is behind the sealed header.       *)
(***************************************************************************)
EXTENDS ParentchainImport, FiniteSetTheorems, SequenceTheorems, TLAPS

Importing == importer \in {"update", "execute"}

\* The last block that has left the import queue.
Front == synced - Len(chunk) - Len(import_queue)

\* Where the threads are decides what they hold.
Stages ==
    /\ importer \in {"idle", "send"} <=> pending = <<>>
    /\ thread = "down" => importer = "idle" /\ calls = <<>>
    /\ thread # "pushing" => chunk = <<>>
    /\ ~Producing => events_queue = <<>> /\ import_queue = <<>>
    /\ importer = "popped" => Producing

\* The blocks under way are consecutive, and the events queue is aligned with them.
ChunkLine == \A i \in 1 .. Len(chunk) : chunk[i] = synced - Len(chunk) + i
QueueLine == \A i \in 1 .. Len(import_queue) : import_queue[i] = Front + i
PendingLine == \A i \in 1 .. Len(pending) : pending[i].block = Front - Len(pending) + i
Popped == IF importer = "popped" THEN Len(pending) ELSE 0
EventsLength == Len(events_queue) = Len(import_queue) + Len(chunk) + Popped
EventsLine == \A i \in 1 .. Len(events_queue) : events_queue[i] = synced - Len(events_queue) + i
Line == ChunkLine /\ QueueLine /\ PendingLine /\ EventsLength /\ EventsLine

\* Blocks of the shard that are imported have their own events.
OwnEvents ==
    importer # "popped" =>
        \A i \in 1 .. Len(pending) :
            pending[i].block >= creation => pending[i].events = pending[i].block

\* The light client is behind the blocks under way, and the disk behind it.
Behind ==
    /\ state <= sealed
    /\ touched => creation # 0
    /\ thread # "down" =>
           /\ sealed <= lc /\ creation # 0 /\ creation <= until
           /\ lc + Len(pending) <= Front + (IF Importing THEN 1 ELSE 0)
    /\ Importing => sealed = lc /\ lc = pending[1].block /\ creation <= lc
    /\ Producing => creation <= synced

\* What had an effect is sealed, and before the block that is being imported.
Past(b) == b <= sealed /\ (Importing => b < lc)

Effects ==
    /\ \A i \in 1 .. Len(done) : done[i].events = done[i].block /\ Past(done[i].block)
    /\ \A i, j \in 1 .. Len(done) : i < j => done[i].block < done[j].block
    /\ \A i \in 1 .. Len(confirmed) : Past(confirmed[i])
    /\ \A i \in 1 .. Len(calls) : Past(calls[i])
    /\ \A i, j \in 1 .. Len(confirmed) : i < j => confirmed[i] < confirmed[j]
    /\ \A i, j \in 1 .. Len(calls) : i < j => calls[i] < calls[j]
    /\ \A i \in 1 .. Len(confirmed), j \in 1 .. Len(calls) : confirmed[i] < calls[j]

ImportInv == TypeOK /\ Stages /\ Line /\ OwnEvents /\ Behind /\ Effects

\* The blocks of the shard up to n whose calls were not executed.
Missed(n) == {b \in Heights : creation # 0 /\ creation <= b /\ b <= n /\ b \notin Executed}

\* Up to the last header, in memory or on disk, without the block that is being imported.
Settled == IF Importing THEN lc - 1 ELSE IF lc < sealed THEN sealed ELSE lc

Gap == Missed(Settled)

SkipInv == Cardinality(Gap) <= crashes + failures
-----------------------------------------------------------------------------
(* The invariant, action by action.                                        *)

\* What the types say of the numbers and of the lengths.
Numeric ==
    /\ MaxHeight \in Nat /\ finalized \in Nat /\ finalized <= MaxHeight
    /\ until \in Nat /\ synced \in Nat /\ lc \in Nat /\ sealed \in Nat
    /\ creation \in Nat /\ state \in Nat
    /\ until <= finalized /\ synced <= finalized /\ lc <= finalized
    /\ sealed <= finalized /\ creation <= finalized /\ state <= finalized
    /\ Len(chunk) \in Nat /\ Len(import_queue) \in Nat /\ Len(events_queue) \in Nat
    /\ Len(pending) \in Nat /\ Len(calls) \in Nat
    /\ Len(done) \in Nat /\ Len(confirmed) \in Nat

\* The types say as much.
LEMMA Numbers == ASSUME TypeOK PROVE Numeric
BY ImportAssumption DEF TypeOK, Numeric

\* What is empty has no elements.
LEMMA Nothing ==
    /\ Len(<<>>) = 0
    /\ <<>> \in Seq(Heights) /\ <<>> \in Seq(0 .. MaxHeight)
    /\ <<>> \in Seq([block : Heights, events : 0 .. MaxHeight])
BY EmptySeq

\* The elements of the histories are numbers.
LEMMA Elements ==
    ASSUME TypeOK
    PROVE  /\ \A i \in 1 .. Len(done) : done[i].block \in Nat
           /\ \A i \in 1 .. Len(confirmed) : confirmed[i] \in Nat
           /\ \A i \in 1 .. Len(calls) : calls[i] \in Nat
           /\ \A i \in 1 .. Len(pending) : pending[i].block \in Nat
<1>1. Heights \subseteq Nat
  BY ImportAssumption DEF Heights
<1>2. /\ \A i \in 1 .. Len(done) : done[i] \in [block : Heights, events : 0 .. MaxHeight]
      /\ \A i \in 1 .. Len(pending) : pending[i] \in [block : Heights, events : 0 .. MaxHeight]
      /\ \A i \in 1 .. Len(confirmed) : confirmed[i] \in Heights
      /\ \A i \in 1 .. Len(calls) : calls[i] \in Heights
  BY ElementOfSeq DEF TypeOK
<1> QED BY <1>1, <1>2

\* Without a new effect it is enough that what is past stays past.
LEMMA EffectsKept ==
    ASSUME TypeOK, Effects, UNCHANGED <<done, confirmed>>, calls' \in {calls, <<>>},
           \A b \in Nat : Past(b) => Past(b)'
    PROVE  Effects'
<1> HIDE DEF Past
<1>1. CASE calls' = calls
  BY <1>1, Elements DEF Effects
<1>2. CASE calls' = <<>>
  BY <1>2, Elements, Nothing DEF Effects
<1> QED BY <1>1, <1>2

\* The invariant holds at first.
LEMMA InitInv == ASSUME Init PROVE ImportInv
<1>1. TypeOK
  <2> USE DEF Init
  <2>1. /\ finalized \in 0 .. MaxHeight /\ 0 \in 0 .. finalized
        /\ 0 \in 0 .. MaxCrashes /\ 0 \in 0 .. MaxFailures
    BY ImportAssumption
  <2> QED BY <2>1, Nothing DEF TypeOK
<1>2. Stages /\ Line /\ OwnEvents
  BY Nothing
     DEF Init, Stages, Line, ChunkLine, QueueLine, PendingLine, EventsLength, EventsLine,
         Popped, OwnEvents, Front, Producing
<1>3. Behind /\ Effects
  BY Nothing DEF Init, Behind, Effects, Importing, Producing, Front
<1> QED BY <1>1, <1>2, <1>3 DEF ImportInv

\* A block is finalized.
LEMMA FinalizeInv == ASSUME ImportInv, Finalize PROVE ImportInv'
<1> USE DEF ImportInv, Finalize, sync, queues, disk, history
<1>1. TypeOK'
  BY ImportAssumption DEF TypeOK, Heights
<1>2. Stages' /\ Line' /\ OwnEvents'
  BY
     DEF Stages, Line, ChunkLine, QueueLine, PendingLine, EventsLength, EventsLine, Popped,
         OwnEvents, Front, Producing
<1>3. Behind' /\ Effects'
  BY DEF Behind, Effects, Past, Front, Importing, Producing
<1> QED BY <1>1, <1>2, <1>3

\* The parentchain learns of the shard.
LEMMA TouchInv == ASSUME ImportInv, Touch PROVE ImportInv'
<1> USE DEF ImportInv, Touch, sync, queues, disk, history
<1>1. TypeOK'
  BY DEF TypeOK
<1>2. Stages' /\ Line' /\ OwnEvents'
  BY
     DEF Stages, Line, ChunkLine, QueueLine, PendingLine, EventsLength, EventsLine, Popped,
         OwnEvents, Front, Producing
<1>3. Behind' /\ Effects'
  BY DEF Behind, Effects, Past, Front, Importing, Producing
<1> QED BY <1>1, <1>2, <1>3

\* The worker starts behind its sealed light client.
LEMMA StartInv ==
    ASSUME ImportInv, NEW register \in Heights, NEW primary \in BOOLEAN,
           Start(register, primary)
    PROVE  ImportInv'
<1> USE DEF ImportInv, queues, Numeric
<1>n. Numeric
  BY Numbers
<1>0. /\ register \in Nat /\ register <= MaxHeight /\ finalized < register
      /\ importer = "idle" /\ pending = <<>> /\ chunk = <<>>
      /\ events_queue = <<>> /\ import_queue = <<>> /\ calls = <<>>
  BY ImportAssumption DEF Heights, Start, Stages, Producing
<1>1. TypeOK'
  <2>1. /\ creation' \in 0 .. register /\ state' \in 0 .. register
    BY <1>0, <1>n DEF Start
  <2>2. done' \in Seq([block : Heights, events : 0 .. MaxHeight])
    BY Nothing DEF Start, TypeOK
  <2> QED BY <1>0, <2>1, <2>2, <1>n DEF Start, TypeOK
<1>2. Stages' /\ Line' /\ OwnEvents'
  BY <1>0, Nothing
     DEF Start, Stages, Line, ChunkLine, QueueLine, PendingLine, EventsLength, EventsLine,
         Popped, OwnEvents, Front, Producing
<1>3. Behind'
  BY <1>0, <1>n, Nothing DEF Start, Behind, Front, Importing, Producing
<1>4. Effects'
  <2>1. \A b \in Nat : Past(b) => Past(b)'
    BY <1>0 DEF Start, Past, Importing
  <2>2. CASE touched
    BY <1>0, <2>1, <2>2, EffectsKept DEF Start
  <2>3. CASE ~touched
    BY <1>0, <2>1, <2>3, Elements, Nothing DEF Start, Effects
  <2> QED BY <2>2, <2>3
<1> QED BY <1>1, <1>2, <1>3, <1>4

\* The loss of the memory.
LEMMA MemoryLost ==
    ASSUME ImportInv, Down, UNCHANGED <<chain, creation>>,
           done' \in Seq([block : Heights, events : 0 .. MaxHeight]),
           confirmed' \in Seq(Heights),
           crashes' \in 0 .. MaxCrashes, failures' \in 0 .. MaxFailures,
           sealed' \in 0 .. finalized, state' \in 0 .. finalized, state' <= sealed', Effects'
    PROVE  ImportInv'
<1> USE DEF ImportInv, Down, chain
<1>1. TypeOK'
  BY Nothing DEF TypeOK
<1>2. Stages' /\ Line' /\ OwnEvents'
  BY Nothing DEF Stages, Line, ChunkLine, QueueLine, PendingLine, EventsLength, EventsLine,
                 Popped, OwnEvents, Front, Producing
<1>3. Behind'
  BY DEF Behind, Front, Importing, Producing
<1> QED BY <1>1, <1>2, <1>3

\* The loss of the memory, without a new effect.
LEMMA DownInv ==
    ASSUME ImportInv, Down, UNCHANGED <<chain, creation, history>>,
           crashes' \in 0 .. MaxCrashes, failures' \in 0 .. MaxFailures,
           sealed' \in 0 .. finalized, sealed <= sealed', state' \in 0 .. finalized,
           state' <= sealed'
    PROVE  ImportInv'
<1>1. Numeric
  BY Numbers DEF ImportInv
<1>2. \A b \in Nat : Past(b) => Past(b)'
  BY <1>1 DEF Past, Importing, Down, Numeric
<1>3. Effects'
  BY <1>2, EffectsKept DEF Down, history, ImportInv
<1>4. /\ done' \in Seq([block : Heights, events : 0 .. MaxHeight])
      /\ confirmed' \in Seq(Heights)
  BY DEF history, ImportInv, TypeOK
<1> QED BY <1>3, <1>4, MemoryLost

\* A crash at any point.
LEMMA CrashInv == ASSUME ImportInv, Crash PROVE ImportInv'
<1> USE DEF Numeric
<1>n. Numeric
  BY Numbers DEF ImportInv
<1>1. crashes' \in 0 .. MaxCrashes /\ failures' \in 0 .. MaxFailures
  BY ImportAssumption DEF ImportInv, TypeOK, Crash
<1> QED BY <1>1, DownInv, <1>n DEF Crash, disk, ImportInv, TypeOK, Behind

-----------------------------------------------------------------------------
(* The sync thread.                                                        *)

\* A sequence given by its elements.
LEMMA Given ==
    ASSUME NEW S, NEW n \in Nat, NEW f \in [1 .. n -> S]
    PROVE  f \in Seq(S) /\ Len(f) = n
<1>1. f \in Seq(S)
  BY SeqDef
<1>2. Len(f) \in Nat /\ DOMAIN f = 1 .. Len(f) /\ DOMAIN f = 1 .. n
  BY <1>1, LenProperties
<1> QED BY <1>1, <1>2

\* The next chunk: the blocks behind the last synced one, with their events unless
\* all of them are older than the shard.
Chunk(to) ==
    /\ to \in Nat /\ synced < to /\ to <= finalized
    /\ Blocks(to) \in Seq(Heights) /\ Len(Blocks(to)) = to - synced
    /\ Blocks(to) \in Seq(0 .. MaxHeight)
    /\ \A i \in 1 .. to - synced : Blocks(to)[i] = synced + i
    /\ to >= creation => Events(to) = Blocks(to) /\ Events(to) # <<>>
    /\ to < creation => Events(to) = <<>>

\* ChunkEnds, Blocks and Events give such a chunk.
LEMMA NextChunk == ASSUME TypeOK, NEW to \in ChunkEnds PROVE Chunk(to)
<1> USE DEF Numeric
<1>n. Numeric
  BY Numbers
<1>1. to \in Nat /\ synced < to /\ to <= finalized
  BY <1>n, ImportAssumption DEF ChunkEnds, Smaller
<1>2. /\ Blocks(to) \in [1 .. to - synced -> Heights]
      /\ Blocks(to) \in [1 .. to - synced -> 0 .. MaxHeight]
      /\ \A i \in 1 .. to - synced : Blocks(to)[i] = synced + i
  BY <1>1, <1>n DEF Blocks, Heights
<1>3. /\ Blocks(to) \in Seq(Heights) /\ Len(Blocks(to)) = to - synced
      /\ Blocks(to) \in Seq(0 .. MaxHeight)
  BY <1>1, <1>2, <1>n, Given
<1>4. Blocks(to) # <<>>
  BY <1>1, <1>3, Nothing, <1>n
<1>5. /\ to >= creation => Events(to) = Blocks(to)
      /\ to < creation => Events(to) = <<>>
  BY <1>1, <1>n DEF Events
<1> QED BY <1>1, <1>2, <1>3, <1>4, <1>5 DEF Chunk

\* A chunk is imported at the start-up.
LEMMA ImportImmediatelyInv ==
    ASSUME ImportInv, NEW to \in Heights, ImportImmediately(to)
    PROVE  ImportInv'
<1> USE DEF ImportInv, chain, queues, disk, history, Numeric
<1>n. Numeric
  BY Numbers
<1> DEFINE n == to - synced
           e(i) == IF Events(to) = <<>> THEN NoEvents ELSE Events(to)[i]
<1>1. /\ thread = "immediate" /\ importer = "idle" /\ to \in ChunkEnds
      /\ importer' = "submit" /\ synced' = to
      /\ pending' = [i \in 1 .. n |-> [block |-> synced + i, events |-> e(i)]]
      /\ UNCHANGED <<finalized, touched, thread, until, chunk, events_queue, import_queue,
                     calls, lc, sealed, creation, state, done, confirmed, crashes, failures>>
  BY DEF ImportImmediately
<1>2. /\ chunk = <<>> /\ events_queue = <<>> /\ import_queue = <<>> /\ pending = <<>>
  BY <1>1 DEF Stages, Producing
<1>c. Chunk(to)
  BY <1>1, NextChunk
<1>3. n \in Nat /\ n > 0 /\ synced + n = to
  BY <1>1, <1>c, <1>n DEF Chunk
<1>4. \A i \in 1 .. n : /\ e(i) \in 0 .. MaxHeight /\ synced + i \in Heights
                        /\ synced + i >= creation => e(i) = synced + i
  <2> TAKE i \in 1 .. n
  <2>1. synced + i \in Nat /\ synced + i <= to /\ synced + i \in Heights
    BY <1>1, <1>3, <1>c, <1>n DEF Chunk, Heights
  <2>2. CASE to >= creation
    <3>1. Events(to) = Blocks(to) /\ Events(to) # <<>>
      BY <2>2, <1>c DEF Chunk
    <3>2. Blocks(to)[i] = synced + i
      BY <1>c DEF Chunk
    <3>3. e(i) = synced + i
      BY <3>1, <3>2
    <3> QED BY <3>3, <2>1, <1>n DEF Heights
  <2>3. CASE to < creation
    BY <1>1, <1>3, <2>1, <2>3, <1>c, <1>n DEF Chunk, NoEvents
  <2> QED BY <1>1, <2>2, <2>3, <1>c, <1>n DEF Chunk
<1> HIDE DEF n, e
<1>5. /\ pending' \in [1 .. n -> [block : Heights, events : 0 .. MaxHeight]]
      /\ \A i \in 1 .. n : pending'[i].block = synced + i /\ pending'[i].events = e(i)
  BY <1>1, <1>4
<1>6. /\ pending' \in Seq([block : Heights, events : 0 .. MaxHeight])
      /\ Len(pending') = n /\ pending' # <<>>
  <2>1. pending' \in Seq([block : Heights, events : 0 .. MaxHeight]) /\ Len(pending') = n
    BY <1>3, <1>5, Given
  <2>2. Len(pending') # 0
    BY <2>1, <1>3
  <2> QED BY <2>1, <2>2, Nothing
<1>7. TypeOK'
  BY <1>1, <1>6, <1>c DEF Chunk, TypeOK
<1>8. Stages' /\ OwnEvents'
  BY <1>1, <1>2, <1>4, <1>5, <1>6 DEF Stages, OwnEvents, Producing
<1>9. Line'
  <2>1. Len(chunk') = 0 /\ Len(import_queue') = 0 /\ Len(events_queue') = 0
    BY <1>1, <1>2, Nothing
  <2>2. Front' = to
    BY <1>1, <1>3, <2>1, <1>n DEF Front
  <2>3. \A i \in 1 .. Len(pending') : pending'[i].block = to - Len(pending') + i
    BY <1>3, <1>5, <1>6, <1>n
  <2> QED BY <1>1, <1>6, <2>1, <2>2, <2>3, <1>3
     DEF Line, ChunkLine, QueueLine, PendingLine, EventsLength, EventsLine, Popped
<1>10. Behind'
  BY <1>1, <1>2, <1>3, <1>6, Nothing, <1>n DEF Behind, Front, Importing, Producing
<1>11. Effects'
  <2>1. \A b \in Nat : Past(b) => Past(b)'
    BY <1>1 DEF Past, Importing
  <2> QED BY <1>1, <2>1, EffectsKept
<1> QED BY <1>7, <1>8, <1>9, <1>10, <1>11

\* By then the worker is behind the creation block of its shard.
LEMMA SubscribeInv == ASSUME ImportInv, Subscribe PROVE ImportInv'
<1> USE DEF ImportInv, Subscribe, chain, queues, disk, history, Numeric
<1>n. Numeric
  BY Numbers
<1>1. TypeOK'
  BY DEF TypeOK
<1>2. Stages' /\ Line' /\ OwnEvents'
  BY
     DEF Stages, Line, ChunkLine, QueueLine, PendingLine, EventsLength, EventsLine, Popped,
         OwnEvents, Front, Producing
<1>3. Behind'
  BY <1>n DEF Behind, Front, Importing, Producing
<1>4. Effects'
  BY DEF Effects, Past, Importing
<1> QED BY <1>1, <1>2, <1>3, <1>4

\* The events of a chunk are queued, its blocks are held.
LEMMA PushEventsInv ==
    ASSUME ImportInv, NEW to \in Heights, PushEvents(to)
    PROVE  ImportInv'
<1> USE DEF ImportInv, chain, queues, disk, history, Numeric
<1>n. Numeric
  BY Numbers
<1>c. Chunk(to)
  BY NextChunk DEF PushEvents
<1>0. to \in Nat /\ synced < to /\ to <= finalized /\ Events(to) = Blocks(to)
  <2>1. to \in Nat /\ synced < to /\ to <= finalized
    BY <1>c DEF Chunk
  <2>2. creation <= synced
    BY DEF PushEvents, Behind, Producing
  <2>3. to >= creation
    BY <2>1, <2>2, <1>n
  <2> QED BY <2>1, <2>3, <1>c DEF Chunk
<1>1. /\ thread = "subscribed" /\ thread' = "pushing" /\ to \in ChunkEnds /\ chunk = <<>>
      /\ events_queue' = events_queue \o Blocks(to) /\ chunk' = Blocks(to) /\ synced' = to
      /\ UNCHANGED <<finalized, touched, until, import_queue, importer, pending, calls, lc,
                     sealed, creation, state, done, confirmed, crashes, failures>>
  BY <1>0 DEF PushEvents, Stages
<1>2. /\ events_queue' \in Seq(0 .. MaxHeight)
      /\ Len(events_queue') = Len(events_queue) + (to - synced)
      /\ \A i \in 1 .. Len(events_queue) + (to - synced) :
             events_queue'[i] = IF i <= Len(events_queue) THEN events_queue[i]
                                ELSE Blocks(to)[i - Len(events_queue)]
  <2>1. Blocks(to) \in Seq(0 .. MaxHeight) /\ Len(Blocks(to)) = to - synced
    BY <1>c DEF Chunk
  <2>2. events_queue \in Seq(0 .. MaxHeight)
    BY DEF TypeOK
  <2> QED BY <1>1, <2>1, <2>2, ConcatProperties
<1>3. /\ to \in Nat /\ synced < to /\ to <= finalized
      /\ chunk' \in Seq(Heights) /\ Len(chunk') = to - synced
      /\ \A i \in 1 .. to - synced : Blocks(to)[i] = synced + i
      /\ Len(chunk) = 0
  BY <1>1, <1>c, Nothing DEF Chunk
<1>4. TypeOK'
  BY <1>1, <1>2, <1>3 DEF TypeOK
<1>5. Stages' /\ OwnEvents'
  BY <1>1 DEF Stages, OwnEvents, Producing
<1>6. Front' = Front /\ Front \in Int
  BY <1>1, <1>3, <1>n DEF Front
<1>7. Line'
  <2>1. \A i \in 1 .. Len(events_queue)' : events_queue'[i] = to - Len(events_queue)' + i
    <3> TAKE i \in 1 .. Len(events_queue)'
    <3>1. CASE i <= Len(events_queue)
      <4>1. i \in 1 .. Len(events_queue)
        BY <3>1, <1>2, <1>3, <1>n
      <4>2. events_queue'[i] = synced - Len(events_queue) + i
        BY <3>1, <4>1, <1>2, <1>3, <1>n DEF Line, EventsLine
      <4> QED BY <4>1, <4>2, <1>2, <1>3, <1>n
    <3>2. CASE i > Len(events_queue)
      <4>1. i - Len(events_queue) \in 1 .. to - synced
        BY <3>2, <1>2, <1>3, <1>n
      <4>2. events_queue'[i] = synced + (i - Len(events_queue))
        BY <3>2, <4>1, <1>2, <1>3, <1>n
      <4> QED BY <4>1, <4>2, <1>2, <1>3, <1>n
    <3> QED BY <3>1, <3>2, <1>2, <1>3, <1>n
  <2>2. EventsLength'
    <3>1. EventsLength
      BY DEF Line
    <3>2. Popped' = Popped /\ Popped \in Nat
      BY <1>1, <1>n DEF Popped
    <3> HIDE DEF ImportInv
    <3> QED BY <3>1, <3>2, <1>1, <1>2, <1>3, <1>n DEF EventsLength
  <2>3. \A i \in 1 .. Len(chunk') : chunk'[i] = to - Len(chunk') + i
    <3> TAKE i \in 1 .. Len(chunk')
    <3>1. i \in 1 .. to - synced /\ chunk'[i] = synced + i
      BY <1>1, <1>3
    <3> QED BY <3>1, <1>3, <1>n
  <2>4. QueueLine' /\ PendingLine'
    BY <1>1, <1>6 DEF Line, QueueLine, PendingLine
  <2> QED BY <1>1, <2>1, <2>2, <2>3, <2>4 DEF Line, ChunkLine, EventsLine
<1>8. Behind'
  BY <1>1, <1>3, <1>6, <1>n DEF Behind, Importing, Producing
<1>9. Effects'
  BY <1>1 DEF Effects, Past, Importing
<1> QED BY <1>4, <1>5, <1>7, <1>8, <1>9

\* The blocks of the chunk follow their events.
LEMMA PushBlocksInv == ASSUME ImportInv, PushBlocks PROVE ImportInv'
<1> USE DEF ImportInv, chain, queues, disk, history, Numeric
<1>n. Numeric
  BY Numbers
<1>1. /\ thread = "pushing" /\ thread' = "subscribed" /\ chunk' = <<>> /\ Len(chunk') = 0
      /\ import_queue' = import_queue \o chunk
      /\ UNCHANGED <<finalized, touched, until, synced, events_queue, importer, pending, calls,
                     lc, sealed, creation, state, done, confirmed, crashes, failures>>
  BY Nothing DEF PushBlocks
<1>2. /\ import_queue' \in Seq(Heights)
      /\ Len(import_queue') = Len(import_queue) + Len(chunk)
      /\ \A i \in 1 .. Len(import_queue) + Len(chunk) :
             import_queue'[i] = IF i <= Len(import_queue) THEN import_queue[i]
                                ELSE chunk[i - Len(import_queue)]
  BY <1>1, ConcatProperties DEF TypeOK
<1>3. TypeOK'
  BY <1>1, <1>2, Nothing DEF TypeOK
<1>4. Stages' /\ OwnEvents'
  BY <1>1 DEF Stages, OwnEvents, Producing
<1>5. Front' = Front /\ Front \in Int
  <2>1. /\ synced' = synced /\ Len(chunk') = 0
        /\ Len(import_queue') = Len(import_queue) + Len(chunk)
    BY <1>1, <1>2
  <2> HIDE DEF ImportInv
  <2> QED BY <2>1, <1>n DEF Front
<1>6. Line'
  <2>1. \A i \in 1 .. Len(import_queue)' : import_queue'[i] = Front + i
    <3> TAKE i \in 1 .. Len(import_queue)'
    <3>1. CASE i <= Len(import_queue)
      BY <3>1, <1>2, <1>n DEF Line, QueueLine
    <3>2. CASE i > Len(import_queue)
      <4>1. i - Len(import_queue) \in 1 .. Len(chunk)
        BY <3>2, <1>2, <1>n
      <4>2. import_queue'[i] = synced - Len(chunk) + (i - Len(import_queue))
        <5>1. import_queue'[i] = chunk[i - Len(import_queue)]
          BY <3>2, <1>2, <1>n
        <5>2. \A j \in 1 .. Len(chunk) : chunk[j] = synced - Len(chunk) + j
          BY DEF Line, ChunkLine, QueueLine, PendingLine, EventsLength, EventsLine, Popped
        <5> QED BY <4>1, <5>1, <5>2
      <4> QED BY <4>1, <4>2, <1>2, <1>n DEF Front
    <3> QED BY <3>1, <3>2, <1>2, <1>n
  <2>2. EventsLength'
    <3>1. EventsLength
      BY DEF Line
    <3>2. Popped' = Popped /\ Popped \in Nat
      BY <1>1, <1>n DEF Popped
    <3> HIDE DEF ImportInv
    <3> QED BY <3>1, <3>2, <1>1, <1>2, <1>n DEF EventsLength
  <2>3. ChunkLine'
    BY <1>1 DEF ChunkLine
  <2>4. QueueLine'
    BY <1>5, <2>1 DEF QueueLine
  <2>5. PendingLine' /\ EventsLine'
    BY <1>1, <1>5 DEF Line, PendingLine, EventsLine
  <2> QED BY <2>2, <2>3, <2>4, <2>5 DEF Line
<1>7. Behind'
  BY <1>1, <1>5, <1>n DEF Behind, Importing, Producing
<1>8. Effects'
  BY <1>1 DEF Effects, Past, Importing
<1> QED BY <1>3, <1>4, <1>6, <1>7, <1>8

\* The sync thread stops, or the start-up panics.
LEMMA SyncFailsInv == ASSUME ImportInv, SyncFails PROVE ImportInv'
<1> USE DEF ImportInv, chain, queues, disk, history, Numeric
<1>n. Numeric
  BY Numbers
<1>1. failures' \in 0 .. MaxFailures /\ crashes' \in 0 .. MaxCrashes
  BY ImportAssumption DEF TypeOK, SyncFails
<1>2. CASE Down
  BY <1>1, <1>2, DownInv, <1>n DEF SyncFails, TypeOK, Behind
<1>3. CASE ~Down
  <2>1. /\ thread = "subscribed" /\ thread' = "terminated"
        /\ UNCHANGED <<finalized, touched, until, synced, chunk, events_queue, import_queue,
               importer, pending, calls, lc, sealed, creation, state, done, confirmed, crashes>>
    BY <1>3 DEF SyncFails
  <2>2. TypeOK'
    BY <1>1, <2>1 DEF TypeOK
  <2>3. Stages' /\ Line' /\ OwnEvents'
    BY <2>1
       DEF Stages, Line, ChunkLine, QueueLine, PendingLine, EventsLength, EventsLine, Popped,
           OwnEvents, Front, Producing
  <2>4. Behind' /\ Effects'
    BY <2>1 DEF Behind, Effects, Past, Front, Importing, Producing
  <2> QED BY <2>2, <2>3, <2>4
<1> QED BY <1>2, <1>3

-----------------------------------------------------------------------------
(* The slot thread takes blocks and events from the queues.                *)

\* Blocks are popped, their events are still queued.
LEMMA PopBlocksInv ==
    ASSUME ImportInv, NEW k \in Heights, PopBlocks(k)
    PROVE  ImportInv'
<1> USE DEF ImportInv, Numeric
<1>n. Numeric
  BY Numbers
<1>1. /\ Producing /\ importer = "idle" /\ importer' = "popped" /\ k \in 1 .. Len(import_queue)
      /\ pending' = [i \in 1 .. k |-> [block |-> import_queue[i], events |-> NoEvents]]
      /\ import_queue' = SubSeq(import_queue, k + 1, Len(import_queue))
      /\ UNCHANGED <<finalized, touched, thread, until, synced, chunk, events_queue, calls, lc,
                     sealed, creation, state, done, confirmed, crashes, failures>>
  BY DEF PopBlocks, pop_until, chain, sync, disk, history
<1>k. k \in Nat /\ k > 0 /\ k <= Len(import_queue)
  BY <1>1, <1>n
<1>2. \A i \in 1 .. Len(import_queue) : import_queue[i] \in Heights /\ import_queue[i] = Front + i
  <2>1. import_queue \in Seq(Heights)
    BY DEF TypeOK
  <2> QED BY <2>1, ElementOfSeq DEF Line, QueueLine
<1>3. /\ pending' \in [1 .. k -> [block : Heights, events : 0 .. MaxHeight]]
      /\ \A i \in 1 .. k : pending'[i].block = Front + i
  <2>1. NoEvents \in 0 .. MaxHeight /\ 1 .. k \subseteq 1 .. Len(import_queue)
    BY <1>k, <1>n DEF NoEvents
  <2> QED BY <1>1, <1>2, <2>1
<1>4. pending' \in Seq([block : Heights, events : 0 .. MaxHeight]) /\ Len(pending') = k
  BY <1>3, <1>k, Given
<1>5. /\ import_queue' \in Seq(Heights) /\ Len(import_queue') = Len(import_queue) - k
      /\ \A i \in 1 .. Len(import_queue) - k : import_queue'[i] = Front + k + i
  <2>1. /\ import_queue' \in Seq(Heights)
        /\ Len(import_queue') = IF k + 1 <= Len(import_queue) THEN Len(import_queue) - (k + 1) + 1
                                ELSE 0
        /\ \A i \in 1 .. Len(import_queue) - (k + 1) + 1 :
               import_queue'[i] = import_queue[k + 1 + i - 1]
    <3>1. k + 1 \in Int /\ Len(import_queue) \in Int
          /\ \A i \in k + 1 .. Len(import_queue) : import_queue[i] \in Heights
      BY <1>2, <1>k, <1>n
    <3> QED BY <1>1, <3>1, SubSeqProperties
  <2>2. Front \in Int
    BY <1>n DEF Front
  <2>3. ASSUME NEW i \in 1 .. Len(import_queue) - k PROVE import_queue'[i] = Front + k + i
    <3>1. i \in 1 .. Len(import_queue) - (k + 1) + 1 /\ k + 1 + i - 1 = k + i
          /\ k + i \in 1 .. Len(import_queue)
      BY <1>k, <1>n
    <3> QED BY <2>1, <2>2, <3>1, <1>2, <1>k
  <2> QED BY <2>1, <2>3, <1>k, <1>n
<1>6. Front' = Front + k /\ Front \in Int
  <2>1. synced' = synced /\ Len(chunk') = Len(chunk) /\ Len(import_queue') = Len(import_queue) - k
    BY <1>1, <1>5
  <2> QED BY <2>1, <1>k, <1>n DEF Front
<1>7. pending = <<>> /\ pending' # <<>> /\ Len(pending) = 0
  <2>1. Len(pending') # 0
    BY <1>4, <1>k
  <2> QED BY <1>1, <2>1, Nothing DEF Stages
<1>8. TypeOK'
  BY <1>1, <1>4, <1>5 DEF TypeOK
<1>9. Stages' /\ OwnEvents'
  BY <1>1, <1>7 DEF Stages, OwnEvents, Producing
<1>10. Line'
  <2>1. ChunkLine' /\ EventsLine'
    BY <1>1 DEF Line, ChunkLine, EventsLine
  <2>2. QueueLine'
    BY <1>5, <1>6, <1>k, <1>n DEF QueueLine
  <2>3. PendingLine'
    BY <1>3, <1>4, <1>6, <1>k DEF PendingLine
  <2>4. EventsLength'
    <3>1. EventsLength /\ Popped = 0 /\ Popped' = k
      BY <1>1, <1>4 DEF Line, Popped
    <3>2. Len(events_queue) = Len(import_queue) + Len(chunk)
      BY <3>1, <1>n DEF EventsLength
    <3>3. /\ Len(events_queue') = Len(events_queue) /\ Len(chunk') = Len(chunk)
          /\ Len(import_queue') = Len(import_queue) - k
      BY <1>1, <1>5
    <3> QED BY <3>1, <3>2, <3>3, <1>k, <1>n DEF EventsLength
  <2> QED BY <2>1, <2>2, <2>3, <2>4 DEF Line
<1>11. Behind'
  <2>1. lc <= Front
    BY <1>1, <1>6, <1>7, <1>n DEF Behind, Producing, Importing
  <2> QED BY <1>1, <1>4, <1>6, <1>k, <1>n, <2>1 DEF Behind, Importing, Producing
<1>12. Effects'
  <2>1. \A b \in Nat : Past(b) => Past(b)'
    BY <1>1 DEF Past, Importing
  <2> QED BY <1>1, <2>1, EffectsKept
<1> QED BY <1>8, <1>9, <1>10, <1>11, <1>12

\* There are events for every block that was popped: the queues cannot run apart.
LEMMA EventsSuffice ==
    ASSUME ImportInv, importer = "popped"
    PROVE  Len(pending) <= Len(events_queue)
<1>1. Numeric /\ EventsLength /\ Popped = Len(pending)
  BY Numbers DEF ImportInv, Line, Popped
<1> QED BY <1>1 DEF Numeric, EventsLength

\* The popped blocks get the events at the front of the events queue: their own.
LEMMA PopEventsInv == ASSUME ImportInv, PopEvents PROVE ImportInv'
<1> USE DEF ImportInv, Numeric
<1>n. Numeric
  BY Numbers
<1> DEFINE n == Len(pending)
<1>1. /\ importer = "popped" /\ n <= Len(events_queue)
      /\ Producing /\ pending # <<>> /\ n \in Nat /\ n > 0
  <2>1. importer = "popped" /\ Producing /\ pending # <<>> /\ n <= Len(events_queue)
    BY EventsSuffice DEF PopEvents, Stages
  <2>2. n \in Nat \ {0}
    BY <2>1, EmptySeq DEF TypeOK
  <2> QED BY <2>1, <2>2
<1>2. /\ pending' = [i \in DOMAIN pending |-> [pending[i] EXCEPT !.events = events_queue[i]]]
      /\ events_queue' = SubSeq(events_queue, n + 1, Len(events_queue))
      /\ importer' = "submit"
      /\ UNCHANGED <<finalized, touched, thread, until, synced, chunk, import_queue, calls, lc,
                     sealed, creation, state, done, confirmed, crashes, failures>>
  BY <1>1 DEF PopEvents, chain, sync, disk, history
<1>3. /\ DOMAIN pending = 1 .. n
      /\ \A i \in 1 .. n : pending[i] \in [block : Heights, events : 0 .. MaxHeight]
      /\ \A i \in 1 .. Len(events_queue) : events_queue[i] \in 0 .. MaxHeight
  BY LenProperties, ElementOfSeq DEF TypeOK
<1>4. 1 .. n \subseteq 1 .. Len(events_queue)
  BY <1>1, <1>n
<1>5. /\ pending' \in [1 .. n -> [block : Heights, events : 0 .. MaxHeight]]
      /\ \A i \in 1 .. n : pending'[i].block = pending[i].block
                          /\ pending'[i].events = events_queue[i]
  BY <1>2, <1>3, <1>4
<1>6. pending' \in Seq([block : Heights, events : 0 .. MaxHeight]) /\ Len(pending') = n
  BY <1>1, <1>5, Given
<1>7. /\ events_queue' \in Seq(0 .. MaxHeight) /\ Len(events_queue') = Len(events_queue) - n
      /\ \A i \in 1 .. Len(events_queue) - n : events_queue'[i] = events_queue[n + i]
  <2>1. n + 1 \in Int /\ Len(events_queue) \in Int
        /\ \A i \in n + 1 .. Len(events_queue) : events_queue[i] \in 0 .. MaxHeight
    BY <1>1, <1>3, <1>n
  <2>2. /\ events_queue' \in Seq(0 .. MaxHeight)
        /\ Len(events_queue') = IF n + 1 <= Len(events_queue) THEN Len(events_queue) - (n + 1) + 1
                                ELSE 0
        /\ \A i \in 1 .. Len(events_queue) - (n + 1) + 1 :
               events_queue'[i] = events_queue[n + 1 + i - 1]
    BY <1>2, <2>1, SubSeqProperties
  <2>3. ASSUME NEW i \in 1 .. Len(events_queue) - n PROVE events_queue'[i] = events_queue[n + i]
    <3>1. i \in 1 .. Len(events_queue) - (n + 1) + 1 /\ n + 1 + i - 1 = n + i
      BY <1>1, <1>n
    <3> QED BY <2>2, <3>1
  <2> QED BY <2>2, <2>3, <1>1, <1>n
<1>8. EventsLength /\ Popped = n /\ Front' = Front
  BY <1>1, <1>2 DEF Line, Popped, Front
<1>9. Len(events_queue) = Len(import_queue) + Len(chunk) + n
  BY <1>8 DEF EventsLength
<1>10. TypeOK'
  BY <1>2, <1>6, <1>7 DEF TypeOK
<1>11. Stages'
  <2>1. pending' # <<>>
    BY <1>1, <1>6, Nothing
  <2> QED BY <1>1, <1>2, <2>1 DEF Stages, Producing
<1>12. OwnEvents'
  <2> SUFFICES ASSUME NEW i \in 1 .. n PROVE pending'[i].events = pending'[i].block
    BY <1>6 DEF OwnEvents
  <2>1. i \in 1 .. Len(events_queue)
    BY <1>4
  <2>2. events_queue[i] = synced - Len(events_queue) + i
    BY <2>1 DEF Line, EventsLine
  <2>3. pending[i].block = Front - n + i
    BY DEF Line, PendingLine
  <2>4. synced - Len(events_queue) + i = Front - n + i
    BY <1>1, <1>9, <1>n DEF Front
  <2> QED BY <1>5, <2>2, <2>3, <2>4
<1>13. Line'
  <2>1. ChunkLine' /\ QueueLine'
    BY <1>2, <1>8 DEF Line, ChunkLine, QueueLine
  <2>2. PendingLine'
    BY <1>5, <1>6, <1>8 DEF Line, PendingLine
  <2>3. EventsLength'
    <3>1. Popped' = 0
      BY <1>2 DEF Popped
    <3> QED BY <3>1, <1>1, <1>2, <1>7, <1>9, <1>n DEF EventsLength
  <2>4. EventsLine'
    <3> SUFFICES ASSUME NEW i \in 1 .. Len(events_queue) - n
                 PROVE  events_queue'[i] = synced - (Len(events_queue) - n) + i
      BY <1>2, <1>7 DEF EventsLine
    <3>1. n + i \in 1 .. Len(events_queue)
      BY <1>1, <1>n
    <3>2. events_queue'[i] = synced - Len(events_queue) + (n + i)
      BY <3>1, <1>7 DEF Line, EventsLine
    <3> QED BY <3>2, <1>1, <1>n
  <2> QED BY <2>1, <2>2, <2>3, <2>4 DEF Line
<1>14. Behind'
  BY <1>1, <1>2, <1>6, <1>8 DEF Behind, Importing, Producing
<1>15. Effects'
  <2>1. \A b \in Nat : Past(b) => Past(b)'
    BY <1>2 DEF Past, Importing
  <2> QED BY <1>2, <2>1, EffectsKept
<1> QED BY <1>10, <1>11, <1>12, <1>13, <1>14, <1>15

-----------------------------------------------------------------------------
(* The import of the blocks.                                               *)

\* The block at hand.
LEMMA First ==
    ASSUME ImportInv, importer \in {"submit", "update", "execute"}
    PROVE  /\ Len(pending) > 0 /\ Block = pending[1].block /\ Head(pending) = pending[1]
           /\ Block = Front - Len(pending) + 1 /\ Front \in Int /\ Block \in Nat
           /\ Block <= Front /\ Front <= synced /\ thread # "down"
           /\ Head(pending) \in [block : Heights, events : 0 .. MaxHeight]
           /\ Block >= creation => Head(pending).events = Block
<1>n. Numeric
  BY Numbers DEF ImportInv
<1>1. pending # <<>> /\ thread # "down"
  BY DEF ImportInv, Stages
<1>2. pending \in Seq([block : Heights, events : 0 .. MaxHeight])
  BY DEF ImportInv, TypeOK
<1>3. Len(pending) > 0 /\ Head(pending) = pending[1]
  BY <1>1, <1>2, EmptySeq
<1>4. 1 \in 1 .. Len(pending)
  BY <1>3, <1>n DEF Numeric
<1>5. /\ pending[1].block = Front - Len(pending) + 1
      /\ pending[1].block >= creation => pending[1].events = pending[1].block
  BY <1>4 DEF ImportInv, Line, PendingLine, OwnEvents
<1>6. pending[1] \in [block : Heights, events : 0 .. MaxHeight]
  BY <1>2, <1>4, ElementOfSeq
<1>7. pending[1].block \in Nat
  BY <1>4, Elements DEF ImportInv
<1>8. Front \in Int /\ Front <= synced
  BY <1>n DEF Numeric, Front
<1> QED BY <1>1, <1>3, <1>5, <1>6, <1>7, <1>8, <1>n DEF Block, Numeric

\* An import that is over: what was popped with it is dropped.
LEMMA DropInv ==
    ASSUME ImportInv, importer \in {"submit", "update", "execute", "send"}, thread # "down",
           importer' = "idle", pending' = <<>>, calls' = <<>>,
           UNCHANGED <<chain, sync, queues, creation, crashes>>,
           failures' \in 0 .. MaxFailures,
           lc' \in 0 .. finalized, sealed' \in 0 .. finalized, state' \in 0 .. finalized,
           done' \in Seq([block : Heights, events : 0 .. MaxHeight]),
           confirmed' \in Seq(Heights),
           state' <= sealed', sealed' <= lc', lc' <= Front, Effects'
    PROVE  ImportInv'
<1> USE DEF ImportInv, chain, sync, queues
<1>1. TypeOK'
  BY Nothing DEF TypeOK
<1>2. Stages' /\ OwnEvents'
  BY Nothing DEF Stages, OwnEvents, Producing
<1>3. Front' = Front
  BY DEF Front
<1>4. Line'
  <2>1. ChunkLine' /\ QueueLine' /\ EventsLine'
    BY <1>3 DEF Line, ChunkLine, QueueLine, EventsLine
  <2>2. PendingLine'
    BY Nothing DEF PendingLine
  <2>3. EventsLength'
    BY DEF Line, EventsLength, Popped
  <2> QED BY <2>1, <2>2, <2>3 DEF Line
<1>5. Behind'
  <2>1. Numeric
    BY Numbers
  <2>2. Front \in Int
    BY <2>1 DEF Numeric, Front
  <2>3. Len(pending') \in Int /\ Len(pending') <= 0 /\ lc' \in Int
    BY Nothing
  <2>4. Front' \in Int /\ lc' <= Front'
    BY <1>3, <2>2
  <2>5. lc' + Len(pending') <= Front'
    BY ONLY <2>3, <2>4
  <2>6. /\ importer' = "idle" /\ UNCHANGED <<thread, touched, until, synced, creation>>
        /\ state' <= sealed' /\ sealed' <= lc' /\ thread # "down"
    OBVIOUS
  <2>7. /\ touched => creation # 0
        /\ creation # 0 /\ creation <= until
        /\ Producing => creation <= synced
    BY DEF Behind
  <2> QED BY ONLY <2>3, <2>4, <2>5, <2>6, <2>7 DEF Behind, Importing, Producing
<1> QED BY <1>1, <1>2, <1>4, <1>5

\* The loop goes on with the next block.
LEMMA NextBlockInv ==
    ASSUME ImportInv, NextBlock, importer \in {"submit", "update", "execute"},
           UNCHANGED <<chain, sync, queues, creation, crashes>>,
           failures' \in 0 .. MaxFailures, calls' \in Seq(Heights),
           lc' = Block, sealed' \in 0 .. finalized, state' \in 0 .. finalized,
           done' \in Seq([block : Heights, events : 0 .. MaxHeight]),
           confirmed' \in Seq(Heights),
           state' <= sealed', sealed' <= lc', Effects'
    PROVE  ImportInv'
<1> USE DEF ImportInv, chain, sync, queues, Numeric
<1>n. Numeric
  BY Numbers
<1>f. /\ Len(pending) > 0 /\ Block = Front - Len(pending) + 1 /\ Front \in Int /\ Block \in Nat
      /\ Block <= Front /\ Front <= synced /\ thread # "down"
  BY First
<1>0. pending \in Seq([block : Heights, events : 0 .. MaxHeight]) /\ pending # <<>>
  BY DEF TypeOK, Stages
<1>1. /\ pending' \in Seq([block : Heights, events : 0 .. MaxHeight])
      /\ Len(pending') = Len(pending) - 1
      /\ \A i \in 1 .. Len(pending') : pending'[i] = pending[i + 1]
  BY <1>0, HeadTailProperties DEF NextBlock
<1>2. /\ importer' = IF pending' = <<>> THEN "send" ELSE "submit"
      /\ UNCHANGED <<finalized, touched, thread, until, synced, chunk, events_queue,
                     import_queue, creation, crashes>>
  BY DEF NextBlock
<1>3. \A i \in 1 .. Len(pending') : i + 1 \in 1 .. Len(pending)
  BY <1>1, <1>n
<1>4. TypeOK'
  <2>1. lc' \in 0 .. finalized
    BY <1>f, <1>n
  <2> QED BY <1>1, <1>2, <2>1 DEF TypeOK
<1>5. Stages' /\ OwnEvents'
  <2>1. Stages'
    BY <1>2, <1>f DEF Stages, Producing
  <2>2. OwnEvents'
    BY <1>1, <1>2, <1>3 DEF OwnEvents
  <2> QED BY <2>1, <2>2
<1>6. Front' = Front
  BY <1>2 DEF Front
<1>7. Line'
  <2>1. ChunkLine' /\ QueueLine' /\ EventsLine'
    BY <1>2, <1>6 DEF Line, ChunkLine, QueueLine, EventsLine
  <2>2. PendingLine'
    <3> SUFFICES ASSUME NEW i \in 1 .. Len(pending')
                 PROVE  pending'[i].block = Front - Len(pending') + i
      BY <1>6 DEF PendingLine
    <3>1. pending'[i].block = Front - Len(pending) + (i + 1)
      BY <1>1, <1>3 DEF Line, PendingLine
    <3> QED BY <3>1, <1>1, <1>n, <1>f
  <2>3. EventsLength'
    <3>1. EventsLength /\ Popped' = 0 /\ Popped = 0
      BY <1>2 DEF Line, Popped
    <3> QED BY <3>1, <1>2 DEF EventsLength
  <2> QED BY <2>1, <2>2, <2>3 DEF Line
<1>8. Behind'
  <2>1. lc' + Len(pending') <= Front'
    BY <1>1, <1>6, <1>f, <1>n
  <2>2. Front' \in Int
    BY <1>6, <1>f
  <2> QED BY <1>2, <1>f, <2>1, <2>2 DEF Behind, Importing, Producing
<1> QED BY <1>4, <1>5, <1>7, <1>8

\* The state is moved to the block, which is sealed by then.
LEMMA UpdateStatesInv == ASSUME ImportInv, UpdateStates PROVE ImportInv'
<1> USE DEF ImportInv, UpdateStates, chain, sync, queues, history
<1>0. Block = lc /\ sealed = lc /\ lc \in 0 .. finalized
  BY First DEF Behind, Importing, TypeOK
<1>1. TypeOK'
  BY <1>0 DEF TypeOK
<1>2. Stages' /\ OwnEvents'
  BY DEF Stages, OwnEvents, Producing
<1>3. Line'
  BY DEF Line, ChunkLine, QueueLine, PendingLine, EventsLength, EventsLine, Popped, Front
<1>4. Behind'
  BY <1>0 DEF Behind, Front, Importing, Producing
<1>5. Effects'
  BY DEF Effects, Past, Importing
<1> QED BY <1>1, <1>2, <1>3, <1>4, <1>5

\* The same, and the import is given up.
LEMMA UpdateStatesFailsInv == ASSUME ImportInv, UpdateStatesFails PROVE ImportInv'
<1> USE DEF ImportInv, UpdateStatesFails
<1>n. Numeric
  BY Numbers
<1>0. /\ Block = lc /\ sealed = lc /\ lc \in 0 .. finalized /\ state \in 0 .. finalized
      /\ state <= sealed /\ thread # "down" /\ lc <= Front
  BY First DEF Behind, Importing, TypeOK
<1>1. /\ failures' \in 0 .. MaxFailures /\ crashes' \in 0 .. MaxCrashes
      /\ state' \in 0 .. finalized /\ state' <= sealed' /\ sealed' = sealed
  BY ImportAssumption, <1>0, <1>n DEF TypeOK, Numeric
<1>2. CASE thread = "immediate"
  BY <1>0, <1>1, <1>2, <1>n, DownInv DEF Return, Numeric
<1>3. CASE thread # "immediate"
  <2>1. /\ importer' = "idle" /\ pending' = <<>> /\ calls' = <<>>
        /\ UNCHANGED <<sync, queues, lc>>
    BY <1>3 DEF Return
  <2>2. Effects'
    <3>1. \A b \in Nat : Past(b) => Past(b)'
      BY <2>1, <1>1 DEF Past, Importing
    <3> QED BY <2>1, <3>1, EffectsKept DEF history
  <2>3. /\ UNCHANGED <<chain, creation, crashes, done, confirmed, sealed, lc>>
        /\ done \in Seq([block : Heights, events : 0 .. MaxHeight])
        /\ confirmed \in Seq(Heights)
    BY <2>1 DEF history, TypeOK
  <2> HIDE DEF ImportInv, UpdateStatesFails
  <2>4. importer = "update"
    BY DEF UpdateStatesFails
  <2> QED BY <1>0, <1>1, <2>1, <2>2, <2>3, <2>4, DropInv
<1> QED BY <1>2, <1>3

-----------------------------------------------------------------------------
\* The header of the next block is taken and sealed, or the import is given up.
LEMMA SubmitBlockInv == ASSUME ImportInv, SubmitBlock PROVE ImportInv'
<1> USE DEF ImportInv
<1>n. Numeric
  BY Numbers
<1>f. /\ importer = "submit" /\ thread # "down" /\ Len(pending) > 0
      /\ Block = pending[1].block /\ Block = Front - Len(pending) + 1
      /\ Front \in Int /\ Block \in Nat /\ Block <= Front /\ Front <= synced
  BY First DEF SubmitBlock
<1>l. /\ sealed <= lc /\ state <= sealed /\ lc + Len(pending) <= Front /\ lc <= Front
  BY <1>f, <1>n DEF Behind, Importing, Numeric
<1>u. UNCHANGED <<finalized, touched, creation, state, done, confirmed, crashes, failures>>
  BY DEF SubmitBlock, chain, history
<1>t. /\ failures \in 0 .. MaxFailures /\ crashes \in 0 .. MaxCrashes
      /\ done \in Seq([block : Heights, events : 0 .. MaxHeight]) /\ confirmed \in Seq(Heights)
      /\ calls \in Seq(Heights)
      /\ state \in 0 .. finalized /\ sealed \in 0 .. finalized /\ lc \in 0 .. finalized
  BY DEF TypeOK
<1>1. CASE Block = lc + 1
  <2>1. /\ lc' = Block /\ sealed' = Block /\ UNCHANGED <<sync, queues, calls>>
        /\ IF Block < creation THEN NextBlock ELSE importer' = "update" /\ UNCHANGED pending
    BY <1>1, <1>f DEF SubmitBlock, IsChild, SealedBy
  <2>2. Block \in 0 .. finalized /\ state <= Block /\ sealed < Block
    BY <1>1, <1>f, <1>l, <1>n DEF Numeric
  <2>3. Effects'
    <3>1. \A b \in Nat : Past(b) => Past(b)'
      BY <2>1, <2>2, <1>f, <1>n DEF Past, Importing, Numeric
    <3> QED BY <1>u, <2>1, <3>1, EffectsKept
  <2>4. CASE Block < creation
    <3> HIDE DEF ImportInv
    <3> QED BY <2>1, <2>2, <2>3, <2>4, <1>f, <1>u, <1>t, NextBlockInv DEF chain
  <2>5. CASE ~(Block < creation)
    <3>1. /\ importer' = "update"
          /\ UNCHANGED <<thread, until, synced, chunk, events_queue, import_queue, pending, calls>>
      BY <2>1, <2>5 DEF sync, queues
    <3>2. TypeOK'
      BY <1>u, <2>1, <2>2, <3>1 DEF TypeOK
    <3>3. Stages' /\ OwnEvents'
      BY <1>f, <1>u, <3>1 DEF Stages, OwnEvents, Producing
    <3>4. Line'
      BY <1>f, <3>1
         DEF Line, ChunkLine, QueueLine, PendingLine, EventsLength, EventsLine, Popped, Front
    <3>5. Behind'
      <4>1. Front' = Front /\ Len(pending') = Len(pending) /\ creation <= Block
        BY <3>1, <2>5, <1>f, <1>n DEF Front, Numeric
      <4>2. lc' + Len(pending') <= Front' + 1
        BY <4>1, <2>1, <1>f, <1>n DEF Numeric
      <4>3. /\ sealed' = lc' /\ lc' = pending'[1].block /\ creation' <= lc'
            /\ state' <= sealed' /\ sealed' <= lc'
        BY <4>1, <2>1, <2>2, <3>1, <1>f, <1>u
      <4> QED BY <4>2, <4>3, <1>f, <1>u, <3>1 DEF Behind, Importing, Producing
    <3> QED BY <3>2, <3>3, <3>4, <3>5, <2>3
  <2> QED BY <2>4, <2>5
<1>2. CASE Block # lc + 1
  <2>1. Return(TRUE) /\ sealed' = lc
    BY <1>2, <1>f DEF SubmitBlock, IsChild, SealedBy
  <2>2. CASE thread = "immediate"
    <3> HIDE DEF ImportInv
    <3>1. Down /\ state' <= sealed' /\ sealed <= sealed'
      BY <2>1, <2>2, <1>l, <1>u, <1>n DEF Return, Numeric
    <3> QED BY <3>1, <2>1, <1>u, <1>t, DownInv DEF chain, history
  <2>3. CASE thread # "immediate"
    <3>1. /\ importer' = "idle" /\ pending' = <<>> /\ calls' = <<>>
          /\ UNCHANGED <<sync, queues, lc>>
      BY <2>1, <2>3 DEF Return
    <3>2. Effects'
      <4>1. \A b \in Nat : Past(b) => Past(b)'
        BY <2>1, <3>1, <1>f, <1>l, <1>n DEF Past, Importing, Numeric
      <4> QED BY <1>u, <3>1, <4>1, EffectsKept
    <3>3. state' <= sealed' /\ sealed' <= lc' /\ lc' <= Front
      BY <2>1, <3>1, <1>l, <1>u, <1>n DEF Numeric
    <3> HIDE DEF ImportInv
    <3> QED BY <2>1, <3>1, <3>2, <3>3, <1>f, <1>u, <1>t, DropInv DEF chain
  <2> QED BY <2>2, <2>3
<1> QED BY <1>1, <1>2

\* The header is taken, but not in order, or not sealed.
LEMMA SubmitFailsInv ==
    ASSUME ImportInv, NEW durable \in BOOLEAN, SubmitFails(durable)
    PROVE  ImportInv'
<1> USE DEF ImportInv
<1> DEFINE last == IF IsChild(Block) THEN Block ELSE lc
<1>n. Numeric
  BY Numbers
<1>f. /\ importer = "submit" /\ thread # "down" /\ Len(pending) > 0
      /\ Block = Front - Len(pending) + 1
      /\ Front \in Int /\ Block \in Nat /\ Block <= Front /\ Front <= synced
  BY First DEF SubmitFails
<1>l. sealed <= lc /\ state <= sealed /\ lc <= Front
  BY <1>f, <1>n DEF Behind, Importing, Numeric
<1>1. last \in 0 .. finalized /\ last \in Nat /\ lc <= last /\ last <= Front
  BY <1>f, <1>l, <1>n DEF IsChild, Numeric
<1>2. /\ sealed' = IF durable THEN last ELSE sealed
      /\ IF thread = "immediate" THEN Down
         ELSE /\ lc' = last
              /\ importer' = "idle" /\ pending' = <<>> /\ calls' = <<>>
              /\ UNCHANGED <<sync, queues>>
      /\ UNCHANGED <<chain, creation, state, done, confirmed, crashes>>
      /\ failures < MaxFailures /\ failures' = failures + 1
  BY DEF SubmitFails, history
<1> HIDE DEF last
<1>t. /\ failures' \in 0 .. MaxFailures /\ crashes \in 0 .. MaxCrashes
      /\ done \in Seq([block : Heights, events : 0 .. MaxHeight]) /\ confirmed \in Seq(Heights)
      /\ state \in 0 .. finalized /\ sealed \in 0 .. finalized
  BY <1>2, ImportAssumption DEF TypeOK
<1>3. sealed' \in 0 .. finalized /\ sealed <= sealed' /\ state' <= sealed' /\ sealed' <= last
  BY <1>1, <1>2, <1>l, <1>n DEF Numeric
<1>4. CASE thread = "immediate"
  <2> HIDE DEF ImportInv
  <2> QED BY <1>2, <1>3, <1>4, <1>t, DownInv DEF history
<1>5. CASE thread # "immediate"
  <2>1. Effects'
    <3>1. \A b \in Nat : Past(b) => Past(b)'
      BY <1>2, <1>3, <1>5, <1>f, <1>n DEF Past, Importing, Numeric
    <3> QED BY <1>2, <1>5, <3>1, EffectsKept
  <2> HIDE DEF ImportInv
  <2> QED BY <2>1, <1>1, <1>2, <1>3, <1>5, <1>f, <1>t, DropInv
<1> QED BY <1>4, <1>5

\* Numbers in their order, and a larger one behind them.
LEMMA OneMore ==
    ASSUME NEW s \in Seq(Heights), NEW b \in Heights,
           \A i, j \in 1 .. Len(s) : i < j => s[i] < s[j],
           \A i \in 1 .. Len(s) : s[i] < b
    PROVE  /\ Append(s, b) \in Seq(Heights) /\ Len(Append(s, b)) = Len(s) + 1
           /\ \A i \in 1 .. Len(Append(s, b)) : Append(s, b)[i] = b \/ \E j \in 1 .. Len(s) :
                                                                     Append(s, b)[i] = s[j]
           /\ \A i, j \in 1 .. Len(Append(s, b)) : i < j => Append(s, b)[i] < Append(s, b)[j]
<1>1. /\ Append(s, b) \in Seq(Heights) /\ Len(Append(s, b)) = Len(s) + 1
      /\ \A i \in 1 .. Len(s) : Append(s, b)[i] = s[i]
      /\ Append(s, b)[Len(s) + 1] = b
  BY AppendProperties
<1>2. Len(s) \in Nat
  BY LenProperties
<1>3. \A i \in 1 .. Len(Append(s, b)) : i \in 1 .. Len(s) \/ i = Len(s) + 1
  BY <1>1, <1>2
<1>4. ASSUME NEW i \in 1 .. Len(Append(s, b)), NEW j \in 1 .. Len(Append(s, b)), i < j
      PROVE  Append(s, b)[i] < Append(s, b)[j]
  <2>1. i \in 1 .. Len(s)
    BY <1>1, <1>2, <1>4
  <2>2. CASE j \in 1 .. Len(s)
    BY <1>1, <1>4, <2>1, <2>2
  <2>3. CASE j = Len(s) + 1
    BY <1>1, <2>1, <2>3
  <2> QED BY <1>3, <2>2, <2>3
<1> QED BY <1>1, <1>3, <1>4

\* The calls of the block at hand, executed after those of every earlier block.
LEMMA ExecuteInv ==
    ASSUME ImportInv, NEW succeeds \in BOOLEAN, Execute(succeeds)
    PROVE  ImportInv'
<1> USE DEF ImportInv
<1>n. Numeric
  BY Numbers
<1>f. /\ importer = "execute" /\ thread # "down"
      /\ Block = Head(pending).block /\ Head(pending).events = Block /\ Block \in Nat
      /\ Head(pending) \in [block : Heights, events : 0 .. MaxHeight]
      /\ Block = lc /\ sealed = lc /\ state <= sealed
  BY First DEF Execute, Behind, Importing, Block
<1>1. /\ failures' = IF succeeds THEN failures ELSE failures + 1
      /\ succeeds \/ failures < MaxFailures
      /\ done' = Append(done, Head(pending)) \/ done' = done
      /\ calls' = Append(calls, Block) \/ calls' = calls
      /\ NextBlock
      /\ UNCHANGED <<chain, sync, queues, lc, sealed, creation, state, confirmed, crashes>>
  BY DEF Execute, disk
<1>t. /\ failures' \in 0 .. MaxFailures
      /\ done \in Seq([block : Heights, events : 0 .. MaxHeight])
      /\ calls \in Seq(Heights) /\ confirmed \in Seq(Heights)
      /\ state \in 0 .. finalized /\ sealed \in 0 .. finalized /\ Block \in Heights
  BY <1>1, <1>f, ImportAssumption DEF TypeOK
<1>e. /\ \A i \in 1 .. Len(done) : done[i].events = done[i].block /\ done[i].block < Block
                                   /\ done[i].block \in Nat
      /\ \A i, j \in 1 .. Len(done) : i < j => done[i].block < done[j].block
      /\ \A i \in 1 .. Len(confirmed) : confirmed[i] < Block /\ confirmed[i] \in Nat
      /\ \A i \in 1 .. Len(calls) : calls[i] < Block /\ calls[i] \in Nat
      /\ \A i, j \in 1 .. Len(confirmed) : i < j => confirmed[i] < confirmed[j]
      /\ \A i, j \in 1 .. Len(calls) : i < j => calls[i] < calls[j]
      /\ \A i \in 1 .. Len(confirmed), j \in 1 .. Len(calls) : confirmed[i] < calls[j]
  BY <1>f, Elements DEF Effects, Past, Importing
<1> HIDE DEF ImportInv
<1>p. \A b \in 0 .. Block : Past(b)'
  BY <1>1, <1>f DEF Past, Importing, NextBlock
<1>2. /\ done' \in Seq([block : Heights, events : 0 .. MaxHeight])
      /\ \A i \in 1 .. Len(done)' :
             done'[i].events = done'[i].block /\ done'[i].block \in 0 .. Block
      /\ \A i, j \in 1 .. Len(done)' : i < j => done'[i].block < done'[j].block
  <2>1. CASE done' = done
    <3>1. \A i \in 1 .. Len(done) : done[i].block \in 0 .. Block
      BY <1>e, <1>f
    <3> QED BY <2>1, <3>1, <1>t, <1>e
  <2>2. CASE done' = Append(done, Head(pending))
    <3>1. /\ done' \in Seq([block : Heights, events : 0 .. MaxHeight])
          /\ Len(done') = Len(done) + 1 /\ Len(done) \in Nat
          /\ \A i \in 1 .. Len(done) : done'[i] = done[i]
          /\ done'[Len(done) + 1] = Head(pending)
      <4> DEFINE S == [block : Heights, events : 0 .. MaxHeight]
      <4>1. done \in Seq(S) /\ Head(pending) \in S
        BY <1>t, <1>f
      <4> HIDE DEF S
      <4>2. /\ Append(done, Head(pending)) \in Seq(S)
            /\ Len(Append(done, Head(pending))) = Len(done) + 1 /\ Len(done) \in Nat
            /\ \A i \in 1 .. Len(done) : Append(done, Head(pending))[i] = done[i]
            /\ Append(done, Head(pending))[Len(done) + 1] = Head(pending)
        BY <4>1, AppendProperties, LenProperties
      <4> QED BY <2>2, <4>2 DEF S
    <3>2. \A i \in 1 .. Len(done') : i \in 1 .. Len(done) \/ i = Len(done) + 1
      BY <3>1
    <3>3. ASSUME NEW i \in 1 .. Len(done')
          PROVE  done'[i].events = done'[i].block /\ done'[i].block \in 0 .. Block
      <4>1. CASE i \in 1 .. Len(done)
        BY <4>1, <3>1, <1>e, <1>f
      <4>2. CASE i = Len(done) + 1
        BY <4>2, <3>1, <1>f
      <4> QED BY <3>2, <4>1, <4>2
    <3>4. ASSUME NEW i \in 1 .. Len(done'), NEW j \in 1 .. Len(done'), i < j
          PROVE  done'[i].block < done'[j].block
      <4>1. i \in 1 .. Len(done)
        BY <3>1, <3>4
      <4>2. CASE j \in 1 .. Len(done)
        BY <4>1, <4>2, <3>1, <3>4, <1>e
      <4>3. CASE j = Len(done) + 1
        BY <4>1, <4>3, <3>1, <1>e, <1>f
      <4> QED BY <3>2, <4>2, <4>3
    <3> QED BY <3>1, <3>3, <3>4
  <2> QED BY <1>1, <2>1, <2>2
<1>3. /\ calls' \in Seq(Heights)
      /\ \A i \in 1 .. Len(calls)' : calls'[i] \in 0 .. Block
      /\ \A i, j \in 1 .. Len(calls)' : i < j => calls'[i] < calls'[j]
      /\ \A i \in 1 .. Len(confirmed), j \in 1 .. Len(calls)' : confirmed[i] < calls'[j]
  <2>1. CASE calls' = calls
    BY <2>1, <1>t, <1>e, <1>f
  <2>2. CASE calls' = Append(calls, Block)
    <3>1. /\ calls' \in Seq(Heights)
          /\ \A i \in 1 .. Len(calls') : calls'[i] = Block \/ \E j \in 1 .. Len(calls) :
                                                              calls'[i] = calls[j]
          /\ \A i, j \in 1 .. Len(calls') : i < j => calls'[i] < calls'[j]
      BY <2>2, <1>t, <1>e, OneMore
    <3>2. \A i \in 1 .. Len(calls') : calls'[i] \in 0 .. Block
      BY <3>1, <1>e, <1>f
    <3>3. \A i \in 1 .. Len(confirmed), j \in 1 .. Len(calls') : confirmed[i] < calls'[j]
      BY <3>1, <1>e
    <3> QED BY <3>1, <3>2, <3>3
  <2> QED BY <1>1, <2>1, <2>2
<1>4. \A i \in 1 .. Len(confirmed)' : confirmed'[i] \in 0 .. Block
  BY <1>1, <1>e, <1>f
<1>5. Effects'
  BY <1>1, <1>2, <1>3, <1>4, <1>e, <1>p DEF Effects
<1>6. lc' = Block /\ sealed' \in 0 .. finalized /\ state' \in 0 .. finalized
      /\ state' <= sealed' /\ sealed' <= lc' /\ confirmed' \in Seq(Heights)
  BY <1>1, <1>f, <1>t
<1> QED BY <1>1, <1>2, <1>3, <1>5, <1>6, <1>f, <1>t, NextBlockInv

\* The confirmations are sent, after all that were sent before.
LEMMA SendExtrinsicsInv ==
    ASSUME ImportInv, NEW succeeds \in BOOLEAN, SendExtrinsics(succeeds)
    PROVE  ImportInv'
<1> USE DEF ImportInv
<1>n. Numeric
  BY Numbers
<1>f. importer = "send" /\ thread # "down" /\ pending = <<>> /\ Len(pending) <= 0
  BY Nothing DEF SendExtrinsics, Stages
<1>l. sealed <= lc /\ state <= sealed /\ lc <= Front /\ Front \in Int
  <2>1. Front \in Int
    BY <1>n DEF Front, Numeric
  <2>2. lc + Len(pending) <= Front /\ sealed <= lc /\ state <= sealed
    BY <1>f, <2>1 DEF Behind, Importing
  <2> QED BY <2>1, <2>2, <1>f, <1>n DEF Numeric
<1>1. /\ failures' = IF succeeds THEN failures ELSE failures + 1
      /\ succeeds \/ failures < MaxFailures
      /\ confirmed' = confirmed \o calls \/ confirmed' = confirmed
      /\ Return(~succeeds)
      /\ UNCHANGED <<chain, sealed, creation, state, done, crashes>>
  BY DEF SendExtrinsics, disk
<1>2. calls' = <<>> /\ importer' = "idle" /\ pending' = <<>>
  BY <1>1 DEF Return, Down
<1>t. /\ failures' \in 0 .. MaxFailures /\ crashes' \in 0 .. MaxCrashes
      /\ done' \in Seq([block : Heights, events : 0 .. MaxHeight])
      /\ calls \in Seq(Heights) /\ confirmed \in Seq(Heights)
      /\ state' \in 0 .. finalized /\ sealed' \in 0 .. finalized
      /\ state' <= sealed' /\ lc \in 0 .. finalized
  BY <1>1, <1>l, ImportAssumption DEF TypeOK
<1>3. /\ confirmed' \in Seq(Heights)
      /\ \A i \in 1 .. Len(confirmed') : confirmed'[i] <= sealed
      /\ \A i, j \in 1 .. Len(confirmed') : i < j => confirmed'[i] < confirmed'[j]
  <2>0. /\ \A i \in 1 .. Len(confirmed) : confirmed[i] <= sealed
        /\ \A i \in 1 .. Len(calls) : calls[i] <= sealed
        /\ \A i, j \in 1 .. Len(confirmed) : i < j => confirmed[i] < confirmed[j]
        /\ \A i, j \in 1 .. Len(calls) : i < j => calls[i] < calls[j]
        /\ \A i \in 1 .. Len(confirmed), j \in 1 .. Len(calls) : confirmed[i] < calls[j]
    BY DEF Effects, Past
  <2> HIDE DEF ImportInv
  <2>1. CASE confirmed' = confirmed
    BY <2>0, <2>1, <1>t
  <2>2. CASE confirmed' = confirmed \o calls
    <3> DEFINE m == Len(confirmed)
    <3>1. /\ confirmed' \in Seq(Heights) /\ Len(confirmed') = m + Len(calls)
          /\ \A i \in 1 .. m + Len(calls) :
                 confirmed'[i] = IF i <= m THEN confirmed[i] ELSE calls[i - m]
          /\ m \in Nat /\ Len(calls) \in Nat
      BY <2>2, <1>t, ConcatProperties, LenProperties
    <3> HIDE DEF m
    <3>2. ASSUME NEW i \in 1 .. Len(confirmed')
          PROVE  \/ i \in 1 .. m /\ confirmed'[i] = confirmed[i]
                 \/ i > m /\ i - m \in 1 .. Len(calls) /\ confirmed'[i] = calls[i - m]
      BY <3>1
    <3>3. \A i \in 1 .. Len(confirmed') : confirmed'[i] <= sealed
      BY <2>0, <3>2 DEF m
    <3>4. ASSUME NEW i \in 1 .. Len(confirmed'), NEW j \in 1 .. Len(confirmed'), i < j
          PROVE  confirmed'[i] < confirmed'[j]
      <4>1. CASE j \in 1 .. m /\ confirmed'[j] = confirmed[j]
        <5>1. i \in 1 .. m /\ confirmed'[i] = confirmed[i]
          BY <3>1, <3>2, <3>4, <4>1
        <5> QED BY <2>0, <3>4, <4>1, <5>1 DEF m
      <4>2. CASE j > m /\ j - m \in 1 .. Len(calls) /\ confirmed'[j] = calls[j - m]
        <5>1. CASE i \in 1 .. m /\ confirmed'[i] = confirmed[i]
          BY <2>0, <4>2, <5>1 DEF m
        <5>2. CASE i > m /\ i - m \in 1 .. Len(calls) /\ confirmed'[i] = calls[i - m]
          <6>1. i - m < j - m
            BY <3>1, <3>4
          <6> QED BY <2>0, <4>2, <5>2, <6>1
        <5> QED BY <3>2, <5>1, <5>2
      <4> QED BY <3>2, <4>1, <4>2
    <3> QED BY <3>1, <3>3, <3>4
  <2> QED BY <1>1, <2>1, <2>2
<1>4. Effects'
  <2>1. \A b \in 0 .. sealed : Past(b)'
    BY <1>1, <1>2, <1>n DEF Past, Importing, Numeric
  <2>2. \A i \in 1 .. Len(confirmed') : confirmed'[i] \in 0 .. sealed
    <3>1. Heights \subseteq Nat
      BY ImportAssumption DEF Heights
    <3>2. \A i \in 1 .. Len(confirmed') : confirmed'[i] \in Nat
      BY <3>1, <1>3, ElementOfSeq
    <3> QED BY <3>2, <1>3, <1>n DEF Numeric
  <2>3. \A i \in 1 .. Len(done) : done[i].block \in 0 .. sealed
    <3>1. \A i \in 1 .. Len(done) : done[i].block \in Nat /\ done[i].block <= sealed
      BY Elements DEF Effects, Past
    <3> QED BY <3>1, <1>n DEF Numeric
  <2>4. /\ \A i \in 1 .. Len(done) : done[i].events = done[i].block
        /\ \A i, j \in 1 .. Len(done) : i < j => done[i].block < done[j].block
    BY DEF Effects
  <2> HIDE DEF ImportInv
  <2>5. /\ \A i \in 1 .. Len(done)' : done'[i].events = done'[i].block
        /\ \A i \in 1 .. Len(done)' : done'[i].block \in 0 .. sealed
        /\ \A i, j \in 1 .. Len(done)' : i < j => done'[i].block < done'[j].block
    BY <1>1, <2>3, <2>4
  <2>6. 1 .. Len(calls)' = {}
    BY <1>2, Nothing
  <2> QED BY <1>3, <2>1, <2>2, <2>5, <2>6 DEF Effects
<1> HIDE DEF ImportInv
<1>5. CASE ~succeeds /\ thread = "immediate"
  <2>1. Down
    BY <1>1, <1>5 DEF Return
  <2> QED BY <2>1, <1>1, <1>3, <1>4, <1>t, MemoryLost
<1>6. CASE succeeds \/ thread # "immediate"
  <2>1. UNCHANGED <<sync, queues, lc>>
    BY <1>1, <1>6 DEF Return
  <2>2. lc' \in 0 .. finalized /\ sealed' <= lc' /\ lc' <= Front
    BY <2>1, <1>1, <1>l, <1>t
  <2> QED BY <2>1, <2>2, <1>1, <1>2, <1>3, <1>4, <1>f, <1>t, DropInv
<1> QED BY <1>5, <1>6

-----------------------------------------------------------------------------
(* The theorems.                                                           *)

\* Every step keeps the invariant.
LEMMA NextInv == ASSUME ImportInv, [Next]_vars PROVE ImportInv'
<1>1. CASE UNCHANGED vars
  <2> USE <1>1 DEF vars, chain, sync, queues, disk, history, ImportInv
  <2>1. TypeOK'
    BY DEF TypeOK
  <2>2. Stages' /\ Line' /\ OwnEvents'
    BY DEF Stages, Line, ChunkLine, QueueLine, PendingLine, EventsLength, EventsLine, Popped,
           OwnEvents, Front, Producing
  <2>3. Behind' /\ Effects'
    BY DEF Behind, Effects, Past, Front, Importing, Producing
  <2> QED BY <2>1, <2>2, <2>3
<1>2. CASE Finalize \/ Touch \/ Crash
  BY <1>2, FinalizeInv, TouchInv, CrashInv
<1>3. CASE \E register \in Heights, primary \in BOOLEAN : Start(register, primary)
  BY <1>3, StartInv
<1>4. CASE SyncThread
  BY <1>4, ImportImmediatelyInv, PushEventsInv, SubscribeInv, PushBlocksInv DEF SyncThread
<1>5. CASE SyncFails
  BY <1>5, SyncFailsInv
<1>6. CASE \E k \in Heights : PopBlocks(k)
  BY <1>6, PopBlocksInv
<1>7. CASE Importer
  BY <1>7, PopEventsInv, SubmitBlockInv, SubmitFailsInv, UpdateStatesInv, UpdateStatesFailsInv,
     ExecuteInv, SendExtrinsicsInv DEF Importer
<1> QED BY <1>1, <1>2, <1>3, <1>4, <1>5, <1>6, <1>7 DEF Next

\* The invariant holds of every reachable state.
THEOREM ImportInvariant == Spec => []ImportInv
BY InitInv, NextInv, PTL DEF Spec

\* Nothing that is not finalized gets into the worker, and every variable has its type.
THEOREM ImportTypes == Spec => []TypeOK
<1>1. ImportInv => TypeOK
  BY DEF ImportInv
<1> QED BY <1>1, ImportInvariant, PTL

\* The two queues cannot run apart: whatever failed or crashed before, the pop of the
\* events in import_until finds an event vector for every popped block.
THEOREM QueuesNeverRunApart ==
    Spec => [](importer = "popped" => Len(pending) <= Len(events_queue))
<1>1. ImportInv => (importer = "popped" => Len(pending) <= Len(events_queue))
  BY EventsSuffice
<1> QED BY <1>1, ImportInvariant, PTL

\* Each block's indirect calls are executed once at most, in the order of the blocks and
\* with the events of their own block, each block is confirmed once at most, and the state
\* is never ahead of the sealed light client.
THEOREM CallsRunOnceInOrder == Spec => []CallsOnceInOrder
<1>1. ASSUME ImportInv PROVE CallsOnceInOrder
  <2>1. DOMAIN done = 1 .. Len(done) /\ DOMAIN confirmed = 1 .. Len(confirmed)
    <3>1. /\ done \in Seq([block : Heights, events : 0 .. MaxHeight])
          /\ confirmed \in Seq(Heights)
      BY <1>1 DEF ImportInv, TypeOK
    <3> QED BY <3>1, LenProperties
  <2>2. EventsMatch
    BY <1>1, <2>1 DEF ImportInv, Effects, EventsMatch
  <2>3. CallsOnce
    BY <1>1, <2>1 DEF ImportInv, Effects, Past, CallsOnce, Increasing
  <2>4. StateNeverAhead
    BY <1>1 DEF ImportInv, Behind, StateNeverAhead
  <2> QED BY <2>2, <2>3, <2>4 DEF CallsOnceInOrder
<1> QED BY <1>1, ImportInvariant, PTL

-----------------------------------------------------------------------------
(* What a failure costs.                                                   *)

\* The gap is a finite set, and so is what it can become.
LEMMA GapFinite ==
    /\ IsFiniteSet(Gap) /\ Cardinality(Gap) \in Nat
    /\ IsFiniteSet(Gap') /\ Cardinality(Gap') \in Nat
<1>1. IsFiniteSet(Heights)
  BY ImportAssumption, FS_Interval DEF Heights
<1>2. Gap \subseteq Heights /\ Gap' \subseteq Heights
  BY DEF Gap, Missed
<1> QED BY <1>1, <1>2, FS_Subset, FS_CardinalityType

\* A step that does not widen the gap.
LEMMA SkipKept ==
    ASSUME SkipInv, TypeOK, TypeOK', Gap' \subseteq Gap, crashes <= crashes', failures <= failures'
    PROVE  SkipInv'
<1>1. Cardinality(Gap') <= Cardinality(Gap)
  BY GapFinite, FS_Subset
<1>2. crashes \in Nat /\ failures \in Nat /\ crashes' \in Nat /\ failures' \in Nat
  BY ImportAssumption DEF TypeOK
<1>3. Cardinality(Gap) \in Nat /\ Cardinality(Gap') \in Nat
  BY GapFinite
<1> QED BY <1>1, <1>2, <1>3 DEF SkipInv

\* A crash or a failure that widens it by one block.
LEMMA SkipOne ==
    ASSUME SkipInv, TypeOK, TypeOK', NEW x, Gap' \subseteq Gap \cup {x},
           crashes' + failures' = crashes + failures + 1
    PROVE  SkipInv'
<1>1. /\ IsFiniteSet(Gap \cup {x})
      /\ Cardinality(Gap \cup {x}) = IF x \in Gap THEN Cardinality(Gap) ELSE Cardinality(Gap) + 1
  BY GapFinite, FS_AddElement
<1>2. Cardinality(Gap') <= Cardinality(Gap \cup {x})
  BY <1>1, FS_Subset
<1>3. Cardinality(Gap) \in Nat /\ Cardinality(Gap') \in Nat
  BY GapFinite
<1>4. Cardinality(Gap') <= Cardinality(Gap) + 1
  BY <1>1, <1>2, <1>3
<1>5. crashes \in Nat /\ failures \in Nat /\ crashes' \in Nat /\ failures' \in Nat
  BY ImportAssumption DEF TypeOK
<1>6. Cardinality(Gap) <= crashes + failures /\ crashes' + failures' = crashes + failures + 1
  BY DEF SkipInv
<1>7. Cardinality(Gap') <= crashes' + failures'
  <2>1. \A c, d, p, q, r, t \in Nat :
            d <= c + 1 /\ c <= p + q /\ r + t = p + q + 1 => d <= r + t
    OBVIOUS
  <2> QED BY <1>3, <1>4, <1>5, <1>6, <2>1
<1> QED BY <1>7 DEF SkipInv

\* The gap grows only with the last header, and an executed block is not in it.
LEMMA GapMoves ==
    ASSUME creation' = creation, Executed \subseteq Executed'
    PROVE  /\ Settled' \in Int /\ Settled \in Int /\ Settled' <= Settled => Gap' \subseteq Gap
           /\ Settled' \in Int /\ Settled \in Int /\ Settled' <= Settled + 1 =>
                  Gap' \subseteq Gap \cup {Settled + 1}
           /\ Settled' \in Int /\ Settled \in Int /\ Settled' <= Settled + 1
              /\ Settled + 1 \in Executed' => Gap' \subseteq Gap
<1> USE DEF Gap, Missed
<1>1. Heights \subseteq Int
  BY ImportAssumption DEF Heights
<1>2. ASSUME NEW b \in Gap'
      PROVE  /\ b \in Heights /\ b \in Int /\ creation # 0 /\ creation <= b /\ b <= Settled'
             /\ b \notin Executed /\ b \notin Executed'
  BY <1>1
<1>3. ASSUME Settled' \in Int, Settled \in Int, Settled' <= Settled PROVE Gap' \subseteq Gap
  <2> SUFFICES ASSUME NEW b \in Gap' PROVE b \in Gap
    OBVIOUS
  <2>1. b <= Settled
    BY <1>2, <1>3
  <2> QED BY <1>2, <2>1
<1>4. ASSUME Settled' \in Int, Settled \in Int, Settled' <= Settled + 1, NEW b \in Gap',
             b # Settled + 1
      PROVE  b \in Gap
  <2>1. b <= Settled
    BY <1>2, <1>4
  <2> QED BY <1>2, <1>4, <2>1
<1> QED BY <1>2, <1>3, <1>4

\* Where the gap ends.
LEMMA SettledAt ==
    ASSUME ImportInv
    PROVE  /\ Settled \in Int
           /\ Importing => Settled = lc - 1
           /\ ~Importing /\ thread # "down" => Settled = lc
           /\ ~Importing => lc <= Settled /\ sealed <= Settled
<1>1. Numeric
  BY Numbers DEF ImportInv
<1>2. thread # "down" => sealed <= lc
  BY DEF ImportInv, Behind
<1> QED BY <1>1, <1>2 DEF Settled, Importing, Numeric

\* The same after a step.
LEMMA SettledNext ==
    ASSUME ImportInv'
    PROVE  /\ lc' \in Nat /\ sealed' \in Nat /\ Settled' \in Int
           /\ importer' \in {"update", "execute"} => Settled' = lc' - 1
           /\ importer' \notin {"update", "execute"} =>
                  Settled' = IF lc' < sealed' THEN sealed' ELSE lc'
<1>1. finalized' \in Nat /\ lc' \in 0 .. finalized' /\ sealed' \in 0 .. finalized'
  BY ImportAssumption DEF ImportInv, TypeOK
<1>2. lc' \in Nat /\ sealed' \in Nat
  BY <1>1
<1>3. CASE importer' \in {"update", "execute"}
  <2>1. Settled' = lc' - 1
    BY <1>3 DEF Settled, Importing
  <2>2. Settled' \in Int
    BY <1>2, <2>1
  <2> QED BY <1>2, <1>3, <2>1, <2>2
<1>4. CASE importer' \notin {"update", "execute"}
  <2>1. Settled' = IF lc' < sealed' THEN sealed' ELSE lc'
    BY <1>4 DEF Settled, Importing
  <2>2. Settled' \in Int
    BY <1>2, <2>1
  <2> QED BY <1>2, <1>4, <2>1, <2>2
<1> QED BY <1>3, <1>4

\* The actions that change neither the light client nor the histories.
LEMMA SkipUnchanged ==
    ASSUME ImportInv, ImportInv', SkipInv, Importing' <=> Importing,
           UNCHANGED <<lc, sealed, creation, done>>,
           crashes <= crashes', failures <= failures'
    PROVE  SkipInv'
<1>1. Gap' = Gap
  BY DEF Gap, Missed, Settled, Executed
<1> QED BY <1>1, SkipKept DEF ImportInv

\* Executed blocks stay executed.
LEMMA SkipAtMostOne ==
    ASSUME ImportInv, ImportInv', SkipInv, creation' = creation, Executed \subseteq Executed',
           Settled' <= Settled + 1, crashes' + failures' = crashes + failures + 1
    PROVE  SkipInv'
<1>1. Settled \in Int /\ Settled' \in Int
  BY SettledAt, SettledNext
<1>2. Gap' \subseteq Gap \cup {Settled + 1}
  BY <1>1, GapMoves
<1> QED BY <1>2, SkipOne DEF ImportInv

\* Every step widens the gap by one block at most, and only when it counts a crash or a failure.
LEMMA SkipNext ==
    ASSUME ImportInv, ImportInv', SkipInv, Next
    PROVE  SkipInv'
<1> USE DEF sync, queues, disk, chain, history
<1>n. Numeric /\ crashes \in Nat /\ failures \in Nat
  BY Numbers, ImportAssumption DEF ImportInv, TypeOK
<1>m. /\ lc' \in Nat /\ sealed' \in Nat /\ Settled' \in Int
      /\ importer' \in {"update", "execute"} => Settled' = lc' - 1
      /\ importer' \notin {"update", "execute"} =>
             Settled' = IF lc' < sealed' THEN sealed' ELSE lc'
  BY SettledNext
<1>s. /\ Settled \in Int
      /\ importer \in {"update", "execute"} => Settled = lc - 1
      /\ importer \notin {"update", "execute"} => lc <= Settled /\ sealed <= Settled
      /\ importer \notin {"update", "execute"} /\ thread # "down" => Settled = lc
  BY SettledAt DEF Importing
<1>1. CASE Finalize \/ Touch
  BY <1>1, <1>n, SkipUnchanged DEF Finalize, Touch, Importing
<1>2. ASSUME NEW register \in Heights, NEW primary \in BOOLEAN, Start(register, primary)
      PROVE  SkipInv'
  <2>1. /\ importer = "idle" /\ importer' = "idle" /\ lc' = sealed /\ sealed' = sealed
        /\ UNCHANGED <<crashes, failures>>
    BY <1>2 DEF Start, ImportInv, Stages
  <2>2. Settled' = sealed /\ sealed <= Settled
    BY <2>1, <1>m, <1>n, <1>s DEF Numeric
  <2>3. CASE touched
    <3>1. creation' = creation /\ Executed' = Executed
      BY <1>2, <2>3 DEF Start, Executed
    <3>2. Gap' \subseteq Gap
      BY <2>2, <3>1, <1>m, <1>s, GapMoves
    <3> QED BY <2>1, <3>2, <1>n, SkipKept DEF ImportInv
  <2>4. CASE ~touched
    <3>1. creation' = register /\ finalized < register /\ register \in Nat
      BY <1>2, <2>4, ImportAssumption DEF Start, Heights
    <3>2. sealed < register
      BY <3>1, <1>n DEF Numeric
    <3>3. Heights \subseteq Nat
      BY ImportAssumption DEF Heights
    <3>4. Gap' = {}
      <4> SUFFICES ASSUME NEW b \in Gap' PROVE FALSE
        OBVIOUS
      <4>1. b \in Nat /\ register <= b /\ b <= sealed
        BY <3>1, <3>3, <2>2 DEF Gap, Missed
      <4> QED BY <4>1, <3>1, <3>2, <1>n DEF Numeric
    <3> QED BY <2>1, <3>4, <1>n, SkipKept DEF ImportInv
  <2> QED BY <2>3, <2>4
<1>3. CASE Crash
  <2>1. /\ importer' = "idle" /\ UNCHANGED <<lc, sealed, creation, done, failures>>
        /\ crashes' = crashes + 1 /\ thread # "down"
    BY <1>3 DEF Crash, Down
  <2>2. Settled' <= lc
    <3>1. sealed <= lc
      BY <2>1 DEF ImportInv, Behind
    <3> QED BY <2>1, <3>1, <1>m, <1>n DEF Numeric
  <2>3. Executed' = Executed /\ Settled' <= Settled + 1
    <3>1. Settled' <= Settled + 1
      BY <2>2, <1>m, <1>n, <1>s, <2>1 DEF Numeric
    <3> QED BY <2>1, <3>1 DEF Executed
  <2> QED BY <2>1, <2>3, <1>n, SkipAtMostOne
<1>4. CASE SyncThread
  <2>1. /\ UNCHANGED <<lc, sealed, creation, done, crashes, failures>>
        /\ importer' = importer \/ (importer = "idle" /\ importer' = "submit")
    <3>1. CASE \E to \in Heights : ImportImmediately(to) \/ PushEvents(to)
      BY <3>1 DEF ImportImmediately, PushEvents
    <3>2. CASE Subscribe \/ PushBlocks
      BY <3>2 DEF Subscribe, PushBlocks
    <3> QED BY <1>4, <3>1, <3>2 DEF SyncThread
  <2> QED BY <2>1, <1>n, SkipUnchanged DEF Importing
<1>5. CASE SyncFails
  <2>1. /\ UNCHANGED <<lc, sealed, creation, done, crashes>> /\ failures' = failures + 1
        /\ importer' = importer
    BY <1>5 DEF SyncFails, Down
  <2> QED BY <2>1, <1>n, SkipUnchanged DEF Importing
<1>6. ASSUME NEW k \in Heights, PopBlocks(k) PROVE SkipInv'
  <2>1. /\ UNCHANGED <<lc, sealed, creation, done, crashes, failures>>
        /\ importer = "idle" /\ importer' = "popped"
    BY <1>6 DEF PopBlocks
  <2> QED BY <2>1, <1>n, SkipUnchanged DEF Importing
<1>7. CASE PopEvents
  <2>1. /\ UNCHANGED <<lc, sealed, creation, done, crashes, failures>>
        /\ importer = "popped" /\ importer' \in {"idle", "send", "submit"}
    BY <1>7 DEF PopEvents, Return, Down
  <2> QED BY <2>1, <1>n, SkipUnchanged DEF Importing
<1>8. CASE SubmitBlock
  <2>1. /\ importer = "submit" /\ thread # "down" /\ Settled = lc /\ sealed <= lc
        /\ UNCHANGED <<creation, done, crashes, failures>> /\ Executed' = Executed
    BY <1>8, <1>s, First DEF SubmitBlock, Importing, Executed, ImportInv, Behind
  <2>2. Gap' \subseteq Gap
    <3>1. CASE IsChild(Block) /\ Block < creation
      <4>1. importer' \in {"send", "submit"} /\ lc' = Block /\ sealed' = Block
        BY <1>8, <3>1 DEF SubmitBlock, SealedBy, NextBlock
      <4>2. Settled' = Block /\ Block \in Nat
        BY <4>1, <1>m, <1>n DEF Numeric
      <4>3. Heights \subseteq Nat
        BY ImportAssumption DEF Heights
      <4>4. ASSUME NEW b \in Gap' PROVE FALSE
        <5>1. b \in Nat /\ creation <= b /\ b <= Block
          BY <2>1, <4>2, <4>3 DEF Gap, Missed
        <5> QED BY <5>1, <4>2, <3>1, <1>n DEF Numeric
      <4> QED BY <4>4
    <3>2. CASE IsChild(Block) /\ ~(Block < creation)
      <4>1. importer' = "update" /\ lc' = Block /\ Block = lc + 1
        BY <1>8, <3>2 DEF SubmitBlock, IsChild
      <4>2. Settled' = lc
        BY <4>1, <1>m, <1>n DEF Numeric
      <4> QED BY <2>1, <4>2, <1>m, <1>s, GapMoves
    <3>3. CASE ~IsChild(Block)
      <4>1. importer' = "idle" /\ lc' = lc /\ sealed' = lc
        BY <1>8, <3>3 DEF SubmitBlock, SealedBy, Return, Down
      <4>2. Settled' = lc
        BY <4>1, <1>m, <1>n DEF Numeric
      <4> QED BY <2>1, <4>2, <1>m, <1>s, GapMoves
    <3> QED BY <3>1, <3>2, <3>3
  <2> QED BY <2>1, <2>2, <1>n, SkipKept DEF ImportInv
<1>9. ASSUME NEW durable \in BOOLEAN, SubmitFails(durable) PROVE SkipInv'
  <2>1. /\ importer = "submit" /\ thread # "down" /\ Settled = lc /\ sealed <= lc
        /\ UNCHANGED <<creation, done, crashes>> /\ failures' = failures + 1
        /\ Executed' = Executed
    BY <1>9, <1>s, First DEF SubmitFails, Importing, Executed, ImportInv, Behind
  <2>2. importer' = "idle" /\ lc' \in {lc, lc + 1} /\ sealed' \in {sealed, lc, lc + 1}
    BY <1>9 DEF SubmitFails, IsChild, Down
  <2>3. Settled' <= lc + 1
    BY <2>1, <2>2, <1>m, <1>n DEF Numeric
  <2> QED BY <2>1, <2>3, <1>n, SkipAtMostOne
<1>10. CASE UpdateStates
  <2>1. /\ UNCHANGED <<lc, sealed, creation, done, crashes, failures>>
        /\ importer = "update" /\ importer' = "execute"
    BY <1>10 DEF UpdateStates
  <2> QED BY <2>1, <1>n, SkipUnchanged DEF Importing
<1>11. CASE UpdateStatesFails
  <2>1. /\ importer = "update" /\ importer' = "idle"
        /\ UNCHANGED <<lc, sealed, creation, done, crashes>>
        /\ failures' = failures + 1 /\ Executed' = Executed
    BY <1>11 DEF UpdateStatesFails, Return, Down, Executed
  <2>2. sealed = lc /\ Settled = lc - 1
    BY <2>1, <1>s DEF Importing, ImportInv, Behind
  <2>3. Settled' <= Settled + 1
    BY <2>1, <2>2, <1>m, <1>n DEF Numeric
  <2> QED BY <2>1, <2>3, <1>n, SkipAtMostOne
<1>12. ASSUME NEW succeeds \in BOOLEAN, Execute(succeeds) PROVE SkipInv'
  <2>1. /\ importer = "execute" /\ importer' \in {"send", "submit"}
        /\ UNCHANGED <<lc, sealed, creation, crashes>>
        /\ failures' = IF succeeds THEN failures ELSE failures + 1
        /\ done' = Append(done, Head(pending)) \/ (~succeeds /\ done' = done)
    <3>1. done' \in {Append(done, Head(pending))} \cup (IF succeeds THEN {} ELSE {done})
      BY <1>12 DEF Execute
    <3>2. importer' \in {"send", "submit"}
      BY <1>12 DEF Execute, NextBlock
    <3> QED BY <1>12, <3>1, <3>2 DEF Execute
  <2>2. sealed = lc /\ Settled = lc - 1 /\ Block = lc
    BY <2>1, <1>s, First DEF Importing, ImportInv, Behind
  <2>3. Settled' = lc /\ Settled' <= Settled + 1 /\ Settled + 1 = lc
    BY <2>1, <2>2, <1>m, <1>n DEF Numeric
  <2>4. done' = Append(done, Head(pending)) => Executed \subseteq Executed' /\ lc \in Executed'
    <3> SUFFICES ASSUME done' = Append(done, Head(pending))
                 PROVE  Executed \subseteq Executed' /\ lc \in Executed'
      OBVIOUS
    <3> DEFINE S == [block : Heights, events : 0 .. MaxHeight]
    <3>1. done \in Seq(S) /\ Head(pending) \in S /\ Head(pending).block = lc
      BY <2>1, <2>2, First DEF ImportInv, TypeOK, Block
    <3> HIDE DEF S
    <3>2. /\ done' \in Seq(S) /\ Len(done') = Len(done) + 1 /\ Len(done) \in Nat
          /\ \A i \in 1 .. Len(done) : done'[i] = done[i]
          /\ done'[Len(done) + 1] = Head(pending)
      BY <3>1, AppendProperties, LenProperties
    <3>3. DOMAIN done = 1 .. Len(done) /\ DOMAIN done' = 1 .. Len(done) + 1
      BY <3>1, <3>2, LenProperties
    <3>4. /\ \A i \in DOMAIN done : i \in DOMAIN done' /\ done'[i] = done[i]
          /\ Len(done) + 1 \in DOMAIN done' /\ done'[Len(done) + 1].block = lc
      BY <3>1, <3>2, <3>3
    <3> QED BY <3>4 DEF Executed
  <2>5. CASE succeeds
    <3>1. Executed \subseteq Executed' /\ Settled + 1 \in Executed'
      BY <2>1, <2>3, <2>4, <2>5
    <3>2. Gap' \subseteq Gap
      BY <2>1, <2>3, <3>1, <1>m, <1>s, GapMoves
    <3> QED BY <2>1, <2>5, <3>2, <1>n, SkipKept DEF ImportInv
  <2>6. CASE ~succeeds
    <3>1. Executed \subseteq Executed'
      BY <2>1, <2>4 DEF Executed
    <3> QED BY <2>1, <2>3, <2>6, <3>1, <1>n, SkipAtMostOne
  <2> QED BY <2>5, <2>6
<1>13. ASSUME NEW succeeds \in BOOLEAN, SendExtrinsics(succeeds) PROVE SkipInv'
  <2>1. /\ UNCHANGED <<lc, sealed, creation, done, crashes>>
        /\ failures' = IF succeeds THEN failures ELSE failures + 1
        /\ importer = "send" /\ importer' = "idle"
    BY <1>13 DEF SendExtrinsics, Return, Down
  <2> QED BY <2>1, <1>n, SkipUnchanged DEF Importing
<1> QED BY <1>1, <1>2, <1>3, <1>4, <1>5, <1>6, <1>7, <1>8, <1>9, <1>10, <1>11, <1>12, <1>13
        DEF Next, Importer

\* Each crash and each failing request, import or file write costs the indirect calls of
\* one block at most, however many blocks were popped with it.
THEOREM FailuresSkipOneBlock == Spec => []NothingElseSkipped
<1>1. ASSUME Init PROVE SkipInv
  <2>1. Gap = {}
    BY <1>1 DEF Init, Gap, Missed
  <2> QED BY <1>1, <2>1, FS_EmptySet DEF SkipInv, Init
<1>2. ASSUME ImportInv, SkipInv, [Next]_vars PROVE SkipInv'
  <2>1. ImportInv'
    BY <1>2, NextInv
  <2>2. CASE Next
    BY <1>2, <2>1, <2>2, SkipNext
  <2>3. CASE UNCHANGED vars
    BY <1>2, <2>3 DEF SkipInv, Gap, Missed, Settled, Importing, Executed,
                      vars, chain, sync, queues, disk, history
  <2> QED BY <1>2, <2>2, <2>3
<1>3. ASSUME ImportInv, SkipInv PROVE NothingElseSkipped
  <2>1. Settled \in Int /\ lc \in Int /\ crashes \in Nat /\ failures \in Nat
    BY <1>3, SettledAt, ImportAssumption DEF ImportInv, TypeOK
  <2>2. Heights \subseteq Int
    BY ImportAssumption DEF Heights
  <2>3. Cardinality(Gap) \in Nat /\ IsFiniteSet(Gap) /\ Cardinality(Gap) <= crashes + failures
    BY <1>3, GapFinite DEF SkipInv
  <2>4. CASE Importing
    <3>1. Skipped \subseteq Gap \cup {lc}
      <4> SUFFICES ASSUME NEW b \in Skipped, b # lc PROVE b \in Gap
        OBVIOUS
      <4>1. b \in Int /\ b \in Heights /\ b \notin Executed
            /\ creation # 0 /\ creation <= b /\ b <= lc
        BY <2>2 DEF Skipped
      <4>2. b <= Settled
        BY <4>1, <2>1, <2>4, <1>3, SettledAt
      <4> QED BY <4>1, <4>2 DEF Gap, Missed
    <3>2. Cardinality(Skipped) <= Cardinality(Gap \cup {lc})
          /\ Cardinality(Gap \cup {lc}) <= Cardinality(Gap) + 1
          /\ Cardinality(Gap \cup {lc}) \in Nat /\ Cardinality(Skipped) \in Nat
      <4>1. IsFiniteSet(Gap \cup {lc}) /\ Cardinality(Gap \cup {lc}) \in Nat
        BY <2>3, FS_AddElement, FS_CardinalityType
      <4>2. IsFiniteSet(Skipped) /\ Cardinality(Skipped) <= Cardinality(Gap \cup {lc})
        BY <3>1, <4>1, FS_Subset
      <4>3. Cardinality(Gap \cup {lc}) <= Cardinality(Gap) + 1
        BY <2>3, FS_AddElement
      <4> QED BY <4>1, <4>2, <4>3, FS_CardinalityType
    <3>3. Cardinality(Skipped) <= crashes + failures + 1
      <4>1. \A c, d, e, p, q \in Nat : d <= e /\ e <= c + 1 /\ c <= p + q => d <= p + q + 1
        OBVIOUS
      <4> QED BY <2>1, <2>3, <3>2, <4>1
    <3> QED BY <2>4, <3>3 DEF NothingElseSkipped, Importing
  <2>5. CASE ~Importing
    <3>1. Skipped \subseteq Gap
      <4> SUFFICES ASSUME NEW b \in Skipped PROVE b \in Gap
        OBVIOUS
      <4>1. b \in Int /\ b \in Heights /\ b \notin Executed
            /\ creation # 0 /\ creation <= b /\ b <= lc
        BY <2>2 DEF Skipped
      <4>2. b <= Settled
        BY <4>1, <2>1, <2>5, <1>3, SettledAt
      <4> QED BY <4>1, <4>2 DEF Gap, Missed
    <3>2. Cardinality(Skipped) <= Cardinality(Gap) /\ Cardinality(Skipped) \in Nat
      BY <3>1, <2>3, FS_Subset, FS_CardinalityType
    <3>3. Cardinality(Skipped) <= crashes + failures + 0
      BY <2>1, <2>3, <3>2
    <3> QED BY <2>5, <3>3 DEF NothingElseSkipped, Importing
  <2> QED BY <2>4, <2>5
<1> QED BY <1>1, <1>2, <1>3, ImportInvariant, PTL DEF Spec

=============================================================================
