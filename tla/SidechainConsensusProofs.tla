---------------------- MODULE SidechainConsensusProofs ----------------------
(***************************************************************************)
(* Proofs about SidechainConsensus, for any number of validateers, any     *)
(* authorities, any order of hashes and any bounds.                        *)
(***************************************************************************)
EXTENDS SidechainConsensus, SequenceTheorems, TLAPS

-----------------------------------------------------------------------------
(* Facts about blocks as sequences.                                        *)

\* An appended element is the last one; the others stay in place.
LEMMA AppendFacts ==
    ASSUME NEW S, NEW s \in Seq(S), NEW x \in S
    PROVE  /\ Append(s, x) \in Seq(S) /\ Append(s, x) # <<>>
           /\ Len(Append(s, x)) = Len(s) + 1
           /\ Append(s, x)[Len(s) + 1] = x
           /\ \A i \in 1 .. Len(s) : Append(s, x)[i] = s[i]
OBVIOUS

\* A block with more data appended is a block, and not the empty one.
LEMMA ChildFacts ==
    \A b \in Seq(Data) : \A d \in Data :
        /\ Append(b, d) \in Seq(Data) /\ Append(b, d) # <<>> /\ Len(Append(b, d)) = Len(b) + 1
        /\ Top(Append(b, d)) = d
        /\ \A i \in 1 .. Len(b) : Append(b, d)[i] = b[i]
BY AppendFacts DEF Top

\* A non-empty block has a positive number and data of its own.
LEMMA TopFacts ==
    ASSUME NEW S, NEW b \in Seq(S), b # <<>>
    PROVE  Len(b) \in Nat \ {0} /\ Top(b) \in S
BY EmptySeq DEF Top

\* A child agrees with its parent on all but its own data.
LEMMA ParentFacts ==
    ASSUME NEW S, NEW b \in Seq(S), b # <<>>
    PROVE  /\ Parent(b) \in Seq(S)
           /\ Len(Parent(b)) = Len(b) - 1
           /\ \A i \in 1 .. Len(b) - 1 : Parent(b)[i] = b[i]
<1>1. Len(b) \in Nat \ {0}
    BY EmptySeq
<1>2. \A i \in 1 .. Len(b) : b[i] \in S
    BY <1>1
<1>3. Parent(b) \in Seq(S)
    <2>1. Len(b) - 1 \in Int /\ \A i \in 1 .. Len(b) - 1 : b[i] \in S
        BY <1>1, <1>2
    <2> QED
        BY <2>1, SubSeqProperties DEF Parent
<1>4. Len(Parent(b)) = Len(b) - 1
    <2> DEFINE k == Len(b) - 1
    <2>1. k \in Nat /\ \A i \in 1 .. k : b[i] \in S
        BY <1>1, <1>2
    <2>2. Parent(b) = SubSeq(b, 1, k)
        BY DEF Parent
    <2> HIDE DEF k
    <2>3. Len(SubSeq(b, 1, k)) = k
        BY <2>1, SubSeqProperties
    <2> QED
        BY <2>2, <2>3 DEF k
<1>5. \A i \in 1 .. Len(b) - 1 : Parent(b)[i] = b[i]
    BY <1>1 DEF Parent
<1> QED
    BY <1>3, <1>4, <1>5

\* Prefixes are blocks, and those of a child are itself and its parent's.
LEMMA PrefixFacts ==
    ASSUME NEW S, NEW b \in Seq(S), NEW i \in 1 .. Len(b)
    PROVE  /\ Prefix(b, i) \in Seq(S) /\ Prefix(b, i) # <<>>
           /\ i = Len(b) => Prefix(b, i) = b
           /\ i < Len(b) => Prefix(b, i) = Prefix(Parent(b), i)
<1>1. Len(b) \in Nat /\ \A k \in 1 .. Len(b) : b[k] \in S
    BY LenProperties
<1>2. /\ Prefix(b, i) \in Seq(S) /\ Len(Prefix(b, i)) = i
      /\ \A k \in 1 .. i : Prefix(b, i)[k] = b[k]
    BY <1>1, SubSeqProperties DEF Prefix
<1>3. Prefix(b, i) # <<>>
    BY <1>2, EmptySeq
<1>4. ASSUME i = Len(b) PROVE Prefix(b, i) = b
    BY <1>4, SubSeqFull DEF Prefix
<1>5. ASSUME i < Len(b) PROVE Prefix(b, i) = Prefix(Parent(b), i)
    <2>1. b # <<>>
        BY <1>1, <1>5, EmptySeq
    <2>2. /\ Parent(b) \in Seq(S) /\ Len(Parent(b)) = Len(b) - 1
          /\ \A k \in 1 .. Len(b) - 1 : Parent(b)[k] = b[k]
        BY <2>1, ParentFacts
    <2>3. \A k \in 1 .. i : Parent(b)[k] \in S
        BY <1>1, <1>5, <2>2
    <2>4. /\ Prefix(Parent(b), i) \in Seq(S) /\ Len(Prefix(Parent(b), i)) = i
          /\ \A k \in 1 .. i : Prefix(Parent(b), i)[k] = Parent(b)[k]
        BY <2>3, SubSeqProperties DEF Prefix
    <2>5. ASSUME NEW k \in 1 .. i PROVE Prefix(b, i)[k] = Prefix(Parent(b), i)[k]
        <3>1. k \in 1 .. Len(b) - 1
            BY <1>1, <1>5
        <3>2. Prefix(b, i)[k] = b[k] /\ Prefix(Parent(b), i)[k] = Parent(b)[k] /\ Parent(b)[k] = b[k]
            BY <1>2, <2>2, <2>4, <3>1, Zenon
        <3> QED
            BY <3>2
    <2> QED
        BY <1>2, <2>4, <2>5, SeqEqual
<1> QED
    BY <1>2, <1>3, <1>4, <1>5

-----------------------------------------------------------------------------
(* Types.  Every block a validateer handles was broadcast, and a broadcast *)
(* block is not empty: without this Top(b) would not be the data of b.     *)

DraftsProper == \A n \in Nodes : phase[n] \in {"broadcast", "effects"} => draft[n] # Genesis

TodoKnown == \A n \in Nodes : \A i \in 1 .. Len(todo[n]) : todo[n][i] \in broadcast

Known == CommittedWasBroadcast /\ TodoKnown /\ Genesis \notin broadcast /\ DraftsProper

Typed == TypeOK /\ Known

\* The block import_block is called with was broadcast.
LEMMA CurrentFacts ==
    ASSUME Typed, NEW n \in Nodes, NEW b \in batch[n]
    PROVE  /\ Current(n, b) \in broadcast /\ Current(n, b) \in Seq(Data)
           /\ Current(n, b) # <<>>
           /\ Top(Current(n, b)) \in Data
           /\ Top(Current(n, b)).layer_one_head \in Heights
           /\ CurrentHeader(n) \in Heights
<1>1. b \in broadcast
    BY DEF Typed, TypeOK
<1>2. ASSUME Syncing(n) PROVE todo[n][1] \in broadcast
    <2>1. todo[n] \in Seq(Seq(Data)) /\ todo[n] # <<>>
        BY <1>2 DEF Typed, TypeOK, Syncing
    <2>2. 1 \in 1 .. Len(todo[n])
        BY <2>1, EmptySeq
    <2> QED
        BY <2>2 DEF Typed, Known, TodoKnown
<1>3. Current(n, b) \in broadcast
    BY <1>1, <1>2 DEF Current
<1>4. Current(n, b) \in Seq(Data) /\ Current(n, b) # <<>>
    BY <1>3 DEF Typed, TypeOK, Known, Genesis
<1>5. Top(Current(n, b)) \in Data
    BY <1>4, TopFacts
<1>6. Top(Current(n, b)).layer_one_head \in Heights
    BY <1>5 DEF Data
<1>7. CurrentHeader(n) \in Heights
    BY DEF CurrentHeader, Typed, TypeOK
<1> QED
    BY <1>3, <1>4, <1>5, <1>6, <1>7

\* What importing a block does to the loops over the blocks.
LEMMA SucceedTypes ==
    ASSUME Typed, NEW n \in Nodes, NEW b \in batch[n], NEW header \in Heights,
           Succeed(n, b, header), broadcast' = broadcast
    PROVE  /\ todo' \in [Nodes -> Seq(Seq(Data))]
           /\ sync_hdr' \in [Nodes -> Heights] /\ hdr' \in [Nodes -> Heights]
           /\ batch' \in [Nodes -> SUBSET broadcast]
           /\ TodoKnown'
<1>1. todo[n] \in Seq(Seq(Data)) /\ todo \in [Nodes -> Seq(Seq(Data))]
    BY DEF Typed, TypeOK
<1>2. ASSUME Syncing(n)
      PROVE  /\ Tail(todo[n]) \in Seq(Seq(Data))
             /\ \A i \in 1 .. Len(Tail(todo[n])) : Tail(todo[n])[i] \in broadcast
    <2>1. todo[n] # <<>>
        BY <1>2 DEF Syncing
    <2>2. /\ Tail(todo[n]) \in Seq(Seq(Data)) /\ Len(todo[n]) \in Nat
          /\ Len(Tail(todo[n])) = Len(todo[n]) - 1
          /\ \A i \in 1 .. Len(Tail(todo[n])) : Tail(todo[n])[i] = todo[n][i + 1]
        BY <1>1, <2>1, HeadTailProperties, LenProperties
    <2>3. ASSUME NEW i \in 1 .. Len(Tail(todo[n])) PROVE Tail(todo[n])[i] \in broadcast
        <3>1. i + 1 \in 1 .. Len(todo[n])
            BY <2>2
        <3> QED
            BY <2>2, <3>1 DEF Typed, Known, TodoKnown
    <2> QED
        BY <2>2, <2>3
<1>3. todo' \in [Nodes -> Seq(Seq(Data))]
    BY <1>1, <1>2 DEF Succeed
<1>4. TodoKnown'
    <2> SUFFICES ASSUME NEW m \in Nodes, NEW i \in 1 .. Len(todo'[m])
                 PROVE  todo'[m][i] \in broadcast
        BY DEF TodoKnown
    <2>1. CASE m = n /\ Syncing(n)
        BY <1>1, <1>2, <2>1 DEF Succeed
    <2>2. CASE ~(m = n /\ Syncing(n))
        <3>1. todo'[m] = todo[m]
            BY <1>1, <2>2 DEF Succeed
        <3> QED
            BY <3>1 DEF Typed, Known, TodoKnown
    <2> QED
        BY <2>1, <2>2
<1>5. sync_hdr' \in [Nodes -> Heights] /\ hdr' \in [Nodes -> Heights]
    BY DEF Succeed, Typed, TypeOK
<1>6. batch' \in [Nodes -> SUBSET broadcast]
    BY DEF Succeed, Typed, TypeOK
<1> QED
    BY <1>3, <1>4, <1>5, <1>6

\* What a failing import does to them.
LEMMA FailTypes ==
    ASSUME Typed, NEW n \in Nodes, NEW b \in batch[n], Fail(n, b), broadcast' = broadcast
    PROVE  /\ todo' \in [Nodes -> Seq(Seq(Data))]
           /\ sync_hdr' \in [Nodes -> Heights] /\ hdr' \in [Nodes -> Heights]
           /\ batch' \in [Nodes -> SUBSET broadcast]
           /\ TodoKnown'
<1>1. todo' \in [Nodes -> Seq(Seq(Data))]
    BY EmptySeq DEF Fail, Typed, TypeOK
<1>2. batch' \in [Nodes -> SUBSET broadcast]
    BY DEF Fail, Typed, TypeOK
<1>3. TodoKnown'
    BY EmptySeq DEF Fail, Typed, TypeOK, Known, TodoKnown
<1> QED
    BY <1>1, <1>2, <1>3 DEF Fail, Typed, TypeOK

\* Parentchain imports, failing or not, keep the headers in their range.
LEMMA ImportTypes ==
    ASSUME Typed, NEW n \in Nodes, NEW h \in Heights,
           \/ ImportUntil(n, h)
           \/ \E f \in 1 .. MaxHeight + 1, submitted \in BOOLEAN :
                 ImportUntilFails(n, h, f, submitted)
    PROVE  /\ popped' \in [Nodes -> Heights] /\ lc' \in [Nodes -> Heights]
           /\ st' \in [Nodes -> Heights] /\ height' = height /\ seen' = seen
           /\ failures' \in 0 .. MaxFailures
<1> USE ConsensusAssumption
<1>1. CASE ImportUntil(n, h)
    BY <1>1 DEF ImportUntil, ImportedTo, UpdatedTo, Typed, TypeOK
<1>2. CASE \E f \in 1 .. MaxHeight + 1, submitted \in BOOLEAN :
              ImportUntilFails(n, h, f, submitted)
    <2>1. PICK f \in 1 .. MaxHeight + 1, submitted \in BOOLEAN :
              ImportUntilFails(n, h, f, submitted)
        BY <1>2
    <2>2. f - 1 \in Heights /\ (submitted => f \in Heights)
        <3>1. lc[n] \in Heights
            BY DEF Typed, TypeOK
        <3>2. f \in lc[n] + 1 .. h + 1 \/ f = lc[n] + 1
            BY <2>1 DEF ImportUntilFails
        <3>3. ASSUME submitted PROVE f <= h
            BY <2>1, <3>3 DEF ImportUntilFails
        <3>4. f - 1 \in Heights
            BY <3>1, <3>2 DEF Heights
        <3>5. ASSUME submitted PROVE f \in Heights
            BY <3>3, <3>5 DEF Heights
        <3> QED
            BY <3>4, <3>5
    <2>3. popped' \in [Nodes -> Heights] /\ lc' \in [Nodes -> Heights] /\ st' \in [Nodes -> Heights]
        BY <2>1, <2>2 DEF ImportUntilFails, Typed, TypeOK
    <2>4. failures' \in 0 .. MaxFailures
        <3>1. MayFail \/ UNCHANGED failures
            BY <2>1 DEF ImportUntilFails
        <3>2. failures \in 0 .. MaxFailures
            BY DEF Typed, TypeOK
        <3> QED
            BY <3>1, <3>2 DEF MayFail
    <2> QED
        BY <2>1, <2>3, <2>4 DEF ImportUntilFails
<1> QED
    BY <1>1, <1>2

\* What the primary sends are blocks it has imported, hence broadcast ones.
LEMMA FetchFacts ==
    ASSUME Typed, NEW n \in Nodes, NEW b \in broadcast, AncestryMismatch(n, b)
    PROVE  /\ BlocksInRange(chain[n], b) \in Seq(Seq(Data))
           /\ \A i \in 1 .. Len(BlocksInRange(chain[n], b)) :
                 BlocksInRange(chain[n], b)[i] \in broadcast
<1> DEFINE source == chain[Primary]
           last == IF IsPrefix(b, source) THEN Number(b) - 1 ELSE Number(source)
           k == last - Number(chain[n])
           fetched == [i \in 1 .. k |-> SubSeq(source, 1, Number(chain[n]) + i)]
<1>1. source \in Seq(Data) /\ chain[n] \in Seq(Data) /\ b \in Seq(Data) /\ b # <<>>
    BY ConsensusAssumption DEF Typed, TypeOK, Known, Genesis
<1>2. Len(source) \in Nat /\ Len(chain[n]) \in Nat /\ Len(b) \in Nat \ {0}
    BY <1>1, LenProperties, EmptySeq
<1>3. CASE ~IsPrefix(chain[n], source)
    BY <1>3, EmptySeq DEF BlocksInRange
<1>4. CASE IsPrefix(chain[n], source)
    <2>1. chain[n] = Genesis \/ Len(b) > Len(chain[n])
        BY <1>2 DEF AncestryMismatch, AlreadyImported, Number
    <2>2. Len(chain[n]) <= Len(source) /\ (IsPrefix(b, source) => Len(b) <= Len(source))
        BY <1>4 DEF IsPrefix
    <2>3. last \in Nat /\ last <= Len(source) /\ k \in Nat
        <3>1. chain[n] = Genesis => Len(chain[n]) = 0
            BY EmptySeq DEF Genesis
        <3> QED
            BY <1>2, <2>1, <2>2, <3>1 DEF Number
    <2>4. ASSUME NEW i \in 1 .. k
          PROVE  SubSeq(source, 1, Number(chain[n]) + i) \in broadcast
        <3>1. Number(chain[n]) + i \in 1 .. Len(source)
            BY <1>2, <2>3 DEF Number
        <3>2. Prefix(source, Number(chain[n]) + i) \in broadcast
            BY <3>1, ConsensusAssumption DEF Typed, Known, CommittedWasBroadcast
        <3> QED
            BY <3>2 DEF Prefix
    <2>5. BlocksInRange(chain[n], b) = fetched
        BY <1>4 DEF BlocksInRange
    <2>6. fetched \in [1 .. k -> Seq(Data)] /\ DOMAIN fetched = 1 .. k
        BY <2>4 DEF Typed, TypeOK
    <2>7. fetched \in Seq(Seq(Data))
        <3> HIDE DEF k, fetched
        <3> QED
            BY <2>3, <2>6, SeqDef
    <2>8. 1 .. Len(fetched) = 1 .. k
        <3> HIDE DEF k, fetched
        <3> QED
            BY <2>6, <2>7, LenProperties
    <2>9. ASSUME NEW i \in 1 .. Len(fetched) PROVE fetched[i] \in broadcast
        <3>1. i \in 1 .. k
            BY <2>8
        <3>2. fetched[i] = SubSeq(source, 1, Number(chain[n]) + i)
            BY <3>1
        <3> QED
            BY <3>1, <3>2, <2>4
    <2> QED
        BY <2>5, <2>7, <2>9
<1> QED
    BY <1>3, <1>4

\* A verified block is a child of the last block of the state.
LEMMA VerifiedFacts ==
    ASSUME Typed, NEW n \in Nodes, NEW b \in broadcast, Verified(n, b)
    PROVE  /\ Parent(b) = chain[n] /\ Len(b) = Len(chain[n]) + 1
           /\ \A i \in 1 .. Len(chain[n]) : b[i] = chain[n][i]
           /\ \A i \in 1 .. Len(b) : i = Len(b) \/ i \in 1 .. Len(chain[n])
           /\ \A i \in 1 .. Len(b) : Prefix(b, i) \in broadcast
<1>1. b \in Seq(Data) /\ b # <<>> /\ chain[n] \in Seq(Data)
    BY DEF Typed, TypeOK, Known, Genesis
<1>2. Parent(b) = chain[n]
    BY DEF Verified, AncestryMismatch
<1>3. Len(b) \in Nat \ {0} /\ Len(chain[n]) \in Nat
    BY <1>1, EmptySeq, LenProperties
<1>4. Len(chain[n]) = Len(b) - 1 /\ \A i \in 1 .. Len(b) - 1 : chain[n][i] = b[i]
    BY <1>1, <1>2, ParentFacts
<1>5. Len(b) = Len(chain[n]) + 1 /\ \A i \in 1 .. Len(chain[n]) : b[i] = chain[n][i]
    BY <1>3, <1>4
<1>6. ASSUME NEW i \in 1 .. Len(b) PROVE i = Len(b) \/ i \in 1 .. Len(chain[n])
    BY <1>3, <1>5
<1>7. ASSUME NEW i \in 1 .. Len(b) PROVE Prefix(b, i) \in broadcast
    <2>1. CASE i = Len(b)
        BY <1>1, <2>1, PrefixFacts
    <2>2. CASE i # Len(b)
        <3>1. i \in 1 .. Len(chain[n]) /\ i < Len(b)
            BY <1>3, <1>6, <2>2
        <3>2. Prefix(b, i) = Prefix(chain[n], i)
            BY <1>1, <1>2, <3>1, PrefixFacts
        <3> QED
            BY <3>1, <3>2 DEF Typed, Known, CommittedWasBroadcast
    <2> QED
        BY <2>1, <2>2
<1> QED
    BY <1>2, <1>5, <1>6, <1>7

\* The genesis state of the validateers satisfies the typing invariant.
THEOREM TypedInit == Init => Typed
<1> SUFFICES ASSUME Init PROVE Typed
    OBVIOUS
<1> USE ConsensusAssumption
<1>1. Genesis \in Seq(Data) /\ Len(Genesis) = 0 /\ <<>> \in Seq(Seq(Data)) /\ Len(<<>>) = 0
    BY EmptySeq DEF Genesis
<1>2. 1 \in Slots /\ 0 \in Heights /\ 0 \in 0 .. MaxSlot /\ 0 \in 0 .. MaxRestarts /\ 0 \in 0 .. MaxFailures
    BY DEF Slots, Heights
<1>3. TypeOK
    BY <1>1, <1>2 DEF Init, TypeOK
<1>4. CommittedWasBroadcast /\ TodoKnown
    BY <1>1 DEF Init, CommittedWasBroadcast, TodoKnown
<1>5. DraftsProper /\ Genesis \notin broadcast
    BY DEF Init, DraftsProper
<1> QED
    BY <1>3, <1>4, <1>5 DEF Typed, Known

\* Every step of the specification keeps the types, and every block that takes
\* effect or waits to be imported is one that was broadcast.
THEOREM TypedStep == Typed /\ [Next]_vars => Typed'
<1> SUFFICES ASSUME Typed, [Next]_vars PROVE Typed'
    OBVIOUS
<1> USE ConsensusAssumption DEF parentchain, importing
<1>1. ASSUME Tick PROVE Typed'
    <2>1. slot' \in Slots
        BY <1>1 DEF Tick, Typed, TypeOK, Slots
    <2> QED
        BY <1>1, <2>1 DEF Tick, Typed, TypeOK, Known, CommittedWasBroadcast, TodoKnown, DraftsProper
<1>2. ASSUME Finalize PROVE Typed'
    <2>1. height' \in Heights
        BY <1>2 DEF Finalize, Typed, TypeOK, Heights
    <2> QED
        BY <1>2, <2>1 DEF Finalize, Typed, TypeOK, Known, CommittedWasBroadcast, TodoKnown, DraftsProper
<1>3. ASSUME NEW n \in Nodes, SyncParentchain(n) PROVE Typed'
    <2>1. seen[n] \in Heights /\ height \in Heights
        BY DEF Typed, TypeOK
    <2>2. seen[n] + 1 \in Heights
        BY <1>3, <2>1 DEF SyncParentchain, Heights
    <2>3. seen' \in [Nodes -> Heights]
        BY <1>3, <2>2 DEF SyncParentchain, Typed, TypeOK
    <2> QED
        BY <1>3, <2>3 DEF SyncParentchain, Typed, TypeOK, Known, CommittedWasBroadcast, TodoKnown,
                          DraftsProper
<1>4. ASSUME NEW n \in Nodes, NEW b \in broadcast, Deliver(n, b) PROVE Typed'
    BY <1>4 DEF Deliver, Typed, TypeOK, Known, CommittedWasBroadcast, TodoKnown, DraftsProper
<1>5. ASSUME NEW n \in Nodes, NEW c \in Calls, Submit(n, c) PROVE Typed'
    BY <1>5 DEF Submit, Typed, TypeOK, Known, CommittedWasBroadcast, TodoKnown, DraftsProper
<1>6. ASSUME NEW n \in Nodes, Restart(n) PROVE Typed'
    <2>1. restarts' \in 0 .. MaxRestarts
        BY <1>6 DEF Restart, Typed, TypeOK
    <2>2. 0 \in Heights /\ 0 \in 0 .. MaxSlot /\ slot \in 0 .. MaxSlot
        BY DEF Heights, Slots, Typed, TypeOK
    <2>3. Genesis \in Seq(Data) /\ <<>> \in Seq(Seq(Data)) /\ Len(<<>>) = 0
        BY EmptySeq DEF Genesis
    <2>4. TypeOK'
        BY <1>6, <2>1, <2>2, <2>3 DEF Restart, DropLocals, Typed, TypeOK
    <2>5. TodoKnown'
        BY <1>6, <2>3 DEF Restart, Typed, TypeOK, Known, TodoKnown
    <2> QED
        BY <1>6, <2>4, <2>5 DEF Restart, Typed, TypeOK, Known, CommittedWasBroadcast, DraftsProper
<1>7. ASSUME NEW n \in Nodes, Wake(n) PROVE Typed'
    <2>1. slot \in 0 .. MaxSlot
        BY DEF Slots, Typed, TypeOK
    <2> QED
        BY <1>7, <2>1 DEF Wake, Typed, TypeOK, Known, CommittedWasBroadcast, TodoKnown, DraftsProper
<1>8. ASSUME NEW n \in Nodes, ProcessQueue(n) PROVE Typed'
    <2>1. slot \in 0 .. MaxSlot
        BY DEF Slots, Typed, TypeOK
    <2> QED
        BY <1>8, <2>1 DEF ProcessQueue, Typed, TypeOK, Known, CommittedWasBroadcast, TodoKnown,
                          DraftsProper
<1>9. ASSUME NEW n \in Nodes, NEW b \in batch[n], IgnoreBlock(n, b) PROVE Typed'
    <2>1. hdr[n] \in Heights
        BY DEF Typed, TypeOK
    <2>2. Succeed(n, b, hdr[n]) /\ broadcast' = broadcast
        BY <1>9 DEF IgnoreBlock
    <2>3. /\ todo' \in [Nodes -> Seq(Seq(Data))] /\ TodoKnown'
          /\ sync_hdr' \in [Nodes -> Heights] /\ hdr' \in [Nodes -> Heights]
          /\ batch' \in [Nodes -> SUBSET broadcast]
        BY <2>1, <2>2, SucceedTypes
    <2> QED
        BY <1>9, <2>3 DEF IgnoreBlock, Typed, TypeOK, Known, CommittedWasBroadcast, DraftsProper
<1>10. ASSUME NEW n \in Nodes, NEW b \in batch[n],
              RejectBlock(n, b) \/ VerifyFails(n, b) \/ FetchBlocksFails(n, b)
       PROVE  Typed'
    <2>1. Fail(n, b) /\ broadcast' = broadcast
        BY <1>10 DEF RejectBlock, VerifyFails, FetchBlocksFails
    <2>2. /\ todo' \in [Nodes -> Seq(Seq(Data))] /\ TodoKnown'
          /\ sync_hdr' \in [Nodes -> Heights] /\ hdr' \in [Nodes -> Heights]
          /\ batch' \in [Nodes -> SUBSET broadcast]
        BY <2>1, FailTypes
    <2>3. failures' \in 0 .. MaxFailures
        <3>1. MayFail \/ UNCHANGED failures
            BY <1>10 DEF RejectBlock, VerifyFails, FetchBlocksFails
        <3>2. failures \in 0 .. MaxFailures
            BY DEF Typed, TypeOK
        <3> QED
            BY <3>1, <3>2 DEF MayFail
    <2>4. UNCHANGED <<slot, parentchain, chain, broadcast, queue, phase, timestamp,
                      woken, last_slot, draft, pool, effects, restarts>>
        BY <1>10 DEF RejectBlock, VerifyFails, FetchBlocksFails
    <2> QED
        BY <2>2, <2>3, <2>4 DEF Typed, TypeOK, Known, CommittedWasBroadcast, DraftsProper
<1>11. ASSUME NEW n \in Nodes, NEW b \in batch[n], FetchBlocks(n, b) PROVE Typed'
    <2> DEFINE block == Current(n, b)
               fetched == BlocksInRange(chain[n], block)
    <2>1. block \in broadcast /\ block \in Seq(Data)
        BY CurrentFacts
    <2>2. fetched \in Seq(Seq(Data)) /\ \A i \in 1 .. Len(fetched) : fetched[i] \in broadcast
        BY <1>11, <2>1, FetchFacts DEF FetchBlocks
    <2> HIDE DEF block, fetched
    <2>3. /\ <<block>> \in Seq(Seq(Data)) /\ Len(<<block>>) = 1 /\ <<block>>[1] = block
        BY <2>1
    <2>4. /\ fetched \o <<block>> \in Seq(Seq(Data)) /\ Len(fetched) \in Nat
          /\ Len(fetched \o <<block>>) = Len(fetched) + 1
          /\ \A i \in 1 .. Len(fetched) + 1 : (fetched \o <<block>>)[i] =
                IF i <= Len(fetched) THEN fetched[i] ELSE <<block>>[i - Len(fetched)]
        BY <2>2, <2>3, ConcatProperties, LenProperties
    <2>5. ASSUME NEW i \in 1 .. Len(fetched \o <<block>>)
          PROVE  (fetched \o <<block>>)[i] \in broadcast
        <3>1. CASE i <= Len(fetched)
            BY <2>2, <2>4, <3>1
        <3>2. CASE ~(i <= Len(fetched))
            <4>1. i - Len(fetched) = 1
                BY <2>4, <3>2
            <4> QED
                BY <2>1, <2>3, <2>4, <3>2, <4>1
        <3> QED
            BY <3>1, <3>2
    <2>6. todo' = [todo EXCEPT ![n] = fetched \o <<block>>]
        BY <1>11 DEF FetchBlocks, block, fetched
    <2>7. todo' \in [Nodes -> Seq(Seq(Data))]
        BY <2>4, <2>6 DEF Typed, TypeOK
    <2>8. broadcast' = broadcast
        BY <1>11 DEF FetchBlocks
    <2>9. TodoKnown'
        BY <2>5, <2>6, <2>8 DEF TodoKnown, Typed, TypeOK, Known
    <2> QED
        BY <1>11, <2>7, <2>9 DEF FetchBlocks, Typed, TypeOK, Known, CommittedWasBroadcast, DraftsProper
<1>12. ASSUME NEW n \in Nodes, NEW b \in batch[n], ImportBlock(n, b) PROVE Typed'
    <2> DEFINE block == Current(n, b)
               head == Top(block).layer_one_head
    <2>1. block \in broadcast /\ block \in Seq(Data) /\ head \in Heights /\ CurrentHeader(n) \in Heights
        BY CurrentFacts
    <2>2. \A i \in 1 .. Len(block) : Prefix(block, i) \in broadcast
        BY <1>12, <2>1, VerifiedFacts DEF ImportBlock
    <2> HIDE DEF block, head
    <2>3. /\ ImportUntil(n, head)
          /\ chain' = [chain EXCEPT ![n] = block]
          /\ pool' = [pool EXCEPT ![n] = @ \ Top(block).calls]
          /\ Succeed(n, b, IF InQueue(n, head) THEN head ELSE CurrentHeader(n))
          /\ UNCHANGED <<slot, broadcast, queue, phase, timestamp, woken, last_slot, draft,
                         effects, restarts>>
        BY <1>12 DEF ImportBlock, block, head
    <2>4. (IF InQueue(n, head) THEN head ELSE CurrentHeader(n)) \in Heights
        BY <2>1
    <2>5. /\ todo' \in [Nodes -> Seq(Seq(Data))] /\ TodoKnown'
          /\ sync_hdr' \in [Nodes -> Heights] /\ hdr' \in [Nodes -> Heights]
          /\ batch' \in [Nodes -> SUBSET broadcast]
        BY <2>3, <2>4, SucceedTypes
    <2>6. /\ popped' \in [Nodes -> Heights] /\ lc' \in [Nodes -> Heights]
          /\ st' \in [Nodes -> Heights] /\ height' = height /\ seen' = seen
          /\ failures' \in 0 .. MaxFailures
        BY <2>1, <2>3, ImportTypes
    <2>7. chain' \in [Nodes -> Seq(Data)] /\ pool' \in [Nodes -> SUBSET Calls]
        BY <2>1, <2>3 DEF Typed, TypeOK
    <2>8. CommittedWasBroadcast'
        BY <2>2, <2>3 DEF Typed, TypeOK, Known, CommittedWasBroadcast, Prefix
    <2> QED
        BY <2>3, <2>5, <2>6, <2>7, <2>8 DEF Typed, TypeOK, Known, DraftsProper
<1>13. ASSUME NEW n \in Nodes, NEW b \in batch[n], RefuseState(n, b) \/ ImportBlockFails(n, b)
       PROVE  Typed'
    <2> DEFINE head == Top(Current(n, b)).layer_one_head
    <2>1. head \in Heights
        BY CurrentFacts
    <2>2. /\ Fail(n, b)
          /\ \/ ImportUntil(n, head)
             \/ \E f \in 1 .. MaxHeight + 1, submitted \in BOOLEAN :
                   ImportUntilFails(n, head, f, submitted)
          /\ UNCHANGED <<slot, chain, broadcast, queue, phase, timestamp, woken, last_slot, draft,
                         pool, effects, restarts>>
        BY <1>13 DEF RefuseState, ImportBlockFails
    <2> HIDE DEF head
    <2>3. /\ popped' \in [Nodes -> Heights] /\ lc' \in [Nodes -> Heights]
          /\ st' \in [Nodes -> Heights] /\ height' = height /\ seen' = seen
          /\ failures' \in 0 .. MaxFailures
        BY <2>1, <2>2, ImportTypes
    <2>4. /\ todo' \in [Nodes -> Seq(Seq(Data))] /\ TodoKnown'
          /\ sync_hdr' \in [Nodes -> Heights] /\ hdr' \in [Nodes -> Heights]
          /\ batch' \in [Nodes -> SUBSET broadcast]
        BY <2>2, FailTypes
    <2> QED
        BY <2>2, <2>3, <2>4 DEF Typed, TypeOK, Known, CommittedWasBroadcast, DraftsProper
<1>14. ASSUME NEW n \in Nodes, NoProposal(n) PROVE Typed'
    <2>1. 0 \in Heights /\ 0 \in 0 .. MaxSlot
        BY DEF Heights
    <2> QED
        BY <1>14, <2>1 DEF NoProposal, DropLocals, Typed, TypeOK, Known, CommittedWasBroadcast,
                           TodoKnown, DraftsProper
<1>15. ASSUME NEW n \in Nodes, NEW calls \in SUBSET ValidCalls(n),
              NEW invalid \in SUBSET (pool[n] \ ValidCalls(n)), Propose(n, calls, invalid)
       PROVE  Typed'
    <2> DEFINE h == LatestHeader(n)
               data == [slot |-> slot, author |-> n, layer_one_head |-> h,
                        base |-> st'[n], calls |-> calls]
               block == Append(chain[n], data)
    <2>1. h \in Heights
        BY DEF LatestHeader, Typed, TypeOK
    <2>2. /\ popped' \in [Nodes -> Heights] /\ lc' \in [Nodes -> Heights]
          /\ st' \in [Nodes -> Heights] /\ height' = height /\ seen' = seen
          /\ failures' \in 0 .. MaxFailures
        BY <1>15, <2>1, ImportTypes DEF Propose
    <2>3. calls \in SUBSET Calls /\ st'[n] \in Heights /\ slot \in Slots
        BY <2>2 DEF ValidCalls, Typed, TypeOK
    <2>4. data \in Data
        BY <2>1, <2>3 DEF Data
    <2>5. chain[n] \in Seq(Data)
        BY DEF Typed, TypeOK
    <2>6. block \in Seq(Data) /\ block # <<>>
        BY <2>4, <2>5, ChildFacts, Zenon
    <2> HIDE DEF data
    <2>7. 0 \in Heights /\ 0 \in 0 .. MaxSlot
        BY DEF Heights
    <2>8. chain' = chain
        BY <1>15 DEF Propose, StateAfterProposal, Typed, TypeOK
    <2>9. /\ \/ phase' = [phase EXCEPT ![n] = "broadcast"] /\ draft' = [draft EXCEPT ![n] = block]
             \/ phase' = [phase EXCEPT ![n] = "idle"] /\ UNCHANGED draft
          /\ pool' = [pool EXCEPT ![n] = @ \ invalid]
          /\ last_slot' = [last_slot EXCEPT ![n] = timestamp[n]]
          /\ DropLocals(n)
          /\ UNCHANGED <<slot, woken, broadcast, queue, batch, todo, effects, restarts>>
        BY <1>15 DEF Propose, data
    <2> HIDE DEF block, h
    <2>10. /\ phase' \in [Nodes -> {"idle", "woken", "import", "broadcast", "effects"}]
           /\ draft' \in [Nodes -> Seq(Data)]
           /\ DraftsProper'
        <3>1. /\ phase \in [Nodes -> {"idle", "woken", "import", "broadcast", "effects"}]
              /\ draft \in [Nodes -> Seq(Data)]
              /\ DraftsProper
            BY DEF Typed, TypeOK, Known
        <3>2. CASE phase' = [phase EXCEPT ![n] = "broadcast"] /\ draft' = [draft EXCEPT ![n] = block]
            BY <2>6, <3>1, <3>2 DEF DraftsProper, Genesis
        <3>3. CASE phase' = [phase EXCEPT ![n] = "idle"] /\ UNCHANGED draft
            BY <3>1, <3>3 DEF DraftsProper
        <3> QED
            BY <2>9, <3>2, <3>3
    <2>11. /\ pool' \in [Nodes -> SUBSET Calls] /\ last_slot' \in [Nodes -> 0 .. MaxSlot]
           /\ timestamp' \in [Nodes -> 0 .. MaxSlot]
           /\ hdr' \in [Nodes -> Heights] /\ sync_hdr' \in [Nodes -> Heights]
        BY <2>7, <2>9 DEF DropLocals, Typed, TypeOK
    <2> QED
        BY <2>2, <2>8, <2>9, <2>10, <2>11 DEF Typed, TypeOK, Known, CommittedWasBroadcast, TodoKnown
<1>16. ASSUME NEW n \in Nodes, Broadcast(n) PROVE Typed'
    <2>1. draft[n] \in Seq(Data) /\ draft[n] # Genesis
        BY <1>16 DEF Broadcast, Typed, TypeOK, Known, DraftsProper
    <2>2. TypeOK'
        BY <1>16, <2>1 DEF Broadcast, Typed, TypeOK
    <2>3. Known'
        BY <1>16, <2>1 DEF Broadcast, Typed, TypeOK, Known, CommittedWasBroadcast, TodoKnown, DraftsProper
    <2> QED
        BY <2>2, <2>3 DEF Typed
<1>17. ASSUME NEW n \in Nodes, SendEffects(n) PROVE Typed'
    <2>1. draft[n] \in Seq(Data) /\ draft[n] # <<>>
        BY <1>17 DEF SendEffects, Typed, TypeOK, Known, DraftsProper, Genesis
    <2>2. Top(draft[n]).calls \in SUBSET Calls
        <3>1. Top(draft[n]) \in Data
            BY <2>1, TopFacts
        <3> QED
            BY <3>1 DEF Data
    <2>3. effects' \subseteq Calls \X Seq(Data)
        <3>1. {<<c, draft[n]>> : c \in Top(draft[n]).calls} \subseteq Calls \X Seq(Data)
            BY <2>1, <2>2
        <3>2. effects \subseteq Calls \X Seq(Data)
            BY DEF Typed, TypeOK
        <3> QED
            BY <1>17, <3>1, <3>2 DEF SendEffects
    <2>4. Genesis \in Seq(Data)
        BY EmptySeq DEF Genesis
    <2> QED
        BY <1>17, <2>3, <2>4 DEF SendEffects, Typed, TypeOK, Known, CommittedWasBroadcast, TodoKnown,
                                 DraftsProper
<1>18. ASSUME NEW n \in Nodes, LoseEffects(n) PROVE Typed'
    <2>1. failures' \in 0 .. MaxFailures
        BY <1>18 DEF LoseEffects, MayFail, Typed, TypeOK
    <2>2. Genesis \in Seq(Data)
        BY EmptySeq DEF Genesis
    <2> QED
        BY <1>18, <2>1, <2>2 DEF LoseEffects, Typed, TypeOK, Known, CommittedWasBroadcast, TodoKnown,
                                 DraftsProper
<1>19. ASSUME UNCHANGED vars PROVE Typed'
    BY <1>19 DEF vars, Typed, TypeOK, Known, CommittedWasBroadcast, TodoKnown, DraftsProper
<1> QED
    BY <1>1, <1>2, <1>3, <1>4, <1>5, <1>6, <1>7, <1>8, <1>9, <1>10, <1>11, <1>12, <1>13, <1>14,
       <1>15, <1>16, <1>17, <1>18, <1>19 DEF Next, Environment, Validateer

\* TypeOK and CommittedWasBroadcast hold in every reachable state.
THEOREM TypedHolds == Spec => []Typed
BY TypedInit, TypedStep, PTL DEF Spec

\* The type invariant, for every number of validateers and every bound.
THEOREM TypeCorrect == Spec => []TypeOK
BY TypedHolds, PTL DEF Typed

\* No state, not even the author's, has a block that was not sent to the peers.
THEOREM CommittedWasBroadcastHolds == Spec => []CommittedWasBroadcast
BY TypedHolds, PTL DEF Typed, Known

-----------------------------------------------------------------------------
(* Which steps can touch what.                                             *)

Proposes(n) ==
    \E calls \in SUBSET ValidCalls(n) : \E invalid \in SUBSET (pool[n] \ ValidCalls(n)) :
        Propose(n, calls, invalid)

Imports(n) ==
    \E b \in batch[n] : ImportBlock(n, b) \/ RefuseState(n, b) \/ ImportBlockFails(n, b)

\* Clocks, drafts and the set of broadcast blocks change in these steps only.
LEMMA LoopSteps ==
    ASSUME Typed, [Next]_vars
    PROVE  \/ UNCHANGED <<slot, woken, phase, timestamp, last_slot, draft, broadcast>>
           \/ Tick
           \/ \E n \in Nodes : \/ Restart(n) \/ Wake(n) \/ ProcessQueue(n) \/ NoProposal(n)
                               \/ Proposes(n) \/ Broadcast(n) \/ SendEffects(n) \/ LoseEffects(n)
<1>1. ASSUME Finalize \/ (\E n \in Nodes : SyncParentchain(n))
             \/ (\E n \in Nodes, b \in broadcast : Deliver(n, b))
             \/ (\E n \in Nodes, c \in Calls : Submit(n, c)) \/ UNCHANGED vars
      PROVE  UNCHANGED <<slot, woken, phase, timestamp, last_slot, draft, broadcast>>
    BY <1>1 DEF Finalize, SyncParentchain, Deliver, Submit, vars
<1>2. ASSUME NEW n \in Nodes, NEW b \in batch[n],
             \/ IgnoreBlock(n, b) \/ RejectBlock(n, b) \/ VerifyFails(n, b) \/ FetchBlocks(n, b)
             \/ FetchBlocksFails(n, b) \/ ImportBlock(n, b) \/ RefuseState(n, b)
             \/ ImportBlockFails(n, b)
      PROVE  UNCHANGED <<slot, woken, phase, timestamp, last_slot, draft, broadcast>>
    BY <1>2 DEF IgnoreBlock, RejectBlock, VerifyFails, FetchBlocks, FetchBlocksFails, ImportBlock,
                RefuseState, ImportBlockFails
<1> QED
    BY <1>1, <1>2 DEF Next, Environment, Validateer, Proposes

\* So do the states and what is known of the parentchain.
LEMMA StateSteps ==
    ASSUME Typed, [Next]_vars
    PROVE  \/ UNCHANGED <<seen, popped, lc, st, chain>>
           \/ \E n \in Nodes : SyncParentchain(n) \/ Restart(n) \/ Imports(n) \/ Proposes(n)
<1> USE DEF parentchain
<1>1. ASSUME Tick \/ Finalize \/ (\E n \in Nodes, b \in broadcast : Deliver(n, b))
             \/ (\E n \in Nodes, c \in Calls : Submit(n, c)) \/ UNCHANGED vars
      PROVE  UNCHANGED <<seen, popped, lc, st, chain>>
    BY <1>1 DEF Tick, Finalize, Deliver, Submit, vars
<1>2. ASSUME NEW n \in Nodes, NEW b \in batch[n],
             \/ IgnoreBlock(n, b) \/ RejectBlock(n, b) \/ VerifyFails(n, b) \/ FetchBlocks(n, b)
             \/ FetchBlocksFails(n, b)
      PROVE  UNCHANGED <<seen, popped, lc, st, chain>>
    BY <1>2 DEF IgnoreBlock, RejectBlock, VerifyFails, FetchBlocks, FetchBlocksFails
<1>3. ASSUME NEW n \in Nodes,
             \/ Wake(n) \/ ProcessQueue(n) \/ NoProposal(n) \/ Broadcast(n) \/ SendEffects(n)
             \/ LoseEffects(n)
      PROVE  UNCHANGED <<seen, popped, lc, st, chain>>
    BY <1>3 DEF Wake, ProcessQueue, NoProposal, Broadcast, SendEffects, LoseEffects
<1> QED
    BY <1>1, <1>2, <1>3 DEF Next, Environment, Validateer, Proposes, Imports

\* A state gets a new last block from ImportBlock only.
LEMMA ChainSteps ==
    ASSUME Typed, [Next]_vars, NEW n \in Nodes, chain'[n] # chain[n]
    PROVE  \E b \in batch[n] : ImportBlock(n, b)
<1>1. chain \in [Nodes -> Seq(Data)]
    BY DEF Typed, TypeOK
<1>2. ASSUME NEW m \in Nodes, SyncParentchain(m) \/ Restart(m) PROVE chain' = chain
    BY <1>2 DEF SyncParentchain, Restart
<1>3. ASSUME NEW m \in Nodes, NEW b \in batch[m], RefuseState(m, b) \/ ImportBlockFails(m, b)
      PROVE  chain' = chain
    BY <1>3 DEF RefuseState, ImportBlockFails
<1>4. ASSUME NEW m \in Nodes, Proposes(m) PROVE chain' = chain
    BY <1>1, <1>4 DEF Proposes, Propose, StateAfterProposal
<1>5. ASSUME NEW m \in Nodes, NEW b \in batch[m], ImportBlock(m, b) PROVE m = n
    BY <1>1, <1>5 DEF ImportBlock
<1> QED
    BY <1>2, <1>3, <1>4, <1>5, StateSteps DEF Imports

-----------------------------------------------------------------------------
\* A state moves only from a block to one of its children: import, sync and
\* restart neither skip, repeat nor revert a block.
THEOREM AppendOnlyHolds == Spec => AppendOnly
<1>1. ASSUME Typed, [Next]_vars, NEW n \in Nodes, chain'[n] # chain[n]
      PROVE  chain'[n] # Genesis /\ Parent(chain'[n]) = chain[n]
    <2>1. PICK b \in batch[n] : ImportBlock(n, b)
        BY <1>1, ChainSteps
    <2>2. Current(n, b) \in broadcast /\ Current(n, b) # <<>> /\ Verified(n, Current(n, b))
        BY <1>1, <2>1, CurrentFacts DEF ImportBlock
    <2>3. Parent(Current(n, b)) = chain[n]
        BY <1>1, <2>2, VerifiedFacts
    <2>4. chain'[n] = Current(n, b)
        BY <1>1, <2>1 DEF ImportBlock, Typed, TypeOK
    <2> QED
        BY <2>2, <2>3, <2>4 DEF Genesis
<1>2. Typed /\ [Next]_vars =>
          [\A n \in Nodes : chain'[n] # chain[n] =>
              chain'[n] # Genesis /\ Parent(chain'[n]) = chain[n]]_vars
    BY <1>1
<1> QED
    BY <1>2, TypedHolds, PTL DEF Spec, AppendOnly

-----------------------------------------------------------------------------
(* ExecutedOnce.  What a state has executed is what some broadcast block   *)
(* lists, so the calls of every block that is, or will be, broadcast must  *)
(* be disjoint from those of its ancestors.                                *)

Disjoint(b) == \A i, j \in 1 .. Len(b) : i # j => b[i].calls \cap b[j].calls = {}

Once ==
    /\ \A b \in broadcast : Disjoint(b)
    /\ \A n \in Nodes : phase[n] = "broadcast" => Disjoint(draft[n])

\* The last block of a state is the empty one or was broadcast.
LEMMA ChainKnown ==
    ASSUME Typed, NEW n \in Nodes, chain[n] # <<>>
    PROVE  chain[n] \in broadcast
<1>1. chain[n] \in Seq(Data) /\ Len(chain[n]) \in 1 .. Len(chain[n])
    BY EmptySeq DEF Typed, TypeOK
<1>2. Prefix(chain[n], Len(chain[n])) = chain[n]
    BY <1>1, PrefixFacts
<1> QED
    BY <1>1, <1>2 DEF Typed, Known, CommittedWasBroadcast

\* No state lists a call twice.
LEMMA OnceInStates == Typed /\ Once => ExecutedOnce
<1> SUFFICES ASSUME Typed, Once, NEW n \in Nodes PROVE Disjoint(chain[n])
    BY DEF ExecutedOnce, Disjoint
<1>1. CASE chain[n] = <<>>
    BY <1>1, EmptySeq DEF Disjoint
<1>2. CASE chain[n] # <<>>
    BY <1>2, ChainKnown DEF Once
<1> QED
    BY <1>1, <1>2

\* A proposal executes calls that none of its ancestors has.
LEMMA ProposalDisjoint ==
    ASSUME NEW b \in Seq(Data), NEW d \in Data, Disjoint(b), d.calls \cap Executed(b) = {}
    PROVE  Disjoint(Append(b, d))
<1> DEFINE c == Append(b, d)
<1>1. /\ Len(b) \in Nat /\ Len(c) = Len(b) + 1 /\ c[Len(b) + 1] = d
      /\ \A i \in 1 .. Len(b) : c[i] = b[i]
    BY AppendFacts, LenProperties
<1>2. \A i \in 1 .. Len(b) : b[i].calls \cap d.calls = {}
    BY DEF Executed
<1> HIDE DEF c
<1>3. ASSUME NEW i \in 1 .. Len(c), NEW j \in 1 .. Len(c), i # j
      PROVE  c[i].calls \cap c[j].calls = {}
    <2>1. (i \in 1 .. Len(b) \/ i = Len(b) + 1) /\ (j \in 1 .. Len(b) \/ j = Len(b) + 1)
        BY <1>1
    <2>2. CASE i \in 1 .. Len(b) /\ j \in 1 .. Len(b)
        BY <1>1, <1>3, <2>2 DEF Disjoint
    <2>3. CASE i \in 1 .. Len(b) /\ j = Len(b) + 1
        BY <1>1, <1>2, <2>3
    <2>4. CASE i = Len(b) + 1 /\ j \in 1 .. Len(b)
        BY <1>1, <1>2, <2>4
    <2> QED
        BY <1>3, <2>1, <2>2, <2>3, <2>4
<1> QED
    BY <1>3 DEF Disjoint, c

\* The block a proposal leaves as a draft.
LEMMA ProposalFacts ==
    ASSUME Typed, Typed', NEW n \in Nodes, NEW calls \in SUBSET ValidCalls(n),
           NEW invalid \in SUBSET (pool[n] \ ValidCalls(n)), Propose(n, calls, invalid),
           phase'[n] = "broadcast"
    PROVE  \E d \in Data :
              /\ draft'[n] = Append(chain[n], d)
              /\ d.calls = calls /\ d.author = n /\ d.slot = slot
              /\ d.layer_one_head = LatestHeader(n) /\ d.base = st'[n]
<1> DEFINE d == [slot |-> slot, author |-> n, layer_one_head |-> LatestHeader(n),
                 base |-> st'[n], calls |-> calls]
<1>1. calls \in SUBSET Calls /\ st'[n] \in Heights /\ slot \in Slots /\ LatestHeader(n) \in Heights
    BY DEF ValidCalls, LatestHeader, Typed, TypeOK
<1>2. d \in Data
    BY <1>1 DEF Data
<1>3. draft'[n] = Append(chain[n], d)
    BY DEF Propose, Typed, TypeOK
<1> QED
    BY <1>2, <1>3

\* No step lets a call into a chain, a sent block or a proposal twice: a
\* proposal is made of calls the STF accepts on the state it extends.
THEOREM OnceStep == Typed /\ Typed' /\ Once /\ [Next]_vars => Once'
<1> SUFFICES ASSUME Typed, Typed', Once, [Next]_vars PROVE Once'
    OBVIOUS
<1>1. phase \in [Nodes -> {"idle", "woken", "import", "broadcast", "effects"}]
      /\ draft \in [Nodes -> Seq(Data)]
    BY DEF Typed, TypeOK
<1>2. CASE UNCHANGED <<slot, woken, phase, timestamp, last_slot, draft, broadcast>> \/ Tick
    BY <1>2 DEF Tick, Once, Disjoint
<1>3. ASSUME NEW n \in Nodes,
             \/ Restart(n) \/ Wake(n) \/ ProcessQueue(n) \/ NoProposal(n) \/ SendEffects(n)
             \/ LoseEffects(n)
      PROVE  Once'
    <2>1. broadcast' = broadcast
        BY <1>3 DEF Restart, Wake, ProcessQueue, NoProposal, SendEffects, LoseEffects
    <2>2. ASSUME NEW m \in Nodes, phase'[m] = "broadcast"
          PROVE  phase[m] = "broadcast" /\ draft'[m] = draft[m]
        BY <1>1, <1>3, <2>2 DEF Restart, Wake, ProcessQueue, NoProposal, SendEffects, LoseEffects
    <2> QED
        BY <2>1, <2>2 DEF Once, Disjoint
<1>4. ASSUME NEW n \in Nodes, Broadcast(n) PROVE Once'
    <2>1. /\ broadcast' = broadcast \cup {draft[n]} /\ draft' = draft
          /\ phase[n] = "broadcast" /\ phase' = [phase EXCEPT ![n] = "effects"]
        BY <1>4 DEF Broadcast
    <2> QED
        BY <1>1, <2>1 DEF Once, Disjoint
<1>5. ASSUME NEW n \in Nodes, Proposes(n) PROVE Once'
    <2>1. PICK calls \in SUBSET ValidCalls(n) : \E invalid \in SUBSET (pool[n] \ ValidCalls(n)) :
              Propose(n, calls, invalid)
        BY <1>5 DEF Proposes
    <2>2. PICK invalid \in SUBSET (pool[n] \ ValidCalls(n)) : Propose(n, calls, invalid)
        BY <2>1
    <2>3. broadcast' = broadcast
        BY <2>2 DEF Propose
    <2>4. ASSUME NEW m \in Nodes, m # n, phase'[m] = "broadcast"
          PROVE  phase[m] = "broadcast" /\ draft'[m] = draft[m]
        BY <1>1, <2>2, <2>4 DEF Propose
    <2>5. ASSUME phase'[n] = "broadcast" PROVE Disjoint(draft'[n])
        <3>1. \E d \in Data :
                /\ draft'[n] = Append(chain[n], d)
                /\ d.calls = calls /\ d.author = n /\ d.slot = slot
                /\ d.layer_one_head = LatestHeader(n) /\ d.base = st'[n]
            BY <2>2, <2>5, ProposalFacts, Zenon
        <3> PICK d \in Data : draft'[n] = Append(chain[n], d) /\ d.calls = calls
            BY <3>1
        <3>2. d.calls \cap Executed(chain[n]) = {}
            BY DEF ValidCalls
        <3>3. chain[n] \in Seq(Data) /\ Disjoint(chain[n])
            <4>1. ExecutedOnce /\ TypeOK
                BY OnceInStates DEF Typed
            <4> QED
                BY <4>1 DEF ExecutedOnce, Disjoint, TypeOK
        <3>4. Disjoint(Append(chain[n], d))
            BY <3>2, <3>3, ProposalDisjoint
        <3> QED
            BY <3>4, Zenon
    <2> QED
        BY <2>3, <2>4, <2>5 DEF Once, Disjoint
<1> QED
    BY <1>2, <1>3, <1>4, <1>5, LoopSteps

\* No call takes effect twice in a state, whichever pools it entered how often.
THEOREM ExecutedOnceHolds == Spec => []ExecutedOnce
<1>1. Init => Once
    BY DEF Init, Once
<1> QED
    BY <1>1, OnceStep, OnceInStates, TypedHolds, PTL DEF Spec

-----------------------------------------------------------------------------
(* OneBlockPerSlot.  Once a block of a slot was broadcast, its author will *)
(* not propose in the slot again: LAST_SLOT remembers the slot, or, after  *)
(* a restart, the loop wakes up in a later slot only.                      *)

Spent(n, s) ==
    \/ s <= last_slot[n]
    \/ s < woken[n]
    \/ phase[n] \notin {"woken", "import"} /\ s <= woken[n]

Timing ==
    \A n \in Nodes :
        /\ woken[n] <= slot /\ last_slot[n] <= slot
        /\ phase[n] = "import" => woken[n] <= timestamp[n] /\ timestamp[n] <= slot

BroadcastTiming ==
    \A b \in broadcast : Top(b).slot <= slot /\ Spent(Top(b).author, Top(b).slot)

DraftTiming ==
    \A n \in Nodes : phase[n] = "broadcast" =>
        /\ Top(draft[n]).author = n /\ Top(draft[n]).slot <= last_slot[n]
        /\ \A b \in broadcast : Top(b).author = n => Top(b).slot # Top(draft[n]).slot

SlotInv == Timing /\ BroadcastTiming /\ DraftTiming /\ OneBlockPerSlot

\* The integers the argument is about.
LEMMA SlotTypes ==
    ASSUME Typed
    PROVE  /\ slot \in Nat
           /\ \A n \in Nodes : woken[n] \in Nat /\ timestamp[n] \in Nat /\ last_slot[n] \in Nat
           /\ \A b \in broadcast : Top(b).slot \in Nat /\ Top(b).author \in Nodes
           /\ \A n \in Nodes : draft[n] # Genesis => Top(draft[n]).slot \in Nat
<1>1. slot \in Nat
    BY ConsensusAssumption DEF Typed, TypeOK, Slots
<1>2. \A n \in Nodes : woken[n] \in Nat /\ timestamp[n] \in Nat /\ last_slot[n] \in Nat
    BY ConsensusAssumption DEF Typed, TypeOK
<1>3. \A d \in Data : d.slot \in Nat /\ d.author \in Nodes
    BY ConsensusAssumption DEF Data, Slots
<1>4. ASSUME NEW b \in Seq(Data), b # <<>> PROVE Top(b).slot \in Nat /\ Top(b).author \in Nodes
    BY <1>3, <1>4, TopFacts
<1>5. ASSUME NEW b \in broadcast PROVE b \in Seq(Data) /\ b # <<>>
    BY DEF Typed, TypeOK, Known, Genesis
<1>6. \A n \in Nodes : draft[n] \in Seq(Data)
    BY DEF Typed, TypeOK
<1> QED
    BY <1>1, <1>2, <1>4, <1>5, <1>6 DEF Genesis

\* Every step keeps the bounds on the slots of LAST_SLOT, of the SlotStream,
\* of proposals and of sent blocks that make yield_next_slot safe.
THEOREM SlotStep == Typed /\ Typed' /\ SlotInv /\ [Next]_vars => SlotInv'
<1> SUFFICES ASSUME Typed, Typed', SlotInv, [Next]_vars PROVE SlotInv'
    OBVIOUS
<1>1. /\ slot \in Nat
      /\ \A n \in Nodes : woken[n] \in Nat /\ timestamp[n] \in Nat /\ last_slot[n] \in Nat
      /\ \A b \in broadcast : Top(b).slot \in Nat /\ Top(b).author \in Nodes
      /\ \A n \in Nodes : draft[n] # Genesis => Top(draft[n]).slot \in Nat
    BY SlotTypes
<1>2. /\ phase \in [Nodes -> {"idle", "woken", "import", "broadcast", "effects"}]
      /\ woken \in [Nodes -> 0 .. MaxSlot] /\ timestamp \in [Nodes -> 0 .. MaxSlot]
      /\ last_slot \in [Nodes -> 0 .. MaxSlot] /\ draft \in [Nodes -> Seq(Data)]
    BY DEF Typed, TypeOK
<1>3. CASE UNCHANGED <<slot, woken, phase, timestamp, last_slot, draft, broadcast>>
    BY <1>3 DEF SlotInv, Timing, BroadcastTiming, DraftTiming, OneBlockPerSlot, Spent, Top
<1>4. CASE Tick
    <2>1. slot' = slot + 1 /\ UNCHANGED <<woken, phase, timestamp, last_slot, draft, broadcast>>
        BY <1>4 DEF Tick
    <2>2. Timing' /\ BroadcastTiming'
        BY <1>1, <2>1 DEF SlotInv, Timing, BroadcastTiming, Spent, Top
    <2> QED
        BY <2>1, <2>2 DEF SlotInv, DraftTiming, OneBlockPerSlot, Top
\* Steps that broadcast nothing and leave no new draft: the clocks may only
\* advance, and no slot becomes unspent.
<1>5. ASSUME UNCHANGED <<slot, broadcast>>, Timing',
             \A m \in Nodes : \A s \in Nat : s <= slot /\ Spent(m, s) => Spent(m, s)',
             \A m \in Nodes : phase'[m] = "broadcast" =>
                phase[m] = "broadcast" /\ draft'[m] = draft[m] /\ last_slot'[m] = last_slot[m]
      PROVE  SlotInv'
    <2>1. BroadcastTiming'
        BY <1>1, <1>5 DEF SlotInv, BroadcastTiming, Top
    <2>2. DraftTiming'
        BY <1>5 DEF SlotInv, DraftTiming, Top
    <2> QED
        BY <1>5, <2>1, <2>2 DEF SlotInv, OneBlockPerSlot, Top
<1>6. ASSUME NEW n \in Nodes, Wake(n) PROVE SlotInv'
    <2>1. /\ phase[n] = "idle" /\ woken[n] < slot
          /\ woken' = [woken EXCEPT ![n] = slot] /\ phase' = [phase EXCEPT ![n] = "woken"]
          /\ UNCHANGED <<slot, broadcast, timestamp, last_slot, draft>>
        BY <1>6 DEF Wake
    <2>2. Timing'
        BY <1>1, <1>2, <2>1 DEF SlotInv, Timing
    <2>3. ASSUME NEW m \in Nodes, NEW s \in Nat, Spent(m, s) PROVE Spent(m, s)'
        BY <1>1, <1>2, <2>1, <2>3 DEF Spent
    <2> QED
        BY <1>2, <1>5, <2>1, <2>2, <2>3
<1>7. ASSUME NEW n \in Nodes, ProcessQueue(n) PROVE SlotInv'
    <2>1. /\ phase[n] = "woken" /\ phase' = [phase EXCEPT ![n] = "import"]
          /\ timestamp' = [timestamp EXCEPT ![n] = slot]
          /\ UNCHANGED <<slot, broadcast, woken, last_slot, draft>>
        BY <1>7 DEF ProcessQueue
    <2>2. Timing'
        BY <1>1, <1>2, <2>1 DEF SlotInv, Timing
    <2>3. ASSUME NEW m \in Nodes, NEW s \in Nat, Spent(m, s) PROVE Spent(m, s)'
        BY <1>1, <1>2, <2>1, <2>3 DEF Spent
    <2> QED
        BY <1>2, <1>5, <2>1, <2>2, <2>3
<1>8. ASSUME NEW n \in Nodes, NoProposal(n) PROVE SlotInv'
    <2>1. /\ phase[n] = "import" /\ phase' = [phase EXCEPT ![n] = "idle"]
          /\ last_slot' = [last_slot EXCEPT ![n] =
                               IF timestamp[n] > last_slot[n] THEN timestamp[n] ELSE @]
          /\ timestamp' = [timestamp EXCEPT ![n] = 0]
          /\ UNCHANGED <<slot, broadcast, woken, draft>>
        BY <1>8 DEF NoProposal, QueueDone, NewSlot, DropLocals
    <2>2. Timing'
        BY <1>1, <1>2, <2>1 DEF SlotInv, Timing
    <2>3. ASSUME NEW m \in Nodes, NEW s \in Nat, Spent(m, s) PROVE Spent(m, s)'
        BY <1>1, <1>2, <2>1, <2>3 DEF Spent
    <2> QED
        BY <1>2, <1>5, <2>1, <2>2, <2>3
<1>9. ASSUME NEW n \in Nodes, SendEffects(n) \/ LoseEffects(n) PROVE SlotInv'
    <2>1. /\ phase[n] = "effects" /\ phase' = [phase EXCEPT ![n] = "idle"]
          /\ draft' = [draft EXCEPT ![n] = Genesis]
          /\ UNCHANGED <<slot, broadcast, woken, last_slot, timestamp>>
        BY <1>9 DEF SendEffects, LoseEffects
    <2>2. Timing'
        BY <1>1, <1>2, <2>1 DEF SlotInv, Timing
    <2>3. ASSUME NEW m \in Nodes, NEW s \in Nat, Spent(m, s) PROVE Spent(m, s)'
        BY <1>1, <1>2, <2>1, <2>3 DEF Spent
    <2> QED
        BY <1>2, <1>5, <2>1, <2>2, <2>3
<1>10. ASSUME NEW n \in Nodes, Restart(n) PROVE SlotInv'
    <2>1. /\ phase' = [phase EXCEPT ![n] = "idle"]
          /\ draft' = [draft EXCEPT ![n] = Genesis]
          /\ woken' = [woken EXCEPT ![n] = slot]
          /\ last_slot' = [last_slot EXCEPT ![n] = 0]
          /\ timestamp' = [timestamp EXCEPT ![n] = 0]
          /\ UNCHANGED <<slot, broadcast>>
        BY <1>10 DEF Restart, DropLocals
    <2>2. Timing'
        BY <1>1, <1>2, <2>1 DEF SlotInv, Timing
    <2>3. ASSUME NEW m \in Nodes, NEW s \in Nat, s <= slot, Spent(m, s) PROVE Spent(m, s)'
        BY <1>1, <1>2, <2>1, <2>3 DEF Spent
    <2> QED
        BY <1>2, <1>5, <2>1, <2>2, <2>3
<1>11. ASSUME NEW n \in Nodes, Broadcast(n) PROVE SlotInv'
    <2>1. /\ phase[n] = "broadcast" /\ phase' = [phase EXCEPT ![n] = "effects"]
          /\ broadcast' = broadcast \cup {draft[n]}
          /\ UNCHANGED <<slot, woken, last_slot, timestamp, draft>>
        BY <1>11 DEF Broadcast
    <2>2. Timing'
        BY <1>1, <1>2, <2>1 DEF SlotInv, Timing
    <2>3. /\ Top(draft[n]).author = n /\ Top(draft[n]).slot <= last_slot[n]
          /\ Top(draft[n]).slot \in Nat
          /\ \A b \in broadcast : Top(b).author = n => Top(b).slot # Top(draft[n]).slot
        BY <1>1, <2>1 DEF SlotInv, DraftTiming, Typed, Known, DraftsProper
    <2>4. ASSUME NEW m \in Nodes, NEW s \in Nat, Spent(m, s) PROVE Spent(m, s)'
        BY <1>1, <1>2, <2>1, <2>4 DEF Spent
    <2>5. Top(draft[n]).slot <= slot /\ Spent(n, Top(draft[n]).slot)'
        BY <1>1, <2>1, <2>3 DEF SlotInv, Timing, Spent
    <2>6. BroadcastTiming'
        BY <1>1, <2>1, <2>3, <2>4, <2>5 DEF SlotInv, BroadcastTiming, Top
    <2>7. DraftTiming'
        BY <1>2, <2>1, <2>3 DEF SlotInv, DraftTiming, Top
    <2>8. OneBlockPerSlot'
        BY <2>1, <2>3 DEF SlotInv, OneBlockPerSlot, Top
    <2> QED
        BY <2>2, <2>6, <2>7, <2>8 DEF SlotInv
<1>12. ASSUME NEW n \in Nodes, Proposes(n) PROVE SlotInv'
    <2>1. PICK calls \in SUBSET ValidCalls(n) : \E invalid \in SUBSET (pool[n] \ ValidCalls(n)) :
              Propose(n, calls, invalid)
        BY <1>12 DEF Proposes
    <2>2. PICK invalid \in SUBSET (pool[n] \ ValidCalls(n)) : Propose(n, calls, invalid)
        BY <2>1
    <2>3. /\ phase[n] = "import" /\ timestamp[n] > last_slot[n]
          /\ last_slot' = [last_slot EXCEPT ![n] = timestamp[n]]
          /\ timestamp' = [timestamp EXCEPT ![n] = 0]
          /\ \A m \in Nodes : m # n => phase'[m] = phase[m] /\ draft'[m] = draft[m]
          /\ phase'[n] \in {"broadcast", "idle"}
          /\ phase'[n] = "broadcast" => slot = timestamp[n]
          /\ UNCHANGED <<slot, woken, broadcast>>
        BY <1>2, <2>2 DEF Propose, QueueDone, NewSlot, DropLocals, timestamp_within_slot
    <2>4. Timing'
        BY <1>1, <1>2, <2>3 DEF SlotInv, Timing
    <2>5. ASSUME NEW m \in Nodes, NEW s \in Nat, Spent(m, s) PROVE Spent(m, s)'
        BY <1>1, <1>2, <2>3, <2>5 DEF Spent
    <2>6. BroadcastTiming'
        BY <1>1, <2>3, <2>5 DEF SlotInv, BroadcastTiming, Top
    <2>7. ASSUME phase'[n] = "broadcast"
          PROVE  /\ Top(draft'[n]).author = n /\ Top(draft'[n]).slot = slot
        <3>1. \E d \in Data :
                /\ draft'[n] = Append(chain[n], d)
                /\ d.calls = calls /\ d.author = n /\ d.slot = slot
                /\ d.layer_one_head = LatestHeader(n) /\ d.base = st'[n]
            BY <2>2, <2>7, ProposalFacts, Zenon
        <3> PICK d \in Data : draft'[n] = Append(chain[n], d) /\ d.author = n /\ d.slot = slot
            BY <3>1
        <3>2. chain[n] \in Seq(Data)
            BY DEF Typed, TypeOK
        <3>3. Top(Append(chain[n], d)) = d
            BY <3>2, ChildFacts
        <3> QED
            BY <3>3
    <2>8. ASSUME phase'[n] = "broadcast", NEW b \in broadcast, Top(b).author = n
          PROVE  Top(b).slot # slot
        <3>1. Spent(n, Top(b).slot)
            BY <2>8 DEF SlotInv, BroadcastTiming
        <3> QED
            BY <1>1, <2>3, <2>8, <3>1 DEF SlotInv, Timing, Spent
    <2>9. DraftTiming'
        <3>1. ASSUME NEW m \in Nodes, phase'[m] = "broadcast", m # n
              PROVE  /\ Top(draft'[m]).author = m /\ Top(draft'[m]).slot <= last_slot'[m]
                     /\ \A b \in broadcast : Top(b).author = m => Top(b).slot # Top(draft'[m]).slot
            BY <1>2, <2>3, <3>1 DEF SlotInv, DraftTiming
        <3>2. ASSUME phase'[n] = "broadcast"
              PROVE  /\ Top(draft'[n]).author = n /\ Top(draft'[n]).slot <= last_slot'[n]
                     /\ \A b \in broadcast : Top(b).author = n => Top(b).slot # Top(draft'[n]).slot
            BY <1>1, <1>2, <2>3, <2>7, <2>8, <3>2
        <3> QED
            BY <2>3, <3>1, <3>2 DEF DraftTiming, Top
    <2> QED
        BY <2>3, <2>4, <2>6, <2>9 DEF SlotInv, OneBlockPerSlot, Top
<1> QED
    BY <1>3, <1>4, <1>6, <1>7, <1>8, <1>9, <1>10, <1>11, <1>12, LoopSteps

\* No author signs two blocks in a slot, across delays and restarts.
THEOREM OneBlockPerSlotHolds == Spec => []OneBlockPerSlot
<1>1. Init => SlotInv
    BY DEF Init, SlotInv, Timing, BroadcastTiming, DraftTiming, OneBlockPerSlot
<1>2. SlotInv => OneBlockPerSlot
    BY DEF SlotInv
<1> QED
    BY <1>1, <1>2, SlotStep, TypedHolds, PTL DEF Spec

-----------------------------------------------------------------------------
(* ParentchainInOrder is inductive as it stands, given the types.          *)

InOrder(n) == st[n] <= lc[n] /\ lc[n] <= popped[n] /\ popped[n] <= seen[n]

\* The headers are natural numbers.
LEMMA HeaderTypes ==
    ASSUME Typed
    PROVE  /\ \A n \in Nodes : /\ seen[n] \in Nat /\ popped[n] \in Nat /\ lc[n] \in Nat
                               /\ st[n] \in Nat /\ hdr[n] \in Nat /\ sync_hdr[n] \in Nat
           /\ Heights \subseteq Nat
           /\ \A d \in Data : d.base \in Nat /\ d.layer_one_head \in Nat
           /\ failures \in Nat
<1>1. Heights \subseteq Nat
    BY ConsensusAssumption DEF Heights
<1>2. \A d \in Data : d.base \in Nat /\ d.layer_one_head \in Nat
    BY <1>1 DEF Data
<1>3. failures \in Nat
    BY ConsensusAssumption DEF Typed, TypeOK
<1> QED
    BY <1>1, <1>2, <1>3 DEF Typed, TypeOK

\* The headers of a node are parentchain heights after a step as well.
LEMMA NextStateTypes ==
    ASSUME Typed'
    PROVE  \A n \in Nodes : st'[n] \in Nat
<1>1. st' \in [Nodes -> Heights]
    BY DEF Typed, TypeOK
<1>2. Heights \subseteq Nat
    BY ConsensusAssumption DEF Heights
<1> QED
    BY <1>1, <1>2

\* An import, failing or not, moves the state forward and keeps the order.
LEMMA ImportOrder ==
    ASSUME Typed, NEW n \in Nodes, NEW h \in Heights, InOrder(n),
           \/ ImportUntil(n, h)
           \/ \E f \in 1 .. MaxHeight + 1, submitted \in BOOLEAN :
                 ImportUntilFails(n, h, f, submitted)
    PROVE  /\ st[n] <= st'[n] /\ st'[n] <= lc'[n] /\ lc'[n] <= popped'[n] /\ popped'[n] <= seen'[n]
           /\ \A m \in Nodes : m # n => /\ st'[m] = st[m] /\ lc'[m] = lc[m]
                                        /\ popped'[m] = popped[m] /\ seen'[m] = seen[m]
<1>1. /\ seen[n] \in Nat /\ popped[n] \in Nat /\ lc[n] \in Nat /\ st[n] \in Nat /\ h \in Nat
      /\ st \in [Nodes -> Heights] /\ lc \in [Nodes -> Heights] /\ popped \in [Nodes -> Heights]
    BY HeaderTypes DEF Typed, TypeOK
<1>2. CASE ImportUntil(n, h)
    BY <1>1, <1>2 DEF ImportUntil, ImportedTo, UpdatedTo, InQueue, InOrder
<1>3. ASSUME NEW f \in 1 .. MaxHeight + 1, NEW submitted \in BOOLEAN,
             ImportUntilFails(n, h, f, submitted)
      PROVE  /\ st[n] <= st'[n] /\ st'[n] <= lc'[n] /\ lc'[n] <= popped'[n] /\ popped'[n] <= seen'[n]
             /\ \A m \in Nodes : m # n => /\ st'[m] = st[m] /\ lc'[m] = lc[m]
                                          /\ popped'[m] = popped[m] /\ seen'[m] = seen[m]
    <2>1. /\ popped' = [popped EXCEPT ![n] = h]
          /\ st' = [st EXCEPT ![n] = IF f - 1 > lc[n] THEN f - 1 ELSE @]
          /\ seen' = seen
        BY <1>3 DEF ImportUntilFails
    <2>2. h > popped[n] /\ h <= seen[n]
        BY <1>1, <1>3 DEF ImportUntilFails, InQueue
    <2>3. f \in lc[n] + 1 .. h + 1
        BY <1>1, <1>3, <2>2 DEF ImportUntilFails, InOrder
    <2>4. CASE submitted
        <3>1. f <= h /\ lc' = [lc EXCEPT ![n] = f]
            BY <1>3, <2>4 DEF ImportUntilFails
        <3> QED
            BY <1>1, <2>1, <2>2, <2>3, <3>1 DEF InOrder
    <2>5. CASE ~submitted
        <3>1. lc' = [lc EXCEPT ![n] = f - 1]
            BY <1>3, <2>5 DEF ImportUntilFails
        <3> QED
            BY <1>1, <2>1, <2>2, <2>3, <3>1 DEF InOrder
    <2> QED
        BY <2>4, <2>5
<1> QED
    BY <1>2, <1>3

\* The parentchain states along a chain and up to the state itself.
BasesInOrder(n) ==
    /\ \A i, j \in 1 .. Len(chain[n]) : i < j => chain[n][i].base <= chain[n][j].base
    /\ chain[n] # Genesis => Top(chain[n]).base <= st[n]

\* A step that keeps a chain and does not move its state back.
LEMMA BasesKept ==
    ASSUME Typed, Typed', NEW n \in Nodes, BasesInOrder(n), chain'[n] = chain[n], st[n] <= st'[n]
    PROVE  BasesInOrder(n)'
<1>1. st[n] \in Nat /\ st'[n] \in Nat
    BY ConsensusAssumption DEF Typed, TypeOK, Heights
<1>2. ASSUME chain[n] # Genesis PROVE Top(chain[n]).base \in Nat
    <2>1. Top(chain[n]) \in Data
        BY <1>2, TopFacts DEF Typed, TypeOK, Genesis
    <2> QED
        BY <2>1, HeaderTypes
<1> QED
    BY <1>1, <1>2 DEF BasesInOrder, Top

\* Every step, failing imports included, keeps state, light client and import
\* queue in order.
THEOREM OrderStep == Typed /\ Typed' /\ ParentchainInOrder /\ [Next]_vars => ParentchainInOrder'
<1> SUFFICES ASSUME Typed, Typed', ParentchainInOrder, [Next]_vars PROVE ParentchainInOrder'
    OBVIOUS
<1>1. \A n \in Nodes : InOrder(n) /\ BasesInOrder(n)
    BY DEF ParentchainInOrder, InOrder, BasesInOrder
<1>2. ASSUME \A n \in Nodes : InOrder(n)' /\ BasesInOrder(n)' PROVE ParentchainInOrder'
    BY <1>2 DEF ParentchainInOrder, InOrder, BasesInOrder
<1>3. /\ \A n \in Nodes : seen[n] \in Nat /\ popped[n] \in Nat /\ lc[n] \in Nat /\ st[n] \in Nat
      /\ chain \in [Nodes -> Seq(Data)] /\ seen \in [Nodes -> Heights]
      /\ popped \in [Nodes -> Heights]
    BY HeaderTypes DEF Typed, TypeOK
<1>4. CASE UNCHANGED <<seen, popped, lc, st, chain>>
    BY <1>1, <1>2, <1>4 DEF InOrder, BasesInOrder, Top
<1>5. ASSUME NEW n \in Nodes, SyncParentchain(n) \/ Restart(n) PROVE ParentchainInOrder'
    <2>1. /\ UNCHANGED <<lc, st, chain>>
          /\ \/ seen' = [seen EXCEPT ![n] = @ + 1] /\ popped' = popped
             \/ seen' = [seen EXCEPT ![n] = lc[n]] /\ popped' = [popped EXCEPT ![n] = lc[n]]
        BY <1>5 DEF SyncParentchain, Restart
    <2>2. ASSUME NEW m \in Nodes PROVE InOrder(m)'
        <3>1. InOrder(m) /\ lc'[m] = lc[m] /\ st'[m] = st[m]
            BY <1>1, <2>1
        <3>2. \/ seen'[m] = seen[m] /\ popped'[m] = popped[m]
              \/ seen'[m] = seen[m] + 1 /\ popped'[m] = popped[m]
              \/ seen'[m] = lc[m] /\ popped'[m] = lc[m]
            BY <1>3, <2>1
        <3>3. seen[m] \in Nat /\ popped[m] \in Nat /\ lc[m] \in Nat /\ st[m] \in Nat
            BY <1>3
        <3> QED
            BY <3>1, <3>2, <3>3 DEF InOrder
    <2>3. ASSUME NEW m \in Nodes PROVE BasesInOrder(m)'
        <3>1. BasesInOrder(m) /\ chain'[m] = chain[m] /\ st[m] <= st'[m]
            BY <1>1, <1>3, <2>1
        <3> QED
            BY <3>1, BasesKept
    <2> QED
        BY <1>2, <2>2, <2>3
<1>6. ASSUME NEW n \in Nodes, NEW h \in Heights,
             \/ ImportUntil(n, h)
             \/ \E f \in 1 .. MaxHeight + 1, submitted \in BOOLEAN :
                   ImportUntilFails(n, h, f, submitted),
             BasesInOrder(n)', \A m \in Nodes : m # n => chain'[m] = chain[m]
      PROVE  ParentchainInOrder'
    <2>1. /\ st[n] <= st'[n] /\ st'[n] <= lc'[n] /\ lc'[n] <= popped'[n] /\ popped'[n] <= seen'[n]
          /\ \A m \in Nodes : m # n => /\ st'[m] = st[m] /\ lc'[m] = lc[m]
                                       /\ popped'[m] = popped[m] /\ seen'[m] = seen[m]
        BY <1>1, <1>6, ImportOrder
    <2>2. \A m \in Nodes : InOrder(m)'
        BY <1>1, <2>1 DEF InOrder
    <2>3. ASSUME NEW m \in Nodes PROVE BasesInOrder(m)'
        <3>1. CASE m = n
            BY <1>6, <3>1
        <3>2. CASE m # n
            <4>1. chain'[m] = chain[m] /\ st[m] <= st'[m]
                BY <1>3, <1>6, <2>1, <3>2
            <4> QED
                BY <1>1, <4>1, BasesKept
        <3> QED
            BY <3>1, <3>2
    <2> QED
        BY <1>2, <2>2, <2>3
<1>7. ASSUME NEW n \in Nodes, NEW b \in batch[n], RefuseState(n, b) \/ ImportBlockFails(n, b)
      PROVE  ParentchainInOrder'
    <2> DEFINE h == Top(Current(n, b)).layer_one_head
    <2>1. h \in Heights
        BY CurrentFacts
    <2>2. /\ \/ ImportUntil(n, h)
             \/ \E f \in 1 .. MaxHeight + 1, submitted \in BOOLEAN :
                   ImportUntilFails(n, h, f, submitted)
          /\ chain' = chain
        BY <1>7 DEF RefuseState, ImportBlockFails
    <2> HIDE DEF h
    <2>3. st[n] <= st'[n]
        BY <1>1, <2>1, <2>2, ImportOrder
    <2>4. BasesInOrder(n)'
        BY <1>1, <2>2, <2>3, BasesKept
    <2> QED
        BY <1>6, <2>1, <2>2, <2>4
<1>8. ASSUME NEW n \in Nodes, Proposes(n) PROVE ParentchainInOrder'
    <2> DEFINE h == LatestHeader(n)
    <2>1. h \in Heights
        BY DEF LatestHeader, Typed, TypeOK
    <2>2. /\ \/ ImportUntil(n, h)
             \/ \E f \in 1 .. MaxHeight + 1, submitted \in BOOLEAN :
                   ImportUntilFails(n, h, f, submitted)
          /\ chain' = chain
        BY <1>3, <1>8 DEF Proposes, Propose, StateAfterProposal
    <2> HIDE DEF h
    <2>3. st[n] <= st'[n]
        BY <1>1, <2>1, <2>2, ImportOrder
    <2>4. BasesInOrder(n)'
        BY <1>1, <2>2, <2>3, BasesKept
    <2> QED
        BY <1>6, <2>1, <2>2, <2>4
<1>9. ASSUME NEW n \in Nodes, NEW b \in batch[n], ImportBlock(n, b) PROVE ParentchainInOrder'
    <2> DEFINE block == Current(n, b)
               h == Top(block).layer_one_head
    <2>1. block \in broadcast /\ block \in Seq(Data) /\ block # <<>> /\ h \in Heights
        BY CurrentFacts
    <2>2. /\ Verified(n, block) /\ ImportUntil(n, h) /\ st'[n] = Top(block).base
          /\ chain' = [chain EXCEPT ![n] = block]
        BY <1>9 DEF ImportBlock, AprioriHashMatches
    <2> HIDE DEF block, h
    <2>3. st[n] <= st'[n]
        BY <1>1, <2>1, <2>2, ImportOrder
    <2>4. /\ Len(block) = Len(chain[n]) + 1
          /\ \A i \in 1 .. Len(chain[n]) : block[i] = chain[n][i]
          /\ \A i \in 1 .. Len(block) : i = Len(block) \/ i \in 1 .. Len(chain[n])
        BY <2>1, <2>2, VerifiedFacts
    <2>5. Len(chain[n]) \in Nat /\ \A i \in 1 .. Len(chain[n]) : chain[n][i].base \in Nat
        <3>1. chain[n] \in Seq(Data)
            BY <1>3
        <3>2. Len(chain[n]) \in Nat /\ \A i \in 1 .. Len(chain[n]) : chain[n][i] \in Data
            BY <3>1, LenProperties, ElementOfSeq
        <3> QED
            BY <3>2, HeaderTypes
    <2>6. ASSUME NEW i \in 1 .. Len(chain[n]) PROVE chain[n][i].base <= st[n]
        <3>1. chain[n] # Genesis
            BY EmptySeq DEF Genesis
        <3>2. Top(chain[n]).base <= st[n] /\ Top(chain[n]) = chain[n][Len(chain[n])]
            BY <1>1, <3>1 DEF BasesInOrder, Top
        <3>3. CASE i = Len(chain[n])
            BY <3>2, <3>3
        <3>4. CASE i # Len(chain[n])
            <4>1. i < Len(chain[n]) /\ Len(chain[n]) \in 1 .. Len(chain[n])
                BY <2>5, <3>4
            <4>2. chain[n][i].base <= chain[n][Len(chain[n])].base
                BY <1>1, <4>1 DEF BasesInOrder
            <4>3. /\ chain[n][i].base \in Nat /\ chain[n][Len(chain[n])].base \in Nat
                  /\ st[n] \in Nat
                BY <1>3, <2>5, <4>1
            <4> QED
                BY <3>2, <4>2, <4>3
        <3> QED
            BY <3>3, <3>4
    <2>7. chain'[n] = block
        BY <1>3, <2>2
    <2>8. ASSUME NEW i \in 1 .. Len(block), NEW j \in 1 .. Len(block), i < j
          PROVE  block[i].base <= block[j].base
        <3>1. i \in 1 .. Len(chain[n])
            BY <2>4, <2>5, <2>8
        <3>2. CASE j = Len(block)
            <4>1. block[j].base = st'[n] /\ st'[n] \in Nat
                BY <2>2, <3>2, NextStateTypes DEF Top
            <4>2. /\ block[i].base = chain[n][i].base /\ chain[n][i].base \in Nat
                  /\ chain[n][i].base <= st[n] /\ st[n] \in Nat
                BY <1>3, <2>4, <2>5, <2>6, <3>1
            <4> QED
                BY <2>3, <4>1, <4>2
        <3>3. CASE j \in 1 .. Len(chain[n])
            BY <1>1, <2>4, <2>8, <3>1, <3>3 DEF BasesInOrder
        <3> QED
            BY <2>4, <3>2, <3>3
    <2>9. Top(block).base <= st'[n]
        BY <2>2, NextStateTypes
    <2>10. BasesInOrder(n)'
        BY <2>7, <2>8, <2>9 DEF BasesInOrder, Top
    <2>11. \A m \in Nodes : m # n => chain'[m] = chain[m]
        BY <1>3, <2>2
    <2> QED
        BY <1>6, <2>1, <2>2, <2>10, <2>11
<1> QED
    BY <1>4, <1>5, <1>7, <1>8, <1>9, StateSteps DEF Imports

\* Whatever import fails, state, light client and import queue stay in order,
\* and a chain never goes back to an older parentchain state.
THEOREM ParentchainInOrderHolds == Spec => []ParentchainInOrder
<1>1. Init => ParentchainInOrder
    BY EmptySeq DEF Init, ParentchainInOrder, Genesis
<1> QED
    BY <1>1, OrderStep, TypedHolds, PTL DEF Spec

-----------------------------------------------------------------------------
(* ExecutedAfterImport.  Without failures the state is as far as the light *)
(* client and the queue, no header a loop remembers is ahead of it, and a  *)
(* proposal imports the header it refers to before it executes.            *)

CaughtUp(n) ==
    /\ st[n] = lc[n] /\ lc[n] = popped[n]
    /\ hdr[n] <= st[n] /\ sync_hdr[n] <= st[n]

AfterImport(b) == Top(b).layer_one_head <= Top(b).base

ImportInv ==
    failures = 0 =>
        /\ \A n \in Nodes : CaughtUp(n)
        /\ \A b \in broadcast : AfterImport(b)
        /\ \A n \in Nodes : phase[n] = "broadcast" => AfterImport(draft[n])

\* A failure stays counted.
LEMMA FailuresStay ==
    ASSUME Typed, [Next]_vars
    PROVE  failures' = failures \/ failures' = failures + 1
<1>1. ASSUME Environment \/ UNCHANGED vars PROVE failures' = failures
    BY <1>1 DEF Environment, Tick, Finalize, SyncParentchain, Deliver, Submit, Restart, vars
<1>2. ASSUME NEW n \in Nodes,
             \/ Wake(n) \/ ProcessQueue(n) \/ NoProposal(n) \/ Broadcast(n) \/ SendEffects(n)
             \/ LoseEffects(n)
      PROVE  failures' = failures \/ failures' = failures + 1
    BY <1>2 DEF Wake, ProcessQueue, NoProposal, Broadcast, SendEffects, LoseEffects, MayFail
<1>3. ASSUME NEW n \in Nodes, NEW b \in batch[n],
             \/ IgnoreBlock(n, b) \/ RejectBlock(n, b) \/ VerifyFails(n, b) \/ FetchBlocks(n, b)
             \/ FetchBlocksFails(n, b)
      PROVE  failures' = failures \/ failures' = failures + 1
    BY <1>3 DEF IgnoreBlock, RejectBlock, VerifyFails, FetchBlocks, FetchBlocksFails, MayFail
<1>4. ASSUME NEW n \in Nodes, Imports(n) \/ Proposes(n)
      PROVE  failures' = failures \/ failures' = failures + 1
    BY <1>4 DEF Imports, Proposes, ImportBlock, RefuseState, ImportBlockFails, Propose, ImportUntil,
                ImportUntilFails, MayFail
<1> QED
    BY <1>1, <1>2, <1>3, <1>4 DEF Next, Validateer, Imports, Proposes

\* With no failure and nothing lost before, an import goes all the way.
LEMMA ImportCatchesUp ==
    ASSUME Typed, NEW n \in Nodes, NEW h \in Heights, CaughtUp(n), failures = 0, failures' = 0,
           \/ ImportUntil(n, h)
           \/ \E f \in 1 .. MaxHeight + 1, submitted \in BOOLEAN :
                 ImportUntilFails(n, h, f, submitted)
    PROVE  /\ st'[n] = lc'[n] /\ lc'[n] = popped'[n] /\ st[n] <= st'[n]
           /\ h \in popped[n] + 1 .. seen[n] => st'[n] = h
           /\ \A m \in Nodes : m # n => /\ st'[m] = st[m] /\ lc'[m] = lc[m]
                                        /\ popped'[m] = popped[m]
<1>1. ImportUntil(n, h)
    BY DEF ImportUntilFails, MayFail, CaughtUp
<1>2. /\ seen[n] \in Nat /\ popped[n] \in Nat /\ lc[n] \in Nat /\ st[n] \in Nat /\ h \in Nat
      /\ st \in [Nodes -> Heights] /\ lc \in [Nodes -> Heights] /\ popped \in [Nodes -> Heights]
    BY HeaderTypes DEF Typed, TypeOK
<1> QED
    BY <1>1, <1>2 DEF ImportUntil, ImportedTo, UpdatedTo, InQueue, CaughtUp

\* What the loops over the blocks do to the headers they remember.
LEMMA RememberedHeaders ==
    ASSUME Typed, NEW n \in Nodes, NEW b \in batch[n], NEW header \in Nat, NEW top \in Nat,
           Succeed(n, b, header), header <= top, hdr[n] <= top, sync_hdr[n] <= top
    PROVE  /\ hdr'[n] <= top /\ sync_hdr'[n] <= top
           /\ \A m \in Nodes : m # n => hdr'[m] = hdr[m] /\ sync_hdr'[m] = sync_hdr[m]
BY DEF Succeed, Typed, TypeOK

\* CaughtUp through every step without a failure.
LEMMA CaughtUpStep ==
    ASSUME Typed, [Next]_vars, \A n \in Nodes : CaughtUp(n), failures = 0, failures' = 0,
           NEW m \in Nodes
    PROVE  CaughtUp(m)'
<1> USE DEF parentchain, importing
<1>1. /\ \A n \in Nodes : /\ seen[n] \in Nat /\ popped[n] \in Nat /\ lc[n] \in Nat
                          /\ st[n] \in Nat /\ hdr[n] \in Nat /\ sync_hdr[n] \in Nat
      /\ Heights \subseteq Nat
    BY HeaderTypes
<1>2. /\ hdr \in [Nodes -> Heights] /\ sync_hdr \in [Nodes -> Heights]
      /\ popped \in [Nodes -> Heights]
    BY DEF Typed, TypeOK
<1>3. CASE \/ Tick \/ Finalize \/ (\E n \in Nodes : SyncParentchain(n))
           \/ (\E n \in Nodes, b \in broadcast : Deliver(n, b))
           \/ (\E n \in Nodes, c \in Calls : Submit(n, c)) \/ UNCHANGED vars
    BY <1>3 DEF Tick, Finalize, SyncParentchain, Deliver, Submit, vars, CaughtUp
<1>4. ASSUME NEW n \in Nodes, Wake(n) \/ Broadcast(n) \/ SendEffects(n) \/ LoseEffects(n)
      PROVE  CaughtUp(m)'
    BY <1>4 DEF Wake, Broadcast, SendEffects, LoseEffects, CaughtUp
<1>5. ASSUME NEW n \in Nodes, ProcessQueue(n) PROVE CaughtUp(m)'
    BY <1>1, <1>2, <1>5 DEF ProcessQueue, CaughtUp
<1>6. ASSUME NEW n \in Nodes, NoProposal(n) \/ Restart(n) PROVE CaughtUp(m)'
    <2>1. /\ DropLocals(n) /\ UNCHANGED <<st, lc>>
          /\ popped' = popped \/ popped' = [popped EXCEPT ![n] = lc[n]]
        BY <1>6 DEF NoProposal, Restart
    <2>2. CaughtUp(m) /\ st[m] \in Nat
        BY <1>1
    <2>3. popped'[m] = lc[m]
        BY <1>2, <2>1, <2>2 DEF CaughtUp
    <2>4. hdr'[m] <= st[m] /\ sync_hdr'[m] <= st[m]
        BY <1>2, <2>1, <2>2 DEF DropLocals, CaughtUp
    <2> QED
        BY <2>1, <2>2, <2>3, <2>4 DEF CaughtUp
<1>7. ASSUME NEW n \in Nodes, NEW b \in batch[n],
             RejectBlock(n, b) \/ VerifyFails(n, b) \/ FetchBlocksFails(n, b)
      PROVE  CaughtUp(m)'
    <2>1. UNCHANGED <<hdr, sync_hdr, st, lc, popped>>
        BY <1>7 DEF RejectBlock, VerifyFails, FetchBlocksFails, Fail
    <2> QED
        BY <2>1 DEF CaughtUp
<1>8. ASSUME NEW n \in Nodes, NEW b \in batch[n], FetchBlocks(n, b) PROVE CaughtUp(m)'
    BY <1>2, <1>8 DEF FetchBlocks, CaughtUp
<1>9. ASSUME NEW n \in Nodes, NEW b \in batch[n], IgnoreBlock(n, b) PROVE CaughtUp(m)'
    <2>1. /\ Succeed(n, b, hdr[n]) /\ UNCHANGED <<st, lc, popped>>
        BY <1>9 DEF IgnoreBlock
    <2>2. /\ hdr'[n] <= st[n] /\ sync_hdr'[n] <= st[n]
          /\ \A k \in Nodes : k # n => hdr'[k] = hdr[k] /\ sync_hdr'[k] = sync_hdr[k]
        BY <1>1, <2>1, RememberedHeaders DEF CaughtUp
    <2> QED
        BY <2>1, <2>2 DEF CaughtUp
<1>10. ASSUME NEW n \in Nodes, NEW b \in batch[n], ImportBlock(n, b) PROVE CaughtUp(m)'
    <2> DEFINE h == Top(Current(n, b)).layer_one_head
               header == IF InQueue(n, h) THEN h ELSE CurrentHeader(n)
    <2>1. h \in Heights /\ CurrentHeader(n) \in Heights
        BY CurrentFacts
    <2>2. ImportUntil(n, h) /\ Succeed(n, b, header)
        BY <1>10 DEF ImportBlock
    <2> HIDE DEF h
    <2>3. /\ st'[n] = lc'[n] /\ lc'[n] = popped'[n] /\ st[n] <= st'[n]
          /\ h \in popped[n] + 1 .. seen[n] => st'[n] = h
          /\ \A k \in Nodes : k # n => st'[k] = st[k] /\ lc'[k] = lc[k] /\ popped'[k] = popped[k]
        BY <2>1, <2>2, ImportCatchesUp
    <2>4. st' \in [Nodes -> Heights]
        BY <2>1, <2>2, ImportTypes
    <2>5. CurrentHeader(n) <= st[n]
        BY DEF CurrentHeader, CaughtUp
    <2>6. header \in Nat /\ st'[n] \in Nat /\ header <= st'[n]
        <3>1. st[n] \in Nat /\ st'[n] \in Nat /\ h \in Nat /\ CurrentHeader(n) \in Nat
            BY <1>1, <2>1, <2>4
        <3>2. CASE InQueue(n, h)
            BY <2>3, <3>1, <3>2 DEF InQueue
        <3>3. CASE ~InQueue(n, h)
            BY <2>3, <2>5, <3>1, <3>3
        <3> QED
            BY <3>2, <3>3
    <2> HIDE DEF header
    <2>7. hdr[n] <= st'[n] /\ sync_hdr[n] <= st'[n]
        BY <1>1, <2>3, <2>6 DEF CaughtUp
    <2>8. /\ hdr'[n] <= st'[n] /\ sync_hdr'[n] <= st'[n]
          /\ \A k \in Nodes : k # n => hdr'[k] = hdr[k] /\ sync_hdr'[k] = sync_hdr[k]
        BY <2>2, <2>6, <2>7, RememberedHeaders
    <2> QED
        BY <2>3, <2>8 DEF CaughtUp
<1>11. ASSUME NEW n \in Nodes, NEW b \in batch[n], RefuseState(n, b) \/ ImportBlockFails(n, b)
       PROVE  CaughtUp(m)'
    <2> DEFINE h == Top(Current(n, b)).layer_one_head
    <2>1. h \in Heights
        BY CurrentFacts
    <2>2. /\ UNCHANGED <<hdr, sync_hdr>>
          /\ \/ ImportUntil(n, h)
             \/ \E f \in 1 .. MaxHeight + 1, submitted \in BOOLEAN :
                   ImportUntilFails(n, h, f, submitted)
        BY <1>11 DEF RefuseState, ImportBlockFails, Fail
    <2> HIDE DEF h
    <2>3. /\ st'[n] = lc'[n] /\ lc'[n] = popped'[n] /\ st[n] <= st'[n]
          /\ \A k \in Nodes : k # n => st'[k] = st[k] /\ lc'[k] = lc[k] /\ popped'[k] = popped[k]
        BY <2>1, <2>2, ImportCatchesUp
    <2>4. st'[n] \in Nat
        BY <1>1, <2>1, <2>2, ImportTypes
    <2>5. hdr[n] <= st'[n] /\ sync_hdr[n] <= st'[n]
        BY <1>1, <2>3, <2>4 DEF CaughtUp
    <2> QED
        BY <2>2, <2>3, <2>5 DEF CaughtUp
<1>12. ASSUME NEW n \in Nodes, Proposes(n) PROVE CaughtUp(m)'
    <2> DEFINE h == LatestHeader(n)
    <2>1. h \in Heights
        BY DEF LatestHeader, Typed, TypeOK
    <2>2. /\ DropLocals(n)
          /\ \/ ImportUntil(n, h)
             \/ \E f \in 1 .. MaxHeight + 1, submitted \in BOOLEAN :
                   ImportUntilFails(n, h, f, submitted)
        BY <1>12 DEF Proposes, Propose
    <2> HIDE DEF h
    <2>3. /\ st'[n] = lc'[n] /\ lc'[n] = popped'[n] /\ st[n] <= st'[n]
          /\ \A k \in Nodes : k # n => st'[k] = st[k] /\ lc'[k] = lc[k] /\ popped'[k] = popped[k]
        BY <2>1, <2>2, ImportCatchesUp
    <2>4. st'[n] \in Nat
        BY <1>1, <2>1, <2>2, ImportTypes
    <2> QED
        BY <1>2, <2>2, <2>3, <2>4 DEF DropLocals, CaughtUp
<1> QED
    BY <1>3, <1>4, <1>5, <1>6, <1>7, <1>8, <1>9, <1>10, <1>11, <1>12
       DEF Next, Environment, Validateer, Proposes

\* As long as nothing failed, every step keeps the remembered headers within
\* what the state of the node has imported.
THEOREM ImportStep == Typed /\ Typed' /\ ImportInv /\ [Next]_vars => ImportInv'
<1> SUFFICES ASSUME Typed, Typed', ImportInv, [Next]_vars, failures' = 0
             PROVE  /\ \A n \in Nodes : CaughtUp(n)'
                    /\ \A b \in broadcast' : AfterImport(b)
                    /\ \A n \in Nodes : phase'[n] = "broadcast" => AfterImport(draft'[n])
    BY DEF ImportInv, AfterImport, Top
<1>1. failures = 0
    BY FailuresStay, HeaderTypes
<1>2. /\ \A n \in Nodes : CaughtUp(n)
      /\ \A b \in broadcast : AfterImport(b)
      /\ \A n \in Nodes : phase[n] = "broadcast" => AfterImport(draft[n])
    BY <1>1 DEF ImportInv
<1>3. \A n \in Nodes : CaughtUp(n)'
    BY <1>1, <1>2, CaughtUpStep
<1>4. /\ phase \in [Nodes -> {"idle", "woken", "import", "broadcast", "effects"}]
      /\ draft \in [Nodes -> Seq(Data)]
    BY DEF Typed, TypeOK
<1>5. CASE UNCHANGED <<slot, woken, phase, timestamp, last_slot, draft, broadcast>> \/ Tick
    BY <1>2, <1>3, <1>5 DEF Tick
<1>6. ASSUME NEW n \in Nodes,
             \/ Restart(n) \/ Wake(n) \/ ProcessQueue(n) \/ NoProposal(n) \/ SendEffects(n)
             \/ LoseEffects(n)
      PROVE  /\ broadcast' = broadcast
             /\ \A m \in Nodes : phase'[m] = "broadcast" =>
                    phase[m] = "broadcast" /\ draft'[m] = draft[m]
    BY <1>4, <1>6 DEF Restart, Wake, ProcessQueue, NoProposal, SendEffects, LoseEffects
<1>7. ASSUME NEW n \in Nodes, Broadcast(n)
      PROVE  /\ broadcast' = broadcast \cup {draft[n]} /\ phase[n] = "broadcast"
             /\ \A m \in Nodes : phase'[m] = "broadcast" =>
                    phase[m] = "broadcast" /\ draft'[m] = draft[m]
    BY <1>4, <1>7 DEF Broadcast
<1>8. ASSUME NEW n \in Nodes, Proposes(n)
      PROVE  /\ broadcast' = broadcast
             /\ phase'[n] = "broadcast" => AfterImport(draft'[n])
             /\ \A m \in Nodes : m # n /\ phase'[m] = "broadcast" =>
                    phase[m] = "broadcast" /\ draft'[m] = draft[m]
    <2>1. PICK calls \in SUBSET ValidCalls(n) : \E invalid \in SUBSET (pool[n] \ ValidCalls(n)) :
              Propose(n, calls, invalid)
        BY <1>8 DEF Proposes
    <2>2. PICK invalid \in SUBSET (pool[n] \ ValidCalls(n)) : Propose(n, calls, invalid)
        BY <2>1
    <2>3. ASSUME phase'[n] = "broadcast" PROVE AfterImport(draft'[n])
        <3> DEFINE h == LatestHeader(n)
        <3>1. \E d \in Data :
                /\ draft'[n] = Append(chain[n], d)
                /\ d.calls = calls /\ d.author = n /\ d.slot = slot
                /\ d.layer_one_head = LatestHeader(n) /\ d.base = st'[n]
            BY <2>2, <2>3, ProposalFacts, Zenon
        <3> PICK d \in Data : /\ draft'[n] = Append(chain[n], d)
                              /\ d.layer_one_head = LatestHeader(n) /\ d.base = st'[n]
            BY <3>1
        <3>2. h \in Heights
            BY DEF LatestHeader, Typed, TypeOK
        <3>3. \/ ImportUntil(n, h)
              \/ \E f \in 1 .. MaxHeight + 1, submitted \in BOOLEAN :
                    ImportUntilFails(n, h, f, submitted)
            BY <2>2 DEF Propose
        <3>4. /\ st[n] <= st'[n] /\ (h \in popped[n] + 1 .. seen[n] => st'[n] = h)
            BY <1>1, <1>2, <3>2, <3>3, ImportCatchesUp
        <3>5. /\ seen[n] \in Nat /\ popped[n] \in Nat /\ st[n] \in Nat /\ hdr[n] \in Nat
              /\ st'[n] \in Nat /\ hdr[n] <= st[n]
            BY <1>2, HeaderTypes, NextStateTypes DEF CaughtUp
        <3>6. h <= st'[n]
            BY <3>4, <3>5 DEF LatestHeader
        <3>7. Top(Append(chain[n], d)) = d
            BY ChildFacts DEF Typed, TypeOK
        <3> QED
            BY <3>6, <3>7 DEF AfterImport
    <2> QED
        BY <1>4, <2>2, <2>3 DEF Propose
<1> QED
    BY <1>2, <1>3, <1>5, <1>6, <1>7, <1>8, LoopSteps

\* As long as no import failed, every block in a state was executed on a state
\* with the parentchain block it refers to.
THEOREM ExecutedAfterImportHolds == Spec => []ExecutedAfterImport
<1>1. Init => ImportInv
    BY DEF Init, ImportInv, CaughtUp
<1>2. ASSUME Typed, ImportInv, failures = 0, NEW n \in Nodes, NEW i \in 1 .. Len(chain[n])
      PROVE  chain[n][i].layer_one_head <= chain[n][i].base
    <2>1. chain[n] \in Seq(Data)
        BY <1>2 DEF Typed, TypeOK
    <2>2. Prefix(chain[n], i) \in broadcast
        BY <1>2 DEF Typed, Known, CommittedWasBroadcast
    <2>3. Top(Prefix(chain[n], i)) = chain[n][i]
        <3>1. Len(chain[n]) \in Nat /\ \A k \in 1 .. i : chain[n][k] \in Data
            BY <2>1, LenProperties, ElementOfSeq
        <3>2. /\ Len(Prefix(chain[n], i)) = i
              /\ \A k \in 1 .. i : Prefix(chain[n], i)[k] = chain[n][k]
            BY <3>1, SubSeqProperties DEF Prefix
        <3> QED
            BY <3>1, <3>2 DEF Top
    <2> QED
        BY <1>2, <2>2, <2>3 DEF ImportInv, AfterImport
<1>3. Typed /\ ImportInv => ExecutedAfterImport
    BY <1>2 DEF ExecutedAfterImport
<1> QED
    BY <1>1, <1>3, ImportStep, TypedHolds, PTL DEF Spec
=============================================================================
