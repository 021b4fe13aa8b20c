--------------------- MODULE SynchronousConsensusProofs ---------------------
(***************************************************************************)
(* Agreement of the validateers in a timely environment, for any number of *)
(* them, any order of hashes, any pools and any bounds.                    *)
(*                                                                         *)
(* What is assumed: the authorities of the shard do not change and are     *)
(* connected, and no import or request fails.  Then the author of a slot   *)
(* has every block of the earlier slots in its state when it proposes:     *)
(* within the slot before they came into its queue, and its queue, taken   *)
(* in the order of the block numbers, leaves no gap, refuses nothing and   *)
(* finds the parentchain import no further than the block to import next.  *)
(***************************************************************************)
EXTENDS SynchronousConsensus, SidechainConsensusProofs

\* The signers of the shard are the same at every parentchain block.
FixedAuthorities == \A h \in Heights : Authorities[h] = Authorities[0]

\* Every block gets to every signer within its slot.
AuthoritiesConnected ==
    \A i \in 1 .. Len(Authorities[0]) : Authorities[0][i] \in Connected

Author(s) == slot_author(s, Authorities[0])

SlotOf(b) == Top(b).slot
HeadOf(b) == Top(b).layer_one_head

-----------------------------------------------------------------------------
(* The inductive invariant.                                                *)

\* A loop that runs is that of the running slot, and ends before the slot does.
OnTime ==
    \A n \in Nodes :
        /\ phase[n] # "idle" => woken[n] = slot
        /\ phase[n] = "import" => timestamp[n] = slot
        /\ phase[n] # "import" => batch[n] = {}
        /\ seen[n] <= height

\* A block of the slot's author on a known one, executed on the header it refers to.
Proper(b) ==
    /\ Top(b).author = Author(SlotOf(b)) /\ SlotOf(b) <= slot
    /\ Top(b).base = HeadOf(b) /\ HeadOf(b) <= height
    /\ Parent(b) = Genesis \/ Parent(b) \in broadcast

\* What was sent is one chain, in the order of the slots and of the headers.
OneLine ==
    /\ \A b \in broadcast : Proper(b)
    /\ \A b, c \in broadcast : Len(b) <= Len(c) => IsPrefix(b, c)
    /\ \A b, c \in broadcast : Len(b) < Len(c) => SlotOf(b) < SlotOf(c) /\ HeadOf(b) <= HeadOf(c)

\* A proposal that is not sent yet will be the new end of the chain.
NextOnLine ==
    \A n \in Nodes : phase[n] = "broadcast" =>
        /\ Top(draft[n]).author = n /\ SlotOf(draft[n]) = slot /\ last_slot[n] = slot
        /\ Proper(draft[n])
        /\ \A b \in broadcast :
              /\ IsPrefix(b, draft[n]) /\ Len(b) < Len(draft[n])
              /\ SlotOf(b) < slot /\ HeadOf(b) <= HeadOf(draft[n])
        /\ \A m \in Connected : popped[m] <= HeadOf(draft[n])

\* A block of an earlier slot is in the state of a connected validateer, or on its way there.
Arrived ==
    \A n \in Connected :
        /\ \A b \in broadcast : SlotOf(b) < slot =>
              \/ IsPrefix(b, chain[n])
              \/ b \in batch[n]
              \/ b \in queue[n] /\ (woken[n] < slot \/ phase[n] = "woken")
        /\ \A b \in queue[n] \cup batch[n] : HeadOf(b) <= seen[n]

\* A connected validateer never has to fetch blocks, and its parentchain import is not
\* ahead of the next block.
InStep ==
    \A n \in Connected :
        /\ todo[n] = <<>>
        /\ phase[n] = "import" => hdr[n] = popped[n]
        /\ \A b \in broadcast : IsPrefix(b, chain[n]) \/ popped[n] <= HeadOf(b)

\* Before the author of the slot has had its turn there is no block of the slot, and
\* nobody knows more of the parentchain than the author.
AuthorKnowsAll ==
    last_slot[Author(slot)] < slot =>
        /\ \A n \in Connected : popped[n] <= seen[Author(slot)]
        /\ \A b \in broadcast : SlotOf(b) < slot /\ HeadOf(b) <= seen[Author(slot)]

Agreement ==
    OneLine /\ NextOnLine /\ Arrived /\ InStep /\ AuthorKnowsAll

\* The invariants of every environment that the argument uses.
Base == Typed /\ SlotInv /\ ParentchainInOrder /\ ImportInv

AgreementInv == OnTime /\ (failures = 0 => Agreement)

-----------------------------------------------------------------------------
(* Prefixes.                                                               *)

\* A prefix is shorter and agrees on the places it has.
LEMMA PrefixByPlaces ==
    ASSUME NEW S, NEW a \in Seq(S), NEW b \in Seq(S)
    PROVE  IsPrefix(a, b) <=> Len(a) <= Len(b) /\ \A i \in 1 .. Len(a) : a[i] = b[i]
<1>1. Len(a) \in Nat /\ Len(b) \in Nat /\ \A i \in 1 .. Len(b) : b[i] \in S
    BY LenProperties, ElementOfSeq
<1>2. ASSUME Len(a) <= Len(b)
      PROVE  a = SubSeq(b, 1, Len(a)) <=> \A i \in 1 .. Len(a) : a[i] = b[i]
    <2> DEFINE s == SubSeq(b, 1, Len(a))
    <2>1. \A i \in 1 .. Len(a) : b[i] \in S
        BY <1>1, <1>2
    <2>2. s \in Seq(S) /\ Len(s) = Len(a) /\ \A i \in 1 .. Len(a) : s[i] = b[i]
        BY <1>1, <2>1, SubSeqProperties
    <2>3. ASSUME \A i \in 1 .. Len(a) : a[i] = b[i] PROVE a = s
        <3> HIDE DEF s
        <3> QED
            BY <2>2, <2>3, SeqEqual
    <2> QED
        BY <2>2, <2>3
<1> QED
    BY <1>2 DEF IsPrefix

\* Blocks are ordered by prefix, and two of the same number that are ordered are the same.
LEMMA PrefixOrder ==
    ASSUME NEW S, NEW a \in Seq(S), NEW b \in Seq(S)
    PROVE  /\ IsPrefix(a, a)
           /\ IsPrefix(a, b) => Len(a) <= Len(b)
           /\ IsPrefix(a, b) /\ Len(a) = Len(b) => a = b
           /\ \A c \in Seq(S) : IsPrefix(a, b) /\ IsPrefix(b, c) => IsPrefix(a, c)
<1>1. Len(a) \in Nat /\ Len(b) \in Nat
    BY LenProperties
<1>2. IsPrefix(a, a)
    BY <1>1, PrefixByPlaces
<1>3. ASSUME IsPrefix(a, b), Len(a) = Len(b) PROVE a = b
    BY <1>3, PrefixByPlaces, SeqEqual
<1>4. ASSUME NEW c \in Seq(S), IsPrefix(a, b), IsPrefix(b, c) PROVE IsPrefix(a, c)
    <2>1. Len(a) <= Len(b) /\ \A i \in 1 .. Len(a) : a[i] = b[i]
        BY <1>4, PrefixByPlaces
    <2>2. Len(b) <= Len(c) /\ \A i \in 1 .. Len(b) : b[i] = c[i]
        BY <1>4, PrefixByPlaces
    <2>3. Len(c) \in Nat
        BY LenProperties
    <2>4. Len(a) <= Len(c) /\ \A i \in 1 .. Len(a) : a[i] = c[i]
        BY <1>1, <2>1, <2>2, <2>3
    <2> QED
        BY <2>4, PrefixByPlaces
<1> QED
    BY <1>2, <1>3, <1>4 DEF IsPrefix

\* A block has its parent as a prefix, and with it every prefix of the parent.
LEMMA PrefixOfChild ==
    ASSUME NEW S, NEW b \in Seq(S), b # <<>>
    PROVE  /\ Parent(b) \in Seq(S) /\ Len(Parent(b)) = Len(b) - 1 /\ IsPrefix(Parent(b), b)
           /\ \A a \in Seq(S) : IsPrefix(a, Parent(b)) => IsPrefix(a, b)
<1>1. /\ Parent(b) \in Seq(S) /\ Len(Parent(b)) = Len(b) - 1
      /\ \A i \in 1 .. Len(b) - 1 : Parent(b)[i] = b[i]
    BY ParentFacts
<1>2. Len(b) \in Nat
    BY LenProperties
<1>3. IsPrefix(Parent(b), b)
    <2> DEFINE p == Parent(b)
    <2>1. p \in Seq(S) /\ Len(p) <= Len(b) /\ \A i \in 1 .. Len(p) : p[i] = b[i]
        BY <1>1, <1>2
    <2> HIDE DEF p
    <2>2. IsPrefix(p, b)
        BY <2>1, PrefixByPlaces
    <2> QED
        BY <2>2 DEF p
<1> QED
    BY <1>1, <1>3, PrefixOrder

\* A proposal has the block it was made on as its parent.
LEMMA ParentOfAppend ==
    ASSUME NEW S, NEW b \in Seq(S), NEW d \in S
    PROVE  Parent(Append(b, d)) = b
<1> DEFINE c == Append(b, d)
<1>1. /\ c \in Seq(S) /\ c # <<>> /\ Len(c) = Len(b) + 1 /\ Len(b) \in Nat
      /\ \A i \in 1 .. Len(b) : c[i] = b[i]
    BY AppendFacts, LenProperties
<1> HIDE DEF c
<1>2. /\ Parent(c) \in Seq(S) /\ Len(Parent(c)) = Len(c) - 1
      /\ \A i \in 1 .. Len(c) - 1 : Parent(c)[i] = c[i]
    BY <1>1, ParentFacts
<1>3. Len(Parent(c)) = Len(b) /\ \A i \in 1 .. Len(b) : Parent(c)[i] = b[i]
    BY <1>1, <1>2
<1>4. Parent(c) = b
    BY <1>2, <1>3, SeqEqual
<1> QED
    BY <1>4 DEF c

-----------------------------------------------------------------------------
(* Types and what is known of every state.                                 *)

Sorts ==
    /\ slot \in Nat /\ height \in Nat /\ failures \in Nat
    /\ \A n \in Nodes : /\ seen[n] \in Nat /\ popped[n] \in Nat /\ lc[n] \in Nat /\ st[n] \in Nat
                        /\ hdr[n] \in Nat /\ woken[n] \in Nat /\ last_slot[n] \in Nat
                        /\ woken[n] <= slot /\ last_slot[n] <= slot /\ popped[n] <= seen[n]
    /\ Connected \subseteq Nodes

Mappings ==
    /\ seen \in [Nodes -> Heights] /\ popped \in [Nodes -> Heights]
    /\ lc \in [Nodes -> Heights] /\ st \in [Nodes -> Heights] /\ hdr \in [Nodes -> Heights]
    /\ chain \in [Nodes -> Seq(Data)] /\ todo \in [Nodes -> Seq(Seq(Data))]
    /\ queue \in [Nodes -> SUBSET broadcast] /\ batch \in [Nodes -> SUBSET broadcast]
    /\ woken \in [Nodes -> 0 .. MaxSlot] /\ timestamp \in [Nodes -> 0 .. MaxSlot]
    /\ last_slot \in [Nodes -> 0 .. MaxSlot] /\ draft \in [Nodes -> Seq(Data)]
    /\ phase \in [Nodes -> {"idle", "woken", "import", "broadcast", "effects"}]

Blocks ==
    /\ \A b \in broadcast : /\ b \in Seq(Data) /\ b # <<>> /\ Len(b) \in Nat \ {0}
                            /\ SlotOf(b) \in Nat /\ HeadOf(b) \in Nat /\ HeadOf(b) \in Heights
                            /\ Top(b).base \in Nat
    /\ \A n \in Nodes : chain[n] \in Seq(Data) /\ Len(chain[n]) \in Nat
    /\ \A n \in Nodes : chain[n] = <<>> \/ chain[n] \in broadcast

\* Numbers are natural numbers, blocks are blocks.
LEMMA BaseFacts == ASSUME Base PROVE Sorts /\ Mappings /\ Blocks
<1>1. Sorts
    <2>1. slot \in Nat /\ height \in Nat /\ failures \in Nat
        BY ConsensusAssumption DEF Base, Typed, TypeOK, Slots, Heights
    <2>2. \A n \in Nodes : /\ seen[n] \in Nat /\ popped[n] \in Nat /\ lc[n] \in Nat
                           /\ st[n] \in Nat /\ hdr[n] \in Nat
        BY HeaderTypes DEF Base
    <2>3. \A n \in Nodes : woken[n] \in Nat /\ last_slot[n] \in Nat
        BY SlotTypes DEF Base
    <2>4. \A n \in Nodes : woken[n] <= slot /\ last_slot[n] <= slot /\ popped[n] <= seen[n]
        BY DEF Base, SlotInv, Timing, ParentchainInOrder
    <2> QED
        BY <2>1, <2>2, <2>3, <2>4, ConnectedAssumption DEF Sorts
<1>2. Mappings
    BY DEF Base, Typed, TypeOK, Mappings
<1>3. ASSUME NEW b \in broadcast
      PROVE  /\ b \in Seq(Data) /\ b # <<>> /\ Len(b) \in Nat \ {0}
             /\ SlotOf(b) \in Nat /\ HeadOf(b) \in Nat /\ HeadOf(b) \in Heights
             /\ Top(b).base \in Nat
    <2>1. b \in Seq(Data) /\ b # <<>>
        BY DEF Base, Typed, TypeOK, Known, Genesis
    <2>2. Len(b) \in Nat \ {0} /\ Top(b) \in Data
        BY <2>1, TopFacts
    <2>3. \A d \in Data : d.slot \in Nat /\ d.layer_one_head \in Heights /\ d.base \in Heights
        BY ConsensusAssumption DEF Data, Slots
    <2>4. Heights \subseteq Nat
        BY HeaderTypes DEF Base
    <2> QED
        BY <2>1, <2>2, <2>3, <2>4 DEF SlotOf, HeadOf
<1>4. \A n \in Nodes : chain[n] \in Seq(Data) /\ Len(chain[n]) \in Nat
    BY <1>2, LenProperties DEF Mappings
<1>5. \A n \in Nodes : chain[n] = <<>> \/ chain[n] \in broadcast
    BY ChainKnown DEF Base
<1> QED
    BY <1>1, <1>2, <1>3, <1>4, <1>5 DEF Blocks

\* A proposal is a block.
LEMMA DraftFacts ==
    ASSUME Base, NEW n \in Nodes, phase[n] = "broadcast"
    PROVE  /\ draft[n] \in Seq(Data) /\ draft[n] # <<>> /\ Len(draft[n]) \in Nat
           /\ SlotOf(draft[n]) \in Nat /\ HeadOf(draft[n]) \in Nat
<1>1. draft[n] \in Seq(Data) /\ draft[n] # <<>>
    BY DEF Base, Typed, TypeOK, Known, DraftsProper, Genesis
<1>2. Top(draft[n]) \in Data /\ Len(draft[n]) \in Nat
    BY <1>1, TopFacts
<1>3. \A d \in Data : d.slot \in Nat /\ d.layer_one_head \in Heights
    BY ConsensusAssumption DEF Data, Slots
<1>4. Heights \subseteq Nat
    BY HeaderTypes DEF Base
<1> QED
    BY <1>1, <1>2, <1>3, <1>4 DEF SlotOf, HeadOf

\* The author of a slot is connected.
LEMMA AuthorConnected ==
    ASSUME AuthoritiesConnected, NEW s \in Nat
    PROVE  Author(s) \in Connected /\ Author(s) \in Nodes
<1> DEFINE signers == Authorities[0]
<1>1. signers \in Seq(Nodes) /\ signers # <<>>
    BY ConsensusAssumption
<1>2. Len(signers) \in Nat \ {0}
    BY <1>1, EmptySeq
<1>3. \A l \in Nat \ {0} : (s % l) + 1 \in 1 .. l
    OBVIOUS
<1>4. (s % Len(signers)) + 1 \in 1 .. Len(signers)
    BY <1>2, <1>3
<1>5. Author(s) \in Connected
    BY <1>4 DEF AuthoritiesConnected, Author, slot_author
<1> QED
    BY <1>5, ConnectedAssumption

-----------------------------------------------------------------------------
(* OnTime.                                                                 *)

\* A timely step is a step.
LEMMA TimelyIsNext == [TimelyNext]_vars => [Next]_vars
BY DEF TimelyNext, TimelyEnvironment, TimelyTick, TimelyDeliver, Next, Environment

\* What a step of process_queue, before the proposal, can touch.
TriesBlock(n, b) ==
    \/ IgnoreBlock(n, b) \/ RejectBlock(n, b) \/ VerifyFails(n, b) \/ FetchBlocks(n, b)
    \/ FetchBlocksFails(n, b) \/ ImportBlock(n, b) \/ RefuseState(n, b) \/ ImportBlockFails(n, b)

\* It touches the node's own state only, and no clock, queue or draft.
LEMMA TriesOwnState ==
    ASSUME Base, NEW n \in Nodes, NEW b \in batch[n], TriesBlock(n, b)
    PROVE  /\ phase[n] = "import"
           /\ UNCHANGED <<slot, height, seen, broadcast, queue, woken, phase, timestamp,
                          last_slot, draft>>
           /\ \A m \in Nodes : m # n => /\ popped'[m] = popped[m] /\ chain'[m] = chain[m]
                                        /\ batch'[m] = batch[m] /\ todo'[m] = todo[m]
                                        /\ hdr'[m] = hdr[m]
<1> USE DEF parentchain, importing, Busy
<1>0. Mappings
    BY BaseFacts
<1>1. CASE IgnoreBlock(n, b)
    BY <1>0, <1>1 DEF IgnoreBlock, Succeed, Mappings
<1>2. CASE RejectBlock(n, b)
    BY <1>0, <1>2 DEF RejectBlock, Fail, Mappings
<1>3. CASE VerifyFails(n, b)
    BY <1>0, <1>3 DEF VerifyFails, Fail, Mappings
<1>4. CASE FetchBlocks(n, b)
    BY <1>0, <1>4 DEF FetchBlocks, Mappings
<1>5. CASE FetchBlocksFails(n, b)
    BY <1>0, <1>5 DEF FetchBlocksFails, Fail, Mappings
<1>6. CASE ImportBlock(n, b)
    BY <1>0, <1>6 DEF ImportBlock, Succeed, ImportUntil, Mappings
<1>7. CASE RefuseState(n, b)
    BY <1>0, <1>7 DEF RefuseState, Fail, ImportUntil, Mappings
<1>8. CASE ImportBlockFails(n, b)
    BY <1>0, <1>8 DEF ImportBlockFails, Fail, ImportUntilFails, Mappings
<1> QED
    BY <1>1, <1>2, <1>3, <1>4, <1>5, <1>6, <1>7, <1>8 DEF TriesBlock

\* The loops keep to their slot: time goes on only when all of them have ended.
LEMMA OnTimeStep == Base /\ OnTime /\ [TimelyNext]_vars => OnTime'
<1> SUFFICES ASSUME Base, OnTime, [TimelyNext]_vars PROVE OnTime'
    OBVIOUS
<1> USE DEF parentchain, importing
<1>0. Sorts /\ Mappings
    BY BaseFacts
<1>1. CASE TimelyTick
    BY <1>0, <1>1 DEF TimelyTick, Settled, Tick, OnTime, Sorts
<1>2. CASE Finalize
    BY <1>0, <1>2 DEF Finalize, OnTime, Sorts
<1>3. ASSUME NEW n \in Nodes, SyncParentchain(n) PROVE OnTime'
    <2>1. /\ seen[n] < height /\ seen' = [seen EXCEPT ![n] = seen[n] + 1]
          /\ UNCHANGED <<slot, height, woken, phase, timestamp, batch>>
        BY <1>3 DEF SyncParentchain
    <2>2. \A m \in Nodes : seen'[m] <= height
        BY <1>0, <2>1 DEF OnTime, Sorts, Mappings
    <2> QED
        BY <2>1, <2>2 DEF OnTime
<1>4. ASSUME NEW n \in Nodes, NEW b \in broadcast, TimelyDeliver(n, b) PROVE OnTime'
    BY <1>4 DEF TimelyDeliver, Deliver, OnTime
<1>5. ASSUME NEW n \in Nodes, NEW c \in Calls, Submit(n, c) PROVE OnTime'
    BY <1>5 DEF Submit, OnTime
<1>6. ASSUME NEW n \in Nodes, Wake(n) PROVE OnTime'
    BY <1>0, <1>6 DEF Wake, OnTime, Mappings
<1>7. ASSUME NEW n \in Nodes, ProcessQueue(n) PROVE OnTime'
    BY <1>0, <1>7 DEF ProcessQueue, OnTime, Mappings
<1>8. ASSUME NEW n \in Nodes, NEW b \in batch[n], TriesBlock(n, b) PROVE OnTime'
    <2>1. /\ phase[n] = "import"
          /\ UNCHANGED <<slot, height, seen, woken, phase, timestamp>>
          /\ \A m \in Nodes : m # n => batch'[m] = batch[m]
        BY <1>8, TriesOwnState
    <2> QED
        BY <2>1 DEF OnTime
<1>9. ASSUME NEW n \in Nodes, NoProposal(n) PROVE OnTime'
    BY <1>0, <1>9 DEF NoProposal, QueueDone, DropLocals, OnTime, Mappings
<1>10. ASSUME NEW n \in Nodes, Proposes(n) PROVE OnTime'
    BY <1>0, <1>10 DEF Proposes, Propose, QueueDone, DropLocals, ImportUntil, ImportUntilFails,
                       OnTime, Mappings
<1>11. ASSUME NEW n \in Nodes, Broadcast(n) PROVE OnTime'
    BY <1>0, <1>11 DEF Broadcast, OnTime, Mappings
<1>12. ASSUME NEW n \in Nodes, SendEffects(n) \/ LoseEffects(n) PROVE OnTime'
    BY <1>0, <1>12 DEF SendEffects, LoseEffects, OnTime, Mappings
<1>13. CASE UNCHANGED vars
    BY <1>13 DEF vars, OnTime
<1> QED
    BY <1>1, <1>2, <1>3, <1>4, <1>5, <1>6, <1>7, <1>8, <1>9, <1>10, <1>11, <1>12, <1>13
    DEF TimelyNext, TimelyEnvironment, Validateer, TriesBlock, Proposes

-----------------------------------------------------------------------------
(* What a connected validateer does with a block of its queue.             *)

\* The blocks it pops continue its state: the parent of the lowest one is there already.
LEMMA NoGap ==
    ASSUME Base, OnTime, Agreement, NEW n \in Connected, NEW b \in batch[n], Busy(n, b)
    PROVE  ~AncestryMismatch(n, b)
<1>0. Sorts /\ Mappings /\ Blocks /\ n \in Nodes
    BY BaseFacts, ConnectedAssumption
<1>1. b \in broadcast
    BY <1>0 DEF Mappings
<1>2. /\ b \in Seq(Data) /\ b # <<>> /\ Len(b) \in Nat \ {0} /\ SlotOf(b) \in Nat
      /\ chain[n] \in Seq(Data) /\ Len(chain[n]) \in Nat
    BY <1>0, <1>1 DEF Blocks
<1>3. Parent(b) \in Seq(Data) /\ Len(Parent(b)) = Len(b) - 1
    BY <1>2, PrefixOfChild
<1>4. Parent(b) = <<>> \/ Parent(b) \in broadcast
    BY <1>1 DEF Agreement, OneLine, Proper, Genesis
<1> SUFFICES ASSUME AncestryMismatch(n, b) PROVE FALSE
    OBVIOUS
<1>5. Parent(b) # chain[n] /\ (chain[n] = <<>> \/ Len(b) > Len(chain[n]))
    BY <1>2 DEF AncestryMismatch, AlreadyImported, Number, Genesis
<1>6. Len(b) > Len(chain[n])
    BY <1>2, <1>5, EmptySeq
<1>7. CASE Len(Parent(b)) = Len(chain[n])
    <2>1. CASE Parent(b) = <<>> \/ chain[n] = <<>>
        BY <1>2, <1>3, <1>5, <1>7, <2>1, EmptySeq
    <2>2. CASE Parent(b) \in broadcast /\ chain[n] \in broadcast
        <3>1. IsPrefix(Parent(b), chain[n])
            BY <1>2, <1>7, <2>2 DEF Agreement, OneLine
        <3> QED
            BY <1>2, <1>3, <1>5, <1>7, <3>1, PrefixOrder
    <2> QED
        BY <1>0, <1>4, <2>1, <2>2 DEF Blocks
<1>8. CASE Len(Parent(b)) # Len(chain[n])
    <2>1. Len(Parent(b)) > Len(chain[n]) /\ Len(Parent(b)) \in Nat /\ Len(Parent(b)) < Len(b)
        BY <1>2, <1>3, <1>6, <1>8
    <2>2. Parent(b) \in broadcast
        BY <1>2, <1>4, <2>1, EmptySeq
    <2>3. SlotOf(Parent(b)) < SlotOf(b) /\ SlotOf(b) <= slot
        BY <1>1, <2>1, <2>2 DEF Agreement, OneLine, Proper
    <2>4. SlotOf(Parent(b)) < slot
        BY <1>0, <1>2, <2>2, <2>3 DEF Sorts, Blocks
    <2>5. phase[n] = "import" /\ woken[n] = slot
        BY <1>0 DEF Busy, OnTime
    <2>6. IsPrefix(Parent(b), chain[n]) \/ Parent(b) \in batch[n]
        BY <1>0, <2>2, <2>4, <2>5 DEF Agreement, Arrived, Sorts
    <2>7. ~IsPrefix(Parent(b), chain[n])
        BY <1>2, <2>1 DEF IsPrefix
    <2>8. Parent(b) \notin batch[n]
        BY <1>2, <2>1 DEF Busy, Before, Number
    <2> QED
        BY <2>6, <2>7, <2>8
<1> QED
    BY <1>7, <1>8

\* verify_author accepts a block that continues the state: the header it refers to is
\* queued, or it is the last one imported.
LEMMA AuthorAccepted ==
    ASSUME Base, OnTime, Agreement, FixedAuthorities, NEW n \in Connected, NEW b \in batch[n],
           phase[n] = "import", Parent(b) = chain[n]
    PROVE  /\ verify_author(n, b) /\ popped[n] <= HeadOf(b) /\ HeadOf(b) <= seen[n]
           /\ InQueue(n, HeadOf(b)) \/ (popped[n] = HeadOf(b) /\ hdr[n] = HeadOf(b))
<1>0. Sorts /\ Mappings /\ Blocks /\ n \in Nodes
    BY BaseFacts, ConnectedAssumption
<1>1. b \in broadcast
    BY <1>0 DEF Mappings
<1>2. /\ b \in Seq(Data) /\ b # <<>> /\ Len(b) \in Nat \ {0} /\ HeadOf(b) \in Nat
      /\ HeadOf(b) \in Heights
      /\ seen[n] \in Nat /\ popped[n] \in Nat /\ hdr[n] \in Nat
    BY <1>0, <1>1 DEF Blocks, Sorts
<1>3. Len(chain[n]) = Len(b) - 1
    BY <1>2, PrefixOfChild
<1>4. ~IsPrefix(b, chain[n])
    BY <1>2, <1>3 DEF IsPrefix
<1>5. popped[n] <= HeadOf(b) /\ HeadOf(b) <= seen[n] /\ hdr[n] = popped[n] /\ todo[n] = <<>>
    BY <1>1, <1>4 DEF Agreement, InStep, Arrived
<1>6. InQueue(n, HeadOf(b)) \/ (popped[n] = HeadOf(b) /\ hdr[n] = HeadOf(b))
    BY <1>2, <1>5 DEF InQueue
<1>7. PeekedHeader(n, b) = HeadOf(b)
    BY <1>5, <1>6 DEF PeekedHeader, CurrentHeader, Syncing, HeadOf
<1>8. Top(b).author = slot_author(Top(b).slot, Authorities[HeadOf(b)])
    BY <1>1, <1>2 DEF Agreement, OneLine, Proper, Author, SlotOf, FixedAuthorities
<1> QED
    BY <1>5, <1>6, <1>7, <1>8 DEF verify_author, HeadOf

\* So a connected validateer imports the block or has it already.
LEMMA TakesBlock ==
    ASSUME Base, OnTime, Agreement, FixedAuthorities, NEW n \in Connected, NEW b \in batch[n],
           failures = 0, failures' = 0, TriesBlock(n, b)
    PROVE  /\ batch'[n] = {c \in batch[n] : Len(c) # Len(b)} /\ todo'[n] = <<>>
           /\ \/ /\ chain'[n] = chain[n] /\ popped'[n] = popped[n] /\ hdr'[n] = hdr[n]
                 /\ IsPrefix(b, chain[n])
              \/ /\ chain'[n] = b /\ popped'[n] = HeadOf(b) /\ hdr'[n] = HeadOf(b)
                 /\ Parent(b) = chain[n]
<1>0. Sorts /\ Mappings /\ Blocks /\ n \in Nodes
    BY BaseFacts, ConnectedAssumption
<1>1. todo[n] = <<>> /\ ~Syncing(n) /\ Current(n, b) = b /\ CurrentHeader(n) = hdr[n]
    BY DEF Agreement, InStep, Syncing, Current, CurrentHeader
<1>2. b \in broadcast /\ Busy(n, b) /\ phase[n] = "import"
    BY <1>0 DEF Mappings, TriesBlock, IgnoreBlock, RejectBlock, VerifyFails, FetchBlocks,
                FetchBlocksFails, ImportBlock, RefuseState, ImportBlockFails, Busy
<1>3. ~AncestryMismatch(n, b)
    BY <1>2, NoGap
<1>4. CASE AlreadyImported(n, b)
    <2>1. IgnoreBlock(n, b)
        BY <1>1, <1>3, <1>4 DEF TriesBlock, RejectBlock, VerifyFails, MayFail, FetchBlocks,
              FetchBlocksFails, ImportBlock, RefuseState, ImportBlockFails, Verified
    <2>2. IsPrefix(b, chain[n])
        <3>1. chain[n] \in broadcast /\ Len(b) <= Len(chain[n])
            BY <1>0, <1>4 DEF AlreadyImported, Number, Genesis, Blocks
        <3> QED
            BY <1>2, <3>1 DEF Agreement, OneLine
    <2>3. chain' = chain /\ popped' = popped /\ Succeed(n, b, hdr[n])
        BY <2>1 DEF IgnoreBlock, parentchain
    <2>4. /\ batch'[n] = {c \in batch[n] : Len(c) # Len(b)}
          /\ todo'[n] = <<>> /\ hdr'[n] = hdr[n]
        BY <1>0, <1>1, <2>3, EmptySeq DEF Succeed, Mappings, Number
    <2> QED
        BY <2>2, <2>3, <2>4
<1>5. CASE ~AlreadyImported(n, b)
    <2>1. Parent(b) = chain[n]
        BY <1>3, <1>5 DEF AncestryMismatch
    <2>2. /\ verify_author(n, b) /\ popped[n] <= HeadOf(b) /\ HeadOf(b) <= seen[n]
          /\ InQueue(n, HeadOf(b)) \/ (popped[n] = HeadOf(b) /\ hdr[n] = HeadOf(b))
        BY <1>2, <2>1, AuthorAccepted
    <2>3. Verified(n, b)
        BY <1>3, <1>5, <2>2 DEF Verified
    <2>4. st[n] = popped[n] /\ lc[n] = popped[n]
        BY <1>0 DEF Base, ImportInv, CaughtUp
    <2>5. Top(b).base = HeadOf(b)
        BY <1>2 DEF Agreement, OneLine, Proper
    <2>6. ASSUME ImportUntil(n, HeadOf(b))
          PROVE  st'[n] = HeadOf(b) /\ popped'[n] = HeadOf(b)
        BY <1>0, <2>2, <2>4, <2>6 DEF ImportUntil, UpdatedTo, Mappings
    <2>7. ~RefuseState(n, b)
        BY <1>1, <2>5, <2>6 DEF RefuseState, AprioriHashMatches, HeadOf
    <2>8. ~ImportBlockFails(n, b)
        BY <1>1, <2>4 DEF ImportBlockFails, ImportUntilFails, MayFail
    <2>9. ImportBlock(n, b)
        BY <1>1, <1>3, <1>5, <2>3, <2>7, <2>8 DEF TriesBlock, RejectBlock, VerifyFails, MayFail,
              FetchBlocks, FetchBlocksFails, IgnoreBlock
    <2>10. /\ ImportUntil(n, HeadOf(b)) /\ chain' = [chain EXCEPT ![n] = b]
           /\ Succeed(n, b, IF InQueue(n, HeadOf(b)) THEN HeadOf(b) ELSE hdr[n])
        BY <1>1, <2>9 DEF ImportBlock, HeadOf
    <2>11. /\ batch'[n] = {c \in batch[n] : Len(c) # Len(b)}
           /\ todo'[n] = <<>>
           /\ hdr'[n] = IF InQueue(n, HeadOf(b)) THEN HeadOf(b) ELSE hdr[n]
        BY <1>0, <1>1, <2>10, EmptySeq DEF Succeed, Mappings, Number
    <2> QED
        BY <1>0, <2>1, <2>2, <2>6, <2>10, <2>11 DEF Mappings
<1> QED
    BY <1>4, <1>5

-----------------------------------------------------------------------------
(* Agreement, action by action.                                            *)

\* Trying a block of the queue keeps Agreement: what leaves the batch is in the state, and
\* the parentchain import stops at the block imported.
LEMMA TriesAgreement ==
    ASSUME Base, Base', OnTime, Agreement, FixedAuthorities, AuthoritiesConnected,
           failures = 0, failures' = 0, NEW n \in Nodes, NEW b \in batch[n], TriesBlock(n, b)
    PROVE  Agreement'
<1>0. Sorts /\ Mappings /\ Blocks
    BY BaseFacts
<1>1. /\ phase[n] = "import"
      /\ UNCHANGED <<slot, height, seen, broadcast, queue, woken, phase, timestamp,
                     last_slot, draft>>
      /\ \A m \in Nodes : m # n => /\ popped'[m] = popped[m] /\ chain'[m] = chain[m]
                                   /\ batch'[m] = batch[m] /\ todo'[m] = todo[m]
                                   /\ hdr'[m] = hdr[m]
    BY TriesOwnState
<1>2. OneLine'
    BY <1>1 DEF Agreement, OneLine, Proper
<1>3. CASE n \notin Connected
    <2>1. \A m \in Connected : /\ popped'[m] = popped[m] /\ chain'[m] = chain[m]
                               /\ batch'[m] = batch[m] /\ todo'[m] = todo[m]
                               /\ hdr'[m] = hdr[m]
        BY <1>1, <1>3, ConnectedAssumption
    <2>2. NextOnLine'
        BY <1>1, <2>1 DEF Agreement, NextOnLine, Proper
    <2>3. Arrived' /\ InStep'
        BY <1>1, <2>1 DEF Agreement, Arrived, InStep
    <2>4. AuthorKnowsAll'
        BY <1>1, <2>1 DEF Agreement, AuthorKnowsAll
    <2> QED
        BY <1>2, <2>2, <2>3, <2>4 DEF Agreement
<1>4. CASE n \in Connected
    <2>1. /\ batch'[n] = {c \in batch[n] : Len(c) # Len(b)} /\ todo'[n] = <<>>
          /\ \/ /\ chain'[n] = chain[n] /\ popped'[n] = popped[n] /\ hdr'[n] = hdr[n]
                /\ IsPrefix(b, chain[n])
             \/ /\ chain'[n] = b /\ popped'[n] = HeadOf(b) /\ hdr'[n] = HeadOf(b)
                /\ Parent(b) = chain[n]
        BY <1>4, TakesBlock
    <2>2. b \in broadcast /\ b \in Seq(Data) /\ b # <<>> /\ HeadOf(b) \in Nat /\ Len(b) \in Nat
        BY <1>0 DEF Mappings, Blocks
    <2>3. \A m \in Nodes : popped'[m] = popped[m] \/ (m = n /\ popped'[m] = HeadOf(b))
        BY <1>1, <2>1
    <2>4. \A c \in broadcast : Len(c) <= Len(b) => IsPrefix(c, b)
        BY <2>2 DEF Agreement, OneLine
    <2>5. \A c \in broadcast : Len(c) = Len(b) => c = b
        <3> SUFFICES ASSUME NEW c \in broadcast, Len(c) = Len(b) PROVE c = b
            OBVIOUS
        <3>1. IsPrefix(c, b) /\ c \in Seq(Data)
            BY <1>0, <2>2, <2>4 DEF Blocks
        <3> QED
            BY <2>2, <3>1, PrefixOrder
    <2>6. \A c \in broadcast : IsPrefix(c, chain[n]) => IsPrefix(c, chain'[n])
        <3>1. \A c \in broadcast : c \in Seq(Data)
            BY <1>0 DEF Blocks
        <3>2. CASE chain'[n] = chain[n]
            BY <3>2
        <3>3. CASE chain'[n] = b /\ Parent(b) = chain[n]
            BY <2>2, <3>1, <3>3, PrefixOfChild
        <3> QED
            BY <2>1, <3>2, <3>3
    <2>7. IsPrefix(b, chain'[n])
        <3>1. IsPrefix(b, b)
            BY <2>2, PrefixOrder
        <3> QED
            BY <2>1, <3>1
    <2>8. NextOnLine'
        <3> SUFFICES ASSUME NEW m \in Nodes, phase[m] = "broadcast", NEW k \in Connected
                     PROVE  popped'[k] <= HeadOf(draft[m])
            BY <1>1 DEF Agreement, NextOnLine, Proper
        <3>1. popped[k] <= HeadOf(draft[m]) /\ HeadOf(b) <= HeadOf(draft[m])
            BY <2>2 DEF Agreement, NextOnLine
        <3> QED
            BY <2>3, <3>1, ConnectedAssumption
    <2>9. AuthorKnowsAll'
        <3> SUFFICES ASSUME last_slot[Author(slot)] < slot, NEW k \in Connected
                     PROVE  popped'[k] <= seen[Author(slot)]
            BY <1>1 DEF Agreement, AuthorKnowsAll
        <3>1. popped[k] <= seen[Author(slot)] /\ HeadOf(b) <= seen[Author(slot)]
            BY <2>2 DEF Agreement, AuthorKnowsAll
        <3> QED
            BY <2>3, <3>1, ConnectedAssumption
    <2>10. Arrived'
        <3>1. ASSUME NEW m \in Connected, NEW c \in broadcast, SlotOf(c) < slot
              PROVE  \/ IsPrefix(c, chain'[m])
                     \/ c \in batch'[m]
                     \/ c \in queue[m] /\ (woken[m] < slot \/ phase[m] = "woken")
            <4>1. \/ IsPrefix(c, chain[m])
                  \/ c \in batch[m]
                  \/ c \in queue[m] /\ (woken[m] < slot \/ phase[m] = "woken")
                BY <3>1 DEF Agreement, Arrived
            <4>2. CASE m = n
                BY <2>1, <2>5, <2>6, <2>7, <3>1, <4>1, <4>2
            <4>3. CASE m # n
                BY <1>1, <4>1, <4>3, ConnectedAssumption
            <4> QED
                BY <4>2, <4>3
        <3>2. ASSUME NEW m \in Connected, NEW c \in queue[m] \cup batch'[m]
              PROVE  HeadOf(c) <= seen[m]
            <4>1. batch'[m] \subseteq batch[m]
                BY <1>1, <2>1, ConnectedAssumption
            <4> QED
                BY <3>2, <4>1 DEF Agreement, Arrived
        <3> QED
            BY <1>1, <3>1, <3>2 DEF Arrived
    <2>11. InStep'
        <3>1. ASSUME NEW m \in Connected
              PROVE  todo'[m] = <<>> /\ (phase[m] = "import" => hdr'[m] = popped'[m])
            BY <1>1, <2>1, ConnectedAssumption DEF Agreement, InStep
        <3>2. ASSUME NEW m \in Connected, NEW c \in broadcast
              PROVE  IsPrefix(c, chain'[m]) \/ popped'[m] <= HeadOf(c)
            <4>1. IsPrefix(c, chain[m]) \/ popped[m] <= HeadOf(c)
                BY DEF Agreement, InStep
            <4>2. CASE m # n
                BY <1>1, <4>1, <4>2, ConnectedAssumption
            <4>3. CASE m = n /\ popped'[n] = popped[n]
                BY <2>6, <4>1, <4>3
            <4>4. CASE m = n /\ chain'[n] = b /\ popped'[n] = HeadOf(b)
                <5>1. Len(c) \in Nat
                    BY <1>0 DEF Blocks
                <5>2. CASE Len(c) <= Len(b)
                    BY <2>4, <4>4, <5>2
                <5>3. CASE Len(b) < Len(c)
                    BY <2>2, <4>4, <5>3 DEF Agreement, OneLine
                <5> QED
                    BY <2>2, <5>1, <5>2, <5>3
            <4> QED
                BY <2>1, <4>2, <4>3, <4>4
        <3> QED
            BY <1>1, <3>1, <3>2 DEF InStep
    <2> QED
        BY <1>2, <2>8, <2>9, <2>10, <2>11 DEF Agreement
<1> QED
    BY <1>3, <1>4

\* The next slot begins when everything of the last one has arrived, the parentchain
\* blocks included.
LEMMA TickAgreement ==
    ASSUME Base, OnTime, Agreement, AuthoritiesConnected, TimelyTick
    PROVE  Agreement'
<1>0. Sorts /\ Mappings /\ Blocks
    BY BaseFacts
<1>1. /\ Settled /\ slot' = slot + 1 /\ slot' \in Nat
      /\ UNCHANGED <<height, seen, popped, chain, broadcast, queue, woken, phase, batch, todo,
                     hdr, last_slot, draft>>
    BY <1>0 DEF TimelyTick, Tick, parentchain, importing, Sorts
<1>2. Author(slot') \in Nodes
    BY <1>1, AuthorConnected
<1>3. \A n \in Nodes : phase[n] = "idle" /\ woken[n] = slot /\ seen[n] = height
    BY <1>1 DEF Settled
<1>4. \A b \in broadcast : SlotOf(b) \in Nat /\ SlotOf(b) <= slot /\ HeadOf(b) <= height
    BY <1>0 DEF Agreement, OneLine, Proper, Blocks
<1>5. OneLine'
    <2>1. \A b \in broadcast : Proper(b)'
        BY <1>0, <1>1, <1>4 DEF Agreement, OneLine, Proper, Sorts
    <2> QED
        BY <1>1, <2>1 DEF Agreement, OneLine
<1>6. NextOnLine'
    BY <1>1, <1>3 DEF NextOnLine
<1>7. Arrived'
    <2>1. ASSUME NEW n \in Connected, NEW b \in broadcast
          PROVE  IsPrefix(b, chain[n]) \/ (b \in queue[n] /\ woken[n] < slot')
        <3>1. n \in Nodes
            BY ConnectedAssumption
        <3>2. b \in queue[n] \/ IsPrefix(b, chain[n])
            BY <1>1, <3>1 DEF Settled
        <3> QED
            BY <1>0, <1>1, <1>3, <3>1, <3>2 DEF Sorts
    <2> QED
        BY <1>1, <2>1 DEF Agreement, Arrived
<1>8. InStep'
    BY <1>1 DEF Agreement, InStep
<1>9. AuthorKnowsAll'
    <2>1. \A n \in Connected : popped[n] <= seen[Author(slot')]
        BY <1>0, <1>2, <1>3, ConnectedAssumption DEF Sorts
    <2>2. \A b \in broadcast : SlotOf(b) < slot' /\ HeadOf(b) <= seen[Author(slot')]
        BY <1>0, <1>1, <1>2, <1>3, <1>4 DEF Sorts
    <2> QED
        BY <1>1, <2>1, <2>2 DEF AuthorKnowsAll
<1> QED
    BY <1>5, <1>6, <1>7, <1>8, <1>9 DEF Agreement

\* New parentchain blocks, and blocks and calls that arrive, disturb nothing.
LEMMA EnvironmentAgreement ==
    ASSUME Base, OnTime, Agreement, AuthoritiesConnected,
           \/ Finalize
           \/ \E n \in Nodes : SyncParentchain(n)
           \/ \E n \in Nodes : \E b \in broadcast : TimelyDeliver(n, b)
           \/ \E n \in Nodes : \E c \in Calls : Submit(n, c)
           \/ UNCHANGED vars
    PROVE  Agreement'
<1> USE DEF parentchain, importing
<1>0. Sorts /\ Mappings /\ Blocks
    BY BaseFacts
<1>1. UNCHANGED <<slot, popped, chain, broadcast, woken, phase, batch, todo, hdr, last_slot, draft>>
    BY DEF Finalize, SyncParentchain, TimelyDeliver, Deliver, Submit, vars
<1> DEFINE Grows == /\ height' \in Nat /\ height <= height'
                    /\ \A n \in Nodes : seen'[n] \in Nat /\ seen[n] <= seen'[n]
           QueuesGrow == \A n \in Nodes :
                            /\ queue[n] \subseteq queue'[n]
                            /\ \A b \in queue'[n] : \/ b \in queue[n]
                                                    \/ b \in broadcast /\ HeadOf(b) <= seen[n]
<1>2. Grows /\ QueuesGrow
    <2>1. CASE Finalize
        BY <1>0, <2>1 DEF Finalize, Sorts
    <2>2. ASSUME NEW n \in Nodes, SyncParentchain(n) PROVE Grows /\ QueuesGrow
        <3>1. /\ seen' = [seen EXCEPT ![n] = seen[n] + 1] /\ height' = height /\ queue' = queue
            BY <2>2 DEF SyncParentchain
        <3>2. \A m \in Nodes : seen'[m] = seen[m] \/ seen'[m] = seen[m] + 1
            BY <1>0, <3>1 DEF Mappings
        <3>3. Grows
            BY <1>0, <3>1, <3>2 DEF Sorts
        <3> QED
            BY <3>1, <3>3
    <2>3. ASSUME NEW n \in Nodes, NEW b \in broadcast, TimelyDeliver(n, b) PROVE Grows /\ QueuesGrow
        <3>1. /\ queue' = [queue EXCEPT ![n] = queue[n] \cup {b}] /\ HeadOf(b) <= seen[n]
              /\ height' = height /\ seen' = seen
            BY <2>3 DEF TimelyDeliver, Deliver, HeadOf
        <3>2. QueuesGrow
            BY <1>0, <3>1 DEF Mappings
        <3> QED
            BY <1>0, <3>1, <3>2 DEF Sorts
    <2>4. CASE (\E n \in Nodes : \E c \in Calls : Submit(n, c)) \/ UNCHANGED vars
        <3>1. UNCHANGED <<height, seen, queue>>
            BY <2>4 DEF Submit, vars
        <3> QED
            BY <1>0, <3>1 DEF Sorts
    <2> QED
        BY <2>1, <2>2, <2>3, <2>4
<1>6. ASSUME NEW b, HeadOf(b) \in Nat, Proper(b) PROVE Proper(b)'
    BY <1>0, <1>1, <1>2, <1>6 DEF Proper, Sorts
<1>7. OneLine'
    <2>1. \A b \in broadcast : Proper(b)'
        BY <1>0, <1>6 DEF Agreement, OneLine, Blocks
    <2> QED
        BY <1>1, <2>1 DEF Agreement, OneLine
<1>8. NextOnLine'
    <2>1. ASSUME NEW n \in Nodes, phase[n] = "broadcast" PROVE Proper(draft[n])'
        <3>1. HeadOf(draft[n]) \in Nat
            BY <2>1, DraftFacts
        <3>2. Proper(draft[n])
            BY <2>1 DEF Agreement, NextOnLine
        <3>3. draft'[n] = draft[n]
            BY <1>1
        <3> QED
            BY <1>0, <1>1, <1>2, <3>1, <3>2, <3>3 DEF Proper, Sorts
    <2> QED
        BY <1>1, <2>1 DEF Agreement, NextOnLine
<1>9. Arrived'
    <2>1. ASSUME NEW n \in Connected, NEW b \in queue'[n] \cup batch[n] PROVE HeadOf(b) <= seen'[n]
        <3>1. n \in Nodes
            BY ConnectedAssumption
        <3>2. HeadOf(b) <= seen[n] /\ b \in broadcast
            BY <1>0, <1>2, <2>1, <3>1 DEF Agreement, Arrived, Mappings
        <3> QED
            BY <1>0, <1>2, <3>1, <3>2 DEF Blocks, Sorts
    <2> QED
        BY <1>1, <1>2, <2>1, ConnectedAssumption DEF Agreement, Arrived
<1>10. InStep'
    BY <1>1 DEF Agreement, InStep
<1>11. AuthorKnowsAll'
    <2>1. Author(slot) \in Nodes
        BY <1>0, AuthorConnected DEF Sorts
    <2>2. seen[Author(slot)] <= seen'[Author(slot)]
        BY <1>2, <2>1
    <2>3. seen[Author(slot)] \in Nat /\ seen'[Author(slot)] \in Nat
        BY <1>0, <1>2, <2>1 DEF Sorts
    <2> SUFFICES ASSUME last_slot[Author(slot)] < slot
                 PROVE  /\ \A n \in Connected : popped[n] <= seen'[Author(slot)]
                        /\ \A b \in broadcast : SlotOf(b) < slot /\ HeadOf(b) <= seen'[Author(slot)]
        BY <1>1 DEF AuthorKnowsAll
    <2>4. /\ \A n \in Connected : popped[n] <= seen[Author(slot)] /\ popped[n] \in Nat
          /\ \A b \in broadcast : SlotOf(b) < slot /\ HeadOf(b) <= seen[Author(slot)]
        BY <1>0, ConnectedAssumption DEF Agreement, AuthorKnowsAll, Sorts
    <2> QED
        BY <1>0, <2>2, <2>3, <2>4 DEF Blocks
<1> QED
    BY <1>7, <1>8, <1>9, <1>10, <1>11 DEF Agreement

\* The steps of the loop that neither import nor propose.
LEMMA LoopAgreement ==
    ASSUME Base, OnTime, Agreement, AuthoritiesConnected, failures = 0, NEW n \in Nodes,
           Wake(n) \/ ProcessQueue(n) \/ NoProposal(n) \/ SendEffects(n)
    PROVE  Agreement'
<1> USE DEF parentchain, importing
<1>0. Sorts /\ Mappings /\ Blocks
    BY BaseFacts
<1>1. UNCHANGED <<slot, height, seen, popped, chain, broadcast, todo>>
    BY DEF Wake, ProcessQueue, NoProposal, SendEffects
<1>2. \A m \in Nodes : phase'[m] = "broadcast" =>
          phase[m] = "broadcast" /\ draft'[m] = draft[m] /\ last_slot'[m] = last_slot[m]
    BY <1>0 DEF Wake, ProcessQueue, NoProposal, SendEffects, QueueDone, Mappings
<1>3. \A m \in Nodes : phase'[m] = "import" =>
          hdr'[m] = IF phase[m] = "import" THEN hdr[m] ELSE lc[m]
    BY <1>0 DEF Wake, ProcessQueue, NoProposal, SendEffects, QueueDone, DropLocals, Mappings
<1>4. \A m \in Nodes : last_slot'[m] \in Nat /\ last_slot[m] <= last_slot'[m]
    <2>1. CASE NoProposal(n)
        <3>1. last_slot' = [last_slot EXCEPT ![n] =
                               IF NewSlot(n) THEN timestamp[n] ELSE last_slot[n]]
            BY <2>1 DEF NoProposal
        <3>2. timestamp[n] = slot
            BY <2>1 DEF NoProposal, QueueDone, OnTime
        <3>3. \A m \in Nodes : last_slot'[m] \in {last_slot[m], slot}
            BY <1>0, <3>1, <3>2 DEF Mappings
        <3> QED
            BY <1>0, <3>3 DEF Sorts
    <2>2. CASE Wake(n) \/ ProcessQueue(n) \/ SendEffects(n)
        BY <1>0, <2>2 DEF Wake, ProcessQueue, SendEffects, Sorts
    <2> QED
        BY <2>1, <2>2
<1>5. OneLine'
    BY <1>1 DEF Agreement, OneLine, Proper
<1>6. NextOnLine'
    BY <1>1, <1>2 DEF Agreement, NextOnLine, Proper
<1>7. Arrived'
    <2>1. CASE Wake(n)
        BY <1>0, <1>1, <2>1 DEF Wake, Agreement, Arrived, Mappings
    <2>2. CASE ProcessQueue(n)
        <3>1. /\ phase[n] = "woken" /\ batch[n] = {} /\ woken' = woken
              /\ phase' = [phase EXCEPT ![n] = "import"]
              /\ batch' = [batch EXCEPT ![n] = queue[n]] /\ queue' = [queue EXCEPT ![n] = {}]
            BY <2>2 DEF ProcessQueue, OnTime
        <3> QED
            BY <1>0, <1>1, <3>1, ConnectedAssumption DEF Agreement, Arrived, Mappings
    <2>3. CASE NoProposal(n) \/ SendEffects(n)
        <3>1. /\ UNCHANGED <<woken, batch, queue>> /\ phase[n] # "woken"
              /\ phase' = [phase EXCEPT ![n] = "idle"]
            BY <2>3 DEF NoProposal, SendEffects, QueueDone
        <3> QED
            BY <1>0, <1>1, <3>1, ConnectedAssumption DEF Agreement, Arrived, Mappings
    <2> QED
        BY <2>1, <2>2, <2>3
<1>8. InStep'
    <2>1. \A m \in Nodes : lc[m] = popped[m]
        BY DEF Base, ImportInv, CaughtUp
    <2> QED
        BY <1>1, <1>3, <2>1, ConnectedAssumption DEF Agreement, InStep
<1>9. AuthorKnowsAll'
    <2>1. Author(slot) \in Nodes
        BY <1>0, AuthorConnected DEF Sorts
    <2>2. last_slot'[Author(slot)] < slot => last_slot[Author(slot)] < slot
        BY <1>0, <1>4, <2>1 DEF Sorts
    <2> QED
        BY <1>1, <2>2 DEF Agreement, AuthorKnowsAll
<1> QED
    BY <1>5, <1>6, <1>7, <1>8, <1>9 DEF Agreement

\* The author sends the block it proposed: the chain of blocks sent is one block longer.
LEMMA BroadcastAgreement ==
    ASSUME Base, OnTime, Agreement, NEW n \in Nodes, Broadcast(n)
    PROVE  Agreement'
<1> DEFINE d == draft[n]
<1>0. Sorts /\ Mappings /\ Blocks
    BY BaseFacts
<1>1. /\ phase[n] = "broadcast" /\ broadcast' = broadcast \cup {d}
      /\ phase' = [phase EXCEPT ![n] = "effects"]
      /\ UNCHANGED <<slot, height, seen, popped, chain, queue, batch, todo, hdr, woken,
                     last_slot, draft>>
    BY DEF Broadcast, parentchain, importing
<1>2. /\ Top(d).author = n /\ SlotOf(d) = slot /\ last_slot[n] = slot /\ Proper(d)
      /\ \A b \in broadcast : /\ IsPrefix(b, d) /\ Len(b) < Len(d)
                              /\ SlotOf(b) < slot /\ HeadOf(b) <= HeadOf(d)
      /\ \A m \in Connected : popped[m] <= HeadOf(d)
    BY <1>1 DEF Agreement, NextOnLine
<1>3. /\ d \in Seq(Data) /\ d # <<>> /\ Len(d) \in Nat /\ SlotOf(d) \in Nat /\ HeadOf(d) \in Nat
      /\ IsPrefix(d, d)
    BY <1>1, DraftFacts, PrefixOrder
<1>4. n = Author(slot)
    BY <1>2 DEF Proper
<1> HIDE DEF d
<1>5. OneLine'
    <2>1. \A b \in broadcast' : Proper(b)'
        BY <1>1, <1>2 DEF Agreement, OneLine, Proper
    <2>2. \A b, c \in broadcast' : Len(b) <= Len(c) => IsPrefix(b, c)
        BY <1>0, <1>1, <1>2, <1>3 DEF Agreement, OneLine, Blocks
    <2>3. \A b, c \in broadcast' :
              Len(b) < Len(c) => SlotOf(b) < SlotOf(c) /\ HeadOf(b) <= HeadOf(c)
        BY <1>0, <1>1, <1>2, <1>3 DEF Agreement, OneLine, Blocks
    <2> QED
        BY <2>1, <2>2, <2>3 DEF OneLine
<1>6. NextOnLine'
    <2> SUFFICES ASSUME NEW m \in Nodes, phase'[m] = "broadcast" PROVE FALSE
        BY DEF NextOnLine
    <2>1. m # n /\ phase[m] = "broadcast"
        BY <1>0, <1>1 DEF Mappings
    <2>2. m = Author(slot)
        BY <2>1 DEF Agreement, NextOnLine, Proper
    <2> QED
        BY <1>4, <2>1, <2>2
<1>7. Arrived'
    <2>1. \A m \in Nodes : phase[m] = "woken" => phase'[m] = "woken"
        BY <1>0, <1>1 DEF Mappings
    <2>2. \A b \in broadcast' : SlotOf(b) < slot => b \in broadcast
        BY <1>0, <1>1, <1>2 DEF Sorts
    <2> QED
        BY <1>1, <2>1, <2>2, ConnectedAssumption DEF Agreement, Arrived
<1>8. InStep'
    <2>1. \A m \in Nodes : phase'[m] = "import" => phase[m] = "import"
        BY <1>0, <1>1 DEF Mappings
    <2> QED
        BY <1>1, <1>2, <2>1, ConnectedAssumption DEF Agreement, InStep
<1>9. AuthorKnowsAll'
    BY <1>0, <1>1, <1>2, <1>4 DEF AuthorKnowsAll, Sorts
<1> QED
    BY <1>5, <1>6, <1>7, <1>8, <1>9 DEF Agreement

\* The author of the slot proposes on the last block sent, with the latest header anybody
\* has.
LEMMA ProposeAgreement ==
    ASSUME Base, Base', OnTime, Agreement, FixedAuthorities, AuthoritiesConnected,
           failures = 0, failures' = 0, NEW n \in Nodes, Proposes(n)
    PROVE  Agreement'
<1>0. Sorts /\ Mappings /\ Blocks
    BY BaseFacts
<1>1. PICK calls \in SUBSET ValidCalls(n) : \E invalid \in SUBSET (pool[n] \ ValidCalls(n)) :
          Propose(n, calls, invalid)
    BY DEF Proposes
<1>2. PICK invalid \in SUBSET (pool[n] \ ValidCalls(n)) : Propose(n, calls, invalid)
    BY <1>1
<1>3. /\ phase[n] = "import" /\ batch[n] = {} /\ timestamp[n] > last_slot[n] /\ ClaimsSlot(n)
      /\ last_slot' = [last_slot EXCEPT ![n] = timestamp[n]]
      /\ \A m \in Nodes : m # n => phase'[m] = phase[m] /\ draft'[m] = draft[m]
      /\ phase'[n] \in {"broadcast", "idle"}
      /\ \A m \in Nodes : m # n => hdr'[m] = hdr[m]
      /\ chain' = chain
      /\ UNCHANGED <<slot, woken, broadcast, queue, batch, todo>>
    BY <1>0, <1>2 DEF Propose, QueueDone, NewSlot, DropLocals, StateAfterProposal, Mappings
<1>4. timestamp[n] = slot /\ woken[n] = slot /\ LatestHeader(n) \in Heights
    BY <1>0, <1>3 DEF OnTime, LatestHeader, Mappings
<1>5. n = Author(slot) /\ n \in Connected /\ last_slot[n] < slot
    <2>1. n = Author(slot)
        BY <1>3, <1>4 DEF ClaimsSlot, Author, FixedAuthorities
    <2> QED
        BY <1>0, <1>3, <1>4, <2>1, AuthorConnected DEF Sorts
<1>6. /\ \A m \in Connected : popped[m] <= seen[n]
      /\ \A b \in broadcast : SlotOf(b) < slot /\ HeadOf(b) <= seen[n]
    BY <1>5 DEF Agreement, AuthorKnowsAll
<1>7. \A b \in broadcast : IsPrefix(b, chain[n])
    BY <1>0, <1>3, <1>4, <1>5, <1>6 DEF Agreement, Arrived, Sorts
<1>8. LatestHeader(n) = seen[n]
    <2>1. hdr[n] = popped[n]
        BY <1>3, <1>5 DEF Agreement, InStep
    <2> QED
        BY <1>0, <2>1 DEF LatestHeader, Sorts
<1>9. /\ popped'[n] = seen[n] /\ st'[n] = seen[n] /\ height' = height /\ seen' = seen
      /\ \A m \in Nodes : m # n => popped'[m] = popped[m]
    <2>1. CaughtUp(n)
        BY DEF Base, ImportInv
    <2>2. ImportUntil(n, seen[n])
        BY <1>2, <1>8, <2>1 DEF Propose, ImportUntilFails, MayFail, CaughtUp
    <2>3. /\ popped' = [popped EXCEPT ![n] = IF InQueue(n, seen[n]) THEN seen[n] ELSE popped[n]]
          /\ st' = [st EXCEPT ![n] = IF InQueue(n, seen[n]) THEN seen[n] ELSE st[n]]
          /\ height' = height /\ seen' = seen
        BY <2>2 DEF ImportUntil, UpdatedTo
    <2>4. InQueue(n, seen[n]) \/ popped[n] = seen[n]
        BY <1>0 DEF InQueue, Sorts
    <2> QED
        BY <1>0, <2>1, <2>3, <2>4 DEF CaughtUp, Mappings
<1>10. OneLine'
    BY <1>3, <1>9 DEF Agreement, OneLine, Proper
<1>11. NextOnLine'
    <2>1. ASSUME NEW m \in Nodes, phase'[m] = "broadcast" PROVE m = n
        <3> SUFFICES ASSUME m # n PROVE FALSE
            OBVIOUS
        <3>1. phase[m] = "broadcast"
            BY <1>3, <2>1
        <3>2. m = Author(slot)
            BY <3>1 DEF Agreement, NextOnLine, Proper
        <3> QED
            BY <1>5, <3>2
    <2>2. ASSUME phase'[n] = "broadcast"
          PROVE  /\ Top(draft'[n]).author = n /\ SlotOf(draft'[n]) = slot /\ last_slot'[n] = slot
                 /\ Top(draft'[n]).base = seen[n] /\ HeadOf(draft'[n]) = seen[n]
                 /\ Parent(draft'[n]) = chain[n] /\ Len(draft'[n]) = Len(chain[n]) + 1
                 /\ \A b \in broadcast : IsPrefix(b, draft'[n])
        <3>1. \E d \in Data :
                /\ draft'[n] = Append(chain[n], d)
                /\ d.calls = calls /\ d.author = n /\ d.slot = slot
                /\ d.layer_one_head = LatestHeader(n) /\ d.base = st'[n]
            BY <1>2, <2>2, ProposalFacts, Zenon DEF Base
        <3>2. PICK d \in Data : /\ draft'[n] = Append(chain[n], d)
                                /\ d.author = n /\ d.slot = slot
                                /\ d.layer_one_head = LatestHeader(n) /\ d.base = st'[n]
            BY <3>1
        <3>3. chain[n] \in Seq(Data)
            BY <1>0 DEF Blocks
        <3>4. /\ Top(draft'[n]) = d /\ Len(draft'[n]) = Len(chain[n]) + 1
              /\ draft'[n] \in Seq(Data) /\ draft'[n] # <<>>
            BY <3>2, <3>3, ChildFacts
        <3>5. Parent(draft'[n]) = chain[n]
            BY <3>2, <3>3, ParentOfAppend
        <3>6. \A b \in broadcast : IsPrefix(b, draft'[n])
            <4>1. \A b \in broadcast : b \in Seq(Data)
                BY <1>0 DEF Blocks
            <4> QED
                BY <1>7, <3>4, <3>5, <4>1, PrefixOfChild
        <3>7. last_slot'[n] = slot
            BY <1>0, <1>3, <1>4 DEF Mappings
        <3> QED
            BY <1>8, <1>9, <3>2, <3>4, <3>5, <3>6, <3>7 DEF SlotOf, HeadOf
    <2>3. ASSUME NEW b \in broadcast PROVE Len(b) < Len(chain[n]) + 1
        BY <1>0, <1>7 DEF IsPrefix, Blocks
    <2>4. ASSUME phase'[n] = "broadcast" PROVE Proper(draft[n])'
        <3>1. seen[n] <= height /\ slot \in Nat
            BY <1>0 DEF OnTime, Sorts
        <3>2. chain[n] = Genesis \/ chain[n] \in broadcast
            BY <1>0 DEF Blocks, Genesis
        <3> QED
            BY <1>3, <1>5, <1>9, <2>2, <2>4, <3>1, <3>2 DEF Proper
    <2>5. \A m \in Connected : popped'[m] <= seen[n]
        BY <1>0, <1>6, <1>9, ConnectedAssumption DEF Sorts
    <2> QED
        BY <1>3, <1>6, <2>1, <2>2, <2>3, <2>4, <2>5 DEF NextOnLine
<1>12. Arrived'
    <2>1. \A m \in Nodes : phase[m] = "woken" => phase'[m] = "woken"
        BY <1>3
    <2> QED
        BY <1>3, <1>9, <2>1, ConnectedAssumption DEF Agreement, Arrived
<1>13. InStep'
    <2>1. ASSUME NEW m \in Connected PROVE phase'[m] = "import" => hdr'[m] = popped'[m]
        BY <1>3, <1>9, ConnectedAssumption DEF Agreement, InStep
    <2>2. ASSUME NEW m \in Connected, NEW b \in broadcast
          PROVE  IsPrefix(b, chain[m]) \/ popped'[m] <= HeadOf(b)
        BY <1>7, <1>9, ConnectedAssumption DEF Agreement, InStep
    <2> QED
        BY <1>3, <2>1, <2>2 DEF Agreement, InStep
<1>14. AuthorKnowsAll'
    <2>1. last_slot'[n] = slot
        BY <1>0, <1>3, <1>4 DEF Mappings
    <2> QED
        BY <1>0, <1>3, <1>5, <2>1 DEF AuthorKnowsAll, Sorts
<1> QED
    BY <1>10, <1>11, <1>12, <1>13, <1>14 DEF Agreement

-----------------------------------------------------------------------------
(* The theorems.                                                           *)

\* What holds in every environment holds in a timely one.
LEMMA BaseHolds == TimelySafetySpec => []Base
<1>1. Init => SlotInv /\ ParentchainInOrder /\ ImportInv
    BY EmptySeq DEF Init, SlotInv, Timing, BroadcastTiming, DraftTiming, OneBlockPerSlot,
                    ParentchainInOrder, ImportInv, CaughtUp, Genesis
<1>2. Init => Base
    BY <1>1, TypedInit DEF Base
<1>3. Base /\ [Next]_vars => Base'
    BY TypedStep, SlotStep, OrderStep, ImportStep DEF Base
<1> QED
    BY <1>2, <1>3, TimelyIsNext, PTL DEF TimelySafetySpec

\* Every step of a timely environment keeps the invariant.
LEMMA AgreementStep ==
    ASSUME FixedAuthorities, AuthoritiesConnected
    PROVE  Base /\ Base' /\ AgreementInv /\ [TimelyNext]_vars => AgreementInv'
<1> SUFFICES ASSUME Base, Base', AgreementInv, [TimelyNext]_vars PROVE AgreementInv'
    OBVIOUS
<1>1. OnTime /\ OnTime'
    BY OnTimeStep DEF AgreementInv
<1> SUFFICES ASSUME failures' = 0 PROVE Agreement'
    BY <1>1 DEF AgreementInv
<1>2. failures = 0
    <2>1. failures' = failures \/ failures' = failures + 1
        BY FailuresStay, TimelyIsNext DEF Base
    <2> QED
        BY <2>1, BaseFacts DEF Sorts
<1>3. Agreement
    BY <1>2 DEF AgreementInv
<1>4. CASE TimelyTick
    BY <1>1, <1>3, <1>4, TickAgreement
<1>5. CASE \/ Finalize
           \/ \E n \in Nodes : SyncParentchain(n)
           \/ \E n \in Nodes : \E b \in broadcast : TimelyDeliver(n, b)
           \/ \E n \in Nodes : \E c \in Calls : Submit(n, c)
           \/ UNCHANGED vars
    BY <1>1, <1>3, <1>5, EnvironmentAgreement
<1>6. ASSUME NEW n \in Nodes, Wake(n) \/ ProcessQueue(n) \/ NoProposal(n) \/ SendEffects(n)
      PROVE  Agreement'
    BY <1>1, <1>2, <1>3, <1>6, LoopAgreement
<1>7. ASSUME NEW n \in Nodes, NEW b \in batch[n], TriesBlock(n, b) PROVE Agreement'
    BY <1>1, <1>2, <1>3, <1>7, TriesAgreement
<1>8. ASSUME NEW n \in Nodes, Proposes(n) PROVE Agreement'
    BY <1>1, <1>2, <1>3, <1>8, ProposeAgreement
<1>9. ASSUME NEW n \in Nodes, Broadcast(n) PROVE Agreement'
    BY <1>1, <1>3, <1>9, BroadcastAgreement
<1>10. ASSUME NEW n \in Nodes PROVE ~LoseEffects(n)
    BY <1>2 DEF LoseEffects, MayFail
<1> QED
    BY <1>4, <1>5, <1>6, <1>7, <1>8, <1>9, <1>10
    DEF TimelyNext, TimelyEnvironment, Validateer, TriesBlock, Proposes

\* The invariant holds in every reachable state of a timely environment whose authorities
\* are fixed and connected.
THEOREM AgreementHolds ==
    ASSUME FixedAuthorities, AuthoritiesConnected
    PROVE  TimelySafetySpec => []AgreementInv
<1>1. Init => AgreementInv
    <2> SUFFICES ASSUME Init PROVE AgreementInv
        OBVIOUS
    <2>1. OnTime
        BY DEF Init, OnTime
    <2>2. OneLine /\ NextOnLine /\ Arrived
        BY ConnectedAssumption DEF Init, OneLine, NextOnLine, Arrived
    <2>3. InStep
        BY ConnectedAssumption DEF Init, InStep
    <2>4. AuthorKnowsAll
        <3>1. Author(1) \in Nodes
            BY AuthorConnected
        <3> QED
            BY <3>1, ConnectedAssumption DEF Init, AuthorKnowsAll
    <2> QED
        BY <2>1, <2>2, <2>3, <2>4 DEF AgreementInv, Agreement
<1>2. Base /\ Base' /\ AgreementInv /\ [TimelyNext]_vars => AgreementInv'
    BY AgreementStep
<1> QED
    BY <1>1, <1>2, BaseHolds, PTL DEF TimelySafetySpec

\* One chain: of any two blocks ever sent one extends the other.
THEOREM NoForksHolds ==
    ASSUME FixedAuthorities, AuthoritiesConnected
    PROVE  TimelySafetySpec => [](failures = 0 => NoForks)
<1>1. Base /\ AgreementInv => (failures = 0 => NoForks)
    <2> SUFFICES ASSUME Base, AgreementInv, failures = 0, NEW b \in broadcast, NEW c \in broadcast
                 PROVE  IsPrefix(b, c) \/ IsPrefix(c, b)
        BY DEF NoForks
    <2>1. Len(b) \in Nat /\ Len(c) \in Nat
        BY BaseFacts DEF Blocks
    <2> QED
        BY <2>1 DEF AgreementInv, Agreement, OneLine
<1>2. TimelySafetySpec => []AgreementInv
    BY AgreementHolds
<1> QED
    BY <1>1, <1>2, BaseHolds, PTL

\* The states of any two validateers are on one chain.
ChainsAgree ==
    \A n, m \in Nodes : IsPrefix(chain[n], chain[m]) \/ IsPrefix(chain[m], chain[n])

\* So all validateers agree, those too that are not connected and fetch what they miss.
THEOREM ChainsAgreeHolds ==
    ASSUME FixedAuthorities, AuthoritiesConnected
    PROVE  TimelySafetySpec => [](failures = 0 => ChainsAgree)
<1>1. Base /\ AgreementInv => (failures = 0 => ChainsAgree)
    <2> SUFFICES ASSUME Base, AgreementInv, failures = 0, NEW n \in Nodes, NEW m \in Nodes
                 PROVE  IsPrefix(chain[n], chain[m]) \/ IsPrefix(chain[m], chain[n])
        BY DEF ChainsAgree
    <2>1. /\ chain[n] \in Seq(Data) /\ chain[m] \in Seq(Data)
          /\ Len(chain[n]) \in Nat /\ Len(chain[m]) \in Nat
          /\ chain[n] = <<>> \/ chain[n] \in broadcast
          /\ chain[m] = <<>> \/ chain[m] \in broadcast
        BY BaseFacts DEF Blocks
    <2>2. ASSUME NEW b \in Seq(Data) PROVE IsPrefix(<<>>, b)
        <3> DEFINE z == <<>>
        <3>0. z \in Seq(Data)
            BY EmptySeq
        <3>1. Len(z) = 0 /\ Len(b) \in Nat
            BY EmptySeq, LenProperties
        <3> HIDE DEF z
        <3>2. Len(z) <= Len(b) /\ \A i \in 1 .. Len(z) : z[i] = b[i]
            BY <3>1
        <3>3. IsPrefix(z, b) <=> Len(z) <= Len(b) /\ \A i \in 1 .. Len(z) : z[i] = b[i]
            BY <3>0, PrefixByPlaces
        <3> QED
            BY <3>2, <3>3 DEF z
    <2>3. CASE chain[n] \in broadcast /\ chain[m] \in broadcast
        BY <2>1, <2>3 DEF AgreementInv, Agreement, OneLine
    <2> QED
        BY <2>1, <2>2, <2>3
<1>2. TimelySafetySpec => []AgreementInv
    BY AgreementHolds
<1> QED
    BY <1>1, <1>2, BaseHolds, PTL

-----------------------------------------------------------------------------
(* Effects.                                                                *)

\* Extrinsics are sent for calls of blocks that were sent.
EffectsOfBlocks ==
    /\ \A e \in effects : e[2] \in broadcast /\ e[1] \in Top(e[2]).calls
    /\ \A n \in Nodes : phase[n] = "effects" => draft[n] \in broadcast

\* The effects of a block follow its broadcast.
LEMMA EffectsStep == Base /\ EffectsOfBlocks /\ [TimelyNext]_vars => EffectsOfBlocks'
<1> SUFFICES ASSUME Base, EffectsOfBlocks, [TimelyNext]_vars PROVE EffectsOfBlocks'
    OBVIOUS
<1>0. Mappings
    BY BaseFacts
<1>1. CASE TimelyEnvironment \/ UNCHANGED vars
    <2>1. UNCHANGED <<effects, broadcast, phase, draft>>
        BY <1>1 DEF TimelyEnvironment, TimelyTick, Tick, Finalize, SyncParentchain, TimelyDeliver,
                    Deliver, Submit, vars
    <2> QED
        BY <2>1 DEF EffectsOfBlocks
<1>2. ASSUME NEW n \in Nodes, Wake(n) \/ ProcessQueue(n) \/ NoProposal(n) \/ LoseEffects(n)
      PROVE  EffectsOfBlocks'
    <2>1. /\ UNCHANGED <<effects, broadcast>>
          /\ \A m \in Nodes : phase'[m] = "effects" => phase[m] = "effects" /\ draft'[m] = draft[m]
        BY <1>0, <1>2 DEF Wake, ProcessQueue, NoProposal, LoseEffects, Mappings
    <2> QED
        BY <2>1 DEF EffectsOfBlocks
<1>3. ASSUME NEW n \in Nodes, NEW b \in batch[n], TriesBlock(n, b) PROVE EffectsOfBlocks'
    <2>1. UNCHANGED <<broadcast, phase, draft>>
        BY <1>3, TriesOwnState
    <2>2. effects' = effects
        BY <1>3 DEF TriesBlock, IgnoreBlock, RejectBlock, VerifyFails, FetchBlocks,
                    FetchBlocksFails, ImportBlock, RefuseState, ImportBlockFails
    <2> QED
        BY <2>1, <2>2 DEF EffectsOfBlocks
<1>4. ASSUME NEW n \in Nodes, Proposes(n) PROVE EffectsOfBlocks'
    <2>1. /\ UNCHANGED <<effects, broadcast>>
          /\ phase'[n] # "effects"
          /\ \A m \in Nodes : m # n => phase'[m] = phase[m] /\ draft'[m] = draft[m]
        BY <1>0, <1>4 DEF Proposes, Propose, Mappings
    <2> QED
        BY <2>1 DEF EffectsOfBlocks
<1>5. ASSUME NEW n \in Nodes, Broadcast(n) PROVE EffectsOfBlocks'
    <2>1. /\ UNCHANGED <<effects, draft>> /\ broadcast' = broadcast \cup {draft[n]}
          /\ phase' = [phase EXCEPT ![n] = "effects"]
        BY <1>5 DEF Broadcast
    <2> QED
        BY <1>0, <2>1 DEF EffectsOfBlocks, Mappings
<1>6. ASSUME NEW n \in Nodes, SendEffects(n) PROVE EffectsOfBlocks'
    <2>1. /\ phase[n] = "effects" /\ broadcast' = broadcast
          /\ effects' = effects \cup {<<c, draft[n]>> : c \in Top(draft[n]).calls}
          /\ phase' = [phase EXCEPT ![n] = "idle"] /\ draft' = [draft EXCEPT ![n] = Genesis]
        BY <1>6 DEF SendEffects
    <2>2. draft[n] \in broadcast
        BY <2>1 DEF EffectsOfBlocks
    <2>3. \A e \in effects' : e[2] \in broadcast /\ e[1] \in Top(e[2]).calls
        BY <2>1, <2>2 DEF EffectsOfBlocks
    <2>4. \A m \in Nodes : phase'[m] = "effects" => phase[m] = "effects" /\ draft'[m] = draft[m]
        BY <1>0, <2>1 DEF Mappings
    <2> QED
        BY <2>1, <2>3, <2>4 DEF EffectsOfBlocks
<1> QED
    BY <1>1, <1>2, <1>3, <1>4, <1>5, <1>6
    DEF TimelyNext, Validateer, TriesBlock, Proposes

\* On one chain no call is in two blocks, so its effects are sent for one block only,
\* although they are sent before anybody has imported the block.
THEOREM EffectsOnceHolds ==
    ASSUME FixedAuthorities, AuthoritiesConnected
    PROVE  TimelySafetySpec => [](failures = 0 => EffectsOnce)
<1>1. Init => EffectsOfBlocks /\ Once
    BY DEF Init, EffectsOfBlocks, Once
<1>2. TimelySafetySpec => []EffectsOfBlocks
    BY <1>1, EffectsStep, BaseHolds, PTL DEF TimelySafetySpec
<1>3. TimelySafetySpec => []Once
    <2>1. Base /\ Base' /\ Once /\ [TimelyNext]_vars => Once'
        BY OnceStep, TimelyIsNext DEF Base
    <2> QED
        BY <1>1, <2>1, BaseHolds, PTL DEF TimelySafetySpec
<1>4. ASSUME Base, EffectsOfBlocks, Once, NEW b \in broadcast, NEW c \in broadcast,
             IsPrefix(b, c), NEW call \in Top(b).calls, call \in Top(c).calls
      PROVE  b = c
    <2>1. /\ b \in Seq(Data) /\ c \in Seq(Data)
          /\ Len(b) \in Nat \ {0} /\ Len(c) \in Nat \ {0}
        BY BaseFacts, <1>4 DEF Blocks
    <2>2. Len(b) <= Len(c) /\ b[Len(b)] = c[Len(b)]
        BY <1>4, <2>1, PrefixByPlaces
    <2>3. call \in c[Len(b)].calls /\ call \in c[Len(c)].calls
        BY <1>4, <2>2 DEF Top
    <2>4. Len(b) = Len(c)
        BY <1>4, <2>1, <2>2, <2>3 DEF Once, Disjoint
    <2> QED
        BY <1>4, <2>1, <2>4, PrefixOrder
<1>5. Base /\ EffectsOfBlocks /\ Once /\ (failures = 0 => NoForks) => (failures = 0 => EffectsOnce)
    <2> SUFFICES ASSUME Base, EffectsOfBlocks, Once, NoForks,
                        NEW e \in effects, NEW f \in effects, e[1] = f[1]
                 PROVE  e = f
        BY DEF EffectsOnce
    <2>1. /\ e[2] \in broadcast /\ e[1] \in Top(e[2]).calls
          /\ f[2] \in broadcast /\ f[1] \in Top(f[2]).calls
        BY DEF EffectsOfBlocks
    <2>2. IsPrefix(e[2], f[2]) \/ IsPrefix(f[2], e[2])
        BY <2>1 DEF NoForks
    <2>3. e[2] = f[2]
        BY <1>4, <2>1, <2>2
    <2>4. e \in Calls \X Seq(Data) /\ f \in Calls \X Seq(Data)
        BY DEF Base, Typed, TypeOK
    <2> QED
        BY <2>3, <2>4
<1>6. TimelySafetySpec => [](failures = 0 => NoForks)
    BY NoForksHolds
<1> QED
    BY <1>2, <1>3, <1>5, <1>6, BaseHolds, PTL

\* No state has a call twice, and the parentchain gets the effects of a call for one block.
THEOREM CallsTakeEffectOnceHolds ==
    ASSUME FixedAuthorities, AuthoritiesConnected
    PROVE  TimelySafetySpec => [](failures = 0 => CallsTakeEffectOnce)
<1>1. Init => Once
    BY DEF Init, Once
<1>2. Base /\ Base' /\ Once /\ [TimelyNext]_vars => Once'
    BY OnceStep, TimelyIsNext DEF Base
<1>3. Base /\ Once => ExecutedOnce
    BY OnceInStates DEF Base
<1>4. TimelySafetySpec => [](failures = 0 => EffectsOnce)
    BY EffectsOnceHolds
<1>5. ExecutedOnce /\ (failures = 0 => EffectsOnce) => (failures = 0 => CallsTakeEffectOnce)
    BY DEF CallsTakeEffectOnce
<1> QED
    BY <1>1, <1>2, <1>3, <1>4, <1>5, BaseHolds, PTL DEF TimelySafetySpec
=============================================================================
