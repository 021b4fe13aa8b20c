-------------------------- MODULE BlockRoundProofs --------------------------
(***************************************************************************)
(* Proofs about a block's round: the slot it is made in (SlotTiming), its  *)
(* way to the peers that confirm it (PeerNetwork), and the diff it carries *)
(* to their states (SidechainState).  For any duration of a slot, any      *)
(* shards, target parentchains, workers, keys and finalization periods,    *)
(* however long the steps take and whatever requests fail.                 *)
(***************************************************************************)
EXTENDS SlotTiming, PeerNetwork, SidechainState, FiniteSetTheorems, WellFoundedInduction, TLAPS

\* The components, each on its own.
SlotTimingSpec == SlotTimingInit /\ [][SlotTimingNext]_slotTimingVars
PeerNetworkSpec == PeerNetworkInit /\ [][PeerNetworkNext]_networkVars

-----------------------------------------------------------------------------
(* Arithmetic.                                                             *)

\* What division leaves: the quotient fits, and is the largest that does.
LEMMA Quotient ==
    ASSUME NEW a \in Nat, NEW n \in Nat \ {0}
    PROVE  /\ a \div n \in Nat
           /\ n * (a \div n) <= a
           /\ a < n * (a \div n) + n
<1>1. a = n * (a \div n) + (a % n) /\ a % n \in 0 .. n - 1 /\ a \div n \in Int
    BY SMT
<1>2. ASSUME a \div n < 0 PROVE FALSE
    <2>1. n * (a \div n) <= n * (-1)
        BY <1>1, <1>2, SMT
    <2> QED BY <1>1, <2>1, SMT
<1> QED BY <1>1, <1>2, SMT

\* A share of the whole is no more than the whole.
LEMMA QuotientFits ==
    ASSUME NEW a \in Nat, NEW n \in Nat \ {0}
    PROVE  a \div n <= a
<1> DEFINE q == a \div n
<1>1. q \in Nat /\ n * q <= a
    BY Quotient
<1> HIDE DEF q
<1>2. 1 * q <= n * q
    BY <1>1, SMT
<1>3. q <= a
    BY <1>1, <1>2, SMT
<1> QED BY <1>3 DEF q

\* Whoever needs n times m of the whole gets a share of m.
LEMMA QuotientLargest ==
    ASSUME NEW a \in Nat, NEW n \in Nat \ {0}, NEW m \in Nat, n * m <= a
    PROVE  m <= a \div n
<1> DEFINE q == a \div n
<1>1. q \in Nat /\ a < n * q + n
    BY Quotient
<1> HIDE DEF q
<1>2. ASSUME q + 1 <= m PROVE FALSE
    <2>1. n * (q + 1) <= n * m
        BY <1>1, <1>2, SMT
    <2>2. n * (q + 1) = n * q + n
        BY <1>1, SMT
    <2> QED BY <1>1, <2>1, <2>2, SMT
<1>3. m <= q
    BY <1>1, <1>2, SMT
<1> QED BY <1>3 DEF q

-----------------------------------------------------------------------------
(* The inductive invariant of SlotTiming.                                  *)

Shards == Len(SlotShards)
slot_starts_at(s) == s * SLOT_DURATION
SharesOf(n, share) == n * share

\* The slot thread is inside exec_aura_on_slot.
InRound == slotThread.at \in {"shard", "slot", "import"}

\* The slot thread is inside on_slot, for one shard.
InShard == slotThread.at \in {"slot", "import"}

ThreadForm ==
    slotThread.at = "import" =>
        slotThread = [at |-> "import", peeked |-> slotThread.peeked, todo |-> slotThread.todo,
                      slot |-> slotThread.slot, i |-> slotThread.i,
                      results |-> slotThread.results, timestamp |-> slotThread.timestamp,
                      share |-> slotThread.share, first |-> slotThread.first,
                      due |-> slotThread.due, kept |-> slotThread.kept]

TimingTyped ==
    /\ clock \in Nat /\ LAST_SLOT \in Nat
    /\ \A p \in produced : p.slot \in Nat
    /\ slotThread.at = "queue" => slotThread.timestamp \in Nat
    /\ InRound => /\ slotThread.slot \in Nat /\ slotThread.i \in 1 .. Shards + 1
                  /\ slotThread.first \in Nat /\ slotThread.due \in Nat
    /\ InShard => /\ slotThread.i \in 1 .. Shards
                  /\ slotThread.timestamp \in Nat /\ slotThread.share \in Nat
    /\ ThreadForm

\* The blocks that are out are of earlier slots than the running one.
SlotsRise ==
    /\ \A p \in produced : p.slot <= LAST_SLOT
    /\ InRound => slotThread.slot = LAST_SLOT /\ \A p \in produced : p.slot < slotThread.slot

\* The blocks of the running slot are of the shards that had their turn, one of each.
OneOfAShard ==
    InRound =>
        /\ \A r \in slotThread.results :
              /\ r.slot = slotThread.slot
              /\ \E j \in 1 .. Shards : j < slotThread.i /\ r.shard = SlotShards[j]
        /\ \A r, q \in slotThread.results : r.shard = q.shard => r = q

\* The moments of the running slot are in their order, and so are the stamps of its blocks.
InTime ==
    /\ InRound =>
          /\ slot_starts_at(slotThread.slot) <= clock
          /\ slotThread.due <= slot_ends_at(slotThread.slot)
          /\ \A r \in slotThread.results :
                /\ r.stamp \in Nat
                /\ slot_starts_at(r.slot) <= r.stamp /\ r.stamp <= slot_ends_at(r.slot)
    /\ InShard => slot_starts_at(slotThread.slot) <= slotThread.timestamp
    /\ slotThread.at = "queue" => slotThread.timestamp <= clock

\* What is left of the slot after the time of a shard is enough for those that come after it,
\* as long as each ended within its share.
EnoughLeft ==
    /\ slotThread.at = "shard" /\ slotThread.kept =>
          SharesOf(Shards + 1 - slotThread.i, slotThread.first)
              <= slot_ends_at(slotThread.slot) - slotThread.due
    /\ InShard /\ slotThread.kept => slotThread.first <= slotThread.share
    /\ InShard =>
          SharesOf(Shards - slotThread.i, slotThread.share)
              <= slot_ends_at(slotThread.slot) - slotThread.due

\* The queue of a target parentchain goes on from its head, and what was peeked is in it until
\* it is imported.
TargetsInLine ==
    /\ targetHead \in [TargetChains -> Nat] /\ targetQueue \in [TargetChains -> Seq(Nat)]
    /\ \A c \in TargetChains : \A j \in 1 .. Len(targetQueue[c]) :
          targetQueue[c][j] = targetHead[c] + j
    /\ slotThread.at = "import" =>
          \A c \in TargetChains :
             IF c \in slotThread.todo
             THEN slotThread.peeked[c] \in targetHead[c] .. targetHead[c] + Len(targetQueue[c])
             ELSE slotThread.peeked[c] = targetHead[c]

RoundInv ==
    /\ TimingTyped /\ SlotsRise /\ OneOfAShard /\ InTime /\ EnoughLeft
    /\ OneBlockASlot /\ StampWithinSlot

TimingInv == RoundInv /\ TargetsInLine

-----------------------------------------------------------------------------
(* The steps of SlotTiming: the round of the slot thread.                  *)

\* The constants, and the moments of a slot.
LEMMA Durations ==
    /\ SLOT_DURATION \in Nat \ {0} /\ Shards \in Nat \ {0}
    /\ \A s \in Nat : slot_starts_at(s) \in Nat /\ slot_ends_at(s) \in Nat
    /\ \A n, m \in Nat : SharesOf(n, m) \in Nat
<1>1. SLOT_DURATION \in Nat \ {0} /\ Shards \in Nat \ {0}
    BY SlotTimingAssumption DEF Shards
<1>2. ASSUME NEW n \in Nat, NEW m \in Nat PROVE n * m \in Nat
    BY SMT
<1>3. ASSUME NEW s \in Nat PROVE slot_starts_at(s) \in Nat /\ slot_ends_at(s) \in Nat
    <2>1. s + 1 \in Nat
        OBVIOUS
    <2>2. s * SLOT_DURATION \in Nat /\ (s + 1) * SLOT_DURATION \in Nat
        BY <1>1, <1>2, <2>1
    <2> QED BY <2>2 DEF slot_starts_at, slot_ends_at
<1> QED BY <1>1, <1>2, <1>3 DEF SharesOf

\* A moment is not before the start of its slot.
LEMMA MomentInSlot ==
    ASSUME NEW t \in Nat
    PROVE  /\ slot_from_timestamp_and_duration(t) \in Nat
           /\ slot_starts_at(slot_from_timestamp_and_duration(t)) <= t
<1>1. SLOT_DURATION \in Nat \ {0}
    BY SlotTimingAssumption
<1>2. t \div SLOT_DURATION \in Nat /\ SLOT_DURATION * (t \div SLOT_DURATION) <= t
    BY <1>1, Quotient
<1>3. \A a, b \in Nat : a * b = b * a
    BY SMT
<1> QED BY <1>1, <1>2, <1>3 DEF slot_from_timestamp_and_duration, slot_starts_at

\* The share of a shard: it fits into what is left of the slot, leaves the others theirs, and is
\* what all that is left is enough for.
LEMMA ShareOfShard ==
    ASSUME NEW s \in Nat, NEW i \in 1 .. Shards, NEW now \in Nat,
           shard_remaining_duration(s, i, now) > 0
    PROVE  LET share == shard_remaining_duration(s, i, now) IN
           /\ share \in Nat /\ now <= slot_ends_at(s)
           /\ now + share <= slot_ends_at(s)
           /\ SharesOf(Shards - i, share) <= slot_ends_at(s) - (now + share)
           /\ \A m \in Nat : SharesOf(Shards + 1 - i, m) <= slot_ends_at(s) - now => m <= share
<1> DEFINE ends == slot_ends_at(s)
           left == ends - now
           n == Shards + 1 - i
           share == left \div n
<1>1. ends \in Nat /\ Shards \in Nat \ {0}
    BY Durations
<1> HIDE DEF ends
<1>2. now <= ends
    BY <1>1 DEF shard_remaining_duration, ends
<1>3. left \in Nat /\ n \in Nat \ {0}
    BY <1>1, <1>2
<1>4. Shards - i + 1 = n
    BY <1>1
<1>5. shard_remaining_duration(s, i, now) = share
    BY <1>1, <1>2, <1>4 DEF shard_remaining_duration, Shards, ends
<1> HIDE DEF left, n
<1>6. /\ share \in Nat /\ share <= left /\ n * share <= left
      /\ \A m \in Nat : n * m <= left => m <= share
    BY <1>3, Quotient, QuotientFits, QuotientLargest
<1> HIDE DEF share
<1>7. (n - 1) * share = n * share - share
    BY <1>3, <1>6, SMT
<1>8. n * share \in Nat
    BY <1>3, <1>6, SMT
<1>9. n - 1 = Shards - i /\ left = ends - now
    BY <1>1 DEF n, left
<1>10. now + share <= ends
    BY <1>1, <1>6, <1>9
<1>11. SharesOf(Shards - i, share) <= ends - (now + share)
    <2>1. n * share - share <= left - share
        BY <1>3, <1>6, <1>8
    <2>2. SharesOf(Shards - i, share) = n * share - share
        BY <1>7, <1>9 DEF SharesOf
    <2>3. left - share = ends - (now + share)
        BY <1>1, <1>6, <1>9
    <2> QED BY <2>1, <2>2, <2>3
<1>12. \A m \in Nat : SharesOf(Shards + 1 - i, m) <= ends - now => m <= share
    BY <1>6, <1>9 DEF SharesOf, n
<1> QED BY <1>2, <1>5, <1>6, <1>10, <1>11, <1>12 DEF ends

\* Time passes, or something else moves.
LEMMA TimePasses ==
    ASSUME RoundInv, UNCHANGED <<slotThread, LAST_SLOT, produced>>, clock' \in Nat, clock <= clock'
    PROVE  RoundInv'
<1>1. TimingTyped'
    BY DEF RoundInv, TimingTyped, ThreadForm, InRound, InShard
<1>2. SlotsRise' /\ OneOfAShard' /\ EnoughLeft' /\ OneBlockASlot' /\ StampWithinSlot'
    BY DEF RoundInv, SlotsRise, OneOfAShard, EnoughLeft, OneBlockASlot, StampWithinSlot,
           InRound, InShard
<1>3. InTime'
    <2>1. ASSUME NEW x \in Int, x <= clock PROVE x <= clock'
        BY <2>1 DEF RoundInv, TimingTyped
    <2>2. ASSUME InRound PROVE slot_starts_at(slotThread.slot) <= clock'
        <3>1. slot_starts_at(slotThread.slot) \in Nat /\ slot_starts_at(slotThread.slot) <= clock
            BY <2>2, Durations DEF RoundInv, TimingTyped, InTime
        <3> QED BY <2>1, <3>1
    <2>3. ASSUME slotThread.at = "queue" PROVE slotThread.timestamp <= clock'
        <3>1. slotThread.timestamp \in Nat /\ slotThread.timestamp <= clock
            BY <2>3 DEF RoundInv, TimingTyped, InTime
        <3> QED BY <2>1, <3>1
    <2> QED BY <2>2, <2>3 DEF RoundInv, InTime, InRound, InShard
<1> QED BY <1>1, <1>2, <1>3 DEF RoundInv

\* Outside of a round the slot thread has nothing but the moment it read.
LEMMA OutsideRound ==
    ASSUME RoundInv, UNCHANGED <<clock, produced>>, LAST_SLOT' \in Nat, LAST_SLOT <= LAST_SLOT',
           slotThread'.at \in {"dormant", "ecall", "queue"},
           slotThread'.at = "queue" => slotThread'.timestamp = clock
    PROVE  RoundInv'
<1>1. ~InRound' /\ ~InShard' /\ slotThread'.at # "import" /\ slotThread'.at # "shard"
    BY DEF InRound, InShard
<1>2. TimingTyped'
    BY <1>1 DEF RoundInv, TimingTyped, ThreadForm
<1>3. SlotsRise'
    BY <1>1 DEF RoundInv, SlotsRise, TimingTyped
<1>4. OneOfAShard' /\ EnoughLeft'
    BY <1>1 DEF OneOfAShard, EnoughLeft
<1>5. InTime'
    BY <1>1 DEF RoundInv, InTime, TimingTyped
<1>6. OneBlockASlot' /\ StampWithinSlot'
    BY DEF RoundInv, OneBlockASlot, StampWithinSlot
<1> QED BY <1>2, <1>3, <1>4, <1>5, <1>6 DEF RoundInv

\* A round begins in a slot later than all before, and not before the slot does.
LEMMA YieldStep ==
    ASSUME RoundInv, yield_next_slot
    PROVE  RoundInv'
<1> DEFINE s == slot_from_timestamp_and_duration(slotThread.timestamp)
<1>1. slotThread.at = "queue" /\ slotThread.timestamp \in Nat /\ slotThread.timestamp <= clock
    BY DEF yield_next_slot, RoundInv, TimingTyped, InTime
<1>2. s \in Nat /\ slot_starts_at(s) <= slotThread.timestamp
    BY <1>1, MomentInSlot
<1>3. clock \in Nat /\ LAST_SLOT \in Nat /\ slot_starts_at(s) \in Nat /\ slot_ends_at(s) \in Nat
    BY <1>2, Durations DEF RoundInv, TimingTyped
<1>4. /\ UNCHANGED <<clock, produced>>
      /\ LAST_SLOT' = IF s <= LAST_SLOT THEN LAST_SLOT ELSE s
      /\ slotThread' = IF ~(s <= LAST_SLOT) /\ clock < slot_ends_at(s)
                       THEN exec_aura_on_slot(s) ELSE Dormant
    BY DEF yield_next_slot, SlotOver
<1> HIDE DEF s
<1>5. LAST_SLOT' \in Nat /\ LAST_SLOT <= LAST_SLOT'
    BY <1>2, <1>3, <1>4
<1>6. CASE slotThread' = Dormant
    <2>1. slotThread'.at = "dormant"
        BY <1>6 DEF Dormant
    <2> QED BY <1>4, <1>5, <2>1, OutsideRound
<1>7. CASE ~(s <= LAST_SLOT) /\ slotThread' = exec_aura_on_slot(s)
    <2>1. /\ slotThread'.at = "shard" /\ slotThread'.slot = s /\ slotThread'.i = 1
          /\ slotThread'.results = {} /\ slotThread'.first = 0
          /\ slotThread'.due = slot_ends_at(s)
        BY <1>7 DEF exec_aura_on_slot
    <2>2. InRound' /\ ~InShard' /\ LAST_SLOT' = s
        BY <1>4, <1>7, <2>1 DEF InRound, InShard
    <2>3. slotThread'.i \in 1 .. Shards + 1
        BY <2>1, Durations
    <2>4. TimingTyped'
        BY <1>2, <1>3, <1>4, <2>1, <2>2, <2>3 DEF RoundInv, TimingTyped, ThreadForm
    <2>5. SlotsRise'
        BY <1>2, <1>3, <1>4, <1>7, <2>1, <2>2 DEF RoundInv, SlotsRise, TimingTyped
    <2>6. OneOfAShard'
        BY <2>1 DEF OneOfAShard
    <2>7. InTime'
        <3>1. slot_starts_at(s) <= clock
            BY <1>1, <1>2, <1>3
        <3> QED BY <1>3, <1>4, <2>1, <2>2, <3>1 DEF InTime
    <2>8. EnoughLeft'
        <3>1. SharesOf(Shards + 1 - 1, 0) = 0
            BY Durations DEF SharesOf
        <3> QED BY <1>3, <2>1, <2>2, <3>1 DEF EnoughLeft
    <2>9. OneBlockASlot' /\ StampWithinSlot'
        BY <1>4 DEF RoundInv, OneBlockASlot, StampWithinSlot
    <2> QED BY <2>4, <2>5, <2>6, <2>7, <2>8, <2>9 DEF RoundInv
<1> QED BY <1>4, <1>6, <1>7

\* The blocks of a round are broadcast: the first ones of their slot.
LEMMA SendBlocksStep ==
    ASSUME RoundInv, send_blocks
    PROVE  RoundInv'
<1>1. /\ slotThread.at = "shard" /\ InRound /\ slotThread'.at = "dormant"
      /\ produced' = produced \cup slotThread.results
      /\ UNCHANGED <<clock, LAST_SLOT>>
    BY DEF send_blocks, Dormant, InRound
<1>2. ~InRound' /\ ~InShard'
    BY <1>1 DEF InRound, InShard
<1>3. /\ slotThread.slot \in Nat /\ slotThread.slot = LAST_SLOT
      /\ \A r \in slotThread.results : r.slot = slotThread.slot
      /\ \A p \in produced : p.slot \in Nat /\ p.slot < slotThread.slot
    BY <1>1 DEF RoundInv, TimingTyped, SlotsRise, OneOfAShard
<1>4. TimingTyped'
    BY <1>1, <1>2, <1>3 DEF RoundInv, TimingTyped, ThreadForm
<1>5. SlotsRise'
    BY <1>1, <1>2, <1>3 DEF RoundInv, SlotsRise
<1>6. OneOfAShard' /\ EnoughLeft' /\ InTime'
    BY <1>1, <1>2 DEF OneOfAShard, EnoughLeft, InTime
<1>7. OneBlockASlot'
    <2>1. ASSUME NEW p \in produced, NEW r \in slotThread.results PROVE p.slot # r.slot
        BY <1>3
    <2>2. \A r, q \in slotThread.results : r.shard = q.shard => r = q
        BY <1>1 DEF RoundInv, OneOfAShard
    <2> QED BY <1>1, <2>1, <2>2 DEF RoundInv, OneBlockASlot
<1>8. StampWithinSlot'
    <2>1. \A r \in slotThread.results :
             slot_starts_at(r.slot) <= r.stamp /\ r.stamp <= slot_ends_at(r.slot)
        BY <1>1 DEF RoundInv, InTime
    <2> QED BY <1>1, <2>1 DEF RoundInv, StampWithinSlot, slot_starts_at
<1> QED BY <1>4, <1>5, <1>6, <1>7, <1>8 DEF RoundInv

\* A shard gets its share; as long as the ones before it kept theirs, no less than the first.
LEMMA OnShardSlotStep ==
    ASSUME RoundInv, on_shard_slot
    PROVE  RoundInv'
<1> DEFINE s == slotThread.slot
           i == slotThread.i
           share == shard_remaining_duration(s, i, clock)
           ends == slot_ends_at(s)
<1>1. slotThread.at = "shard" /\ InRound
    BY DEF on_shard_slot, InRound
<1>2. s \in Nat /\ i \in 1 .. Shards /\ clock \in Nat /\ Shards \in Nat
    <2>1. i <= Shards
        BY DEF on_shard_slot, Shards
    <2>2. s \in Nat /\ i \in 1 .. Shards + 1 /\ clock \in Nat
        BY <1>1 DEF RoundInv, TimingTyped
    <2>3. Shards \in Nat
        BY Durations
    <2> QED BY <2>1, <2>2, <2>3
<1>3. slotThread.due \in Nat /\ slotThread.first \in Nat /\ ends \in Nat
    BY <1>1, <1>2, Durations DEF RoundInv, TimingTyped
<1>4. share > 0
    BY DEF on_shard_slot
<1>5. /\ share \in Nat /\ clock <= ends /\ clock + share <= ends
      /\ SharesOf(Shards - i, share) <= ends - (clock + share)
      /\ \A m \in Nat : SharesOf(Shards + 1 - i, m) <= ends - clock => m <= share
    BY <1>2, <1>4, ShareOfShard
<1>6. /\ UNCHANGED <<clock, LAST_SLOT, produced>>
      /\ slotThread'.at = "slot" /\ slotThread'.slot = s /\ slotThread'.i = i
      /\ slotThread'.results = slotThread.results /\ slotThread'.timestamp = clock
      /\ slotThread'.share = share /\ slotThread'.due = clock + share
      /\ slotThread'.first = (IF i = 1 THEN share ELSE slotThread.first)
      /\ slotThread'.kept <=> (slotThread.kept /\ clock <= slotThread.due)
    BY DEF on_shard_slot
<1> HIDE DEF share, ends
<1>7. InRound' /\ InShard' /\ slotThread'.at # "shard" /\ slotThread'.at # "import"
    BY <1>6 DEF InRound, InShard
<1>8. TimingTyped'
    <2>1. i \in 1 .. Shards + 1 /\ slotThread'.first \in Nat /\ clock + share \in Nat
        BY <1>2, <1>3, <1>5, <1>6
    <2> QED BY <1>2, <1>5, <1>6, <1>7, <2>1 DEF RoundInv, TimingTyped, ThreadForm
<1>9. SlotsRise' /\ OneOfAShard'
    BY <1>1, <1>6, <1>7 DEF RoundInv, SlotsRise, OneOfAShard
<1>10. InTime'
    BY <1>1, <1>5, <1>6, <1>7 DEF RoundInv, InTime, ends
<1>11. EnoughLeft'
    <2>1. ASSUME slotThread'.kept PROVE slotThread'.first <= share
        <3>1. slotThread.kept /\ clock <= slotThread.due
            BY <1>6, <2>1
        <3>2. CASE i = 1
            BY <1>5, <1>6, <3>2
        <3>3. CASE i # 1
            <4>1. SharesOf(Shards + 1 - i, slotThread.first) <= ends - slotThread.due
                BY <1>1, <3>1 DEF RoundInv, EnoughLeft, ends
            <4>2. SharesOf(Shards + 1 - i, slotThread.first) \in Nat
                <5>1. Shards + 1 - i \in Nat
                    BY <1>2
                <5> QED BY <1>3, <5>1, Durations
            <4>3. SharesOf(Shards + 1 - i, slotThread.first) <= ends - clock
                BY <1>2, <1>3, <3>1, <4>1, <4>2
            <4>4. slotThread.first <= share
                BY <1>3, <1>5, <4>3
            <4> QED BY <1>6, <3>3, <4>4
        <3> QED BY <3>2, <3>3
    <2> QED BY <1>5, <1>6, <1>7, <2>1 DEF EnoughLeft, ends
<1>12. OneBlockASlot' /\ StampWithinSlot'
    BY <1>6 DEF RoundInv, OneBlockASlot, StampWithinSlot
<1> QED BY <1>8, <1>9, <1>10, <1>11, <1>12 DEF RoundInv

\* Inside on_slot the times of the shard stay.
LEMMA SameShard ==
    ASSUME RoundInv, InShard, UNCHANGED <<clock, LAST_SLOT, produced>>,
           slotThread'.at = "import", ThreadForm',
           slotThread'.slot = slotThread.slot, slotThread'.i = slotThread.i,
           slotThread'.results = slotThread.results, slotThread'.timestamp = slotThread.timestamp,
           slotThread'.share = slotThread.share, slotThread'.first = slotThread.first,
           slotThread'.due = slotThread.due, slotThread'.kept = slotThread.kept
    PROVE  RoundInv'
<1>1. InRound /\ InRound' /\ InShard' /\ slotThread'.at # "shard" /\ slotThread'.at # "queue"
    BY DEF InRound, InShard
<1>2. TimingTyped'
    BY <1>1 DEF RoundInv, TimingTyped
<1>3. SlotsRise' /\ OneOfAShard' /\ InTime' /\ EnoughLeft'
    BY <1>1 DEF RoundInv, SlotsRise, OneOfAShard, InTime, EnoughLeft
<1>4. OneBlockASlot' /\ StampWithinSlot'
    BY DEF RoundInv, OneBlockASlot, StampWithinSlot
<1> QED BY <1>2, <1>3, <1>4 DEF RoundInv

\* The turn of the next shard: what is left is enough for it and those after it.
LEMMA NextShardStep ==
    ASSUME RoundInv, InShard, UNCHANGED <<clock, LAST_SLOT, produced>>, NEW R,
           slotThread' = NextShard(R),
           \A r \in R \ slotThread.results :
              /\ r.slot = slotThread.slot /\ r.shard = SlotShards[slotThread.i]
              /\ r.stamp \in Nat
              /\ slot_starts_at(r.slot) <= r.stamp /\ r.stamp <= slot_ends_at(r.slot),
           \A r, q \in R \ slotThread.results : r = q
    PROVE  RoundInv'
<1> DEFINE i == slotThread.i
<1>1. InRound
    BY DEF InRound, InShard
<1>2. /\ slotThread'.at = "shard" /\ slotThread'.slot = slotThread.slot /\ slotThread'.i = i + 1
      /\ slotThread'.results = R /\ slotThread'.first = slotThread.first
      /\ slotThread'.due = slotThread.due /\ slotThread'.kept = slotThread.kept
    BY DEF NextShard
<1>3. InRound' /\ ~InShard' /\ slotThread'.at # "import" /\ slotThread'.at # "queue"
    BY <1>2 DEF InRound, InShard
<1>4. /\ slotThread.slot \in Nat /\ i \in 1 .. Shards /\ slotThread.first \in Nat
      /\ slotThread.due \in Nat /\ slotThread.share \in Nat /\ Shards \in Nat
    BY <1>1, Durations DEF RoundInv, TimingTyped
<1>5. TimingTyped'
    BY <1>2, <1>3, <1>4 DEF RoundInv, TimingTyped, ThreadForm
<1>6. SlotsRise'
    BY <1>1, <1>2, <1>3 DEF RoundInv, SlotsRise
<1>7. OneOfAShard'
    <2>1. ASSUME NEW r \in R
          PROVE  /\ r.slot = slotThread.slot
                 /\ \E j \in 1 .. Shards : j < i + 1 /\ r.shard = SlotShards[j]
        <3>1. CASE r \in slotThread.results
            <4>1. PICK j \in 1 .. Shards : j < i /\ r.shard = SlotShards[j]
                BY <1>1, <3>1 DEF RoundInv, OneOfAShard
            <4>2. j < i + 1
                BY <1>4, <4>1
            <4> QED BY <1>1, <3>1, <4>1, <4>2 DEF RoundInv, OneOfAShard
        <3>2. CASE r \notin slotThread.results
            <4>1. i < i + 1
                BY <1>4
            <4> QED BY <1>4, <3>2, <4>1
        <3> QED BY <3>1, <3>2
    <2>2. ASSUME NEW r \in R, NEW q \in R, r.shard = q.shard PROVE r = q
        <3>1. ASSUME NEW x \in slotThread.results, NEW y \in R \ slotThread.results
              PROVE  x.shard # y.shard
            <4>1. PICK j \in 1 .. Shards : j < i /\ x.shard = SlotShards[j]
                BY <1>1 DEF RoundInv, OneOfAShard
            <4>2. SlotShards[j] # SlotShards[i]
                BY <1>4, <4>1, SlotTimingAssumption DEF Shards
            <4> QED BY <4>1, <4>2
        <3> QED BY <1>1, <2>2, <3>1 DEF RoundInv, OneOfAShard
    <2> QED BY <1>2, <1>3, <2>1, <2>2 DEF OneOfAShard
<1>8. InTime'
    BY <1>1, <1>2, <1>3 DEF RoundInv, InTime
<1>9. EnoughLeft'
    <2>1. ASSUME slotThread.kept
          PROVE  SharesOf(Shards + 1 - (i + 1), slotThread.first)
                     <= slot_ends_at(slotThread.slot) - slotThread.due
        <3>1. slotThread.first <= slotThread.share
            BY <2>1 DEF RoundInv, EnoughLeft
        <3>2. SharesOf(Shards - i, slotThread.share)
                  <= slot_ends_at(slotThread.slot) - slotThread.due
            BY DEF RoundInv, EnoughLeft
        <3>3. ASSUME NEW n \in Nat, NEW x \in Nat, NEW y \in Nat, x <= y
              PROVE  n * x \in Nat /\ n * y \in Nat /\ n * x <= n * y
            BY <3>3, SMT
        <3>4. Shards + 1 - (i + 1) = Shards - i /\ Shards - i \in Nat
            BY <1>4
        <3>5. /\ SharesOf(Shards - i, slotThread.first) <= SharesOf(Shards - i, slotThread.share)
              /\ SharesOf(Shards - i, slotThread.first) \in Nat
              /\ SharesOf(Shards - i, slotThread.share) \in Nat
            BY <1>4, <3>1, <3>3, <3>4 DEF SharesOf
        <3>6. slot_ends_at(slotThread.slot) \in Nat
            BY <1>4, Durations
        <3> QED BY <1>4, <3>2, <3>4, <3>5, <3>6
    <2> QED BY <1>2, <1>3, <2>1 DEF EnoughLeft
<1>10. OneBlockASlot' /\ StampWithinSlot'
    BY DEF RoundInv, OneBlockASlot, StampWithinSlot
<1> QED BY <1>5, <1>6, <1>7, <1>8, <1>9, <1>10 DEF RoundInv

\* Every step keeps the round in order.
LEMMA RoundStep ==
    RoundInv /\ [SlotTimingNext]_slotTimingVars => RoundInv'
<1> SUFFICES ASSUME RoundInv, [SlotTimingNext]_slotTimingVars PROVE RoundInv'
    OBVIOUS
<1>1. clock \in Nat /\ LAST_SLOT \in Nat
    BY DEF RoundInv, TimingTyped
<1>2. CASE UNCHANGED slotTimingVars
    BY <1>1, <1>2, TimePasses DEF slotTimingVars
<1>3. CASE Ticks
    BY <1>1, <1>3, TimePasses DEF Ticks
<1>4. ASSUME NEW c \in TargetChains, push_target_block(c) PROVE RoundInv'
    BY <1>1, <1>4, TimePasses DEF push_target_block
<1>5. CASE next_slot
    BY <1>1, <1>5, OutsideRound DEF next_slot
<1>6. CASE execute_top_pool_trusted_calls
    BY <1>1, <1>6, OutsideRound DEF execute_top_pool_trusted_calls
<1>7. CASE yield_next_slot
    BY <1>7, YieldStep
<1>8. CASE send_blocks
    BY <1>8, SendBlocksStep
<1>9. CASE on_shard_slot
    BY <1>9, OnShardSlotStep
<1>10. CASE no_claim
    <2>1. InShard /\ slotThread' = NextShard(slotThread.results)
        BY <1>10 DEF no_claim, InShard
    <2> QED BY <1>10, <2>1, NextShardStep DEF no_claim
<1>11. CASE peek_and_claim
    <2>1. InShard
        BY <1>11 DEF peek_and_claim, InShard
    <2>2. ThreadForm'
        BY <1>11 DEF peek_and_claim, ThreadForm
    <2> QED BY <1>11, <2>1, <2>2, SameShard DEF peek_and_claim
<1>12. ASSUME NEW c \in TargetChains, import_until(c) PROVE RoundInv'
    <2>1. /\ InShard /\ slotThread.at = "import"
          /\ slotThread' = [slotThread EXCEPT !.todo = @ \ {c}]
        BY <1>12 DEF import_until, InShard
    <2>2. slotThread = [at |-> "import", peeked |-> slotThread.peeked, todo |-> slotThread.todo,
                        slot |-> slotThread.slot, i |-> slotThread.i,
                        results |-> slotThread.results, timestamp |-> slotThread.timestamp,
                        share |-> slotThread.share, first |-> slotThread.first,
                        due |-> slotThread.due, kept |-> slotThread.kept]
        BY <2>1 DEF RoundInv, TimingTyped, ThreadForm
    <2>3. slotThread' = [at |-> "import", peeked |-> slotThread.peeked,
                         todo |-> slotThread.todo \ {c},
                         slot |-> slotThread.slot, i |-> slotThread.i,
                         results |-> slotThread.results, timestamp |-> slotThread.timestamp,
                         share |-> slotThread.share, first |-> slotThread.first,
                         due |-> slotThread.due, kept |-> slotThread.kept]
        BY <2>1, <2>2
    <2>4. ThreadForm'
        BY <2>3 DEF ThreadForm
    <2> QED BY <1>12, <2>1, <2>3, <2>4, SameShard DEF import_until
<1>13. CASE propose_in_slot
    <2> DEFINE block == [slot |-> slotThread.slot, stamp |-> clock,
                         shard |-> SlotShards[slotThread.i]]
    <2>1. InShard /\ InRound
        BY <1>13 DEF propose_in_slot, InShard, InRound
    <2>2. PICK R : /\ slotThread' = NextShard(R)
                   /\ \/ R = slotThread.results
                      \/ R = slotThread.results \cup {block} /\ stamp_within_slot(slotThread, clock)
        BY <1>13 DEF propose_in_slot
    <2>3. UNCHANGED <<clock, LAST_SLOT, produced>>
        BY <1>13 DEF propose_in_slot
    <2>4. CASE R = slotThread.results
        BY <2>1, <2>2, <2>3, <2>4, NextShardStep
    <2>5. CASE R = slotThread.results \cup {block} /\ stamp_within_slot(slotThread, clock)
        <3>1. /\ block.slot = slotThread.slot /\ block.stamp = clock
              /\ block.shard = SlotShards[slotThread.i]
            OBVIOUS
        <3> HIDE DEF block
        <3>2. /\ slotThread.slot \in Nat /\ slotThread.due \in Nat /\ slotThread.timestamp \in Nat
              /\ slotThread.due <= slot_ends_at(slotThread.slot)
              /\ slot_starts_at(slotThread.slot) <= slotThread.timestamp
            BY <2>1 DEF RoundInv, TimingTyped, InTime
        <3>3. slot_starts_at(slotThread.slot) \in Nat /\ slot_ends_at(slotThread.slot) \in Nat
            BY <3>2, Durations
        <3>4. slot_starts_at(slotThread.slot) <= clock /\ clock <= slot_ends_at(slotThread.slot)
            BY <1>1, <2>5, <3>2, <3>3 DEF stamp_within_slot
        <3>5. R \ slotThread.results \subseteq {block}
            BY <2>5
        <3> QED BY <1>1, <2>1, <2>2, <2>3, <3>1, <3>4, <3>5, NextShardStep
    <2> QED BY <2>2, <2>4, <2>5
<1> QED BY <1>2, <1>3, <1>4, <1>5, <1>6, <1>7, <1>8, <1>9, <1>10, <1>11, <1>12, <1>13
    DEF SlotTimingNext

-----------------------------------------------------------------------------
(* The steps of SlotTiming: the target parentchains.                       *)

\* pop_until of the queue: from what was peeked, the blocks up to it, however many came after.
LEMMA PopUntil ==
    ASSUME NEW h \in Nat, NEW q \in Seq(Nat), \A j \in 1 .. Len(q) : q[j] = h + j,
           NEW k \in 0 .. Len(q)
    PROVE  LET popped == pop_target_blocks(q, h + k) IN
           /\ Len(popped) = k
           /\ k > 0 => popped # <<>> /\ popped[Len(popped)] = h + k
           /\ k = 0 => popped = <<>>
<1>1. DOMAIN q = 1 .. Len(q) /\ Len(q) \in Nat
    OBVIOUS
<1>2. CASE k = 0
    <2>1. ~ \E i \in DOMAIN q : q[i] = h + k
        BY <1>1, <1>2
    <2>2. pop_target_blocks(q, h + k) = <<>>
        BY <2>1 DEF pop_target_blocks
    <2> QED BY <1>2, <2>2
<1>3. CASE k > 0
    <2>1. k \in DOMAIN q /\ q[k] = h + k /\ \A i \in DOMAIN q : q[i] = h + k => i = k
        BY <1>1, <1>3
    <2>2. (CHOOSE i \in DOMAIN q : q[i] = h + k) = k
        BY <2>1
    <2>3. pop_target_blocks(q, h + k) = SubSeq(q, 1, k)
        BY <2>1, <2>2 DEF pop_target_blocks
    <2>4. Len(SubSeq(q, 1, k)) = k /\ SubSeq(q, 1, k)[k] = q[k]
        BY <1>1, <1>3
    <2>5. SubSeq(q, 1, k) # <<>>
        <3>1. k # 0
            BY <1>3
        <3>2. ASSUME NEW s, s = <<>> PROVE Len(s) = 0
            BY <3>2
        <3> QED BY <2>4, <3>1, <3>2, Zenon
    <2> QED BY <1>3, <2>1, <2>3, <2>4, <2>5
<1> QED BY <1>2, <1>3

\* What an action must show that leaves the target parentchains alone.
LEMMA TargetsStay ==
    ASSUME TargetsInLine, UNCHANGED <<targetHead, targetQueue>>,
           slotThread'.at = "import" => slotThread' = slotThread
    PROVE  TargetsInLine'
BY DEF TargetsInLine

\* Every step keeps the target parentchains in line.
LEMMA TargetsStep ==
    RoundInv /\ TargetsInLine /\ [SlotTimingNext]_slotTimingVars => TargetsInLine'
<1> SUFFICES ASSUME RoundInv, TargetsInLine, [SlotTimingNext]_slotTimingVars PROVE TargetsInLine'
    OBVIOUS
<1>1. CASE UNCHANGED slotTimingVars \/ Ticks
    BY <1>1, TargetsStay DEF slotTimingVars, Ticks
<1>2. CASE next_slot
    BY <1>2, TargetsStay DEF next_slot
<1>3. CASE execute_top_pool_trusted_calls
    BY <1>3, TargetsStay DEF execute_top_pool_trusted_calls
<1>4. CASE yield_next_slot
    <2>1. slotThread'.at \in {"shard", "dormant"}
        BY <1>4 DEF yield_next_slot, exec_aura_on_slot, Dormant
    <2> QED BY <1>4, <2>1, TargetsStay DEF yield_next_slot
<1>5. CASE send_blocks
    BY <1>5, TargetsStay DEF send_blocks, Dormant
<1>6. CASE on_shard_slot
    BY <1>6, TargetsStay DEF on_shard_slot
<1>7. CASE no_claim
    BY <1>7, TargetsStay DEF no_claim, NextShard
<1>8. CASE propose_in_slot
    <2>1. slotThread'.at = "shard"
        BY <1>8 DEF propose_in_slot, NextShard
    <2> QED BY <1>8, <2>1, TargetsStay DEF propose_in_slot
<1>9. CASE peek_and_claim
    <2>1. /\ UNCHANGED <<targetHead, targetQueue>>
          /\ slotThread'.todo = TargetChains
          /\ \A c \in TargetChains : slotThread'.peeked[c] = peek_latest_header(c)
        BY <1>9 DEF peek_and_claim
    <2>2. ASSUME NEW c \in TargetChains
          PROVE  peek_latest_header(c) \in targetHead[c] .. targetHead[c] + Len(targetQueue[c])
        <3> DEFINE q == targetQueue[c]
        <3>1. q \in Seq(Nat) /\ Len(q) \in Nat /\ targetHead[c] \in Nat
            BY DEF TargetsInLine
        <3>2. CASE q = <<>>
            <4>1. peek_latest_header(c) = targetHead[c]
                BY <3>2 DEF peek_latest_header, peek_latest
            <4> QED BY <3>1, <4>1
        <3>3. CASE q # <<>>
            <4>1. peek_latest(q) = {q[Len(q)]} /\ peek_latest(q) # {}
                BY <3>3 DEF peek_latest
            <4>2. peek_latest_header(c) = q[Len(q)]
                BY <4>1 DEF peek_latest_header
            <4>3. Len(q) \in 1 .. Len(q)
                BY <3>1, <3>3
            <4>4. q[Len(q)] = targetHead[c] + Len(q)
                BY <4>3 DEF TargetsInLine
            <4> QED BY <3>1, <4>2, <4>4
        <3> QED BY <3>2, <3>3
    <2> QED BY <2>1, <2>2 DEF TargetsInLine
<1>10. ASSUME NEW c \in TargetChains, push_target_block(c) PROVE TargetsInLine'
    <2> DEFINE q == targetQueue[c]
               h == targetHead[c]
               known == IF q = <<>> THEN h ELSE q[Len(q)]
    <2>1. /\ UNCHANGED <<targetHead, slotThread>>
          /\ targetQueue' = [targetQueue EXCEPT ![c] = Append(q, known + 1)]
        BY <1>10 DEF push_target_block
    <2>2. q \in Seq(Nat) /\ Len(q) \in Nat /\ h \in Nat
        BY DEF TargetsInLine
    <2>3. known = h + Len(q)
        <3>1. CASE q = <<>>
            BY <2>2, <3>1
        <3>2. CASE q # <<>>
            <4>1. Len(q) \in 1 .. Len(q)
                BY <2>2, <3>2
            <4> QED BY <3>2, <4>1 DEF TargetsInLine
        <3> QED BY <3>1, <3>2
    <2> DEFINE r == Append(q, h + Len(q) + 1)
    <2>4. r \in Seq(Nat) /\ Len(r) = Len(q) + 1
        BY <2>2
    <2>5. \A j \in 1 .. Len(r) : r[j] = h + j
        <3>1. \A j \in 1 .. Len(q) : q[j] = h + j
            BY DEF TargetsInLine
        <3>2. ASSUME NEW j \in 1 .. Len(r) PROVE r[j] = h + j
            <4>1. CASE j = Len(q) + 1
                <5>1. \A s \in Seq(Nat) : \A n \in Nat : Append(s, n)[Len(s) + 1] = n
                    OBVIOUS
                <5>2. h + Len(q) + 1 \in Nat
                    BY <2>2
                <5>3. r[Len(q) + 1] = h + Len(q) + 1
                    BY <2>2, <5>1, <5>2
                <5> QED BY <2>2, <4>1, <5>3
            <4>2. CASE j # Len(q) + 1
                <5>1. j \in 1 .. Len(q)
                    BY <2>2, <2>4, <3>2, <4>2
                <5> QED BY <2>2, <3>1, <5>1
            <4> QED BY <4>1, <4>2
        <3> QED BY <3>2
    <2>6. targetQueue' = [targetQueue EXCEPT ![c] = r]
        BY <2>1, <2>3
    <2> HIDE DEF r, known
    <2>7. /\ targetQueue' \in [TargetChains -> Seq(Nat)] /\ targetQueue'[c] = r
          /\ \A d \in TargetChains \ {c} : targetQueue'[d] = targetQueue[d]
        BY <2>4, <2>6 DEF TargetsInLine
    <2>8. \A d \in TargetChains : \A j \in 1 .. Len(targetQueue'[d]) :
              targetQueue'[d][j] = targetHead[d] + j
        BY <2>5, <2>7 DEF TargetsInLine
    <2>9. ASSUME slotThread.at = "import", NEW d \in TargetChains
          PROVE  IF d \in slotThread.todo
                 THEN slotThread.peeked[d] \in targetHead[d] .. targetHead[d] + Len(targetQueue'[d])
                 ELSE slotThread.peeked[d] = targetHead[d]
        <3>1. CASE d # c
            BY <2>7, <2>9, <3>1 DEF TargetsInLine
        <3>2. CASE d = c /\ d \in slotThread.todo
            <4>1. slotThread.peeked[c] \in h .. h + Len(q)
                BY <2>9, <3>2 DEF TargetsInLine
            <4>2. slotThread.peeked[c] \in h .. h + Len(r)
                BY <2>2, <2>4, <4>1
            <4> QED BY <2>7, <3>2, <4>2
        <3>3. CASE d \notin slotThread.todo
            BY <2>9, <3>3 DEF TargetsInLine
        <3> QED BY <3>1, <3>2, <3>3
    <2> QED BY <2>1, <2>7, <2>8, <2>9 DEF TargetsInLine
<1>11. ASSUME NEW c \in TargetChains, import_until(c) PROVE TargetsInLine'
    <2> DEFINE q == targetQueue[c]
               h == targetHead[c]
               k == slotThread.peeked[c] - h
               popped == pop_target_blocks(q, slotThread.peeked[c])
               r == SubSeq(q, k + 1, Len(q))
    <2>1. /\ slotThread.at = "import" /\ c \in slotThread.todo
          /\ targetQueue' = [targetQueue EXCEPT ![c] = SubSeq(q, Len(popped) + 1, Len(q))]
          /\ targetHead' = [targetHead EXCEPT ![c] =
                               IF popped = <<>> THEN h ELSE popped[Len(popped)]]
          /\ slotThread' = [slotThread EXCEPT !.todo = @ \ {c}]
        BY <1>11 DEF import_until
    <2>2. q \in Seq(Nat) /\ Len(q) \in Nat /\ h \in Nat /\ \A j \in 1 .. Len(q) : q[j] = h + j
        BY DEF TargetsInLine
    <2>3. slotThread.peeked[c] \in h .. h + Len(q)
        BY <2>1 DEF TargetsInLine
    <2>4. k \in 0 .. Len(q) /\ slotThread.peeked[c] = h + k
        BY <2>2, <2>3
    <2> HIDE DEF k, q, h
    <2>5. /\ Len(popped) = k /\ (k = 0 => popped = <<>>)
          /\ k > 0 => popped # <<>> /\ popped[Len(popped)] = h + k
        BY <2>2, <2>4, PopUntil
    <2>6. (IF popped = <<>> THEN h ELSE popped[Len(popped)]) = h + k
        <3>1. CASE k = 0
            BY <2>2, <2>5, <3>1
        <3>2. CASE k > 0
            BY <2>5, <3>2
        <3> QED BY <2>4, <3>1, <3>2
    <2>7. r \in Seq(Nat) /\ Len(r) = Len(q) - k /\ \A j \in 1 .. Len(r) : r[j] = h + k + j
        <3>1. r \in Seq(Nat) /\ Len(r) = Len(q) - k
            BY <2>2, <2>4
        <3>2. ASSUME NEW j \in 1 .. Len(r) PROVE r[j] = h + k + j
            <4>1. r[j] = q[k + j] /\ k + j \in 1 .. Len(q)
                BY <2>2, <2>4, <3>1
            <4> QED BY <2>2, <2>4, <4>1
        <3> QED BY <3>1, <3>2
    <2>8. /\ targetQueue' = [targetQueue EXCEPT ![c] = r]
          /\ targetHead' = [targetHead EXCEPT ![c] = h + k]
        BY <2>1, <2>5, <2>6
    <2> HIDE DEF r, popped
    <2>9. /\ targetQueue' \in [TargetChains -> Seq(Nat)] /\ targetQueue'[c] = r
          /\ targetHead' \in [TargetChains -> Nat] /\ targetHead'[c] = h + k
          /\ \A d \in TargetChains \ {c} :
                targetQueue'[d] = targetQueue[d] /\ targetHead'[d] = targetHead[d]
        <3>1. h + k \in Nat
            BY <2>2, <2>4
        <3> QED BY <2>7, <2>8, <3>1 DEF TargetsInLine
    <2>10. \A d \in TargetChains : \A j \in 1 .. Len(targetQueue'[d]) :
               targetQueue'[d][j] = targetHead'[d] + j
        BY <2>7, <2>9 DEF TargetsInLine
    <2>11. slotThread'.todo = slotThread.todo \ {c} /\ slotThread'.peeked = slotThread.peeked
        <3>1. ThreadForm
            BY DEF RoundInv, TimingTyped
        <3> QED BY <2>1, <3>1 DEF ThreadForm
    <2>12. ASSUME NEW d \in TargetChains
           PROVE  IF d \in slotThread'.todo
                  THEN slotThread'.peeked[d] \in
                           targetHead'[d] .. targetHead'[d] + Len(targetQueue'[d])
                  ELSE slotThread'.peeked[d] = targetHead'[d]
        <3>1. CASE d = c
            BY <2>4, <2>9, <2>11, <3>1
        <3>2. CASE d # c
            BY <2>1, <2>9, <2>11, <3>2 DEF TargetsInLine
        <3> QED BY <3>1, <3>2
    <2> QED BY <2>9, <2>10, <2>12 DEF TargetsInLine
<1> QED BY <1>1, <1>2, <1>3, <1>4, <1>5, <1>6, <1>7, <1>8, <1>9, <1>10, <1>11 DEF SlotTimingNext

-----------------------------------------------------------------------------
(* The theorems about SlotTiming.                                          *)

\* To begin with the slot thread waits, and no block is out.
LEMMA TimingInit == SlotTimingInit => TimingInv
<1> SUFFICES ASSUME SlotTimingInit PROVE TimingInv
    OBVIOUS
<1>1. slotThread.at = "dormant" /\ produced = {} /\ LAST_SLOT = 0
    BY DEF SlotTimingInit, Dormant
<1>2. clock \in Nat
    BY SlotTimingAssumption DEF SlotTimingInit
<1>3. ~InRound /\ ~InShard
    BY <1>1 DEF InRound, InShard
<1>4. RoundInv
    BY <1>1, <1>2, <1>3 DEF RoundInv, TimingTyped, ThreadForm, SlotsRise, OneOfAShard, InTime,
        EnoughLeft, OneBlockASlot, StampWithinSlot
<1>5. TargetsInLine
    BY <1>1 DEF SlotTimingInit, TargetsInLine
<1> QED BY <1>4, <1>5 DEF TimingInv

\* The invariant says what the slots are kept for.
LEMMA TimingImplies == TimingInv => SlotsAreKept
<1> SUFFICES ASSUME TimingInv PROVE SlotsAreKept
    OBVIOUS
<1>1. FairShares
    BY DEF TimingInv, RoundInv, EnoughLeft, InShard, FairShares
<1>2. ProposalSeesTargets
    BY DEF TimingInv, TargetsInLine, ProposalSeesTargets
<1> QED BY <1>1, <1>2 DEF TimingInv, RoundInv, SlotsAreKept

\* However late the slot thread wakes and however long each of its steps takes, the moments of a
\* round are in order, enough of the slot is left for the shards to come as long as each keeps to
\* its share, and the queues of the target parentchains go on from their heads.
THEOREM TimingInvHolds == SlotTimingSpec => []TimingInv
<1>1. TimingInv /\ [SlotTimingNext]_slotTimingVars => TimingInv'
    BY RoundStep, TargetsStep DEF TimingInv
<1> QED BY <1>1, TimingInit, PTL DEF SlotTimingSpec

\* One block of the author for each shard in a slot, stamped in its slot, no shard that starves
\* while the others keep their time, and a proposal on exactly the target blocks it peeked.
THEOREM SlotsAreKeptHolds == SlotTimingSpec => []SlotsAreKept
<1> QED BY TimingInvHolds, TimingImplies, PTL

-----------------------------------------------------------------------------
(* The inductive invariant of PeerNetwork.                                 *)

DIFF == BLOCK_NUMBER_FINALIZATION_DIFF
Headers == [author : NetworkWorkers, next_finalization : Nat]
Confirmations == [block : Nat, number : Nat]
Proposals == [phase : {"none", "search", "ask", "send", "done"}, block : Nat,
              asking : Seq(NetworkWorkers), found : SUBSET NetworkWorkers,
              owed : SUBSET NetworkWorkers]

PeersTyped ==
    /\ shard_status \in Seq(NetworkWorkers) /\ serving \in SUBSET NetworkWorkers
    /\ headers \in Seq(Headers) /\ Len(headers) <= MaxNetworkBlocks
    /\ tip \in [NetworkWorkers -> Nat]
    /\ import_queue \in [NetworkWorkers -> SUBSET Nat]
    /\ peers \in [NetworkWorkers -> SUBSET NetworkWorkers]
    /\ proposal \in [NetworkWorkers -> Proposals]
    /\ broadcasts \in SUBSET [block : Nat, to : NetworkWorkers]
    /\ confirmations \in [NetworkWorkers -> Seq(Confirmations)]
    /\ told \in [1 .. MaxNetworkBlocks -> SUBSET NetworkWorkers]

\* Nobody speaks of a block before it is composed, and its author has it.
BlocksExist ==
    /\ \A w \in NetworkWorkers : tip[w] <= Len(headers)
    /\ \A w \in NetworkWorkers : import_queue[w] \subseteq 1 .. Len(headers)
    /\ \A b \in broadcasts : b.block \in 1 .. Len(headers)
    /\ \A w \in NetworkWorkers : proposal[w].phase # "none" =>
          proposal[w].block \in 1 .. Len(headers) /\ headers[proposal[w].block].author = w
    /\ \A k \in 1 .. Len(headers) : k <= tip[headers[k].author]

\* A worker confirmed blocks that it has, of others, one after the other.
ConfirmedInOrder ==
    \A w \in NetworkWorkers : \A i \in 1 .. Len(confirmations[w]) :
        /\ confirmations[w][i].block \in 1 .. tip[w]
        /\ headers[confirmations[w][i].block].author # w
        /\ i > 1 => confirmations[w][i - 1].block < confirmations[w][i].block

\* Whom a block is owed to is found, still to be asked, or told.
OwedKept(w) ==
    /\ proposal[w].owed \subseteq serving
    /\ proposal[w].phase \in {"none", "search"} => proposal[w].owed = {}
    /\ proposal[w].phase = "ask" =>
          proposal[w].owed \subseteq proposal[w].found \cup Range(proposal[w].asking)
    /\ proposal[w].phase = "send" => proposal[w].owed \subseteq peers[w]
    /\ proposal[w].phase = "done" => proposal[w].owed \subseteq told[proposal[w].block]

OwedAreNotLost == \A w \in NetworkWorkers : OwedKept(w)

PeersInv == PeersTyped /\ BlocksExist /\ BoundariesOnSchedule /\ ConfirmedInOrder /\ OwedAreNotLost

-----------------------------------------------------------------------------
(* Numbers and queues.                                                     *)

\* A period later is at the same place of the period.
LEMMA NextPeriod ==
    ASSUME NEW a \in Nat, NEW n \in Nat \ {0}
    PROVE  (a + n) % n = a % n
<1> DEFINE p == (a + n) \div n
           q == a \div n
           d == p - q - 1
<1>1. /\ a = n * q + (a % n) /\ a % n \in 0 .. n - 1 /\ q \in Int
      /\ a + n = n * p + ((a + n) % n) /\ (a + n) % n \in 0 .. n - 1 /\ p \in Int
    BY SMT
<1> HIDE DEF p, q
<1>2. n * d = n * p - n * q - n
    BY <1>1, SMT
<1>3. n * p \in Int /\ n * q \in Int /\ d \in Int
    BY <1>1, SMT
<1>4. n * d = (a % n) - ((a + n) % n)
    BY <1>1, <1>2, <1>3, SMT
<1> HIDE DEF d
<1>5. ASSUME d >= 1 PROVE FALSE
    <2>1. n * d >= n * 1
        BY <1>3, <1>5, SMT
    <2> QED BY <1>1, <1>4, <2>1, SMT
<1>6. ASSUME d <= -1 PROVE FALSE
    <2>1. n * d <= n * (-1)
        BY <1>3, <1>6, SMT
    <2> QED BY <1>1, <1>4, <2>1, SMT
<1>7. d = 0
    BY <1>3, <1>5, <1>6
<1>8. n * d = 0
    BY <1>7
<1> QED BY <1>1, <1>4, <1>8, SMT

\* The least number of a queue that is not empty is in it.
LEMMA MinOfQueue ==
    ASSUME NEW Q \in SUBSET Nat, Q # {}
    PROVE  Min(Q) \in Q
<1>1. PICK x \in Q : \A y \in Q : ~ (<<y, x>> \in OpToRel(<, Nat))
    BY WFMin, NatLessThanWellFounded
<1>2. ASSUME NEW y \in Q PROVE x <= y
    <2>1. ~ (y < x)
        BY <1>1 DEF OpToRel
    <2> QED BY <2>1
<1> QED BY <1>2 DEF Min

\* The constants.
LEMMA Periods == DIFF \in Nat \ {0} /\ MaxNetworkBlocks \in Nat
BY PeerNetworkAssumption DEF DIFF

-----------------------------------------------------------------------------
(* The steps of PeerNetwork.                                               *)

\* What no step has to show again that leaves the chain and the imports alone.
LEMMA ImportsStay ==
    ASSUME PeersInv, UNCHANGED <<headers, tip, confirmations>>
    PROVE  BoundariesOnSchedule' /\ ConfirmedInOrder'
BY DEF PeersInv, BoundariesOnSchedule, ConfirmedInOrder

\* A worker goes on with its ocall.
LEMMA ProposalMoves ==
    ASSUME PeersInv, NEW w \in NetworkWorkers, NEW p \in Proposals,
           proposal' = [proposal EXCEPT ![w] = p],
           UNCHANGED <<nodeVars, headers, importVars, broadcasts, told>>,
           peers' \in [NetworkWorkers -> SUBSET NetworkWorkers],
           \A v \in NetworkWorkers \ {w} : peers'[v] = peers[v],
           p.phase # "none" => p.block = proposal[w].block /\ proposal[w].phase # "none",
           p.owed \subseteq serving,
           p.phase \in {"none", "search"} => p.owed = {},
           p.phase = "ask" => p.owed \subseteq p.found \cup Range(p.asking),
           p.phase = "send" => p.owed \subseteq peers'[w],
           p.phase = "done" => p.owed \subseteq told[p.block]
    PROVE  PeersInv'
<1>1. proposal \in [NetworkWorkers -> Proposals]
    BY DEF PeersInv, PeersTyped
<1>2. /\ proposal' \in [NetworkWorkers -> Proposals] /\ proposal'[w] = p
      /\ \A v \in NetworkWorkers \ {w} : proposal'[v] = proposal[v]
    BY <1>1
<1>3. PeersTyped'
    BY <1>2 DEF PeersInv, PeersTyped, nodeVars, importVars
<1>4. ASSUME NEW v \in NetworkWorkers, proposal'[v].phase # "none"
      PROVE  proposal'[v].block \in 1 .. Len(headers) /\ headers[proposal'[v].block].author = v
    BY <1>2, <1>4 DEF PeersInv, BlocksExist
<1>5. BlocksExist'
    BY <1>4 DEF PeersInv, BlocksExist, importVars
<1>6. ASSUME NEW v \in NetworkWorkers PROVE OwedKept(v)'
    <2>1. UNCHANGED <<serving, told>>
        BY DEF nodeVars
    <2>2. CASE v = w
        BY <1>2, <2>1, <2>2 DEF OwedKept
    <2>3. CASE v # w
        <3>1. proposal'[v] = proposal[v] /\ peers'[v] = peers[v] /\ OwedKept(v)
            BY <1>2, <2>3 DEF PeersInv, OwedAreNotLost
        <3> QED BY <2>1, <3>1 DEF OwedKept
    <2> QED BY <2>2, <2>3
<1>7. OwedAreNotLost'
    BY <1>6 DEF OwedAreNotLost
<1>8. BoundariesOnSchedule' /\ ConfirmedInOrder'
    BY ImportsStay DEF importVars
<1> QED BY <1>3, <1>5, <1>7, <1>8 DEF PeersInv

\* The enclaves of the shard that serve are owed the block, and are all among those to ask.
LEMMA SearchPeersStep ==
    ASSUME PeersInv, NEW w \in NetworkWorkers, search_peers(w)
    PROVE  PeersInv'
<1> DEFINE o == Range(shard_status) \cap serving
           p == [proposal[w] EXCEPT !.phase = "ask", !.asking = shard_status, !.owed = o]
<1>1. proposal \in [NetworkWorkers -> Proposals] /\ proposal[w] \in Proposals
    BY DEF PeersInv, PeersTyped
<1>2. /\ proposal[w].phase = "search"
      /\ UNCHANGED <<nodeVars, headers, importVars, peers, broadcasts, told>>
    BY DEF search_peers
<1>3. proposal' = [proposal EXCEPT ![w] = p]
    BY <1>1 DEF search_peers, Proposals
<1>4. o \in SUBSET NetworkWorkers /\ o \subseteq serving
    BY DEF PeersInv, PeersTyped
<1>5. shard_status \in Seq(NetworkWorkers) /\ peers \in [NetworkWorkers -> SUBSET NetworkWorkers]
    BY DEF PeersInv, PeersTyped
<1>6. o \subseteq Range(shard_status)
    OBVIOUS
<1> HIDE DEF o
<1>7. /\ p \in Proposals /\ p.phase = "ask" /\ p.block = proposal[w].block
      /\ p.asking = shard_status /\ p.owed = o
    BY <1>1, <1>4, <1>5 DEF Proposals
<1> HIDE DEF p
<1> QED BY <1>2, <1>3, <1>4, <1>5, <1>6, <1>7, ProposalMoves

\* The node does not answer: nobody is owed the block.
LEMMA SearchPeersFailsStep ==
    ASSUME PeersInv, NEW w \in NetworkWorkers, search_peers_fails(w)
    PROVE  PeersInv'
<1> DEFINE p == [proposal[w] EXCEPT !.phase = "send"]
<1>1. proposal \in [NetworkWorkers -> Proposals] /\ proposal[w] \in Proposals
    BY DEF PeersInv, PeersTyped
<1>2. /\ proposal[w].phase = "search"
      /\ UNCHANGED <<nodeVars, headers, importVars, peers, broadcasts, told>>
    BY DEF search_peers_fails
<1>3. proposal' = [proposal EXCEPT ![w] = p]
    BY <1>1 DEF search_peers_fails, Proposals
<1>4. proposal[w].owed = {}
    BY <1>2 DEF PeersInv, OwedAreNotLost, OwedKept
<1>5. /\ p \in Proposals /\ p.phase = "send" /\ p.block = proposal[w].block /\ p.owed = {}
    BY <1>1, <1>4 DEF Proposals
<1>6. peers \in [NetworkWorkers -> SUBSET NetworkWorkers]
    BY DEF PeersInv, PeersTyped
<1> HIDE DEF p
<1> QED BY <1>2, <1>3, <1>5, <1>6, ProposalMoves

\* One that is asked is found, or does not serve and is owed nothing.
LEMMA AskedStep ==
    ASSUME PeersInv, NEW w \in NetworkWorkers, get_untrusted_worker_url(w)
    PROVE  PeersInv'
<1> DEFINE s == proposal[w]
           first == s.asking[1]
           rest == Tail(s.asking)
           p == asked(s, first \in serving)
<1>1. proposal \in [NetworkWorkers -> Proposals] /\ s \in Proposals
    BY DEF PeersInv, PeersTyped
<1>2. /\ s.phase = "ask" /\ s.asking # <<>>
      /\ UNCHANGED <<nodeVars, headers, importVars, peers, broadcasts, told>>
    BY DEF get_untrusted_worker_url
<1>3. proposal' = [proposal EXCEPT ![w] = p]
    BY <1>1 DEF get_untrusted_worker_url
<1>4. s.owed \subseteq serving /\ s.owed \subseteq s.found \cup Range(s.asking)
    BY <1>2 DEF PeersInv, OwedAreNotLost, OwedKept
<1>5. /\ s.asking \in Seq(NetworkWorkers) /\ first \in NetworkWorkers
      /\ rest \in Seq(NetworkWorkers)
    BY <1>1, <1>2 DEF Proposals
<1>6. Range(s.asking) \subseteq {first} \cup Range(rest)
    <2> SUFFICES ASSUME NEW i \in DOMAIN s.asking PROVE s.asking[i] \in {first} \cup Range(rest)
        BY DEF Range
    <2>1. DOMAIN s.asking = 1 .. Len(s.asking) /\ Len(s.asking) \in Nat
        BY <1>5
    <2>2. CASE i = 1
        BY <2>2
    <2>3. CASE i # 1
        <3>1. i - 1 \in DOMAIN rest /\ rest[i - 1] = s.asking[i]
            BY <1>2, <1>5, <2>1, <2>3
        <3> QED BY <3>1 DEF Range
    <2> QED BY <2>2, <2>3
<1>7. /\ p \in Proposals /\ p.phase = "ask" /\ p.block = s.block
      /\ p.asking = rest /\ p.owed = s.owed
      /\ p.found = s.found \cup (IF first \in serving THEN {first} ELSE {})
    <2>1. CASE first \in serving
        <3>1. p = [s EXCEPT !.found = @ \cup {first}, !.asking = rest]
            BY <2>1 DEF asked
        <3> HIDE DEF p
        <3> QED BY <1>1, <1>2, <1>5, <2>1, <3>1 DEF Proposals
    <2>2. CASE first \notin serving
        <3>1. p = [s EXCEPT !.asking = rest]
            BY <2>2 DEF asked
        <3> HIDE DEF p
        <3> QED BY <1>1, <1>2, <1>5, <2>2, <3>1 DEF Proposals
    <2> QED BY <2>1, <2>2
<1> HIDE DEF p
<1>8. p.owed \subseteq p.found \cup Range(p.asking)
    BY <1>4, <1>6, <1>7
<1>9. peers \in [NetworkWorkers -> SUBSET NetworkWorkers]
    BY DEF PeersInv, PeersTyped
<1> QED BY <1>2, <1>3, <1>4, <1>7, <1>8, <1>9, ProposalMoves

\* Everybody has been asked: those that are owed the block are found.
LEMMA SetPeersStep ==
    ASSUME PeersInv, NEW w \in NetworkWorkers, set_peers(w)
    PROVE  PeersInv'
<1> DEFINE s == proposal[w]
           p == [s EXCEPT !.phase = "send"]
<1>1. proposal \in [NetworkWorkers -> Proposals] /\ s \in Proposals
    BY DEF PeersInv, PeersTyped
<1>2. /\ s.phase = "ask" /\ s.asking = <<>> /\ peers' = [peers EXCEPT ![w] = s.found]
      /\ UNCHANGED <<nodeVars, headers, importVars, broadcasts, told>>
    BY DEF set_peers
<1>3. proposal' = [proposal EXCEPT ![w] = p]
    BY <1>1 DEF set_peers, Proposals
<1>4. s.owed \subseteq serving /\ s.owed \subseteq s.found \cup Range(s.asking)
    BY <1>2 DEF PeersInv, OwedAreNotLost, OwedKept
<1>5. Range(s.asking) = {}
    BY <1>2 DEF Range
<1>6. /\ p \in Proposals /\ p.phase = "send" /\ p.block = s.block /\ p.owed = s.owed
    BY <1>1 DEF Proposals
<1>7. /\ peers' \in [NetworkWorkers -> SUBSET NetworkWorkers] /\ peers'[w] = s.found
      /\ \A v \in NetworkWorkers \ {w} : peers'[v] = peers[v]
    BY <1>1, <1>2 DEF PeersInv, PeersTyped, Proposals
<1> HIDE DEF p
<1> QED BY <1>2, <1>3, <1>4, <1>5, <1>6, <1>7, ProposalMoves

\* The ocall is over.
LEMMA ReturnsStep ==
    ASSUME PeersInv, NEW w \in NetworkWorkers, propose_returns(w)
    PROVE  PeersInv'
<1>1. /\ NoSending \in Proposals /\ NoSending.phase = "none" /\ NoSending.owed = {}
    BY DEF NoSending, Proposals
<1>2. /\ proposal' = [proposal EXCEPT ![w] = NoSending]
      /\ UNCHANGED <<nodeVars, headers, importVars, peers, broadcasts, told>>
    BY DEF propose_returns
<1>3. peers \in [NetworkWorkers -> SUBSET NetworkWorkers]
    BY DEF PeersInv, PeersTyped
<1> QED BY <1>1, <1>2, <1>3, ProposalMoves

\* The peers of the worker are told; what the others told is about other blocks.
LEMMA BroadcastStep ==
    ASSUME PeersInv, NEW w \in NetworkWorkers, broadcast_blocks(w)
    PROVE  PeersInv'
<1> DEFINE s == proposal[w]
           p == [s EXCEPT !.phase = "done"]
<1>1. proposal \in [NetworkWorkers -> Proposals] /\ s \in Proposals
    BY DEF PeersInv, PeersTyped
<1>2. /\ s.phase = "send"
      /\ broadcasts' = broadcasts \cup [block : {s.block}, to : peers[w]]
      /\ told' = [told EXCEPT ![s.block] = peers[w]]
      /\ UNCHANGED <<nodeVars, headers, importVars, peers>>
    BY DEF broadcast_blocks
<1>3. proposal' = [proposal EXCEPT ![w] = p]
    BY <1>1 DEF broadcast_blocks, Proposals
<1>4. /\ p \in Proposals /\ p.phase = "done" /\ p.block = s.block /\ p.owed = s.owed
    BY <1>1 DEF Proposals
<1> HIDE DEF p
<1>5. /\ proposal' \in [NetworkWorkers -> Proposals] /\ proposal'[w] = p
      /\ \A v \in NetworkWorkers \ {w} : proposal'[v] = proposal[v]
    BY <1>1, <1>3, <1>4
<1>6. s.block \in 1 .. Len(headers) /\ headers[s.block].author = w
    BY <1>2 DEF PeersInv, BlocksExist
<1>7. s.block \in 1 .. MaxNetworkBlocks /\ s.block \in Nat
    BY <1>6, Periods DEF PeersInv, PeersTyped
<1>8. peers[w] \in SUBSET NetworkWorkers
    BY DEF PeersInv, PeersTyped
<1>9. /\ told' \in [1 .. MaxNetworkBlocks -> SUBSET NetworkWorkers] /\ told'[s.block] = peers[w]
      /\ \A k \in 1 .. MaxNetworkBlocks : k # s.block => told'[k] = told[k]
    BY <1>2, <1>7, <1>8 DEF PeersInv, PeersTyped
<1>10. broadcasts' \in SUBSET [block : Nat, to : NetworkWorkers]
    BY <1>2, <1>7, <1>8 DEF PeersInv, PeersTyped
<1>11. PeersTyped'
    BY <1>2, <1>5, <1>9, <1>10 DEF PeersInv, PeersTyped, nodeVars, importVars
<1>12. BlocksExist'
    <2>1. ASSUME NEW v \in NetworkWorkers, proposal'[v].phase # "none"
          PROVE  proposal'[v].block \in 1 .. Len(headers) /\ headers[proposal'[v].block].author = v
        BY <1>4, <1>5, <1>6, <2>1 DEF PeersInv, BlocksExist
    <2>2. \A b \in broadcasts' : b.block \in 1 .. Len(headers)
        BY <1>2, <1>6 DEF PeersInv, BlocksExist
    <2> QED BY <1>2, <2>1, <2>2 DEF PeersInv, BlocksExist, importVars
<1>13. ASSUME NEW v \in NetworkWorkers PROVE OwedKept(v)'
    <2>1. UNCHANGED <<serving, peers>>
        BY <1>2 DEF nodeVars
    <2>2. CASE v = w
        <3>1. s.owed \subseteq serving /\ s.owed \subseteq peers[w]
            BY <1>2 DEF PeersInv, OwedAreNotLost, OwedKept
        <3> QED BY <1>4, <1>5, <1>9, <2>1, <2>2, <3>1 DEF OwedKept
    <2>3. CASE v # w
        <3>1. proposal'[v] = proposal[v] /\ OwedKept(v)
            BY <1>5, <2>3 DEF PeersInv, OwedAreNotLost
        <3>2. ASSUME proposal[v].phase = "done"
              PROVE  told'[proposal[v].block] = told[proposal[v].block]
            <4>1. proposal[v].block \in 1 .. Len(headers) /\ headers[proposal[v].block].author = v
                BY <3>2 DEF PeersInv, BlocksExist
            <4>2. proposal[v].block \in 1 .. MaxNetworkBlocks
                BY <4>1, Periods DEF PeersInv, PeersTyped
            <4>3. proposal[v].block # s.block
                BY <1>6, <2>3, <4>1
            <4> QED BY <1>9, <4>2, <4>3
        <3> QED BY <2>1, <3>1, <3>2 DEF OwedKept
    <2> QED BY <2>2, <2>3
<1>14. BoundariesOnSchedule' /\ ConfirmedInOrder'
    BY <1>2, ImportsStay DEF importVars
<1> QED BY <1>11, <1>12, <1>13, <1>14 DEF PeersInv, OwedAreNotLost

\* A new block names the next boundary, which its parent's header is enough to tell.
LEMMA CandidateOnSchedule ==
    ASSUME NEW k \in Nat, NEW last \in Nat,
           IF k = 0 THEN last = 1
           ELSE last % DIFF = 1 % DIFF /\ k <= last /\ last < k + DIFF
    PROVE  LET final == finalization_candidate(k + 1, last) IN
           /\ final \in Nat
           /\ final % DIFF = 1 % DIFF /\ k + 1 <= final /\ final < k + 1 + DIFF
<1>1. DIFF \in Nat \ {0}
    BY Periods
<1>2. CASE k = 0
    <2>1. finalization_candidate(k + 1, last) = 1
        BY <1>2 DEF finalization_candidate
    <2> QED BY <1>1, <1>2, <2>1
<1>3. CASE k # 0 /\ k + 1 > last
    <2>1. finalization_candidate(k + 1, last) = last + DIFF
        BY <1>3 DEF finalization_candidate, DIFF
    <2>2. (last + DIFF) % DIFF = last % DIFF
        BY <1>1, NextPeriod
    <2>3. last = k
        BY <1>3
    <2> QED BY <1>1, <1>3, <2>1, <2>2, <2>3
<1>4. CASE k # 0 /\ ~ (k + 1 > last)
    <2>1. finalization_candidate(k + 1, last) = last
        BY <1>4 DEF finalization_candidate
    <2> QED BY <1>1, <1>4, <2>1
<1> QED BY <1>2, <1>3, <1>4

\* A worker composes on top of all the blocks there are, and has its own block at once.
LEMMA ComposeBlockStep ==
    ASSUME PeersInv, NEW w \in NetworkWorkers, compose_block(w)
    PROVE  PeersInv'
<1> DEFINE k == Len(headers)
           last == IF headers = <<>> THEN 1 ELSE headers[Len(headers)].next_finalization
           final == finalization_candidate(k + 1, last)
           header == [author |-> w, next_finalization |-> final]
           p == [NoSending EXCEPT !.phase = "search", !.block = k + 1]
<1>1. /\ tip[w] = k /\ k + 1 <= MaxNetworkBlocks
      /\ headers' = Append(headers, header)
      /\ tip' = [tip EXCEPT ![w] = k + 1]
      /\ proposal' = [proposal EXCEPT ![w] = p]
      /\ UNCHANGED <<nodeVars, import_queue, peers, broadcasts, confirmations, told>>
    BY DEF compose_block, SidechainHeader
<1>2. headers \in Seq(Headers) /\ k \in Nat
    BY DEF PeersInv, PeersTyped
<1>3. last \in Nat /\ IF k = 0 THEN last = 1
                      ELSE last % DIFF = 1 % DIFF /\ k <= last /\ last < k + DIFF
    <2>1. CASE headers = <<>>
        BY <2>1
    <2>2. CASE headers # <<>>
        <3>1. k \in 1 .. k /\ k # 0 /\ DOMAIN headers = 1 .. k
            BY <1>2, <2>2
        <3>2. headers[k] \in Headers
            BY <1>2, <3>1
        <3>3. k \in DOMAIN headers
            BY <3>1
        <3> QED BY <2>2, <3>1, <3>2, <3>3 DEF PeersInv, BoundariesOnSchedule, Headers, DIFF
    <2> QED BY <2>1, <2>2
<1> HIDE DEF last
<1>4. final \in Nat /\ final % DIFF = 1 % DIFF /\ k + 1 <= final /\ final < k + 1 + DIFF
    BY <1>2, <1>3, CandidateOnSchedule
<1> HIDE DEF final
<1>5. header \in Headers /\ header.author = w /\ header.next_finalization = final
    BY <1>4 DEF Headers
<1> HIDE DEF header
<1>6. /\ headers' \in Seq(Headers) /\ Len(headers') = k + 1 /\ DOMAIN headers' = 1 .. k + 1
      /\ headers'[k + 1] = header /\ \A j \in 1 .. k : headers'[j] = headers[j]
    BY <1>1, <1>2, <1>5
<1>7. p \in Proposals /\ p.phase = "search" /\ p.block = k + 1 /\ p.owed = {}
    <2>1. NoSending \in Proposals /\ NoSending.owed = {}
        BY DEF NoSending, Proposals
    <2> HIDE DEF k
    <2>2. k + 1 \in Nat
        BY <1>2
    <2> QED BY <2>1, <2>2 DEF Proposals
<1> HIDE DEF p
<1>8. /\ proposal' \in [NetworkWorkers -> Proposals] /\ proposal'[w] = p
      /\ \A v \in NetworkWorkers \ {w} : proposal'[v] = proposal[v]
    BY <1>1, <1>7 DEF PeersInv, PeersTyped
<1>9. /\ tip' \in [NetworkWorkers -> Nat] /\ tip'[w] = k + 1
      /\ \A v \in NetworkWorkers \ {w} : tip'[v] = tip[v]
    BY <1>1, <1>2 DEF PeersInv, PeersTyped
<1>10. PeersTyped'
    BY <1>1, <1>6, <1>8, <1>9 DEF PeersInv, PeersTyped, nodeVars
<1>11. \A v \in NetworkWorkers : tip[v] \in Nat /\ tip[v] <= k /\ tip[v] <= tip'[v]
    BY <1>1, <1>2, <1>9 DEF PeersInv, PeersTyped, BlocksExist
<1> HIDE DEF k
<1>12. 1 .. k \subseteq 1 .. k + 1 /\ k + 1 \in 1 .. k + 1
    BY <1>2
<1>13. BlocksExist'
    <2>1. ASSUME NEW v \in NetworkWorkers PROVE tip'[v] <= k + 1
        <3>1. CASE v = w
            BY <1>2, <1>9, <3>1
        <3>2. CASE v # w
            BY <1>2, <1>9, <1>11, <3>2
        <3> QED BY <3>1, <3>2
    <2>2. /\ \A v \in NetworkWorkers : import_queue[v] \subseteq 1 .. k + 1
          /\ \A b \in broadcasts : b.block \in 1 .. k + 1
        BY <1>12 DEF PeersInv, BlocksExist, k
    <2>3. ASSUME NEW v \in NetworkWorkers, proposal'[v].phase # "none"
          PROVE  proposal'[v].block \in 1 .. k + 1 /\ headers'[proposal'[v].block].author = v
        <3>1. CASE v = w
            BY <1>5, <1>6, <1>7, <1>8, <1>12, <3>1
        <3>2. CASE v # w
            <4>1. proposal[v].block \in 1 .. k /\ headers[proposal[v].block].author = v
                BY <1>8, <2>3, <3>2 DEF PeersInv, BlocksExist, k
            <4> QED BY <1>6, <1>8, <1>12, <3>2, <4>1
        <3> QED BY <3>1, <3>2
    <2>4. ASSUME NEW j \in 1 .. k + 1 PROVE j <= tip'[headers'[j].author]
        <3>1. CASE j = k + 1
            BY <1>2, <1>5, <1>6, <1>9, <3>1
        <3>2. CASE j # k + 1
            <4>1. j \in 1 .. k
                BY <1>2, <3>2
            <4>2. headers[j] \in Headers /\ headers'[j] = headers[j] /\ j <= tip[headers[j].author]
                BY <1>2, <1>6, <4>1 DEF PeersInv, BlocksExist, k
            <4>3. headers[j].author \in NetworkWorkers
                BY <4>2 DEF Headers
            <4>4. tip[headers[j].author] <= tip'[headers[j].author]
                  /\ tip[headers[j].author] \in Nat /\ tip'[headers[j].author] \in Nat
                BY <1>9, <1>11, <4>3
            <4> QED BY <4>1, <4>2, <4>4
        <3> QED BY <3>1, <3>2
    <2> QED BY <1>1, <1>6, <2>1, <2>2, <2>3, <2>4 DEF BlocksExist
<1>14. BoundariesOnSchedule'
    <2>1. ASSUME NEW j \in 1 .. k + 1
          PROVE  /\ headers'[j].next_finalization % DIFF = 1 % DIFF
                 /\ j <= headers'[j].next_finalization /\ headers'[j].next_finalization < j + DIFF
        <3>1. CASE j = k + 1
            BY <1>4, <1>5, <1>6, <3>1
        <3>2. CASE j # k + 1
            <4>1. j \in 1 .. k
                BY <1>2, <3>2
            <4>2. j \in DOMAIN headers
                BY <1>2, <4>1 DEF k
            <4> QED BY <1>6, <4>1, <4>2 DEF PeersInv, BoundariesOnSchedule, DIFF
        <3> QED BY <3>1, <3>2
    <2> QED BY <1>6, <2>1 DEF BoundariesOnSchedule, DIFF
<1>15. ConfirmedInOrder'
    <2> SUFFICES ASSUME NEW v \in NetworkWorkers, NEW i \in 1 .. Len(confirmations[v])
                 PROVE  /\ confirmations[v][i].block \in 1 .. tip'[v]
                        /\ headers'[confirmations[v][i].block].author # v
                        /\ i > 1 => confirmations[v][i - 1].block < confirmations[v][i].block
        BY <1>1 DEF ConfirmedInOrder
    <2> DEFINE b == confirmations[v][i].block
    <2>1. /\ b \in 1 .. tip[v] /\ headers[b].author # v
          /\ i > 1 => confirmations[v][i - 1].block < b
        BY DEF PeersInv, ConfirmedInOrder
    <2> HIDE DEF b
    <2>2. tip[v] \in Nat /\ tip'[v] \in Nat /\ tip[v] <= tip'[v] /\ tip[v] <= k
        BY <1>9, <1>11
    <2>3. b \in 1 .. tip'[v] /\ b \in 1 .. k
        BY <1>2, <2>1, <2>2
    <2> QED BY <1>6, <2>1, <2>3 DEF b
<1>16. ASSUME NEW v \in NetworkWorkers PROVE OwedKept(v)'
    <2>1. UNCHANGED <<serving, told, peers>>
        BY <1>1 DEF nodeVars
    <2>2. CASE v = w
        BY <1>7, <1>8, <2>2 DEF OwedKept
    <2>3. CASE v # w
        <3>1. proposal'[v] = proposal[v] /\ OwedKept(v)
            BY <1>8, <2>3 DEF PeersInv, OwedAreNotLost
        <3> QED BY <2>1, <3>1 DEF OwedKept
    <2> QED BY <2>2, <2>3
<1> QED BY <1>10, <1>13, <1>14, <1>15, <1>16 DEF PeersInv, OwedAreNotLost

\* A task delivers its block to a server that answers, or ends.
LEMMA ImportBlocksStep ==
    ASSUME PeersInv, NEW task \in broadcasts, import_blocks(task)
    PROVE  PeersInv'
<1>1. /\ broadcasts' = broadcasts \ {task}
      /\ UNCHANGED <<nodeVars, headers, tip, confirmations, peers, proposal, told>>
    BY DEF import_blocks
<1>2. task.to \in NetworkWorkers /\ task.block \in Nat /\ task.block \in 1 .. Len(headers)
    BY DEF PeersInv, PeersTyped, BlocksExist
<1>3. /\ import_queue' \in [NetworkWorkers -> SUBSET Nat]
      /\ \A v \in NetworkWorkers : import_queue'[v] \subseteq import_queue[v] \cup {task.block}
    <2>1. import_queue \in [NetworkWorkers -> SUBSET Nat]
        BY DEF PeersInv, PeersTyped
    <2>2. CASE import_queue' = import_queue
        BY <2>1, <2>2
    <2>3. CASE import_queue' = [import_queue EXCEPT ![task.to] = @ \cup {task.block}]
        BY <1>2, <2>1, <2>3
    <2> QED BY <2>2, <2>3 DEF import_blocks
<1>4. PeersTyped'
    BY <1>1, <1>3 DEF PeersInv, PeersTyped, nodeVars
<1>5. BlocksExist'
    BY <1>1, <1>2, <1>3 DEF PeersInv, BlocksExist
<1>6. OwedAreNotLost'
    BY <1>1 DEF PeersInv, OwedAreNotLost, OwedKept, nodeVars
<1>7. BoundariesOnSchedule' /\ ConfirmedInOrder'
    BY <1>1, ImportsStay
<1> QED BY <1>4, <1>5, <1>6, <1>7 DEF PeersInv

\* A worker confirms a block that it imports as the next one: none of its own, none before.
LEMMA ProcessQueueStep ==
    ASSUME PeersInv, NEW w \in NetworkWorkers, process_queue(w)
    PROVE  PeersInv'
<1> DEFINE n == Min(import_queue[w])
           confirmation == [block |-> n, number |-> headers[n].next_finalization + DIFF]
<1>1. /\ import_queue[w] # {}
      /\ import_queue' = [import_queue EXCEPT ![w] = @ \ {n}]
      /\ import_or_sync_block(w, n)
      /\ UNCHANGED <<nodeVars, headers, peers, proposal, broadcasts, told>>
    BY DEF process_queue, proposalVars
<1>2. import_queue \in [NetworkWorkers -> SUBSET Nat] /\ import_queue[w] \subseteq 1 .. Len(headers)
    BY DEF PeersInv, PeersTyped, BlocksExist
<1>3. n \in import_queue[w]
    BY <1>1, <1>2, MinOfQueue
<1>4. n \in 1 .. Len(headers) /\ Len(headers) \in Nat /\ n \in Nat
    BY <1>2, <1>3 DEF PeersInv, PeersTyped
<1>5. headers[n] \in Headers
    BY <1>4 DEF PeersInv, PeersTyped
<1>6. tip \in [NetworkWorkers -> Nat] /\ confirmations \in [NetworkWorkers -> Seq(Confirmations)]
    BY DEF PeersInv, PeersTyped
<1>7. confirmation \in Confirmations /\ confirmation.block = n
    BY <1>4, <1>5, Periods DEF Confirmations, Headers
<1>8. \/ /\ tip' = [tip EXCEPT ![w] = n] /\ n = tip[w] + 1
         /\ confirmations' = [confirmations EXCEPT ![w] = Append(@, confirmation)]
      \/ /\ tip' = tip \/ (tip' = [tip EXCEPT ![w] = n] /\ n > tip[w])
         /\ confirmations' = confirmations
    <2>1. CASE n = tip[w] + 1 /\ tip' = [tip EXCEPT ![w] = n] /\ confirm_import(w, n)
        <3>1. n > tip[w]
            BY <1>6, <2>1
        <3>2. \/ confirmations' = confirmations
              \/ confirmations' = [confirmations EXCEPT ![w] = Append(@, confirmation)]
            BY <2>1 DEF confirm_import, DIFF
        <3> QED BY <2>1, <3>1, <3>2
    <2>2. CASE UNCHANGED <<tip, confirmations>>
        BY <2>2
    <2>3. CASE /\ n > tip[w] + 1 /\ UNCHANGED confirmations
               /\ tip' = [tip EXCEPT ![w] = IF fetch_blocks_from_peer(n) THEN n ELSE @]
        <3>1. n > tip[w]
            BY <1>4, <1>6, <2>3
        <3>2. CASE fetch_blocks_from_peer(n)
            BY <2>3, <3>1, <3>2
        <3>3. CASE ~ fetch_blocks_from_peer(n)
            <4>1. tip' = [tip EXCEPT ![w] = tip[w]]
                BY <2>3, <3>3
            <4>2. tip' = tip
                BY <1>6, <4>1
            <4> QED BY <2>3, <4>2
        <3> QED BY <3>2, <3>3
    <2> QED BY <1>1, <2>1, <2>2, <2>3 DEF import_or_sync_block
<1> HIDE DEF n, confirmation
<1>9. /\ tip' \in [NetworkWorkers -> Nat]
      /\ \A v \in NetworkWorkers :
            tip[v] \in Nat /\ tip[v] <= tip'[v] /\ (tip'[v] = tip[v] \/ tip'[v] = n)
    <2>1. CASE tip' = tip
        BY <1>6, <2>1
    <2>2. CASE tip' = [tip EXCEPT ![w] = n] /\ n > tip[w]
        <3>1. tip'[w] = n /\ \A v \in NetworkWorkers \ {w} : tip'[v] = tip[v]
            BY <1>6, <2>2
        <3>2. tip[w] \in Nat /\ tip[w] <= n
            BY <1>4, <1>6, <2>2
        <3>3. \A v \in NetworkWorkers : tip[v] \in Nat /\ tip[v] <= tip[v]
            BY <1>6
        <3>4. tip' \in [NetworkWorkers -> Nat]
            BY <1>4, <1>6, <2>2
        <3> QED BY <3>1, <3>2, <3>3, <3>4
    <2>3. CASE tip' = [tip EXCEPT ![w] = n] /\ n = tip[w] + 1
        <3>1. n > tip[w]
            BY <1>6, <2>3
        <3> QED BY <2>2, <2>3, <3>1
    <2> QED BY <1>8, <2>1, <2>2, <2>3
<1>10. confirmations' \in [NetworkWorkers -> Seq(Confirmations)]
    <2>1. Append(confirmations[w], confirmation) \in Seq(Confirmations)
        BY <1>6, <1>7
    <2> QED BY <1>6, <1>8, <2>1
<1>11. /\ import_queue' \in [NetworkWorkers -> SUBSET Nat]
       /\ \A v \in NetworkWorkers : import_queue'[v] \subseteq import_queue[v]
    BY <1>1, <1>2
<1>12. PeersTyped'
    BY <1>1, <1>9, <1>10, <1>11 DEF PeersInv, PeersTyped, nodeVars
<1>13. BlocksExist'
    <2>1. \A v \in NetworkWorkers : tip'[v] <= Len(headers)
        BY <1>4, <1>9 DEF PeersInv, BlocksExist
    <2>2. ASSUME NEW k \in 1 .. Len(headers) PROVE k <= tip'[headers[k].author]
        <3>1. headers[k] \in Headers /\ k <= tip[headers[k].author]
            BY DEF PeersInv, PeersTyped, BlocksExist
        <3>2. headers[k].author \in NetworkWorkers
            BY <3>1 DEF Headers
        <3>3. /\ tip[headers[k].author] \in Nat /\ tip'[headers[k].author] \in Nat
              /\ tip[headers[k].author] <= tip'[headers[k].author]
            BY <1>9, <3>2
        <3> QED BY <3>1, <3>3
    <2> QED BY <1>1, <1>11, <2>1, <2>2 DEF PeersInv, BlocksExist
<1>14. OwedAreNotLost'
    BY <1>1 DEF PeersInv, OwedAreNotLost, OwedKept, nodeVars
<1>15. BoundariesOnSchedule'
    BY <1>1 DEF PeersInv, BoundariesOnSchedule
<1>16. ASSUME NEW v \in NetworkWorkers, NEW i \in 1 .. Len(confirmations[v])
       PROVE  /\ confirmations[v][i].block \in 1 .. tip'[v]
              /\ headers[confirmations[v][i].block].author # v
              /\ i > 1 => confirmations[v][i - 1].block < confirmations[v][i].block
    <2>1. /\ confirmations[v][i].block \in 1 .. tip[v]
          /\ headers[confirmations[v][i].block].author # v
          /\ i > 1 => confirmations[v][i - 1].block < confirmations[v][i].block
        BY DEF PeersInv, ConfirmedInOrder
    <2>2. 1 .. tip[v] \subseteq 1 .. tip'[v]
        BY <1>9
    <2> QED BY <2>1, <2>2
<1>17. ConfirmedInOrder'
    <2>1. CASE confirmations' = confirmations
        BY <1>1, <1>16, <2>1 DEF ConfirmedInOrder
    <2>2. CASE /\ tip' = [tip EXCEPT ![w] = n] /\ n = tip[w] + 1
               /\ confirmations' = [confirmations EXCEPT ![w] = Append(@, confirmation)]
        <3> DEFINE c == confirmations[w]
                   m == Len(c)
        <3>1. c \in Seq(Confirmations) /\ m \in Nat
            BY <1>6
        <3>2. /\ confirmations'[w] = Append(c, confirmation) /\ tip'[w] = n
              /\ \A v \in NetworkWorkers \ {w} : confirmations'[v] = confirmations[v]
            BY <1>6, <2>2
        <3>3. /\ Len(Append(c, confirmation)) = m + 1
              /\ Append(c, confirmation)[m + 1] = confirmation
              /\ \A j \in 1 .. m : Append(c, confirmation)[j] = c[j]
            BY <1>7, <3>1
        <3>4. headers[n].author # w
            <4>1. n <= tip[headers[n].author]
                BY <1>4 DEF PeersInv, BlocksExist
            <4>2. ~ (n <= tip[w])
                BY <1>4, <1>6, <2>2
            <4> QED BY <4>1, <4>2
        <3>5. ASSUME NEW i \in 1 .. m + 1
              PROVE  /\ confirmations'[w][i].block \in 1 .. tip'[w]
                     /\ headers[confirmations'[w][i].block].author # w
                     /\ i > 1 => confirmations'[w][i - 1].block < confirmations'[w][i].block
            <4>1. CASE i = m + 1
                <5>1. confirmations'[w][i] = confirmation
                    BY <3>2, <3>3, <4>1
                <5>2. n \in 1 .. tip'[w]
                    BY <1>4, <3>2
                <5>3. ASSUME i > 1 PROVE confirmations'[w][i - 1].block < n
                    <6>1. m \in 1 .. m /\ i - 1 = m
                        BY <3>1, <4>1, <5>3
                    <6>2. confirmations'[w][m] = c[m]
                        BY <3>2, <3>3, <6>1
                    <6>3. c[m].block \in 1 .. tip[w]
                        BY <6>1 DEF PeersInv, ConfirmedInOrder
                    <6>4. c[m].block < n
                        BY <1>6, <2>2, <6>3
                    <6> QED BY <6>1, <6>2, <6>4
                <5> QED BY <1>7, <3>4, <5>1, <5>2, <5>3
            <4>2. CASE i # m + 1
                <5>1. i \in 1 .. m /\ (i > 1 => i - 1 \in 1 .. m)
                    BY <3>1, <4>2
                <5>2. /\ confirmations'[w][i] = c[i]
                      /\ i > 1 => confirmations'[w][i - 1] = c[i - 1]
                    BY <3>2, <3>3, <5>1
                <5> QED BY <1>16, <5>1, <5>2
            <4> QED BY <4>1, <4>2
        <3>6. ASSUME NEW v \in NetworkWorkers, NEW i \in 1 .. Len(confirmations'[v])
              PROVE  /\ confirmations'[v][i].block \in 1 .. tip'[v]
                     /\ headers[confirmations'[v][i].block].author # v
                     /\ i > 1 => confirmations'[v][i - 1].block < confirmations'[v][i].block
            <4>1. CASE v = w
                BY <3>2, <3>3, <3>5, <3>6, <4>1
            <4>2. CASE v # w
                BY <1>16, <3>2, <3>6, <4>2
            <4> QED BY <4>1, <4>2
        <3> QED BY <1>1, <3>6 DEF ConfirmedInOrder
    <2> QED BY <1>8, <2>1, <2>2
<1> QED BY <1>12, <1>13, <1>14, <1>15, <1>17 DEF PeersInv

\* Servers come and go: one that stops is owed nothing any more.
LEMMA ServersStep ==
    ASSUME PeersInv, NEW w \in NetworkWorkers,
           register_enclave(w) \/ stop_worker(w) \/ run_server(w)
    PROVE  PeersInv'
<1>1. CASE register_enclave(w)
    <2>1. UNCHANGED <<serving, headers, tip, import_queue, confirmations, peers, proposal,
                      broadcasts, told>>
        BY <1>1 DEF register_enclave, importVars, proposalVars
    <2>2. shard_status' \in Seq(NetworkWorkers)
        BY <1>1 DEF register_enclave, PeersInv, PeersTyped
    <2>3. PeersTyped'
        BY <2>1, <2>2 DEF PeersInv, PeersTyped
    <2>4. BlocksExist' /\ OwedAreNotLost'
        BY <2>1 DEF PeersInv, BlocksExist, OwedAreNotLost, OwedKept
    <2> QED BY <2>1, <2>3, <2>4, ImportsStay DEF PeersInv
<1>2. CASE run_server(w)
    <2>1. /\ serving' = serving \cup {w}
          /\ UNCHANGED <<shard_status, headers, tip, import_queue, confirmations, peers, proposal,
                         broadcasts, told>>
        BY <1>2 DEF run_server, importVars, proposalVars
    <2>2. PeersTyped'
        BY <2>1 DEF PeersInv, PeersTyped
    <2>3. BlocksExist' /\ OwedAreNotLost'
        BY <2>1 DEF PeersInv, BlocksExist, OwedAreNotLost, OwedKept
    <2> QED BY <2>1, <2>2, <2>3, ImportsStay DEF PeersInv
<1>3. CASE stop_worker(w)
    <2> DEFINE without(v) == [proposal[v] EXCEPT !.owed = @ \ {w}]
    <2>1. /\ serving' = serving \ {w}
          /\ import_queue' = [import_queue EXCEPT ![w] = {}]
          /\ peers' = [peers EXCEPT ![w] = {}]
          /\ proposal' = [v \in NetworkWorkers |-> IF v = w THEN NoSending ELSE without(v)]
          /\ broadcasts' \subseteq broadcasts
          /\ UNCHANGED <<shard_status, headers, tip, confirmations, told>>
        BY <1>3 DEF stop_worker
    <2>2. NoSending \in Proposals /\ NoSending.phase = "none" /\ NoSending.owed = {}
        BY DEF NoSending, Proposals
    <2>3. ASSUME NEW v \in NetworkWorkers
          PROVE  /\ without(v) \in Proposals /\ without(v).phase = proposal[v].phase
                 /\ without(v).block = proposal[v].block /\ without(v).asking = proposal[v].asking
                 /\ without(v).found = proposal[v].found
                 /\ without(v).owed = proposal[v].owed \ {w}
        <3>1. proposal[v] \in Proposals
            BY DEF PeersInv, PeersTyped
        <3> QED BY <3>1 DEF Proposals
    <2> HIDE DEF without
    <2>4. /\ proposal' \in [NetworkWorkers -> Proposals] /\ proposal'[w] = NoSending
          /\ \A v \in NetworkWorkers \ {w} : proposal'[v] = without(v)
        BY <2>1, <2>2, <2>3
    <2>5. /\ import_queue' \in [NetworkWorkers -> SUBSET Nat]
          /\ \A v \in NetworkWorkers : import_queue'[v] \subseteq import_queue[v]
        BY <2>1 DEF PeersInv, PeersTyped
    <2>6. /\ peers' \in [NetworkWorkers -> SUBSET NetworkWorkers]
          /\ \A v \in NetworkWorkers \ {w} : peers'[v] = peers[v]
        BY <2>1 DEF PeersInv, PeersTyped
    <2>7. PeersTyped'
        BY <2>1, <2>4, <2>5, <2>6 DEF PeersInv, PeersTyped
    <2>8. BlocksExist'
        <3>1. ASSUME NEW v \in NetworkWorkers, proposal'[v].phase # "none"
              PROVE  /\ proposal'[v].block \in 1 .. Len(headers)
                     /\ headers[proposal'[v].block].author = v
            <4>1. v # w
                BY <2>2, <2>4, <3>1
            <4>2. proposal[v].phase # "none" /\ proposal'[v].block = proposal[v].block
                BY <2>3, <2>4, <3>1, <4>1
            <4> QED BY <4>2 DEF PeersInv, BlocksExist
        <3> QED BY <2>1, <2>5, <3>1 DEF PeersInv, BlocksExist
    <2>9. ASSUME NEW v \in NetworkWorkers PROVE OwedKept(v)'
        <3>1. CASE v = w
            BY <2>2, <2>4, <3>1 DEF OwedKept
        <3>2. CASE v # w
            <4>1. OwedKept(v)
                BY DEF PeersInv, OwedAreNotLost
            <4>2. /\ proposal'[v].phase = proposal[v].phase
                  /\ proposal'[v].block = proposal[v].block
                  /\ proposal'[v].asking = proposal[v].asking
                  /\ proposal'[v].found = proposal[v].found
                  /\ proposal'[v].owed = proposal[v].owed \ {w} /\ peers'[v] = peers[v]
                BY <2>3, <2>4, <2>6, <3>2
            <4> QED BY <2>1, <4>1, <4>2 DEF OwedKept
        <3> QED BY <3>1, <3>2
    <2> QED BY <2>1, <2>7, <2>8, <2>9, ImportsStay DEF PeersInv, OwedAreNotLost
<1> QED BY <1>1, <1>2, <1>3

\* Every step keeps the invariant.
LEMMA PeersStep ==
    PeersInv /\ [PeerNetworkNext]_networkVars => PeersInv'
<1> SUFFICES ASSUME PeersInv, [PeerNetworkNext]_networkVars PROVE PeersInv'
    OBVIOUS
<1>1. CASE UNCHANGED networkVars
    <2>1. PeersTyped'
        BY <1>1 DEF PeersInv, PeersTyped, networkVars
    <2>2. BlocksExist' /\ OwedAreNotLost'
        BY <1>1 DEF PeersInv, BlocksExist, OwedAreNotLost, OwedKept, networkVars
    <2> QED BY <1>1, <2>1, <2>2, ImportsStay DEF PeersInv, networkVars
<1>2. ASSUME NEW task \in broadcasts, import_blocks(task) PROVE PeersInv'
    BY <1>2, ImportBlocksStep
<1>3. ASSUME NEW w \in NetworkWorkers,
             \/ compose_block(w)
             \/ search_peers(w) \/ search_peers_fails(w)
             \/ get_untrusted_worker_url(w) \/ set_peers(w)
             \/ broadcast_blocks(w) \/ propose_returns(w)
             \/ process_queue(w)
             \/ register_enclave(w) \/ stop_worker(w) \/ run_server(w)
      PROVE  PeersInv'
    BY <1>3, ComposeBlockStep, SearchPeersStep, SearchPeersFailsStep, AskedStep, SetPeersStep,
       BroadcastStep, ReturnsStep, ProcessQueueStep, ServersStep
<1> QED BY <1>1, <1>2, <1>3 DEF PeerNetworkNext

\* To begin with there is no block.
LEMMA PeersInit == PeerNetworkInit => PeersInv
<1> SUFFICES ASSUME PeerNetworkInit PROVE PeersInv
    OBVIOUS
<1>1. NoSending \in Proposals /\ NoSending.phase = "none" /\ NoSending.owed = {}
    BY DEF NoSending, Proposals
<1>2. headers = <<>> /\ Len(headers) = 0 /\ headers \in Seq(Headers)
    BY DEF PeerNetworkInit
<1>3. \A w \in NetworkWorkers :
          /\ proposal[w] = NoSending /\ tip[w] = 0 /\ import_queue[w] = {}
          /\ confirmations[w] = <<>>
    BY DEF PeerNetworkInit
<1>4. PeersTyped
    <2>1. shard_status \in Seq(NetworkWorkers) /\ serving \in SUBSET NetworkWorkers
        BY DEF PeerNetworkInit
    <2>2. Len(headers) <= MaxNetworkBlocks
        BY <1>2, Periods
    <2>3. proposal \in [NetworkWorkers -> Proposals]
        BY <1>1 DEF PeerNetworkInit
    <2>4. confirmations \in [NetworkWorkers -> Seq(Confirmations)]
        BY DEF PeerNetworkInit
    <2> QED BY <1>2, <2>1, <2>2, <2>3, <2>4 DEF PeerNetworkInit, PeersTyped
<1>5. BlocksExist
    BY <1>1, <1>2, <1>3 DEF PeerNetworkInit, BlocksExist
<1>6. BoundariesOnSchedule
    BY <1>2 DEF BoundariesOnSchedule
<1>7. ConfirmedInOrder
    BY <1>3 DEF ConfirmedInOrder
<1>8. OwedAreNotLost
    BY <1>1, <1>3 DEF OwedAreNotLost, OwedKept
<1> QED BY <1>4, <1>5, <1>6, <1>7, <1>8 DEF PeersInv

\* The invariant says what the peers can rely on.
LEMMA PeersImplies == PeersInv => PeersKeepUp
<1> SUFFICES ASSUME PeersInv PROVE PeersKeepUp
    OBVIOUS
<1>1. ConfirmedOncePerPeer
    <2> SUFFICES ASSUME NEW w \in NetworkWorkers, NEW i \in DOMAIN confirmations[w]
                 PROVE  /\ headers[confirmations[w][i].block].author # w
                        /\ i > 1 => confirmations[w][i - 1].block < confirmations[w][i].block
        BY DEF ConfirmedOncePerPeer
    <2>1. i \in 1 .. Len(confirmations[w])
        BY DEF PeersInv, PeersTyped
    <2> QED BY <2>1 DEF PeersInv, ConfirmedInOrder
<1>2. ReachablePeersTold
    BY DEF PeersInv, OwedAreNotLost, OwedKept, ReachablePeersTold
<1> QED BY <1>1, <1>2 DEF PeersInv, PeersKeepUp

-----------------------------------------------------------------------------
(* The theorems about PeerNetwork.                                         *)

\* Whoever composes, fails, stops and comes back: nobody speaks of a block before it exists, every
\* worker confirms only blocks it has, and whom a block is owed to is not lost on the way.
THEOREM PeersInvHolds == PeerNetworkSpec => []PeersInv
<1> QED BY PeersInit, PeersStep, PTL DEF PeerNetworkSpec

\* Every block names the boundary of its period, a worker confirms no block twice and none of its
\* own, and every worker of the shard whose server answers all the while is told of a block.
THEOREM PeersKeepUpHolds == PeerNetworkSpec => []PeersKeepUp
<1> QED BY PeersInvHolds, PeersImplies, PTL

-----------------------------------------------------------------------------
\* The component on its own.
SidechainStateSpec == SidechainStateInit /\ [][SidechainStateNext]_sidechainStateVars

-----------------------------------------------------------------------------
(* Types.                                                                  *)

Values == {v \in Int : v >= -1}
States == [StoreKeys -> Values]
Diffs == [StoreKeys -> Values \cup {Unchanged}]
Externalities == [state : States, diff : Diffs]

\* A block has an identifier of its own, and carries two states and a diff.
BlocksTyped ==
    /\ IsFiniteSet(blocks) /\ Cardinality(blocks) \in Nat
    /\ \A b \in blocks :
          /\ b.id \in 1 .. Cardinality(blocks)
          /\ b.payload.state_hash_apriori \in States
          /\ b.payload.state_hash_aposteriori \in States
          /\ b.payload.state_update \in Diffs
    /\ \A b, c \in blocks : b.id = c.id => b = c

StateTypeOK ==
    /\ ext \in [StateWorkers -> Externalities]
    /\ base \in States
    /\ BlocksTyped

-----------------------------------------------------------------------------
(* The inductive invariant.                                                *)

\* A diff holds nothing but what the state has.
Faithful(e) == \A k \in StoreKeys : e.diff[k] = Unchanged \/ e.diff[k] = e.state[k]

\* The externalities e are on their way from the state s: the diff has every change since s.
Tracks(e, s) ==
    /\ e \in Externalities
    /\ Faithful(e)
    /\ \A k \in StoreKeys : e.diff[k] = Unchanged => e.state[k] = s[k]

\* The state of a worker is what its last block says, but for the parentchain header.
FromLastBlock(w) ==
    \/ \A k \in StoreKeys \ {"ParentchainBlock"} : ext[w].state[k] = Absent
    \/ \E b \in blocks :
          /\ ext[w].state["LastBlock"] = b.id
          /\ \A k \in StoreKeys \ {"ParentchainBlock", "LastBlock"} :
                ext[w].state[k] = b.payload.state_hash_aposteriori[k]

\* The clone leads from the state it was cloned from, blocks from one state to the other.
StateInv ==
    /\ StateTypeOK
    /\ Tracks(clone, base)
    /\ \A w \in StateWorkers : Faithful(ext[w]) /\ FromLastBlock(w)
    /\ DiffLeadsToState
-----------------------------------------------------------------------------
(* SgxExternalities: what its operations keep.                             *)

\* Every write, of a value or of an absence, reaches the state and the diff alike.
LEMMA WriteTracks ==
    ASSUME NEW e, NEW s \in States, Tracks(e, s),
           NEW G \in SUBSET StoreKeys, NEW v \in Values, NEW f,
           f = [state |-> [k \in StoreKeys |-> IF k \in G THEN v ELSE e.state[k]],
                diff |-> [k \in StoreKeys |-> IF k \in G THEN v ELSE e.diff[k]]]
    PROVE  Tracks(f, s)
<1>1. e.state \in States /\ e.diff \in Diffs
    BY DEF Tracks, Externalities
<1>2. f.state = [k \in StoreKeys |-> IF k \in G THEN v ELSE e.state[k]]
    OBVIOUS
<1>3. f.diff = [k \in StoreKeys |-> IF k \in G THEN v ELSE e.diff[k]]
    OBVIOUS
<1>4. f.state \in States /\ f.diff \in Diffs
    BY <1>1, <1>2, <1>3 DEF States, Diffs
<1>5. f \in Externalities
    BY <1>4 DEF Externalities
<1>6. Faithful(f)
    BY <1>2, <1>3 DEF Faithful, Tracks
<1>7. ASSUME NEW k \in StoreKeys, f.diff[k] = Unchanged PROVE f.state[k] = s[k]
    <2>1. k \notin G
        BY <1>3, <1>7 DEF Values, Unchanged
    <2> QED BY <1>2, <1>3, <1>7, <2>1 DEF Tracks
<1> QED BY <1>5, <1>6, <1>7 DEF Tracks

\* insert writes one key.
LEMMA InsertTracks ==
    ASSUME NEW e, NEW s \in States, Tracks(e, s), NEW k \in StoreKeys, NEW v \in Values
    PROVE  Tracks(insert(e, k, v), s)
<1>1. e.state \in States /\ e.diff \in Diffs
    BY DEF Tracks, Externalities
<1>2. /\ [e.state EXCEPT ![k] = v] = [j \in StoreKeys |-> IF j \in {k} THEN v ELSE e.state[j]]
      /\ [e.diff EXCEPT ![k] = v] = [j \in StoreKeys |-> IF j \in {k} THEN v ELSE e.diff[j]]
    BY <1>1 DEF States, Diffs
<1>3. insert(e, k, v) = [state |-> [j \in StoreKeys |-> IF j \in {k} THEN v ELSE e.state[j]],
                         diff |-> [j \in StoreKeys |-> IF j \in {k} THEN v ELSE e.diff[j]]]
    BY <1>2 DEF insert
<1>4. {k} \in SUBSET StoreKeys
    OBVIOUS
<1> HIDE DEF StoreKeys, insert, Tracks, Values, States
<1> QED BY <1>3, <1>4, WriteTracks

\* remove writes the absence of one key, also of one that the state does not have.
LEMMA RemoveTracks ==
    ASSUME NEW e, NEW s \in States, Tracks(e, s), NEW k \in StoreKeys
    PROVE  Tracks(remove(e, k), s)
<1>1. Absent \in Values
    BY DEF Absent, Values
<1>2. remove(e, k) = insert(e, k, Absent)
    BY DEF remove, insert
<1> QED BY <1>1, <1>2, InsertTracks

\* append writes the longer list.
LEMMA AppendTracks ==
    ASSUME NEW e, NEW s \in States, Tracks(e, s), NEW k \in StoreKeys
    PROVE  Tracks(append(e, k), s)
<1>1. e.state[k] \in Values
    BY DEF Tracks, Externalities, States
<1>2. appended(e.state[k]) \in Values
    BY <1>1 DEF Values, appended, Absent
<1> QED BY <1>2, InsertTracks DEF append

\* clear_prefix writes the absence of the keys that the state has.
LEMMA ClearPrefixTracks ==
    ASSUME NEW e, NEW s \in States, Tracks(e, s)
    PROVE  Tracks(clear_prefix(e, EventTopics), s)
<1> DEFINE G == {k \in EventTopics : e.state[k] # Absent}
<1>1. Absent \in Values
    BY DEF Absent, Values
<1>2. G \in SUBSET StoreKeys
    BY DEF EventTopics, StoreKeys
<1>3. clear_prefix(e, EventTopics) =
          [state |-> [k \in StoreKeys |-> IF k \in G THEN Absent ELSE e.state[k]],
           diff |-> [k \in StoreKeys |-> IF k \in G THEN Absent ELSE e.diff[k]]]
    BY DEF clear_prefix
<1> HIDE DEF G
<1> QED BY <1>1, <1>2, <1>3, WriteTracks

\* Where the diff holds every change and nothing else, applying it leads to the state.
LEMMA TracksLeads ==
    ASSUME NEW e, NEW s \in States, Tracks(e, s)
    PROVE  ApplyDiff(s, e.diff) = e.state
<1>1. e.state \in [StoreKeys -> Values]
    BY DEF Tracks, Externalities, States
<1>2. \A k \in StoreKeys : (IF e.diff[k] = Unchanged THEN s[k] ELSE e.diff[k]) = e.state[k]
    BY DEF Tracks, Faithful
<1> QED BY <1>1, <1>2 DEF ApplyDiff

\* What load_cloned starts from: the state with its diff of what was written since the last block.
LEMMA CloneTracks ==
    ASSUME NEW e \in Externalities, Faithful(e)
    PROVE  Tracks(insert(reset_events(e), "Number", NumberOf(e.state) + 1), e.state)
<1>1. e.state \in States
    BY DEF Externalities
<1>2. Tracks(e, e.state)
    BY DEF Tracks
<1>3. "Events" \in StoreKeys /\ "Number" \in StoreKeys
    BY DEF StoreKeys
<1>4. Tracks(reset_events(e), e.state)
    BY <1>1, <1>2, <1>3, RemoveTracks, ClearPrefixTracks DEF reset_events
<1>5. e.state["Number"] \in Values
    BY <1>1, <1>3 DEF States
<1>6. NumberOf(e.state) + 1 \in Values
    BY <1>5 DEF NumberOf, Values, Absent
<1> QED BY <1>1, <1>3, <1>4, <1>6, InsertTracks

-----------------------------------------------------------------------------
(* The steps.                                                              *)

\* The empty externalities have nothing to tell.
LEMMA EmptyTracks == Empty.state \in States /\ Tracks(Empty, Empty.state)
<1>1. Absent \in Values
    BY DEF Absent, Values
<1>2. Empty.state = [k \in StoreKeys |-> Absent] /\ Empty.diff = [k \in StoreKeys |-> Unchanged]
    BY DEF Empty, NoDiff
<1>3. Empty.state \in States /\ Empty.diff \in Diffs
    BY <1>1, <1>2 DEF States, Diffs
<1>4. Empty \in Externalities
    BY <1>2, <1>3 DEF Externalities, Empty, NoDiff
<1> QED BY <1>2, <1>3, <1>4 DEF Tracks, Faithful

\* No block, no writes and empty states to begin with.
LEMMA StateInit == SidechainStateInit => StateInv
<1> SUFFICES ASSUME SidechainStateInit PROVE StateInv
    OBVIOUS
<1>1. Empty \in Externalities /\ Faithful(Empty) /\ Empty.state \in States
    BY EmptyTracks DEF Tracks
<1>2. \A k \in StoreKeys : Empty.state[k] = Absent
    BY DEF Empty
<1>3. BlocksTyped
    BY FS_EmptySet DEF SidechainStateInit, BlocksTyped
<1>4. StateTypeOK
    BY <1>1, <1>3 DEF SidechainStateInit, StateTypeOK
<1>5. ASSUME NEW w \in StateWorkers PROVE Faithful(ext[w]) /\ FromLastBlock(w)
    BY <1>1, <1>2 DEF SidechainStateInit, FromLastBlock
<1> QED BY <1>4, <1>5, EmptyTracks DEF StateInv, SidechainStateInit, DiffLeadsToState

\* What an action must show that leaves the states of the workers and the blocks alone.
LEMMA OnlyClone ==
    ASSUME StateInv, ext' = ext, blocks' = blocks, base' \in States, Tracks(clone', base')
    PROVE  StateInv'
<1>1. BlocksTyped'
    BY DEF StateInv, StateTypeOK, BlocksTyped
<1>2. StateTypeOK'
    BY <1>1 DEF StateInv, StateTypeOK
<1>3. \A w \in StateWorkers : (Faithful(ext[w]) /\ FromLastBlock(w))'
    BY DEF StateInv, FromLastBlock, Faithful
<1>4. DiffLeadsToState'
    BY DEF StateInv, DiffLeadsToState
<1>5. Tracks(clone, base)'
    OBVIOUS
<1> QED BY <1>2, <1>3, <1>4, <1>5 DEF StateInv

\* The clone takes over the diff of what the worker wrote since its last block.
LEMMA LoadClonedStep ==
    ASSUME StateInv, NEW w \in StateWorkers, load_cloned(w)
    PROVE  StateInv'
<1>1. ext[w] \in Externalities /\ Faithful(ext[w])
    BY DEF StateInv, StateTypeOK
<1>2. base' = ext[w].state /\ base' \in States
    BY <1>1 DEF load_cloned, Externalities
<1>3. clone' = insert(reset_events(ext[w]), "Number", NumberOf(ext[w].state) + 1)
    BY DEF load_cloned
<1>4. Tracks(clone', base')
    BY <1>1, <1>2, <1>3, CloneTracks
<1> QED BY <1>2, <1>4, OnlyClone DEF load_cloned

\* Whatever a call writes stays on the way from the cloned state.
LEMMA StorageCallStep ==
    ASSUME StateInv, storage_call
    PROVE  StateInv'
<1>1. base \in States /\ Tracks(clone, base)
    BY DEF StateInv, StateTypeOK
<1>2. "Events" \in StoreKeys /\ CallKeys \subseteq StoreKeys /\ 0 .. 1 \subseteq Values
    BY DEF StoreKeys, CallKeys, EventTopics, Values
<1>3. ext' = ext /\ blocks' = blocks /\ base' = base
    BY DEF storage_call, storage_write
<1>4. Tracks(clone', base)
    <2>1. CASE \E k \in CallKeys, v \in 0 .. 1 : storage_write(insert(clone, k, v))
        <3>1. PICK k \in CallKeys, v \in 0 .. 1 : clone' = insert(clone, k, v)
            BY <2>1 DEF storage_write
        <3> QED BY <1>1, <1>2, <3>1, InsertTracks
    <2>2. CASE \E k \in CallKeys : storage_write(remove(clone, k))
        <3>1. PICK k \in CallKeys : clone' = remove(clone, k)
            BY <2>2 DEF storage_write
        <3> QED BY <1>1, <1>2, <3>1, RemoveTracks
    <2>3. CASE storage_write(append(clone, "Events"))
        <3>1. clone' = append(clone, "Events")
            BY <2>3 DEF storage_write
        <3> QED BY <1>1, <1>2, <3>1, AppendTracks
    <2>4. CASE storage_write(clear_prefix(clone, EventTopics))
        <3>1. clone' = clear_prefix(clone, EventTopics)
            BY <2>4 DEF storage_write
        <3> QED BY <1>1, <3>1, ClearPrefixTracks
    <2> QED BY <2>1, <2>2, <2>3, <2>4 DEF storage_call
<1> QED BY <1>1, <1>3, <1>4, OnlyClone

\* A new block leads from the cloned state to the clone's: what Tracks says.
LEMMA ComposeStep ==
    ASSUME StateInv, compose_sidechain_block
    PROVE  StateInv'
<1> DEFINE number == NextNumber(clone.state)
           payload == StateUpdateOf(base, clone.state, clone.diff)
           block == [id |-> Cardinality(blocks) + 1, number |-> number, payload |-> payload]
<1>1. ext' = ext /\ clone' = Empty /\ base' = Empty.state
    BY DEF compose_sidechain_block
<1>2. Tracks(Empty, Empty.state) /\ Empty.state \in States
    BY EmptyTracks
<1>3. Tracks(clone', base') /\ base' \in States
    BY <1>1, <1>2
<1>4. CASE blocks' = blocks
    BY <1>1, <1>3, <1>4, OnlyClone
<1>5. CASE blocks' = blocks \cup {block}
    <2>1. base \in States /\ Tracks(clone, base) /\ BlocksTyped
        BY DEF StateInv, StateTypeOK
    <2>2. clone.state \in States /\ clone.diff \in Diffs
        BY <2>1 DEF Tracks, Externalities
    <2>3. /\ block.id = Cardinality(blocks) + 1
          /\ block.payload.state_hash_apriori = base
          /\ block.payload.state_hash_aposteriori = clone.state
          /\ block.payload.state_update = clone.diff
        BY DEF StateUpdateOf
    <2>4. ApplyDiff(base, clone.diff) = clone.state
        BY <2>1, TracksLeads
    <2> HIDE DEF block
    <2>5. block \notin blocks
        BY <2>1, <2>3 DEF BlocksTyped
    <2>6. IsFiniteSet(blocks') /\ Cardinality(blocks') = Cardinality(blocks) + 1
        BY <1>5, <2>1, <2>5, FS_AddElement DEF BlocksTyped
    <2>7. BlocksTyped'
        <3>1. IsFiniteSet(blocks') /\ Cardinality(blocks') \in Nat
            BY <2>1, <2>6 DEF BlocksTyped
        <3>2. ASSUME NEW b \in blocks'
              PROVE  /\ b.id \in 1 .. Cardinality(blocks')
                     /\ b.payload.state_hash_apriori \in States
                     /\ b.payload.state_hash_aposteriori \in States
                     /\ b.payload.state_update \in Diffs
            <4>1. CASE b \in blocks
                <5>1. b.id \in 1 .. Cardinality(blocks)
                    BY <2>1, <4>1 DEF BlocksTyped
                <5>2. b.id \in 1 .. Cardinality(blocks')
                    BY <2>1, <2>6, <5>1 DEF BlocksTyped
                <5> QED BY <2>1, <4>1, <5>2 DEF BlocksTyped
            <4>2. CASE b = block
                <5>1. b.id \in 1 .. Cardinality(blocks')
                    BY <2>1, <2>3, <2>6, <4>2 DEF BlocksTyped
                <5> QED BY <2>1, <2>2, <2>3, <4>2, <5>1
            <4> QED BY <1>5, <4>1, <4>2
        <3>3. ASSUME NEW b \in blocks', NEW c \in blocks', b.id = c.id PROVE b = c
            <4>1. \A d \in blocks : d.id # block.id
                BY <2>1, <2>3 DEF BlocksTyped
            <4> QED BY <1>5, <2>1, <3>3, <4>1 DEF BlocksTyped
        <3> QED BY <3>1, <3>2, <3>3 DEF BlocksTyped
    <2>8. StateTypeOK'
        BY <1>1, <1>3, <2>7 DEF StateInv, StateTypeOK
    <2>9. \A w \in StateWorkers : (Faithful(ext[w]) /\ FromLastBlock(w))'
        BY <1>1, <1>5 DEF StateInv, FromLastBlock, Faithful
    <2>10. DiffLeadsToState'
        BY <1>5, <2>3, <2>4 DEF StateInv, DiffLeadsToState
    <2> QED BY <1>3, <2>8, <2>9, <2>10 DEF StateInv
<1> QED BY <1>4, <1>5 DEF compose_sidechain_block

\* What an action must show that changes the state of one worker.
LEMMA OnlyExt ==
    ASSUME StateInv, NEW w \in StateWorkers, NEW e \in Externalities, Faithful(e),
           ext' = [ext EXCEPT ![w] = e], FromLastBlock(w)',
           UNCHANGED <<clone, base, blocks>>
    PROVE  StateInv'
<1>1. BlocksTyped'
    BY DEF StateInv, StateTypeOK, BlocksTyped
<1>2. ext \in [StateWorkers -> Externalities]
    BY DEF StateInv, StateTypeOK
<1>3. ext'[w] = e /\ \A v \in StateWorkers \ {w} : ext'[v] = ext[v]
    BY <1>2
<1>4. StateTypeOK'
    BY <1>1, <1>2 DEF StateInv, StateTypeOK
<1>5. ASSUME NEW v \in StateWorkers PROVE (Faithful(ext[v]) /\ FromLastBlock(v))'
    <2>1. CASE v = w
        BY <1>3, <2>1 DEF Faithful
    <2>2. CASE v # w
        BY <1>3, <2>2 DEF StateInv, FromLastBlock, Faithful
    <2> QED BY <2>1, <2>2
<1>6. DiffLeadsToState'
    BY DEF StateInv, DiffLeadsToState
<1>7. Tracks(clone, base)'
    BY DEF StateInv, Tracks, Faithful
<1> QED BY <1>4, <1>5, <1>6, <1>7 DEF StateInv

\* An import leads to the state after the block, with its block the last one.
LEMMA ImportBlockStep ==
    ASSUME StateInv, NEW w \in StateWorkers, NEW b \in blocks, import_block(w, b)
    PROVE  StateInv'
<1> DEFINE after == b.payload.state_hash_aposteriori
           e == [state |-> [after EXCEPT !["LastBlock"] = b.id],
                 diff |-> [NoDiff EXCEPT !["LastBlock"] = b.id]]
<1>1. after \in States /\ b.id \in Values
    BY DEF StateInv, StateTypeOK, BlocksTyped, Values
<1>2. ext' = [ext EXCEPT ![w] = e]
    <2>1. ApplyDiff(ext[w].state, b.payload.state_update) = after
        BY DEF import_block, SameHash
    <2>2. set_last_block(prune_state_diff([state |-> after, diff |-> ext[w].diff]), b) = e
        BY DEF set_last_block, prune_state_diff, insert
    <2> QED BY <2>1, <2>2 DEF import_block
<1>3. "LastBlock" \in StoreKeys
    BY DEF StoreKeys
<1>4. NoDiff = [k \in StoreKeys |-> Unchanged] /\ NoDiff \in Diffs
    BY DEF NoDiff, Diffs
<1>5. e.state \in States /\ e.diff \in Diffs
    BY <1>1, <1>3, <1>4 DEF States, Diffs
<1>6. /\ e.state["LastBlock"] = b.id /\ e.diff["LastBlock"] = b.id
      /\ \A k \in StoreKeys \ {"LastBlock"} : e.state[k] = after[k] /\ e.diff[k] = Unchanged
    BY <1>1, <1>3, <1>4 DEF States
<1>7. e \in Externalities
    BY <1>5 DEF Externalities
<1> HIDE DEF e
<1>8. Faithful(e)
    BY <1>6 DEF Faithful
<1>9. ext'[w] = e
    BY <1>2 DEF StateInv, StateTypeOK
<1>10. blocks' = blocks /\ UNCHANGED <<clone, base, blocks>>
    BY DEF import_block
<1>11. FromLastBlock(w)'
    BY <1>6, <1>9, <1>10 DEF FromLastBlock
<1> QED BY <1>2, <1>7, <1>8, <1>10, <1>11, OnlyExt

\* The parentchain header is in nobody's way.
LEMMA ParentchainStep ==
    ASSUME StateInv, NEW w \in StateWorkers, update_parentchain_block(w)
    PROVE  StateInv'
<1> DEFINE v == ext[w].state["ParentchainBlock"] + 1
           e == insert(ext[w], "ParentchainBlock", v)
<1>1. ext[w] \in Externalities /\ Faithful(ext[w]) /\ ext[w].state \in States
    BY DEF StateInv, StateTypeOK, Externalities
<1>2. "ParentchainBlock" \in StoreKeys
    BY DEF StoreKeys
<1>3. v \in Values
    BY <1>1, <1>2 DEF States, Values
<1>4. Tracks(ext[w], ext[w].state)
    BY <1>1 DEF Tracks
<1>5. Tracks(e, ext[w].state)
    BY <1>1, <1>2, <1>3, <1>4, InsertTracks
<1>6. ext' = [ext EXCEPT ![w] = e]
    BY DEF update_parentchain_block, insert
<1>7. \A k \in StoreKeys \ {"ParentchainBlock"} : e.state[k] = ext[w].state[k]
    BY <1>1 DEF insert, States
<1> HIDE DEF e, v
<1>8. ext'[w] = e /\ blocks' = blocks
    BY <1>6 DEF StateInv, StateTypeOK, update_parentchain_block
<1>9. "LastBlock" \in StoreKeys \ {"ParentchainBlock"}
    BY DEF StoreKeys
<1>10. FromLastBlock(w)
    BY DEF StateInv
<1>11. FromLastBlock(w)'
    BY <1>7, <1>8, <1>9, <1>10 DEF FromLastBlock
<1>12. e \in Externalities /\ Faithful(e)
    BY <1>5 DEF Tracks
<1> QED BY <1>6, <1>11, <1>12, OnlyExt DEF update_parentchain_block

\* Every step keeps the invariant.
LEMMA StateStep ==
    StateInv /\ [SidechainStateNext]_sidechainStateVars => StateInv'
<1> SUFFICES ASSUME StateInv, [SidechainStateNext]_sidechainStateVars PROVE StateInv'
    OBVIOUS
<1>1. base \in States /\ Tracks(clone, base)
    BY DEF StateInv, StateTypeOK
<1>2. CASE UNCHANGED <<ext, clone, base, blocks>>
    BY <1>1, <1>2, OnlyClone
<1>3. ASSUME NEW w \in StateWorkers, load_cloned(w) PROVE StateInv'
    BY <1>3, LoadClonedStep
<1>4. ASSUME NEW w \in StateWorkers, update_parentchain_block(w) PROVE StateInv'
    BY <1>4, ParentchainStep
<1>5. ASSUME NEW w \in StateWorkers, NEW b \in blocks, import_block(w, b) PROVE StateInv'
    BY <1>5, ImportBlockStep
<1>6. CASE execute_with
    BY <1>2, <1>6 DEF execute_with
<1>7. CASE storage_call
    BY <1>7, StorageCallStep
<1>8. CASE start_transaction
    BY <1>2, <1>8 DEF start_transaction
<1>9. CASE commit_transaction
    BY <1>2, <1>9 DEF commit_transaction
<1>10. CASE rollback_transaction
    BY <1>2, <1>10 DEF rollback_transaction
<1>11. CASE leave_environment
    BY <1>2, <1>11 DEF leave_environment
<1>12. CASE compose_sidechain_block
    BY <1>12, ComposeStep
<1>13. CASE UNCHANGED sidechainStateVars
    BY <1>2, <1>13 DEF sidechainStateVars
<1> QED BY <1>3, <1>4, <1>5, <1>6, <1>7, <1>8, <1>9, <1>10, <1>11, <1>12, <1>13
    DEF SidechainStateNext

\* Two workers with the same last block took their states from that block.
LEMMA StatesAgreeInv == StateInv => StatesAgree
<1> SUFFICES ASSUME StateInv PROVE StatesAgree
    OBVIOUS
<1>1. "LastBlock" \in StoreKeys \ {"ParentchainBlock"}
    BY DEF StoreKeys
<1>2. \A b \in blocks : b.id # Absent
    BY DEF StateInv, StateTypeOK, BlocksTyped, Absent
<1>3. \A b, c \in blocks : b.id = c.id => b = c
    BY DEF StateInv, StateTypeOK, BlocksTyped
<1>4. ASSUME NEW v \in StateWorkers, NEW w \in StateWorkers,
             ext[v].state["LastBlock"] = ext[w].state["LastBlock"],
             NEW k \in StoreKeys \ {"ParentchainBlock"}
      PROVE  ext[v].state[k] = ext[w].state[k]
    <2>1. FromLastBlock(v) /\ FromLastBlock(w)
        BY DEF StateInv
    <2> QED BY <1>1, <1>2, <1>3, <1>4, <2>1 DEF FromLastBlock
<1>5. WorkersConverge
    BY <1>4 DEF WorkersConverge
<1> QED BY <1>5 DEF StateInv, StatesAgree

-----------------------------------------------------------------------------
(* The theorems.                                                           *)

\* The diffs of the externalities are faithful and complete whatever the calls write, append,
\* remove and clear, and however imports and parentchain headers come in between.
THEOREM StateInvHolds == SidechainStateSpec => []StateInv
<1> QED BY StateInit, StateStep, PTL DEF SidechainStateSpec

\* State diffs are what workers agree by: a block's diff leads everybody who has its parent's
\* state to the same state, and workers with the same last block have the same state.
THEOREM StatesAgreeHolds == SidechainStateSpec => []StatesAgree
<1> QED BY StateInvHolds, StatesAgreeInv, PTL
=============================================================================
