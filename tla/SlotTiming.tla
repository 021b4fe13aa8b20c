----------------------------- MODULE SlotTiming -----------------------------
(***************************************************************************)
(* The time of the slot thread: the slot stream that wakes it, the ecall   *)
(* execute_trusted_calls with the moments at which it reads the clock, the *)
(* scheduler that shares a slot among the shards, and the imports of the   *)
(* target parentchains in a slot.                                          *)
(*                                                                         *)
(* The clock counts milliseconds and advances between any two steps: each  *)
(* step may take any time.  Whether the enclave may claim the slot, which  *)
(* SidechainConsensus models, is a choice here.                            *)
(***************************************************************************)
EXTENDS Integers, Sequences, FiniteSets, FiniteSetsExt

CONSTANTS
    SLOT_DURATION,     \* milliseconds of a slot
    SlotShards,        \* the shards, a sequence: list_shards names each one once
    TargetChains,      \* target parentchains with a triggered dispatcher
    MaxClock,          \* bound of the model: the last moment
    MaxTargetBlocks    \* bound of the model: blocks of a target parentchain

ASSUME SlotTimingAssumption ==
    /\ SLOT_DURATION \in Nat \ {0} /\ MaxClock \in Nat /\ MaxTargetBlocks \in Nat
    /\ Len(SlotShards) \in Nat \ {0}
    /\ \A i, j \in 1 .. Len(SlotShards) : SlotShards[i] = SlotShards[j] => i = j

VARIABLES
    clock,          \* duration_now
    inner_delay,    \* when the delay of the slot stream ends
    slotThread,     \* where the slot thread is
    LAST_SLOT,      \* LAST_SLOT
    targetQueue,    \* chain -> the block import queue of its dispatcher
    targetHead,     \* chain -> the last block the light client has imported
    produced        \* history: the blocks handed to the broadcast

slotTimingVars == <<clock, inner_delay, slotThread, LAST_SLOT, targetQueue, targetHead, produced>>

slot_from_timestamp_and_duration(timestamp) == timestamp \div SLOT_DURATION
slot_ends_at(slot) == (slot + 1) * SLOT_DURATION

\* The end of the running slot: never the present moment.
time_until_next_slot(now) == slot_ends_at(slot_from_timestamp_and_duration(now)) - now

Dormant == [at |-> "dormant"]

SlotTimingInit ==
    /\ clock = SLOT_DURATION - 1 /\ inner_delay = SLOT_DURATION
    /\ slotThread = Dormant /\ LAST_SLOT = 0
    /\ targetQueue = [c \in TargetChains |-> <<>>]
    /\ targetHead = [c \in TargetChains |-> 0] /\ produced = {}

Ticks ==
    /\ clock < MaxClock /\ clock' = clock + 1
    /\ UNCHANGED <<inner_delay, slotThread, LAST_SLOT, targetQueue, targetHead, produced>>

\* The sync thread of a target parentchain queues the next block.
push_target_block(c) ==
    LET known == IF targetQueue[c] = <<>> THEN targetHead[c] ELSE targetQueue[c][Len(targetQueue[c])] IN
    /\ known < MaxTargetBlocks
    /\ targetQueue' = [targetQueue EXCEPT ![c] = Append(@, known + 1)]
    /\ UNCHANGED <<clock, inner_delay, slotThread, LAST_SLOT, targetHead, produced>>

\* next_slot sets the next delay before the task runs.
next_slot ==
    /\ slotThread = Dormant /\ clock >= inner_delay
    /\ inner_delay' = clock + time_until_next_slot(clock)
    /\ slotThread' = [at |-> "ecall"]
    /\ UNCHANGED <<clock, LAST_SLOT, targetQueue, targetHead, produced>>

\* execute_trusted_calls waits for the lock of the enclave, reads the clock and
\* processes the queue of sidechain blocks.
execute_top_pool_trusted_calls ==
    /\ slotThread.at = "ecall"
    /\ slotThread' = [at |-> "queue", timestamp |-> clock]
    /\ UNCHANGED <<clock, inner_delay, LAST_SLOT, targetQueue, targetHead, produced>>

SlotOver(slot, lastSlot) == slot <= lastSlot

\* The shards of a slot one after the other, from the first.
exec_aura_on_slot(slot) ==
    [at |-> "shard", slot |-> slot, i |-> 1, results |-> {},
     first |-> 0, due |-> slot_ends_at(slot), kept |-> TRUE]

\* yield_next_slot with the moment read before the queue was processed.
yield_next_slot_mut ==
    /\ slotThread.at = "queue"
    /\ LET slot == slot_from_timestamp_and_duration(slotThread.timestamp)
           goes == slot >= LAST_SLOT /\ clock < slot_ends_at(slot) IN
       /\ LAST_SLOT' = IF SlotOver(slot, LAST_SLOT) THEN LAST_SLOT ELSE slot
       /\ slotThread' = IF goes
                        THEN exec_aura_on_slot(slot)
                        ELSE Dormant
    /\ UNCHANGED <<clock, inner_delay, targetQueue, targetHead, produced>>
yield_next_slot ==
    /\ slotThread.at = "queue"
    /\ LET slot == slot_from_timestamp_and_duration(slotThread.timestamp)
           goes == ~SlotOver(slot, LAST_SLOT) /\ clock < slot_ends_at(slot) IN
       /\ LAST_SLOT' = IF SlotOver(slot, LAST_SLOT) THEN LAST_SLOT ELSE slot
       /\ slotThread' = IF goes
                        THEN exec_aura_on_slot(slot)
                        ELSE Dormant
    /\ UNCHANGED <<clock, inner_delay, targetQueue, targetHead, produced>>

\* What PerShardSlotWorkerScheduler gives the i-th shard at a moment.
shard_remaining_duration_mut(slot, i, now) ==
    IF now > slot_ends_at(slot) THEN 0
    ELSE (slot_ends_at(slot) - now) \div Len(SlotShards)
shard_remaining_duration(slot, i, now) ==
    IF now > slot_ends_at(slot) THEN 0
    ELSE (slot_ends_at(slot) - now) \div (Len(SlotShards) - i + 1)

\* After the last shard, or when no time is left, the blocks are broadcast.
send_blocks ==
    /\ slotThread.at = "shard"
    /\ slotThread.i <= Len(SlotShards) =>
           shard_remaining_duration(slotThread.slot, slotThread.i, clock) = 0
    /\ produced' = produced \cup slotThread.results
    /\ slotThread' = Dormant
    /\ UNCHANGED <<clock, inner_delay, LAST_SLOT, targetQueue, targetHead>>

\* peek_latest of a dispatcher: the block at the back of the queue, if there is one.
peek_latest(queue) == IF queue = <<>> THEN {} ELSE {queue[Len(queue)]}

\* That block, or the last imported header, which the slot info has.
peek_latest_header(c) ==
    IF peek_latest(targetQueue[c]) = {} THEN targetHead[c] ELSE CHOOSE b \in peek_latest(targetQueue[c]) : TRUE

\* BLOCK_PROPOSAL_SLOT_PORTION is 0.7.
proposing_remaining_duration(ends, duration, now) ==
    (7 * (IF now > ends THEN 0 ELSE Min({ends - now, duration}))) \div 10

\* The shard slot; on_slot peeks the headers of the target parentchains.
on_shard_slot ==
    /\ slotThread.at = "shard" /\ slotThread.i <= Len(SlotShards)
    /\ LET share == shard_remaining_duration(slotThread.slot, slotThread.i, clock) IN
       /\ share > 0
       /\ slotThread' = [at |-> "slot", slot |-> slotThread.slot, i |-> slotThread.i,
                         results |-> slotThread.results, timestamp |-> clock, share |-> share,
                         first |-> IF slotThread.i = 1 THEN share ELSE slotThread.first,
                         kept |-> slotThread.kept /\ clock <= slotThread.due,
                         due |-> clock + share]
    /\ UNCHANGED <<clock, inner_delay, LAST_SLOT, targetQueue, targetHead, produced>>

NextShard(results) ==
    [at |-> "shard", slot |-> slotThread.slot, i |-> slotThread.i + 1, results |-> results,
     first |-> slotThread.first, due |-> slotThread.due, kept |-> slotThread.kept]

\* on_slot ends early: no time to propose, no epoch data, or the slot of another.
no_claim ==
    /\ slotThread.at = "slot"
    /\ slotThread' = NextShard(slotThread.results)
    /\ UNCHANGED <<clock, inner_delay, LAST_SLOT, targetQueue, targetHead, produced>>

peek_and_claim ==
    /\ slotThread.at = "slot"
    /\ proposing_remaining_duration(slotThread.due, slotThread.share, clock) > 0
    /\ slotThread' = [at |-> "import", peeked |-> [c \in TargetChains |-> peek_latest_header(c)],
                      todo |-> TargetChains,
                      slot |-> slotThread.slot, i |-> slotThread.i,
                      results |-> slotThread.results, timestamp |-> slotThread.timestamp,
                      share |-> slotThread.share, first |-> slotThread.first,
                      due |-> slotThread.due, kept |-> slotThread.kept]
    /\ UNCHANGED <<clock, inner_delay, LAST_SLOT, targetQueue, targetHead, produced>>

\* pop_until: up to and with the block, or nothing when it is not queued.
pop_target_blocks(queue, header) ==
    IF \E i \in DOMAIN queue : queue[i] = header
    THEN SubSeq(queue, 1, CHOOSE i \in DOMAIN queue : queue[i] = header) ELSE <<>>

import_until(c) ==
    /\ slotThread.at = "import" /\ c \in slotThread.todo
    /\ LET blocks == pop_target_blocks(targetQueue[c], slotThread.peeked[c]) IN
       /\ targetQueue' = [targetQueue EXCEPT ![c] = SubSeq(@, Len(blocks) + 1, Len(@))]
       /\ targetHead' = [targetHead EXCEPT ![c] = IF blocks = <<>> THEN @ ELSE blocks[Len(blocks)]]
    /\ slotThread' = [slotThread EXCEPT !.todo = @ \ {c}]
    /\ UNCHANGED <<clock, inner_delay, LAST_SLOT, produced>>

\* The block is stamped when it is composed; one out of its slot is discarded.
stamp_within_slot_mut(thread, stamp) == thread.timestamp <= stamp
stamp_within_slot(thread, stamp) == thread.timestamp <= stamp /\ thread.due >= stamp

propose_in_slot ==
    /\ slotThread.at = "import" /\ slotThread.todo = {}
    /\ slotThread' = NextShard(IF stamp_within_slot(slotThread, clock)
                               THEN slotThread.results \cup
                                       {[slot |-> slotThread.slot, stamp |-> clock,
                                         shard |-> SlotShards[slotThread.i]]}
                               ELSE slotThread.results)
    /\ UNCHANGED <<clock, inner_delay, LAST_SLOT, targetQueue, targetHead, produced>>

SlotTimingNext ==
    \/ Ticks \/ next_slot \/ execute_top_pool_trusted_calls \/ yield_next_slot
    \/ send_blocks \/ on_shard_slot \/ no_claim \/ peek_and_claim \/ propose_in_slot
    \/ \E c \in TargetChains : push_target_block(c) \/ import_until(c)
-----------------------------------------------------------------------------
(* However late the thread wakes and however long an ecall waits for the  *)
(* lock, a shard gets at most one block of this author in a slot.         *)
OneBlockASlot ==
    \A p, q \in produced : p.slot = q.slot /\ p.shard = q.shard => p = q

(* A block that is broadcast is stamped in its slot, or at the very       *)
(* moment the slot ends: timestamp_within_slot takes the end as inside,   *)
(* though slot_from_timestamp_and_duration puts it into the next slot.    *)
StampWithinSlot ==
    \A p \in produced : p.slot * SLOT_DURATION <= p.stamp /\ p.stamp <= slot_ends_at(p.slot)

(* No shard starves while the others keep their time: if each shard ended *)
(* within its share, the next one gets no less than the first had.        *)
FairShares ==
    slotThread.at = "slot" /\ slotThread.kept => slotThread.share >= slotThread.first

(* A proposal is made on all the target blocks that were queued when      *)
(* on_slot peeked, though the sync thread goes on pushing meanwhile, and  *)
(* on no later one.                                                       *)
ProposalSeesTargets ==
    slotThread.at = "import" =>
        \A c \in TargetChains \ slotThread.todo : targetHead[c] = slotThread.peeked[c]

(* What the timing of a slot is for: one block of the author per shard,   *)
(* stamped in its slot, a share of the slot for every shard, and a        *)
(* proposal on the target blocks that were there.                         *)
SlotsAreKept == OneBlockASlot /\ StampWithinSlot /\ FairShares /\ ProposalSeesTargets
=============================================================================
