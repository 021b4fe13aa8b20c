------------------------- MODULE SidechainConsensus -------------------------
(***************************************************************************)
(* AURA block production and block import of the validateers of one shard. *)
(*                                                                         *)
(* Every slot each validateer runs execute_top_pool_trusted_calls: it pops *)
(* its sidechain import queue, imports the blocks (synchronising from the  *)
(* primary worker when it misses some), and, if the slot is its own,       *)
(* proposes a block on its last one.  The proposer does not apply its own  *)
(* block: the block is broadcast to all peers, itself included, and comes  *)
(* back through the import queue.  Parentchain blocks wait in a queue of   *)
(* their own and are imported up to the block a sidechain block refers to. *)
(*                                                                         *)
(* A block is the sequence of the data of all blocks up to it: its hash    *)
(* determines its ancestors, its number is its length and its parent hash  *)
(* is the sequence without the last element.  A state is what its hash     *)
(* distinguishes: the last sidechain block and the parentchain header that *)
(* update_states wrote last.  Parentchain headers are their numbers.       *)
(***************************************************************************)
EXTENDS Integers, Sequences, FiniteSets

CONSTANTS
    Nodes,              \* validateers
    Primary,            \* the first signer in the shard status, asked for blocks
    Authorities,        \* Authorities[h]: signers of the shard at parentchain block h
    Calls,              \* trusted calls
    HashRank(_),        \* the order of block hashes
    MaxSlot,            \* bound: slots
    MaxHeight,          \* bound: parentchain blocks
    MaxRestarts,        \* bound: restarts of validateers
    MaxFailures         \* bound: failing parentchain imports and block fetches

ASSUME ConsensusAssumption ==
    /\ Nodes # {} /\ Primary \in Nodes
    /\ MaxSlot \in Nat \ {0} /\ MaxHeight \in Nat
    /\ MaxRestarts \in Nat /\ MaxFailures \in Nat
    /\ Authorities \in [0 .. MaxHeight -> Seq(Nodes) \ {<<>>}]

Slots == 1 .. MaxSlot
Heights == 0 .. MaxHeight

\* BlockData: what a block adds to its parent.  `base` is the parentchain
\* header in the state the calls were executed on (part of the apriori hash).
Data == [slot : Slots, author : Nodes, layer_one_head : Heights, base : Heights,
         calls : SUBSET Calls]

Genesis == <<>>
Number(b) == Len(b)
Parent(b) == SubSeq(b, 1, Len(b) - 1)
Top(b) == b[Len(b)]
IsPrefix(a, b) == Len(a) <= Len(b) /\ a = SubSeq(b, 1, Len(a))
Executed(b) == UNION {b[i].calls : i \in 1 .. Len(b)}

VARIABLES
    slot,       \* the slot the synchronised clocks are in
    height,     \* the latest finalized parentchain block
    seen,       \* seen[n]: last parentchain block dispatched to the import queue
    popped,     \* popped[n]: last parentchain block popped from it
    lc,         \* lc[n]: last block of the light client
    st,         \* st[n]: parentchain header in the shard state
    chain,      \* chain[n]: last sidechain block in the shard state
    broadcast,  \* blocks ever sent; delivery may lose, repeat and reorder them
    queue,      \* queue[n]: sidechain import queue
    woken,      \* woken[n]: slot in which SlotStream last woke the service's loop
    phase,      \* phase[n]: where execute_top_pool_trusted_calls is
    timestamp,  \* timestamp[n]: slot_beginning_timestamp, as a slot
    batch,      \* batch[n]: blocks popped and not yet tried
    todo,       \* todo[n]: fetched blocks to import, then the block itself again
    hdr,        \* hdr[n]: latest_imported_parentchain_header of process_queue
    sync_hdr,   \* sync_hdr[n]: that of fetch_and_import_blocks_from_peer
    last_slot,  \* last_slot[n]: LAST_SLOT, in memory only
    draft,      \* draft[n]: the block proposed, not yet broadcast
    pool,       \* pool[n]: trusted calls in the TOP pool
    effects,    \* <<call, block>>: parentchain extrinsics sent
    restarts, failures

parentchain == <<height, seen, popped, lc, st>>
importing == <<batch, todo, hdr, sync_hdr>>
vars == <<slot, height, seen, popped, lc, st, chain, broadcast, queue,
          woken, phase, timestamp, batch, todo, hdr, sync_hdr, last_slot, draft, pool, effects, restarts, failures>>

TypeOK ==
    /\ slot \in Slots /\ height \in Heights
    /\ seen \in [Nodes -> Heights] /\ popped \in [Nodes -> Heights]
    /\ lc \in [Nodes -> Heights] /\ st \in [Nodes -> Heights]
    /\ chain \in [Nodes -> Seq(Data)]
    /\ broadcast \subseteq Seq(Data)
    /\ queue \in [Nodes -> SUBSET broadcast]
    /\ woken \in [Nodes -> 0 .. MaxSlot]
    /\ phase \in [Nodes -> {"idle", "woken", "import", "broadcast", "effects"}]
    /\ timestamp \in [Nodes -> 0 .. MaxSlot]
    /\ batch \in [Nodes -> SUBSET broadcast]
    /\ todo \in [Nodes -> Seq(Seq(Data))]
    /\ hdr \in [Nodes -> Heights] /\ sync_hdr \in [Nodes -> Heights]
    /\ last_slot \in [Nodes -> 0 .. MaxSlot]
    /\ draft \in [Nodes -> Seq(Data)]
    /\ pool \in [Nodes -> SUBSET Calls]
    /\ effects \subseteq Calls \X Seq(Data)
    /\ restarts \in 0 .. MaxRestarts /\ failures \in 0 .. MaxFailures

Init ==
    /\ slot = 1 /\ height = 0
    /\ seen = [n \in Nodes |-> 0] /\ popped = seen /\ lc = seen /\ st = seen
    /\ chain = [n \in Nodes |-> Genesis]
    /\ broadcast = {}
    /\ queue = [n \in Nodes |-> {}]
    /\ woken = [n \in Nodes |-> 0]
    /\ phase = [n \in Nodes |-> "idle"]
    /\ timestamp = [n \in Nodes |-> 0]
    /\ batch = [n \in Nodes |-> {}]
    /\ todo = [n \in Nodes |-> <<>>]
    /\ hdr = [n \in Nodes |-> 0] /\ sync_hdr = hdr
    /\ last_slot = [n \in Nodes |-> 0]
    /\ draft = [n \in Nodes |-> Genesis]
    /\ pool = [n \in Nodes |-> {}]
    /\ effects = {}
    /\ restarts = 0 /\ failures = 0

-----------------------------------------------------------------------------
(* The environment: time, the parentchain, the network, the clients.       *)

Tick ==
    /\ slot < MaxSlot
    /\ slot' = slot + 1
    /\ UNCHANGED <<parentchain, chain, broadcast, queue, phase, timestamp, importing,
                   woken, last_slot, draft, pool, effects, restarts, failures>>

Finalize ==
    /\ height < MaxHeight
    /\ height' = height + 1
    /\ UNCHANGED <<slot, seen, popped, lc, st, chain, broadcast, queue, phase, timestamp,
                   importing, woken, last_slot, draft, pool, effects, restarts, failures>>

\* sync_parentchain pushes the finalized blocks to the import queue.
SyncParentchain(n) ==
    /\ seen[n] < height
    /\ seen' = [seen EXCEPT ![n] = @ + 1]
    /\ UNCHANGED <<slot, height, popped, lc, st, chain, broadcast, queue, phase, timestamp,
                   importing, woken, last_slot, draft, pool, effects, restarts, failures>>

\* import_blocks RPC: the block is pushed to the sidechain import queue.
Deliver(n, b) ==
    /\ b \in broadcast /\ b \notin queue[n]
    /\ queue' = [queue EXCEPT ![n] = @ \cup {b}]
    /\ UNCHANGED <<slot, parentchain, chain, broadcast, phase, timestamp, importing,
                   woken, last_slot, draft, pool, effects, restarts, failures>>

\* A client's call, or an indirect one, enters the pool of one validateer.  The
\* pool does not look at the state: a call that was executed may come again.
Submit(n, c) ==
    /\ c \notin pool[n]
    /\ pool' = [pool EXCEPT ![n] = @ \cup {c}]
    /\ UNCHANGED <<slot, parentchain, chain, broadcast, queue, phase, timestamp, importing,
                   woken, last_slot, draft, effects, restarts, failures>>

-----------------------------------------------------------------------------
(* process_queue                                                           *)

\* next_slot: the loop runs the task in a slot later than that of its last
\* wake-up, at once if the task took so long that the slot has begun.
Wake(n) ==
    /\ phase[n] = "idle" /\ woken[n] < slot
    /\ woken' = [woken EXCEPT ![n] = slot]
    /\ phase' = [phase EXCEPT ![n] = "woken"]
    /\ UNCHANGED <<slot, parentchain, chain, broadcast, queue, timestamp, importing, last_slot,
                   draft, pool, effects, restarts, failures>>

\* Takes the time, the light client's header and the whole import queue.
ProcessQueue(n) ==
    /\ phase[n] = "woken"
    /\ phase' = [phase EXCEPT ![n] = "import"]
    /\ timestamp' = [timestamp EXCEPT ![n] = slot]
    /\ hdr' = [hdr EXCEPT ![n] = lc[n]]
    /\ batch' = [batch EXCEPT ![n] = queue[n]]
    /\ queue' = [queue EXCEPT ![n] = {}]
    /\ UNCHANGED <<slot, parentchain, chain, broadcast, todo, sync_hdr, woken, last_slot, draft,
                   pool, effects, restarts, failures>>

\* Lowest number first, competitors for a number in the order of their hashes.
Before(b, c) ==
    Number(b) < Number(c) \/ (Number(b) = Number(c) /\ HashRank(b) <= HashRank(c))

\* process_queue tries block b of the batch.
Busy(n, b) ==
    phase[n] = "import" /\ b \in batch[n] /\ \A c \in batch[n] : Before(b, c)

Syncing(n) == todo[n] # <<>>

\* The block import_block is called with, and the header that goes with it.
Current(n, b) == IF Syncing(n) THEN todo[n][1] ELSE b
CurrentHeader(n) == IF Syncing(n) THEN sync_hdr[n] ELSE hdr[n]

InQueue(n, h) == h \in popped[n] + 1 .. seen[n]

\* Mutant: the import queue is not looked at.
PeekedHeader_mut(n, b) == CurrentHeader(n)

\* peek_parentchain_header, falling back to the header given.
PeekedHeader(n, b) ==
    IF InQueue(n, Top(b).layer_one_head) THEN Top(b).layer_one_head ELSE CurrentHeader(n)

\* slot_author: round robin over the authorities.
slot_author(s, authorities) == authorities[(s % Len(authorities)) + 1]

\* verify_block_ancestry and ensure_first_block.
AlreadyImported(n, b) == chain[n] # Genesis /\ Number(b) <= Number(chain[n])

\* Mutant: the parent hash is not compared.
AncestryMismatch_mut(n, b) == Number(b) > Number(chain[n]) + 1

AncestryMismatch(n, b) == ~AlreadyImported(n, b) /\ Parent(b) # chain[n]

\* verify_author, with the authorities of the peeked header.
verify_author(n, b) ==
    /\ PeekedHeader(n, b) = Top(b).layer_one_head
    /\ Top(b).author = slot_author(Top(b).slot, Authorities[PeekedHeader(n, b)])

Verified(n, b) ==
    ~AlreadyImported(n, b) /\ ~AncestryMismatch(n, b) /\ verify_author(n, b)

\* import_block succeeded: process_queue or the sync loop goes on.  A batch
\* drops all competitors of a number once one of them was imported.
Succeed(n, b, header) ==
    LET inner == Len(todo[n]) > 1
    IN  /\ todo' = [todo EXCEPT ![n] = IF Syncing(n) THEN Tail(@) ELSE @]
        /\ sync_hdr' = [sync_hdr EXCEPT ![n] = IF inner THEN header ELSE @]
        /\ hdr' = [hdr EXCEPT ![n] = IF inner THEN @ ELSE header]
        /\ batch' = [batch EXCEPT ![n] =
                        IF inner THEN @ ELSE {c \in @ : Number(c) # Number(b)}]

\* import_block failed: the sync is given up, the next competitor is next,
\* and the header process_queue remembers is the one from before.
Fail(n, b) ==
    /\ todo' = [todo EXCEPT ![n] = <<>>]
    /\ batch' = [batch EXCEPT ![n] = @ \ {b}]
    /\ UNCHANGED <<hdr, sync_hdr>>

\* A failure the environment causes.
MayFail == failures < MaxFailures /\ failures' = failures + 1

\* import_until(h) with no failure: pops and imports up to h if h is queued.
\* Blocks lost by an earlier failure make the light client refuse the rest.
CanImport(n, h) == InQueue(n, h) => popped[n] = lc[n]

\* Mutant: pops one block too many.
ImportedTo_mut(n, h) == IF InQueue(n, h) THEN h + 1 ELSE lc[n]

ImportedTo(n, h) == IF InQueue(n, h) THEN h ELSE lc[n]

\* Mutant: the state is written before the last block.
UpdatedTo_mut(n, h) == IF InQueue(n, h) THEN h - 1 ELSE st[n]

\* update_states has written every imported header to the state.
UpdatedTo(n, h) == IF InQueue(n, h) THEN h ELSE st[n]

ImportUntil(n, h) ==
    /\ CanImport(n, h)
    /\ popped' = [popped EXCEPT ![n] = IF InQueue(n, h) THEN h ELSE @]
    /\ lc' = [lc EXCEPT ![n] = ImportedTo(n, h)]
    /\ st' = [st EXCEPT ![n] = UpdatedTo(n, h)]
    /\ UNCHANGED <<height, seen, failures>>

\* import_until(h) that fails at block f (or, f = h + 1, when the extrinsics of
\* the whole import are sent).  The blocks are popped all the same, those before
\* f are imported.  If update_states failed, the light client already has f.
ImportUntilFails(n, h, f, submitted) ==
    /\ InQueue(n, h)
    /\ IF popped[n] = lc[n]
       THEN f \in lc[n] + 1 .. h + 1 /\ (submitted => f <= h) /\ MayFail
       ELSE f = lc[n] + 1 /\ ~submitted /\ UNCHANGED failures
    /\ popped' = [popped EXCEPT ![n] = h]
    /\ lc' = [lc EXCEPT ![n] = IF submitted THEN f ELSE f - 1]
    /\ st' = [st EXCEPT ![n] = IF f - 1 > lc[n] THEN f - 1 ELSE @]
    /\ UNCHANGED <<height, seen>>

-----------------------------------------------------------------------------
(* import_or_sync_block and import_block                                   *)

\* BlockAlreadyImported from the queue counts as success.
IgnoreBlock(n, b) ==
    /\ Busy(n, b) /\ ~Syncing(n) /\ AlreadyImported(n, Current(n, b))
    /\ Succeed(n, b, hdr[n])
    /\ UNCHANGED <<slot, parentchain, chain, broadcast, queue, phase, timestamp,
                   woken, last_slot, draft, pool, effects, restarts, failures>>

\* verify fails; in a sync every kind of failure ends it.
RejectBlock(n, b) ==
    /\ Busy(n, b) /\ ~Verified(n, Current(n, b))
    /\ Syncing(n) \/ (~AlreadyImported(n, Current(n, b)) /\ ~AncestryMismatch(n, Current(n, b)))
    /\ Fail(n, b)
    /\ UNCHANGED <<slot, parentchain, chain, broadcast, queue, phase, timestamp,
                   woken, last_slot, draft, pool, effects, restarts, failures>>

\* The authorities, or another fact the import needs, cannot be had.
VerifyFails(n, b) ==
    /\ Busy(n, b) /\ MayFail
    /\ Fail(n, b)
    /\ UNCHANGED <<slot, parentchain, chain, broadcast, queue, phase, timestamp,
                   woken, last_slot, draft, pool, effects, restarts>>

\* Mutant: the first missing block is left out.
BlocksInRange_mut(from, until) ==
    LET source == chain[Primary]
        last == IF IsPrefix(until, source) THEN Number(until) - 1 ELSE Number(source)
    IN  IF IsPrefix(from, source)
        THEN [i \in 1 .. last - Number(from) - 1 |-> SubSeq(source, 1, Number(from) + 1 + i)]
        ELSE <<>>

\* What the primary's storage answers: its blocks after ours, up to `until`;
\* none if it does not have our last block.
BlocksInRange(from, until) ==
    LET source == chain[Primary]
        last == IF IsPrefix(until, source) THEN Number(until) - 1 ELSE Number(source)
    IN  IF IsPrefix(from, source)
        THEN [i \in 1 .. last - Number(from) |-> SubSeq(source, 1, Number(from) + i)]
        ELSE <<>>

\* BlockAncestryMismatch or InvalidFirstBlock: fetch what is missing, then retry.
FetchBlocks(n, b) ==
    /\ Busy(n, b) /\ ~Syncing(n) /\ AncestryMismatch(n, Current(n, b))
    /\ chain[n] = Genesis => chain[Primary] # Genesis
    /\ todo' = [todo EXCEPT ![n] =
                   BlocksInRange(chain[n], Current(n, b)) \o <<Current(n, b)>>]
    /\ sync_hdr' = [sync_hdr EXCEPT ![n] = hdr[n]]
    /\ UNCHANGED <<slot, parentchain, chain, broadcast, queue, phase, timestamp, batch,
                   hdr, woken, last_slot, draft, pool, effects, restarts, failures>>

\* The request fails: always for a storage without blocks of the shard.
FetchBlocksFails(n, b) ==
    /\ Busy(n, b) /\ ~Syncing(n) /\ AncestryMismatch(n, Current(n, b))
    /\ IF chain[n] = Genesis /\ chain[Primary] = Genesis THEN UNCHANGED failures ELSE MayFail
    /\ Fail(n, b)
    /\ UNCHANGED <<slot, parentchain, chain, broadcast, queue, phase, timestamp,
                   woken, last_slot, draft, pool, effects, restarts>>

\* Mutant: the state diff is applied to whatever state there is.
AprioriHashMatches_mut(n, b) == TRUE

\* apply_state_update: the hash of our state, after the parentchain import, is
\* the apriori hash of the block.
AprioriHashMatches(n, b) == st'[n] = Top(b).base

\* The block is verified and the parentchain import works: the state update is
\* applied if the apriori hash is that of our state, which then holds the block
\* as its last one; its calls leave the pool; the block is stored.
ImportBlock(n, b) ==
    LET block == Current(n, b)
        head == Top(block).layer_one_head
    IN  /\ Busy(n, b) /\ Verified(n, block)
        /\ ImportUntil(n, head)
        /\ AprioriHashMatches(n, block)
        /\ chain' = [chain EXCEPT ![n] = block]
        /\ pool' = [pool EXCEPT ![n] = @ \ Top(block).calls]
        /\ Succeed(n, b, IF InQueue(n, head) THEN head ELSE CurrentHeader(n))
        /\ UNCHANGED <<slot, broadcast, queue, phase, timestamp, woken, last_slot, draft,
                       effects, restarts>>

\* InvalidAprioriHash: the parentchain blocks stay imported.
RefuseState(n, b) ==
    LET block == Current(n, b) IN
    /\ Busy(n, b) /\ Verified(n, block)
    /\ ImportUntil(n, Top(block).layer_one_head)
    /\ ~AprioriHashMatches(n, block)
    /\ Fail(n, b)
    /\ UNCHANGED <<slot, chain, broadcast, queue, phase, timestamp, woken, last_slot, draft,
                   pool, effects, restarts>>

\* The parentchain import fails.
ImportBlockFails(n, b) ==
    LET block == Current(n, b) IN
    /\ Busy(n, b) /\ Verified(n, block)
    /\ \E f \in 1 .. MaxHeight + 1, submitted \in BOOLEAN :
          ImportUntilFails(n, Top(block).layer_one_head, f, submitted)
    /\ Fail(n, b)
    /\ UNCHANGED <<slot, chain, broadcast, queue, phase, timestamp, woken, last_slot, draft,
                   pool, effects, restarts>>

-----------------------------------------------------------------------------
(* yield_next_slot, on_slot, and what follows                              *)

QueueDone(n) == phase[n] = "import" /\ batch[n] = {}

\* The latest parentchain header in the queue, else that of process_queue.
LatestHeader(n) == IF seen[n] > popped[n] THEN seen[n] ELSE hdr[n]

\* Mutant: the last slot is not remembered.
NewSlot_mut(n) == TRUE

\* yield_next_slot gives the slot out at most once, as long as it is remembered.
NewSlot(n) == timestamp[n] > last_slot[n]

\* Mutant: SlotClaimStrategy::Always.
ClaimsSlot_mut(n) == TRUE

ClaimsSlot(n) ==
    slot_author(timestamp[n], Authorities[LatestHeader(n)]) = n

\* The locals of execute_top_pool_trusted_calls leave their scope.
DropLocals(n) ==
    /\ timestamp' = [timestamp EXCEPT ![n] = 0]
    /\ hdr' = [hdr EXCEPT ![n] = 0]
    /\ sync_hdr' = [sync_hdr EXCEPT ![n] = 0]

\* No new slot, no time left in it, or it belongs to somebody else.
NoProposal(n) ==
    /\ QueueDone(n)
    /\ last_slot' = [last_slot EXCEPT ![n] = IF NewSlot(n) THEN timestamp[n] ELSE @]
    /\ phase' = [phase EXCEPT ![n] = "idle"]
    /\ DropLocals(n)
    /\ UNCHANGED <<slot, woken, parentchain, chain, broadcast, queue, batch, todo,
                   draft, pool, effects, restarts, failures>>

\* Mutant: the nonce is not checked.
ValidCalls_mut(n) == pool[n]

\* The calls the STF accepts on our state: their nonce is not used yet.
ValidCalls(n) == pool[n] \ Executed(chain[n])

\* Mutant: the proposal is made on the state itself.
StateAfterProposal_mut(n, b) == b

\* load_cloned: a proposal is made on a copy, the state stays what it is.
StateAfterProposal(n, b) == chain[n]

\* Otherwise the block was stamped too late and is discarded.
timestamp_within_slot(n) == slot = timestamp[n]

\* The slot is ours: import the parentchain up to the header, even if that
\* fails execute the calls of the pool on the state, as many as the time allows
\* (`calls` succeed, `invalid` do not and are dropped), and compose the block.  A proposal that fails or
\* is not finished within its slot is discarded.
Propose(n, calls, invalid) ==
    LET h == LatestHeader(n)
        block == Append(chain[n], [slot |-> slot, author |-> n, layer_one_head |-> h,
                                   base |-> st'[n], calls |-> calls])
    IN
    /\ QueueDone(n) /\ NewSlot(n) /\ ClaimsSlot(n)
    /\ \/ ImportUntil(n, h)
       \/ \E f \in 1 .. MaxHeight + 1, submitted \in BOOLEAN :
             ImportUntilFails(n, h, f, submitted)
    /\ pool' = [pool EXCEPT ![n] = @ \ invalid]
    /\ last_slot' = [last_slot EXCEPT ![n] = timestamp[n]]
    /\ chain' = [chain EXCEPT ![n] = StateAfterProposal(n, block)]
    /\ \/ /\ timestamp_within_slot(n)
          /\ phase' = [phase EXCEPT ![n] = "broadcast"]
          /\ draft' = [draft EXCEPT ![n] = block]
       \/ /\ phase' = [phase EXCEPT ![n] = "idle"]
          /\ UNCHANGED draft
    /\ DropLocals(n)
    /\ UNCHANGED <<slot, woken, broadcast, queue, batch, todo, effects, restarts>>

\* send_blocks_and_extrinsics: first the block to the peers ...
Broadcast(n) ==
    /\ phase[n] = "broadcast"
    /\ broadcast' = broadcast \cup {draft[n]}
    /\ phase' = [phase EXCEPT ![n] = "effects"]
    /\ UNCHANGED <<slot, parentchain, chain, queue, timestamp, importing, woken, last_slot,
                   draft, pool, effects, restarts, failures>>

\* ... then the extrinsics its calls want to send to the parentchain.
SendEffects(n) ==
    /\ phase[n] = "effects"
    /\ effects' = effects \cup {<<c, draft[n]>> : c \in Top(draft[n]).calls}
    /\ phase' = [phase EXCEPT ![n] = "idle"]
    /\ draft' = [draft EXCEPT ![n] = Genesis]
    /\ UNCHANGED <<slot, parentchain, chain, broadcast, queue, timestamp, importing,
                   woken, last_slot, pool, restarts, failures>>

\* Creating or sending an extrinsic fails: the effects are gone.
LoseEffects(n) ==
    /\ phase[n] = "effects" /\ MayFail
    /\ phase' = [phase EXCEPT ![n] = "idle"]
    /\ draft' = [draft EXCEPT ![n] = Genesis]
    /\ UNCHANGED <<slot, parentchain, chain, broadcast, queue, timestamp, importing,
                   woken, last_slot, pool, effects, restarts>>

\* Only the sealed light client and the sealed state survive; the service
\* dispatches parentchain blocks again from the light client's header, and a
\* new SlotStream first waits for the next slot.
Restart(n) ==
    /\ restarts < MaxRestarts
    /\ restarts' = restarts + 1
    /\ seen' = [seen EXCEPT ![n] = lc[n]]
    /\ popped' = [popped EXCEPT ![n] = lc[n]]
    /\ queue' = [queue EXCEPT ![n] = {}]
    /\ batch' = [batch EXCEPT ![n] = {}]
    /\ todo' = [todo EXCEPT ![n] = <<>>]
    /\ phase' = [phase EXCEPT ![n] = "idle"]
    /\ woken' = [woken EXCEPT ![n] = slot]
    /\ last_slot' = [last_slot EXCEPT ![n] = 0]
    /\ draft' = [draft EXCEPT ![n] = Genesis]
    /\ pool' = [pool EXCEPT ![n] = {}]
    /\ DropLocals(n)
    /\ UNCHANGED <<slot, height, lc, st, chain, broadcast, effects, failures>>

-----------------------------------------------------------------------------
Environment ==
    \/ Tick
    \/ Finalize
    \/ \E n \in Nodes : SyncParentchain(n)
    \/ \E n \in Nodes, b \in broadcast : Deliver(n, b)
    \/ \E n \in Nodes, c \in Calls : Submit(n, c)
    \/ \E n \in Nodes : Restart(n)

Validateer(n) ==
    \/ Wake(n)
    \/ ProcessQueue(n)
    \/ \E b \in batch[n] :
          \/ IgnoreBlock(n, b)
          \/ RejectBlock(n, b)
          \/ VerifyFails(n, b)
          \/ FetchBlocks(n, b)
          \/ FetchBlocksFails(n, b)
          \/ ImportBlock(n, b)
          \/ RefuseState(n, b)
          \/ ImportBlockFails(n, b)
    \/ NoProposal(n)
    \/ \E calls \in SUBSET ValidCalls(n) : \E invalid \in SUBSET (pool[n] \ ValidCalls(n)) :
          Propose(n, calls, invalid)
    \/ Broadcast(n)
    \/ SendEffects(n)
    \/ LoseEffects(n)

Next == Environment \/ \E n \in Nodes : Validateer(n)

Spec == Init /\ [][Next]_vars
-----------------------------------------------------------------------------
(* Properties.                                                             *)

Prefix(b, i) == SubSeq(b, 1, i)

\* No call takes effect twice in the state of a validateer, although pools are
\* not synchronised, calls come again, and a call stays in the pool of its
\* proposer until the block is back.
ExecutedOnce ==
    \A n \in Nodes : \A i, j \in 1 .. Len(chain[n]) :
        i # j => chain[n][i].calls \cap chain[n][j].calls = {}

\* A validateer's state only ever moves from a block to one of its children:
\* no import, sync or restart skips, repeats or reverts a block.
AppendOnly ==
    [][\A n \in Nodes : chain'[n] # chain[n] =>
          chain'[n] # Genesis /\ Parent(chain'[n]) = chain[n]]_vars

\* A block takes effect nowhere, not even at its author, before it was sent to
\* the peers: a crash of the author cannot leave a state only it has.
CommittedWasBroadcast ==
    \A n \in Nodes : \A i \in 1 .. Len(chain[n]) : Prefix(chain[n], i) \in broadcast

\* No author signs two blocks in a slot, although a delayed task runs twice in
\* a slot and a restart forgets LAST_SLOT.
OneBlockPerSlot ==
    \A b, c \in broadcast :
        Top(b).slot = Top(c).slot /\ Top(b).author = Top(c).author => b = c

\* Whatever import fails, the state is never ahead of the light client, which
\* is never ahead of the blocks handed to it, and the parentchain states blocks
\* were executed on do not go back along a chain.
ParentchainInOrder ==
    \A n \in Nodes :
        /\ st[n] <= lc[n] /\ lc[n] <= popped[n] /\ popped[n] <= seen[n]
        /\ \A i, j \in 1 .. Len(chain[n]) : i < j => chain[n][i].base <= chain[n][j].base
        /\ chain[n] # Genesis => Top(chain[n]).base <= st[n]

\* As long as no import failed, every block was executed on a state that has
\* the parentchain block it refers to.
ExecutedAfterImport ==
    failures = 0 =>
        \A n \in Nodes : \A i \in 1 .. Len(chain[n]) :
            chain[n][i].layer_one_head <= chain[n][i].base

\* slots/src/lib.rs: "Any sidechain stf that invokes a parentchain stf must not
\* commit its state change before the parentchain effect has been finalized."
\* At least the effect must have been sent when a block takes effect.
EffectsBeforeCommit ==
    \A n \in Nodes : \A i \in 1 .. Len(chain[n]) : \A c \in chain[n][i].calls :
        <<c, Prefix(chain[n], i)>> \in effects
=============================================================================
