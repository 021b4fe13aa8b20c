------------------------------ MODULE TopPool ------------------------------
(***************************************************************************)
(* A trusted operation from the client's request to its last status        *)
(* message: the direct RPC handler, the TOP pool author, ValidatedPool     *)
(* with its rotator and listener, the connection registry and the queue of *)
(* responses of the web socket server.                                     *)
(*                                                                         *)
(* Three threads interleave.  The web socket server handles one message    *)
(* after the other and is busy until it has written the reply; the slot    *)
(* thread proposes blocks and imports its own and its peers'; parentchain  *)
(* import submits indirect calls.  Each of the locks they take in turn     *)
(* (pool, listener, registry, response queue) is held for one step.        *)
(*                                                                         *)
(* Every operation of the worker requires no tag, provides the tag of its  *)
(* account and nonce, and has the same priority: what BasePool makes of    *)
(* these is a map with at most one operation per tag, handed out in the    *)
(* order of insertion.  The metrics of the pool's size are left out.       *)
(***************************************************************************)
EXTENDS Integers, Sequences, FiniteSets, Functions

CONSTANTS
    TopOps,          \* operations (their hashes)
    OpKind,          \* op -> "direct_call", "indirect_call", "get", or "garbage"
    OpAccount,       \* op -> account
    OpNonce,         \* op -> nonce
    Clients,         \* connections
    TopLimit,        \* Options::ready.count
    BanCapacity,     \* EXPECTED_SIZE of the rotator
    MaxRequests,     \* bound of the model: requests of the clients
    MaxTopBlocks     \* bound of the model: blocks proposed or imported

ASSUME TopPoolAssumption ==
    /\ OpKind \in [TopOps -> {"direct_call", "indirect_call", "get", "garbage"}]
    /\ OpNonce \in [TopOps -> Nat] /\ DOMAIN OpAccount = TopOps
    /\ IsFiniteSet(TopOps) /\ IsFiniteSet(Clients) /\ "none" \notin Clients
    /\ TopLimit \in Nat \ {0} /\ BanCapacity \in Nat \ {0}
    /\ MaxRequests \in Nat /\ MaxTopBlocks \in Nat

VARIABLES
    topReady,        \* ready operations: op -> insertion id
    insertionId,     \* the last insertion id
    banned,          \* banned_until of the rotator
    watchers,        \* watchers of the listener that are not done
    registry,        \* ConnectionRegistry: op -> connection
    signals,         \* SendResponse signals to the web socket server
    open,            \* connections of the web socket server
    handling,        \* the request the web socket server is busy with
    slot,            \* where the slot thread is, and the calls it works on
    nonces,          \* account -> nonce, in the state of the shard
    seen,            \* client -> op -> what it was told, in order
    missed,          \* history: operations whose end a request could not hear of
    topBlocks,       \* blocks so far
    topRequests      \* requests so far

topPoolVars == <<topReady, insertionId, banned, watchers, registry, signals, open, handling,
                 slot, nonces, seen, missed, topBlocks, topRequests>>

NoClient == "none"
Ready == DOMAIN topReady
Idle == [phase |-> "idle"]
Accounts == {OpAccount[o] : o \in TopOps}
Tag(o) == <<OpAccount[o], OpNonce[o]>>

TopPoolInit ==
    /\ topReady = <<>> /\ insertionId = 0 /\ banned = {} /\ watchers = {} /\ signals = <<>>
    /\ registry = [o \in TopOps |-> NoClient]
    /\ open = {} /\ handling = Idle /\ slot = Idle
    /\ nonces = [a \in Accounts |-> 0]
    /\ seen = [c \in Clients |-> [o \in TopOps |-> <<>>]]
    /\ missed = {} /\ topBlocks = 0 /\ topRequests = 0
-----------------------------------------------------------------------------
(* Status messages: listener, watcher and RPC responder. *)

\* A client is kept waiting after a refusal.
continue_watching_mut(status) == status \notin {"InSidechainBlock", "Finalized", "Usurped"}

continue_watching(status) == status \notin {"Invalid", "InSidechainBlock", "Finalized", "Usurped"}

\* Watcher::is_done after the event
is_done(status) == status \in {"Usurped", "InSidechainBlock", "Finalized", "FinalityTimeout", "Invalid", "Dropped"}

\* The response goes to whoever is registered, one operation after the other, and the
\* entry stays only if the client is to hear more.
update_status_event(ops, status) ==
    LET reached == {o \in ops : registry[o] # NoClient} IN
    /\ \E b \in Bijection(1 .. Cardinality(reached), reached) :
          signals' = signals \o [i \in 1 .. Cardinality(reached) |->
                                   [client |-> registry[b[i]], op |-> b[i], status |-> status]]
    /\ registry' = [o \in TopOps |->
                       IF o \in reached /\ ~continue_watching(status) THEN NoClient ELSE registry[o]]

\* The operation of a request that is not registered yet.
InRequest == IF handling.phase \in {"idle", "Stored"} THEN {} ELSE {handling.op}

\* Listener::fire, for each of the operations.
fire(ops, status) ==
    LET watched == ops \cap watchers IN
    /\ update_status_event(watched, status)
    /\ watchers' = IF is_done(status) THEN watchers \ watched ELSE watchers
    /\ missed' = missed \cup (IF is_done(status) THEN ops \cap InRequest ELSE {})

\* PoolRotator::ban: beyond twice the capacity it forgets, whatever keys come first.
ban(ops) ==
    LET all == banned \cup ops IN
    IF Cardinality(all) > 2 * BanCapacity
    THEN \E S \in {T \in SUBSET all : Cardinality(T) = BanCapacity} : banned' = S
    ELSE banned' = all

quiet == UNCHANGED <<watchers, registry, signals, missed>>
-----------------------------------------------------------------------------
(* A request: process_top, then submit_and_watch, then the registry. *)

is_imported_top(o) == o \in Ready

check_is_known(o) ==
    IF o \in banned THEN "TemporarilyBanned"
    ELSE IF is_imported_top(o) THEN "AlreadyImported" ELSE "Ok"

\* AuthorTopFilter of a sidechain worker: CallsOnlyFilter
filter(o) == OpKind[o] \in {"direct_call", "indirect_call"}

\* verify_one: a known operation is Invalid like a wrong one.
verify_one(o) == IF check_is_known(o) # "Ok" THEN "Invalid" ELSE "Valid"

\* process_top up to the pool: what cannot be decoded or is no call is refused.
process_top(o) == IF filter(o) THEN verify_one(o) ELSE "UnsupportedOperation"

Reply(c, o, status) ==
    seen' = IF c \in open THEN [seen EXCEPT ![c][o] = Append(@, status)] ELSE seen

\* handle_message of the connection and of RpcWsHandler, as far as the verdict.
handle_message(c, o, watch) ==
    /\ handling = Idle /\ c \in open /\ topRequests < MaxRequests
    /\ OpKind[o] # "indirect_call"
    /\ topRequests' = topRequests + 1
    /\ handling' = IF process_top(o) = "UnsupportedOperation" THEN Idle
                   ELSE [phase |-> process_top(o), client |-> c, op |-> o, watch |-> watch]
    /\ UNCHANGED <<topReady, insertionId, banned, open, slot, nonces, seen, topBlocks>>
    /\ quiet

\* submit_one of an operation that is not valid: its hash is banned.
submit_invalid ==
    /\ handling.phase = "Invalid"
    /\ ban({handling.op})
    /\ handling' = Idle
    /\ UNCHANGED <<topReady, insertionId, open, slot, nonces, seen, topBlocks, topRequests>>
    /\ quiet

\* Only the hash is compared, not the tag.
Importable_mut(o) == ~is_imported_top(o)

\* BasePool::import: known, or too low a priority against the one with its tag
Importable(o) == ~is_imported_top(o) /\ \A x \in Ready : Tag(x) # Tag(o)

\* ReadyOperations::import
Inserted(o) == [x \in Ready \cup {o} |-> IF x = o THEN insertionId + 1 ELSE topReady[x]]

\* Ready::remove_subtree of operations nothing depends on.
Removed(q, ops) == [x \in DOMAIN q \ ops |-> q[x]]

\* submit_one of a valid operation, with the events of its import.
submit_one ==
    LET o == handling.op IN
    /\ handling.phase = "Valid"
    /\ IF Importable(o)
       THEN /\ topReady' = Inserted(o) /\ insertionId' = insertionId + 1
            /\ handling' = [handling EXCEPT !.phase = "Imported"]
            /\ fire({o}, "Ready")
       ELSE handling' = Idle /\ UNCHANGED <<topReady, insertionId>> /\ quiet
    /\ UNCHANGED <<banned, open, slot, nonces, seen, topBlocks, topRequests>>

\* enforce_limits: the oldest ones go, are banned, and their watchers hear of it.
Excess(q) == {o \in DOMAIN q : Cardinality({x \in DOMAIN q : q[x] > q[o]}) >= TopLimit}

enforce_top_limits ==
    LET out == Excess(topReady) IN
    /\ handling.phase = "Imported"
    /\ topReady' = Removed(topReady, out)
    /\ ban(out)
    /\ fire(out, "Dropped")
    /\ handling' = IF handling.op \in out THEN Idle ELSE [handling EXCEPT !.phase = "Limited"]
    /\ UNCHANGED <<insertionId, open, slot, nonces, seen, topBlocks, topRequests>>

\* The end of submit_and_watch; a plain submission is watched as well.
create_watcher ==
    /\ handling.phase = "Limited"
    /\ watchers' = watchers \cup {handling.op}
    /\ handling' = [handling EXCEPT !.phase = "Watched"]
    /\ UNCHANGED <<topReady, insertionId, banned, registry, signals, open, slot, nonces, seen, missed, topBlocks, topRequests>>

\* The rest of RpcWsHandler::handle_message: a response that is to be watched ...
must_be_watched(request) == request.watch

store ==
    /\ handling.phase = "Watched"
    /\ registry' = IF must_be_watched(handling)
                   THEN [registry EXCEPT ![handling.op] = handling.client] ELSE registry
    /\ handling' = [handling EXCEPT !.phase = "Stored"]
    /\ UNCHANGED <<topReady, insertionId, banned, watchers, signals, open, slot, nonces, seen, missed, topBlocks, topRequests>>

\* ... and the reply, which the connection writes.
write_reply ==
    /\ handling.phase = "Stored"
    /\ Reply(handling.client, handling.op, "Submitted")
    /\ handling' = Idle
    /\ UNCHANGED <<topReady, insertionId, banned, open, slot, nonces, topBlocks, topRequests>>
    /\ quiet
-----------------------------------------------------------------------------
(* The event loop of the web socket server between two messages. *)

accept_connection(c) ==
    /\ handling = Idle /\ c \notin open
    /\ \A o \in TopOps : seen[c][o] = <<>> /\ registry[o] # c
    /\ open' = open \cup {c}
    /\ UNCHANGED <<topReady, insertionId, banned, handling, slot, nonces, seen, topBlocks, topRequests>>
    /\ quiet

\* The connection is forgotten, its entries in the registry are not.
close_connection(c) ==
    /\ handling = Idle /\ c \in open
    /\ \E o \in TopOps : seen[c][o] # <<>>
    /\ open' = open \ {c}
    /\ UNCHANGED <<topReady, insertionId, banned, handling, slot, nonces, seen, topBlocks, topRequests>>
    /\ quiet

\* The response is written by the thread that has it, not by the event loop.
handle_server_signal_mut ==
    LET s == Head(signals) IN
    /\ signals # <<>>
    /\ signals' = Tail(signals)
    /\ Reply(s.client, s.op, s.status)
    /\ UNCHANGED <<topReady, insertionId, banned, watchers, registry, open, handling, slot, nonces, missed, topBlocks, topRequests>>

\* SendResponse: written if the connection is still there.
handle_server_signal ==
    LET s == Head(signals) IN
    /\ handling = Idle /\ signals # <<>>
    /\ signals' = Tail(signals)
    /\ Reply(s.client, s.op, s.status)
    /\ UNCHANGED <<topReady, insertionId, banned, watchers, registry, open, handling, slot, nonces, missed, topBlocks, topRequests>>
-----------------------------------------------------------------------------
(* The slot thread. *)

\* A call runs if those with the nonces from the account's up to its own come in order.
Runs(o, q, state) ==
    /\ state[OpAccount[o]] <= OpNonce[o]
    /\ \A n \in state[OpAccount[o]] .. OpNonce[o] - 1 : \E x, y \in DOMAIN q :
          /\ Tag(x) = <<OpAccount[o], n>> /\ Tag(y) = <<OpAccount[o], n + 1>>
          /\ q[x] < q[y]

\* Execution of calls in their order against the nonces of the state.
Executed(q, state) ==
    LET ran == {o \in DOMAIN q : Runs(o, q, state)} IN
    [done |-> ran, failed |-> DOMAIN q \ ran,
     nonces |-> [a \in Accounts |-> state[a] + Cardinality({o \in ran : OpAccount[o] = a})]]

\* The ready operations of the shard that are calls, up to an insertion.
get_pending_trusted_calls(last) == Restrict(topReady, {o \in Ready : filter(o) /\ topReady[o] <= last})

\* propose: the pending calls, as many as the time allows.
propose ==
    /\ slot = Idle /\ topBlocks < MaxTopBlocks
    /\ \E last \in 0 .. insertionId :
          LET r == Executed(get_pending_trusted_calls(last), nonces) IN
          slot' = [phase |-> "executed", done |-> r.done, failed |-> r.failed, nonces |-> r.nonces]
    /\ topBlocks' = topBlocks + 1
    /\ UNCHANGED <<topReady, insertionId, banned, open, handling, nonces, seen, topRequests>>
    /\ quiet

RemoveFromReady(ops) == topReady' = Removed(topReady, ops)

\* remove_calls_from_pool with inblock = false: ban, and tell the watchers.
remove_failed ==
    /\ slot.phase = "executed"
    /\ RemoveFromReady(slot.failed)
    /\ IF slot.failed = {} THEN UNCHANGED banned ELSE ban(slot.failed)
    /\ fire(slot.failed \cap Ready, "Invalid")
    /\ slot' = [phase |-> "composed", done |-> slot.done, nonces |-> slot.nonces]
    /\ UNCHANGED <<insertionId, open, handling, nonces, seen, topBlocks, topRequests>>

\* A peer's block comes in: a call the state accepts next, known here or not.
receive_block ==
    /\ slot = Idle /\ topBlocks < MaxTopBlocks
    /\ \E o \in TopOps :
          LET r == Executed([x \in {o} |-> 1], nonces) IN
          /\ filter(o) /\ r.done # {}
          /\ slot' = [phase |-> "composed", done |-> r.done, nonces |-> r.nonces]
    /\ topBlocks' = topBlocks + 1
    /\ UNCHANGED <<topReady, insertionId, banned, open, handling, nonces, seen, topRequests>>
    /\ quiet

\* ValidatedPool::on_block_imported: Listener::in_block of each operation.
notify_in_block(ops) == fire(ops, "InSidechainBlock")

\* The state is updated, then the watchers of the block's operations are told ...
on_block_imported ==
    /\ slot.phase = "composed"
    /\ nonces' = slot.nonces
    /\ notify_in_block(slot.done)
    /\ slot' = [phase |-> "notified", done |-> slot.done]
    /\ UNCHANGED <<topReady, insertionId, banned, open, handling, seen, topBlocks, topRequests>>

\* ... and only then are the operations removed from the pool.
remove_executed ==
    /\ slot.phase = "notified"
    /\ RemoveFromReady(slot.done)
    /\ missed' = missed \cup (slot.done \cap Ready \cap (watchers \cup InRequest))
    /\ slot' = Idle
    /\ UNCHANGED <<insertionId, banned, watchers, registry, signals, open, handling, nonces, seen, topBlocks, topRequests>>

\* submit_top of an indirect call: verified and submitted, not watched.
submit_top(o) ==
    /\ OpKind[o] = "indirect_call" /\ verify_one(o) = "Valid" /\ Importable(o)
    /\ insertionId' = insertionId + 1
    /\ LET q == Inserted(o) IN
       /\ topReady' = Removed(q, Excess(q))
       /\ ban(Excess(q))
       /\ fire(Excess(q), "Dropped")
    /\ UNCHANGED <<open, handling, slot, nonces, seen, topBlocks, topRequests>>

TopPoolNext ==
    \/ \E c \in Clients : \E o \in TopOps : \E w \in BOOLEAN : handle_message(c, o, w)
    \/ submit_invalid \/ submit_one \/ enforce_top_limits \/ create_watcher \/ store \/ write_reply
    \/ \E c \in Clients : accept_connection(c) \/ close_connection(c)
    \/ handle_server_signal
    \/ propose \/ remove_failed \/ receive_block \/ on_block_imported \/ remove_executed
    \/ \E o \in TopOps : submit_top(o)
-----------------------------------------------------------------------------
TopPoolTypeOK ==
    /\ topReady \in [Ready -> 1 .. insertionId] /\ Ready \subseteq TopOps
    /\ banned \subseteq TopOps /\ Cardinality(banned) <= 2 * BanCapacity
    /\ watchers \subseteq TopOps /\ open \subseteq Clients
    /\ registry \in [TopOps -> Clients \cup {NoClient}]
    /\ \A i \in 1 .. Len(signals) : signals[i].client \in Clients /\ signals[i].op \in TopOps
    /\ nonces \in [Accounts -> Nat]

\* The pool never holds two calls of one account with the same nonce, and never
\* more than its limit once the submission that exceeded it is through.
OneCallPerNonce ==
    /\ \A x, y \in Ready : Tag(x) = Tag(y) \/ topReady[x] = topReady[y] => x = y
    /\ handling.phase # "Imported" => Cardinality(Ready) <= TopLimit

LastSeen(c, o, status) == seen[c][o] # <<>> /\ seen[c][o][Len(seen[c][o])] = status

\* A client that waits for a status still gets one: the operation it watches is
\* pending.  The code has three gaps, and only these: the end comes while the
\* request is being processed, before the entry is stored; the operation is
\* submitted between the event and the removal for a peer's block; and Dropped,
\* after which the responder keeps the entry though the watcher is done.
WatchedIsPending ==
    \A o \in TopOps : registry[o] # NoClient =>
        \/ o \in Ready /\ o \in watchers
        \/ o \in missed
        \/ \E i \in 1 .. Len(signals) : signals[i] = [client |-> registry[o], op |-> o, status |-> "Dropped"]
        \/ registry[o] \in open => LastSeen(registry[o], o, "Dropped")

Count(s, S) == Cardinality({i \in 1 .. Len(s) : s[i] \in S})

\* A client never hears of an operation before the reply that names its hash, and never
\* gets more last statuses than it made submissions, though replies and status messages
\* come from different threads.  Dropped is not a last status here: the entry stays in
\* the registry, and whoever submits the operation again revives it.
NoUnaskedStatus ==
    \A c \in Clients : \A o \in TopOps : \A n \in 1 .. Len(seen[c][o]) :
        LET s == SubSeq(seen[c][o], 1, n) IN
        /\ s[1] = "Submitted"
        /\ Count(s, {"InSidechainBlock", "Invalid"}) <= Count(s, {"Submitted"})

\* From request to last status: one call per nonce in a bounded pool, a pending operation
\* for whoever waits, and no status that was not asked for (top-pool, direct-rpc-server).
OperationsAreAnswered == TopPoolTypeOK /\ OneCallPerNonce /\ WatchedIsPending /\ NoUnaskedStatus
=============================================================================
