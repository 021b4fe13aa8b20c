----------------------------- MODULE PeerNetwork -----------------------------
(***************************************************************************)
(* How the blocks of one shard reach the other validateers, and how these  *)
(* confirm them to the parentchain.  After a worker has made a block, its  *)
(* service looks up the shard's enclaves on the node, asks each for its    *)
(* untrusted address, and hands the block to one task per address.  A      *)
(* worker imports what its server queued, in the order of the block        *)
(* numbers, fetches from the primary worker what it misses, and confirms a *)
(* block that it imported itself when its number is the next to finalize.  *)
(* The chain is the one the authors agree on; SidechainConsensus is about  *)
(* forks.  The worker is its own address.                                  *)
(***************************************************************************)
EXTENDS Integers, Sequences, FiniteSets, FiniteSetsExt

CONSTANTS
    NetworkWorkers,
    BLOCK_NUMBER_FINALIZATION_DIFF,
    MaxNetworkBlocks,   \* bound of the model: blocks of the chain
    MaxNetworkFaults    \* bound of the model: failed requests, lost tasks and restarts

ASSUME PeerNetworkAssumption ==
    /\ BLOCK_NUMBER_FINALIZATION_DIFF \in Nat \ {0}
    /\ {MaxNetworkBlocks, MaxNetworkFaults} \subseteq Nat

VARIABLES
    shard_status,   \* the node: the workers of the shard, the primary first
    serving,        \* workers whose servers answer
    headers,        \* the chain: the author and the next finalization number of every block
    tip,            \* worker -> number of the last block it imported
    import_queue,   \* worker -> numbers of the blocks its server has queued
    peers,          \* worker -> addresses of its last search
    proposal,       \* worker -> its propose_sidechain_blocks ocall
    broadcasts,     \* spawned tasks: [block, to]
    confirmations,  \* worker -> the confirmations it sent, in order
    networkFaults,
    told            \* history: block -> the workers it was handed to a task for

networkVars == <<shard_status, serving, headers, tip, import_queue, peers, proposal,
                 broadcasts, confirmations, networkFaults, told>>
nodeVars == <<shard_status, serving>>
importVars == <<tip, import_queue, confirmations>>
proposalVars == <<peers, proposal, broadcasts, told>>

\* The phases of the ocall: "none", "search" (asking the node), "ask" (asking
\* the enclaves found for their addresses), "send".
NoSending == [phase |-> "none", block |-> 0, asking |-> <<>>, found |-> {}, owed |-> {}]

PeerNetworkInit ==
    /\ shard_status = <<>>
    /\ serving = NetworkWorkers
    /\ headers = <<>>
    /\ tip = [w \in NetworkWorkers |-> 0]
    /\ import_queue = [w \in NetworkWorkers |-> {}]
    /\ peers = [w \in NetworkWorkers |-> {}]
    /\ proposal = [w \in NetworkWorkers |-> NoSending]
    /\ broadcasts = {}
    /\ confirmations = [w \in NetworkWorkers |-> <<>>]
    /\ networkFaults = 0
    /\ told = [k \in 1..MaxNetworkBlocks |-> {}]

MayFault == networkFaults < MaxNetworkFaults
CountFault == networkFaults' = networkFaults + 1

\* The primary worker of the shard is the first of its status.
primary_worker == shard_status[1]

(* Composing ***************************************************************)

\* The number block `number` is to be finalized with, after `last`, the number
\* its parent names.
finalization_candidate_mut(number, last) ==
    CASE number = 1 -> 1
      [] number # 1 /\ number >= last -> last + BLOCK_NUMBER_FINALIZATION_DIFF
      [] OTHER -> last

finalization_candidate(number, last) ==
    CASE number = 1 -> 1
      [] number # 1 /\ number > last -> last + BLOCK_NUMBER_FINALIZATION_DIFF
      [] OTHER -> last

SidechainHeader(author, number, last) ==
    [author |-> author, next_finalization |-> finalization_candidate(number, last)]

\* A worker that has imported what was queued composes the next block and
\* hands it to its service.
compose_block(w) ==
    LET number == Len(headers) + 1
        last   == IF headers = <<>> THEN 1 ELSE headers[Len(headers)].next_finalization
    IN  /\ w \in serving /\ w \in Range(shard_status)
        /\ tip[w] = Len(headers) /\ import_queue[w] = {} /\ proposal[w] = NoSending
        /\ number <= MaxNetworkBlocks
        /\ headers' = Append(headers, SidechainHeader(w, number, last))
        /\ tip' = [tip EXCEPT ![w] = number]
        /\ proposal' = [proposal EXCEPT ![w] = [NoSending EXCEPT !.phase = "search", !.block = number]]
        /\ UNCHANGED <<nodeVars, import_queue, peers, broadcasts, confirmations, networkFaults, told>>

(* Peers and broadcast *****************************************************)

\* The enclaves the node registers for the shard, the own one among them.  Those
\* that serve are owed the block as long as they go on serving.
search_peers(w) ==
    /\ proposal[w].phase = "search"
    /\ proposal' = [proposal EXCEPT ![w].phase = "ask", ![w].asking = shard_status,
                                    ![w].owed = Range(shard_status) \cap serving]
    /\ UNCHANGED <<nodeVars, headers, importVars, peers, broadcasts, networkFaults, told>>

\* The node does not answer: update_peers fails, which is logged, and the block
\* goes to the peers of the last search.
search_peers_fails(w) ==
    /\ proposal[w].phase = "search" /\ MayFault
    /\ proposal' = [proposal EXCEPT ![w].phase = "send"]
    /\ CountFault
    /\ UNCHANGED <<nodeVars, headers, importVars, peers, broadcasts, told>>

\* What the answer of one enclave leaves of the search: an enclave that does not
\* answer is left out.
asked_mut(p, up) ==
    IF up THEN [p EXCEPT !.found = @ \cup {p.asking[1]}, !.asking = Tail(@)]
          ELSE [p EXCEPT !.asking = <<>>]

asked(p, up) ==
    IF up THEN [p EXCEPT !.found = @ \cup {p.asking[1]}, !.asking = Tail(@)]
          ELSE [p EXCEPT !.asking = Tail(@)]

get_untrusted_worker_url(w) ==
    /\ proposal[w].phase = "ask" /\ proposal[w].asking # <<>>
    /\ proposal' = [proposal EXCEPT ![w] = asked(@, @.asking[1] \in serving)]
    /\ UNCHANGED <<nodeVars, headers, importVars, peers, broadcasts, networkFaults, told>>

set_peers(w) ==
    /\ proposal[w].phase = "ask" /\ proposal[w].asking = <<>>
    /\ peers' = [peers EXCEPT ![w] = proposal[w].found]
    /\ proposal' = [proposal EXCEPT ![w].phase = "send"]
    /\ UNCHANGED <<nodeVars, headers, importVars, broadcasts, networkFaults, told>>

\* One task per peer; the ocall does not wait for them.
broadcast_blocks(w) ==
    LET p == proposal[w]
    IN  /\ p.phase = "send"
        /\ broadcasts' = broadcasts \cup [block: {p.block}, to: peers[w]]
        /\ told' = [told EXCEPT ![p.block] = peers[w]]
        /\ proposal' = [proposal EXCEPT ![w].phase = "done"]
        /\ UNCHANGED <<nodeVars, headers, importVars, peers, networkFaults>>

\* The ocall returns, whatever became of its parts.
propose_returns(w) ==
    /\ proposal[w].phase = "done"
    /\ proposal' = [proposal EXCEPT ![w] = NoSending]
    /\ UNCHANGED <<nodeVars, headers, importVars, peers, broadcasts, networkFaults, told>>

\* The peer's server passes the block to its enclave, which queues it; a task
\* that cannot connect, or whose request fails, logs that and ends.
import_blocks(task) ==
    /\ broadcasts' = broadcasts \ {task}
    /\ \/ /\ task.to \in serving
          /\ import_queue' = [import_queue EXCEPT ![task.to] = @ \cup {task.block}]
          /\ UNCHANGED networkFaults
       \/ /\ task.to \notin serving
          /\ UNCHANGED <<import_queue, networkFaults>>
       \/ /\ MayFault /\ CountFault
          /\ UNCHANGED import_queue
    /\ UNCHANGED <<nodeVars, headers, tip, confirmations, peers, proposal, told>>

(* Import and confirmation *************************************************)

\* Confirming a block, which only the first of every period is; an extrinsic
\* that cannot be made or sent is logged.
confirm_import(w, number) ==
    LET header == headers[number]
        confirmation == [block  |-> number,
                         number |-> header.next_finalization + BLOCK_NUMBER_FINALIZATION_DIFF]
    IN  IF number # header.next_finalization
        THEN UNCHANGED <<confirmations, networkFaults>>
        ELSE \/ /\ confirmations' = [confirmations EXCEPT ![w] = Append(@, confirmation)]
                /\ UNCHANGED networkFaults
             \/ /\ MayFault /\ CountFault /\ UNCHANGED confirmations

\* The primary worker's storage has the blocks up to `number`, and its server
\* answers; the worker may be the primary worker itself.
fetch_blocks_from_peer(number) ==
    primary_worker \in serving /\ tip[primary_worker] >= number

\* One block of the queue: the next one is imported and confirmed, one that was
\* imported before is ignored, and for a later one the missing ones are fetched
\* first, in which case nothing is confirmed.
import_or_sync_block_mut(w, number) ==
    \/ /\ number <= tip[w] + 1
       /\ tip' = [tip EXCEPT ![w] = Max({@, number})]
       /\ confirm_import(w, number)
    \/ /\ number > tip[w] + 1
       /\ tip' = [tip EXCEPT ![w] = IF fetch_blocks_from_peer(number) THEN number ELSE @]
       /\ UNCHANGED <<confirmations, networkFaults>>

import_or_sync_block(w, number) ==
    \/ /\ number = tip[w] + 1
       /\ tip' = [tip EXCEPT ![w] = number]
       /\ confirm_import(w, number)
    \/ /\ number <= tip[w]
       /\ UNCHANGED <<tip, confirmations, networkFaults>>
    \/ /\ number > tip[w] + 1
       /\ tip' = [tip EXCEPT ![w] = IF fetch_blocks_from_peer(number) THEN number ELSE @]
       /\ UNCHANGED <<confirmations, networkFaults>>

process_queue(w) ==
    /\ w \in serving /\ import_queue[w] # {} /\ proposal[w] = NoSending
    /\ LET number == Min(import_queue[w])
       IN  /\ import_queue' = [import_queue EXCEPT ![w] = @ \ {number}]
           /\ import_or_sync_block(w, number)
    /\ UNCHANGED <<nodeVars, headers, proposalVars>>

(* The node and the processes **********************************************)

register_enclave(w) ==
    /\ w \in serving /\ w \notin Range(shard_status)
    /\ shard_status' = Append(shard_status, w)
    /\ UNCHANGED <<serving, headers, importVars, proposalVars, networkFaults>>

\* A worker that stops loses its queue, its peers and its tasks; the state it
\* imported is on its disk.
stop_worker(w) ==
    /\ w \in serving /\ MayFault /\ CountFault
    /\ serving' = serving \ {w}
    /\ import_queue' = [import_queue EXCEPT ![w] = {}]
    /\ peers' = [peers EXCEPT ![w] = {}]
    /\ proposal' = [v \in NetworkWorkers |->
                      IF v = w THEN NoSending ELSE [proposal[v] EXCEPT !.owed = @ \ {w}]]
    /\ broadcasts' = {b \in broadcasts : headers[b.block].author # w}
    /\ UNCHANGED <<shard_status, headers, tip, confirmations, told>>

run_server(w) ==
    /\ w \notin serving
    /\ serving' = serving \cup {w}
    /\ UNCHANGED <<shard_status, headers, importVars, proposalVars, networkFaults>>

PeerNetworkNext ==
    \/ \E w \in NetworkWorkers :
          \/ compose_block(w)
          \/ search_peers(w) \/ search_peers_fails(w)
          \/ get_untrusted_worker_url(w) \/ set_peers(w)
          \/ broadcast_blocks(w) \/ propose_returns(w)
          \/ process_queue(w)
          \/ register_enclave(w) \/ stop_worker(w) \/ run_server(w)
    \/ \E task \in broadcasts : import_blocks(task)

(***************************************************************************)
(* Properties                                                              *)
(***************************************************************************)

\* Every block names as its next finalization number the first number of its
\* period, whoever composed it and its parent: 1, 1 + DIFF, 1 + 2 * DIFF, ...,
\* the least of these that is not below its own number.  compose_block derives
\* it from its parent's header only.
BoundariesOnSchedule ==
    \A k \in DOMAIN headers :
       LET final == headers[k].next_finalization
       IN  /\ final % BLOCK_NUMBER_FINALIZATION_DIFF = 1 % BLOCK_NUMBER_FINALIZATION_DIFF
           /\ k <= final /\ final < k + BLOCK_NUMBER_FINALIZATION_DIFF

\* A worker confirms no block of its own and none twice, although its own
\* broadcasts come back to it, and a block may come late that was fetched
\* before: its confirmations name rising blocks, each composed by another.
ConfirmedOncePerPeer ==
    \A w \in NetworkWorkers : \A i \in DOMAIN confirmations[w] :
       /\ headers[confirmations[w][i].block].author # w
       /\ i > 1 => confirmations[w][i - 1].block < confirmations[w][i].block

\* Once the block is handed out, there is a task for every worker of the shard
\* whose server answered all the while, whichever others did not answer.
ReachablePeersTold ==
    \A w \in NetworkWorkers :
       proposal[w].phase = "done" => proposal[w].owed \subseteq told[proposal[w].block]

\* Blocks get to the peers, are confirmed once each, and name the same finalization
\* boundaries whoever composes them.
PeersKeepUp == BoundariesOnSchedule /\ ConfirmedOncePerPeer /\ ReachablePeersTold
=============================================================================
