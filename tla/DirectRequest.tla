--------------------------- MODULE DirectRequest ---------------------------
(***************************************************************************)
(* A trusted call from the command line client: the nonce for it, made of  *)
(* two requests to the worker, the call over a web socket of its own, and  *)
(* the status messages until the command returns.  Several commands for    *)
(* one account run at once.                                                *)
(*                                                                         *)
(* The worker is what its RPC methods show of it: the nonce in the state,  *)
(* the pending calls of the account, and the entry in the registry under   *)
(* which statuses are sent.  A block changes the state first and the pool  *)
(* after that.  What goes on there is TopPool and, for the connections,    *)
(* WebSocketServer; each moves on its own.                                 *)
(***************************************************************************)
EXTENDS Integers, Sequences, FiniteSets, TopPool, WebSocketServer

CONSTANTS
    Commands,            \* runs of the client, one call each
    MaxDirectFaults      \* bound of the model: requests that fail, connections that break

ASSUME DirectRequestAssumption == IsFiniteSet(Commands) /\ MaxDirectFaults \in Nat

VARIABLES
    command,         \* command -> [at, nonce]
    mail,            \* command -> messages on their way to it
    entries,         \* commands registered for status messages of their call
    pendingCalls,    \* commands whose call is in the pool
    accountNonce,    \* the account's nonce in the state of the worker
    executedCalls,   \* calls in the state that are still in the pool
    ahead,           \* history: commands that skipped a nonce, with a pool free of executed calls
    directFaults

directRequestVars == <<command, mail, entries, pendingCalls, accountNonce, executedCalls, ahead, directFaults>>

DirectRequestInit ==
    /\ command = [c \in Commands |-> [at |-> "start", nonce |-> 0]]
    /\ mail = [c \in Commands |-> <<>>] /\ entries = {} /\ pendingCalls = {}
    /\ accountNonce = 0 /\ executedCalls = {} /\ ahead = {} /\ directFaults = 0

Message(status, do_watch) == [status |-> status, do_watch |-> do_watch]
Go(c, at) == command' = [command EXCEPT ![c].at = at]
DirectGetFails == directFaults < MaxDirectFaults /\ directFaults' = directFaults + 1

\* Next nonce of the account, for the worker: calls that still have to be executed follow
\* the state's nonce.
NextFree == accountNonce + Cardinality({c \in pendingCalls : command[c].nonce >= accountNonce})
-----------------------------------------------------------------------------
(* The nonce: get_layer_two_nonce *)

get_pending_trusted_calls_for == Cardinality(pendingCalls)

\* The getter counts pending calls, like the index that a node answers with.
get_nonce_mut(c) ==
    /\ command[c].at = "start"
    /\ command' = [command EXCEPT ![c] = [at |-> "nonce", nonce |-> NextFree]]
    /\ UNCHANGED <<mail, entries, pendingCalls, accountNonce, executedCalls, ahead, directFaults>>

\* First request: a getter. A command that gets no answer goes on with nonce 0.
get_nonce(c) ==
    /\ command[c].at = "start"
    /\ \/ /\ command' = [command EXCEPT ![c] = [at |-> "nonce", nonce |-> accountNonce]]
          /\ UNCHANGED directFaults
       \/ DirectGetFails /\ Go(c, "nonce")
    /\ UNCHANGED <<mail, entries, pendingCalls, accountNonce, executedCalls, ahead>>

\* Second request: the pending calls, or no command any more. Their number is added.
get_layer_two_nonce(c) ==
    /\ command[c].at = "nonce"
    /\ \/ /\ command' = [command EXCEPT ![c] = [at |-> "signed", nonce |-> @.nonce + get_pending_trusted_calls_for]]
          /\ ahead' = IF command'[c].nonce > NextFree /\ \A d \in pendingCalls : command[d].nonce >= accountNonce
                      THEN ahead \cup {c} ELSE ahead
          /\ UNCHANGED directFaults
       \/ DirectGetFails /\ Go(c, "panicked") /\ UNCHANGED ahead
    /\ UNCHANGED <<mail, entries, pendingCalls, accountNonce, executedCalls>>
-----------------------------------------------------------------------------
(* The call *)

\* DirectClient::watch, WsClient::on_open, and the worker's author_submitAndWatchExtrinsic:
\* a second call with the same nonce is refused.
author_submitAndWatchExtrinsic(c) ==
    LET taken == \E d \in pendingCalls : command[d].nonce = command[c].nonce IN
    /\ command[c].at = "signed"
    /\ Go(c, "watching")
    /\ mail' = [mail EXCEPT ![c] = <<IF taken THEN Message("Error", FALSE) ELSE Message("Submitted", TRUE)>>]
    /\ entries' = IF taken THEN entries ELSE entries \cup {c}
    /\ pendingCalls' = IF taken THEN pendingCalls ELSE pendingCalls \cup {c}
    /\ UNCHANGED <<accountNonce, executedCalls, ahead, directFaults>>

\* The connection breaks, or there never was one: the thread of the web socket ends.
connection_breaks(c) ==
    /\ command[c].at \in {"signed", "watching"}
    /\ DirectGetFails
    /\ Go(c, "failed")
    /\ UNCHANGED <<mail, entries, pendingCalls, accountNonce, executedCalls, ahead>>

\* connection_can_be_closed
connection_can_be_closed(status) == status \notin {"Submitted", "Future", "Ready", "Broadcast", "Invalid"}

\* Only the list of statuses ends the loop.
Returned_mut(message) == message.status # "Error" /\ connection_can_be_closed(message.status)

\* send_direct_request returns: a status after which the connection is closed, or nothing
\* more to watch.
Returned(message) == message.status # "Error" /\ (connection_can_be_closed(message.status) \/ ~message.do_watch)

send_direct_request(c) ==
    /\ command[c].at = "watching" /\ mail[c] # <<>>
    /\ mail' = [mail EXCEPT ![c] = Tail(@)]
    /\ IF Returned(Head(mail[c])) THEN Go(c, "returned")
       ELSE IF Head(mail[c]).status = "Error" THEN Go(c, "failed")
       ELSE UNCHANGED command
    /\ UNCHANGED <<entries, pendingCalls, accountNonce, executedCalls, ahead, directFaults>>
-----------------------------------------------------------------------------
(* The worker *)

\* RpcResponder::update_status_event with the statuses after which nothing is watched.
watching_goes_on(status) == status \notin {"Invalid", "InSidechainBlock", "Finalized", "Usurped"}

send_status(c, status) ==
    /\ mail' = [mail EXCEPT ![c] = IF c \in entries /\ command[c].at = "watching"
                                    THEN Append(@, Message(status, watching_goes_on(status))) ELSE @]
    /\ entries' = IF watching_goes_on(status) THEN entries ELSE entries \ {c}

\* A call with the nonce of the state is executed: first the state and the statuses ...
import_call(c) ==
    /\ c \in pendingCalls \ executedCalls /\ command[c].nonce = accountNonce
    /\ accountNonce' = accountNonce + 1 /\ executedCalls' = executedCalls \cup {c}
    /\ send_status(c, "InSidechainBlock")
    /\ UNCHANGED <<command, pendingCalls, ahead, directFaults>>

\* ... then the pool.
remove_executed_calls ==
    /\ executedCalls # {}
    /\ pendingCalls' = pendingCalls \ executedCalls /\ executedCalls' = {}
    /\ UNCHANGED <<command, mail, entries, accountNonce, ahead, directFaults>>

\* A call with another nonce fails, and the pool drops calls at its limit.
remove_call(c) ==
    /\ c \in pendingCalls \ executedCalls
    /\ pendingCalls' = pendingCalls \ {c}
    /\ \/ command[c].nonce # accountNonce /\ executedCalls = {} /\ send_status(c, "Invalid")
       \/ send_status(c, "Dropped")
    /\ UNCHANGED <<command, accountNonce, executedCalls, ahead, directFaults>>

DirectRequestNext ==
    \/ \E c \in Commands :
          \/ get_nonce(c) \/ get_layer_two_nonce(c) \/ author_submitAndWatchExtrinsic(c)
          \/ connection_breaks(c) \/ send_direct_request(c) \/ import_call(c) \/ remove_call(c)
    \/ remove_executed_calls
-----------------------------------------------------------------------------
\* Blocks between the two requests for a nonce can make it too low, and never too high:
\* a command skips a nonce only when it found calls in the pool that were executed already.
NoNonceSkipped == ahead = {}

\* A command waits for messages exactly as long as its call is pending: it does not return
\* before the call is executed, dropped or refused, and it does not wait after that.
WaitsWhilePending ==
    \A c \in Commands :
        /\ command[c].at = "returned" => c \notin pendingCalls \ executedCalls
        /\ command[c].at = "watching" /\ mail[c] = <<>> => c \in pendingCalls \ executedCalls

\* What the command line client makes of the answers of the worker.
CommandsAreAnswered == NoNonceSkipped /\ WaitsWhilePending

\* From client to pool and back: one call per nonce, nonces without gaps, an answer to
\* whoever asked and to nobody else, and a watcher for what is pending (cli,
\* tls-websocket-server, direct-rpc-server, top-pool).
RequestsAreAnswered == OperationsAreAnswered /\ ConnectionsAreServed /\ CommandsAreAnswered
=============================================================================
