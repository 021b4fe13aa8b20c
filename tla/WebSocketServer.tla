-------------------------- MODULE WebSocketServer --------------------------
(***************************************************************************)
(* The TLS web socket server of the enclave: TungsteniteWsServer, its      *)
(* connections and the state of their streams.  One thread runs the event  *)
(* loop; the others only put signals (a response for a connection, or the  *)
(* order to shut down) into its channel.                                   *)
(*                                                                         *)
(* A connection is registered with the poll for one event at a time and    *)
(* has to be registered again after each.  What TCP, rustls and tungstenite*)
(* return is chosen freely.                                                *)
(***************************************************************************)
EXTENDS Integers, Sequences, FiniteSets

CONSTANTS
    WsPeers,         \* who connects
    MaxWsConns,      \* bound of the model: connections ever accepted
    MaxWsSignals     \* bound of the model: signals ever sent

ASSUME WebSocketAssumption == MaxWsConns \in Nat /\ MaxWsSignals \in Nat

VARIABLES
    wsConns,         \* token -> [peer, stream, armed]
    wsId,            \* ConnectionIdGenerator::current_id
    wsRun,           \* "new", "running", or "stopped"
    wsQueue,         \* the signal channel; entries name the peer they are meant for
    wsWatch,         \* <<token, peer>>: who may be sent a response later
    wsGot,           \* peer -> the peers the messages it received were meant for
    wsSent           \* signals so far

webSocketVars == <<wsConns, wsId, wsRun, wsQueue, wsWatch, wsGot, wsSent>>

WebSocketInit ==
    /\ wsConns = <<>> /\ wsId = 10 /\ wsRun = "new" /\ wsQueue = <<>>
    /\ wsWatch = {} /\ wsGot = [p \in WsPeers |-> {}] /\ wsSent = 0

Forget(f, S) == [x \in DOMAIN f \ S |-> f[x]]
-----------------------------------------------------------------------------
(* A connection. *)

\* StreamState::attempt_handshake with the result of the handshake; a stream
\* that is established or invalid stays as it is.
attempt_handshake(stream, result) ==
    IF stream \in {"TlsStream", "WebSocketHandshake"}
    THEN CASE result = "ok" -> "Established"
           [] result = "interrupted" -> "WebSocketHandshake"
           [] OTHER -> "Invalid"
    ELSE stream

do_tls_read(conn, result) ==
    IF conn.stream = "Invalid" THEN "Closing"
    ELSE CASE result \in {"eof", "error"} -> "Closing"
           [] result = "wouldblock" -> "Blocked"
           [] result = "handshaking" -> "TlsHandshake"
           [] OTHER -> "Alive"

\* The session or the socket has failed, or there is none left.
do_tls_write_mut(conn, result) ==
    CASE result = "error" -> "Closing"
      [] result = "handshaking" -> "TlsHandshake"
      [] OTHER -> "Alive"

do_tls_write(conn, result) ==
    IF conn.stream = "Invalid" THEN "Closing"
    ELSE CASE result = "error" -> "Closing"
           [] result = "handshaking" -> "TlsHandshake"
           [] OTHER -> "Alive"

\* Reads a message, or goes on with the handshake.  A text message is handled
\* and replied to at once; a close frame is answered, and the next read ends it.
read_or_initialize_websocket(conn, result) ==
    IF conn.stream = "Established"
    THEN [stream |-> "Established", closing |-> result = "closed", handled |-> result = "text"]
    ELSE LET s == attempt_handshake(conn.stream, result) IN
         [stream |-> s, closing |-> s = "Invalid", handled |-> FALSE]

NothingRead(conn, state) == [stream |-> conn.stream, closing |-> state = "Closing", handled |-> FALSE]

\* on_ready: the branch for writing overrides what the one for reading found.
on_ready(conn, readable, writable, tls, web, sent) ==
    LET state == do_tls_read(conn, tls)
        r == IF ~readable THEN NothingRead(conn, "Blocked")
             ELSE IF state = "Alive" THEN read_or_initialize_websocket(conn, web)
             ELSE NothingRead(conn, state)
        after == [conn EXCEPT !.stream = r.stream]
        written == do_tls_write(after, sent)
        closing == IF ~writable THEN r.closing
                   ELSE IF written = "Alive" THEN r.closing \/ (r.stream = "Established" /\ sent = "closed")
                   ELSE written = "Closing" IN
    [conn |-> [after EXCEPT !.armed = ~closing /\ r.stream # "Invalid"],
     closed |-> closing, handled |-> r.handled]
-----------------------------------------------------------------------------
(* The event loop. *)

\* run, up to the loop: from here on signals have a channel.
run ==
    /\ wsRun = "new" /\ wsRun' = "running"
    /\ UNCHANGED <<wsConns, wsId, wsQueue, wsWatch, wsGot, wsSent>>

\* An identifier that a connection had before.
next_id_mut == 10 + Cardinality(DOMAIN wsConns) + 1

next_id == wsId + 1

accept_ws(p) ==
    /\ wsRun = "running" /\ wsId < 10 + MaxWsConns
    /\ \A t \in DOMAIN wsConns : wsConns[t].peer # p
    /\ wsId' = wsId + 1
    /\ wsConns' = [t \in DOMAIN wsConns \cup {next_id} |->
                      IF t = next_id THEN [peer |-> p, stream |-> "TlsStream", armed |-> TRUE] ELSE wsConns[t]]
    /\ UNCHANGED <<wsRun, wsQueue, wsWatch, wsGot, wsSent>>

\* What an event can lead to; one that is neither readable nor writable changes nothing.
Outcomes(conn) ==
    {on_ready(conn, readable, writable, tls, web, sent) :
        readable \in BOOLEAN, writable \in BOOLEAN,
        tls \in {"eof", "wouldblock", "handshaking", "data"},
        web \in IF conn.stream = "Established" THEN {"text", "closed", "error"} ELSE {"ok", "interrupted", "failed"},
        sent \in {"ok", "handshaking", "error", "closed"}}

\* A text message gets its reply on the same connection, and may be watched.
connection_event(t) ==
    /\ wsRun = "running" /\ wsConns[t].armed
    /\ LET c == wsConns[t] IN
       \E r \in Outcomes(c), watch \in BOOLEAN :
          /\ wsConns' = IF r.closed THEN Forget(wsConns, {t}) ELSE [wsConns EXCEPT ![t] = r.conn]
          /\ wsGot' = IF r.handled THEN [wsGot EXCEPT ![c.peer] = @ \cup {c.peer}] ELSE wsGot
          /\ wsWatch' = IF r.handled /\ watch THEN wsWatch \cup {<<t, c.peer>>} ELSE wsWatch
    /\ UNCHANGED <<wsId, wsRun, wsQueue, wsSent>>

\* write_message of the connection: only an established web socket takes it.
write_message_to_connection(t, peer) ==
    wsGot' = IF t \in DOMAIN wsConns /\ wsConns[t].stream = "Established"
             THEN [wsGot EXCEPT ![wsConns[t].peer] = @ \cup {peer}] ELSE wsGot

handle_ws_signal ==
    /\ wsRun = "running" /\ wsQueue # <<>>
    /\ wsQueue' = Tail(wsQueue)
    /\ IF Head(wsQueue).kind = "ShutDown"
       THEN wsRun' = "stopped" /\ UNCHANGED wsGot
       ELSE write_message_to_connection(Head(wsQueue).token, Head(wsQueue).peer) /\ UNCHANGED wsRun
    /\ UNCHANGED <<wsConns, wsId, wsWatch, wsSent>>
-----------------------------------------------------------------------------
(* The other threads. *)

\* Before the server runs there is no sender, and the signal is lost.
send_server_signal(s) ==
    /\ wsSent < MaxWsSignals /\ wsSent' = wsSent + 1
    /\ wsQueue' = IF wsRun = "new" THEN wsQueue ELSE Append(wsQueue, s)
    /\ UNCHANGED <<wsConns, wsId, wsRun, wsWatch, wsGot>>

send_message == \E w \in wsWatch : send_server_signal([kind |-> "SendResponse", token |-> w[1], peer |-> w[2]])
shut_down == send_server_signal([kind |-> "ShutDown"])

WebSocketNext ==
    \/ run \/ send_message \/ shut_down \/ handle_ws_signal
    \/ \E p \in WsPeers : accept_ws(p)
    \/ \E t \in DOMAIN wsConns : connection_event(t)
-----------------------------------------------------------------------------
WebSocketTypeOK ==
    /\ \A t \in DOMAIN wsConns : wsConns[t].peer \in WsPeers /\ t \in 11 .. wsId
    /\ wsRun \in {"new", "running", "stopped"} /\ wsGot \in [WsPeers -> SUBSET WsPeers]

\* A response reaches the client that asked for it or nobody: a connection that
\* closed and another that took its place never mix, however late the response.
ResponsesToTheirPeer == \A p \in WsPeers : wsGot[p] \subseteq {p}

\* A connection the server keeps is always registered for its next event and
\* has a stream: none stays in the map deaf, whatever combination of read and
\* write results a single event brings.
KeptIsRegistered ==
    \A t \in DOMAIN wsConns : wsConns[t].armed /\ wsConns[t].stream # "Invalid"

\* What the event loop owes its connections.
ConnectionsAreServed == WebSocketTypeOK /\ ResponsesToTheirPeer /\ KeptIsRegistered
=============================================================================
