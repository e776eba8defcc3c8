--------------------------- MODULE JsonrpcSession ---------------------------
(***************************************************************************)
(* A JSON-RPC session (lib/jsonrpc.c): one connection at a time, opened    *)
(* again by the state machine of Reconnect when it breaks.                 *)
(*                                                                         *)
(* The session, its connection and the wire it runs over are one record.   *)
(* The wire is external: it carries data while it is "alive", swallows it  *)
(* while it is "silent", and reports an error or the end of file once it   *)
(* is "closed".  A message is known by what jsonrpc_session_recv does with *)
(* it; the backlog counts queued messages.  The user of the session looks  *)
(* at it after each run the way ovsdb_idl_run does: a new sequence number  *)
(* means a new connection, on which it has to introduce itself again.      *)
(***************************************************************************)
EXTENDS Reconnect

CONSTANTS
  Kinds,       \* how sessions are opened, a subset of the four below
  MaxBackoffs  \* arguments of jsonrpc_session_set_max_backoff

VARIABLES
  s,        \* struct jsonrpc_session, with its connection and its wire
  kind,     \* how the session was opened
  host,     \* the other end, and this end's own resources, work or not
  pending,  \* a connection waits in the listener's queue
  greeted,  \* the user has introduced itself on this connection
  silence   \* history: seconds of probing without a sign of life

vars == <<s, kind, host, pending, greeted, silence>>

\* A session that is silent for longer than two probe intervals has failed.
MaxSilence == 2 * DefaultProbeInterval + 1

\* 'moved': the sequence number differs from the one the user saw last.
Session ==
  [fsm : Fsm, rpc : {"none", "ok", "error"}, stream : BOOLEAN,
   pstream : BOOLEAN, moved : BOOLEAN, backlog : 0..1,
   echo : {"none", "queued", "sent"},
   inbox : {"none", "data", "echo", "reply", "junk"},
   wire : {"alive", "silent", "closed"}]

----------------------------------------------------------------------------
(* The connection: struct jsonrpc.                                         *)

\* The fields of a connection, once there is none or none that works.
Quiet(z) == [z EXCEPT !.backlog = 0, !.echo = "none", !.inbox = "none",
                      !.wire = "closed"]

jsonrpc_open(z) ==
  [z EXCEPT !.rpc = "ok", !.stream = FALSE, !.backlog = 0, !.echo = "none",
            !.inbox = "none", !.wire = "alive"]

jsonrpc_error(z) == [Quiet(z) EXCEPT !.rpc = "error"]

\* Everything queued is written, or nothing is, or the stream fails.
jsonrpc_run(z, result) ==
  CASE z.rpc = "error" \/ z.backlog = 0 -> z
    [] result = "ok" -> [z EXCEPT !.backlog = 0,
                                  !.echo = IF @ = "queued" THEN "sent" ELSE @]
    [] result = "error" -> jsonrpc_error(z)
    [] result = "again" -> z

jsonrpc_send(z, isEcho, result) ==
  LET q == [z EXCEPT !.backlog = 1, !.echo = IF isEcho THEN "queued" ELSE @]
  IN CASE z.rpc = "error" -> z
       [] z.backlog = 0 -> jsonrpc_run(q, result)
       [] OTHER -> q

----------------------------------------------------------------------------
(* jsonrpc_session_run and what it calls.                                  *)

\* A bug: the sequence number is left alone when a connection goes away.
Disconnect_Quietly(z) ==
  CASE z.rpc # "none" -> [Quiet(z) EXCEPT !.rpc = "none"]
    [] z.stream -> [z EXCEPT !.stream = FALSE, !.moved = TRUE]
    [] OTHER -> z

jsonrpc_session_disconnect(z) ==
  CASE z.rpc # "none" -> [Quiet(z) EXCEPT !.rpc = "none", !.moved = TRUE]
    [] z.stream -> [z EXCEPT !.stream = FALSE, !.moved = TRUE]
    [] OTHER -> z

jsonrpc_session_connect(z, open) ==
  LET d == jsonrpc_session_disconnect(z)
      n == CASE open = "error" ->
                  [d EXCEPT !.fsm = reconnect_connect_failed(@)]
             [] d.fsm.passive ->
                  [d EXCEPT !.fsm = reconnect_listening(@), !.pstream = TRUE]
             [] OTHER ->
                  [d EXCEPT !.fsm = reconnect_connecting(@), !.stream = TRUE]
  IN [n EXCEPT !.moved = TRUE]

\* The first part of jsonrpc_session_run: a listener accepts.
Accept(z, accept) ==
  CASE ~z.pstream \/ accept = "again" -> z
    [] accept = "ok" ->
         jsonrpc_open([jsonrpc_session_disconnect(z) EXCEPT
                         !.fsm = reconnect_connected(@)])
    [] accept = "error" ->
         [z EXCEPT !.fsm = reconnect_listen_error(@), !.pstream = FALSE]

\* A bug: a connection that fails is closed without telling the state machine.
RunRpc_Untold(z, send) ==
  LET r == jsonrpc_run(z, send)
      a == IF r.backlog < z.backlog
           THEN [r EXCEPT !.fsm = reconnect_activity(@)] ELSE r
  IN IF a.rpc = "error" THEN jsonrpc_session_disconnect(a) ELSE a

\* The second part, with a connection: data that had been queued and is sent
\* counts as activity.
RunRpc(z, send) ==
  LET r == jsonrpc_run(z, send)
      a == IF r.backlog < z.backlog
           THEN [r EXCEPT !.fsm = reconnect_activity(@)] ELSE r
  IN IF a.rpc = "error"
     THEN jsonrpc_session_disconnect([a EXCEPT !.fsm = reconnect_disconnected(@)])
     ELSE a

\* The second part, while a connection is being made.
RunStream(z, connect) ==
  CASE connect = "ok" -> jsonrpc_open([z EXCEPT !.fsm = reconnect_connected(@)])
    [] connect = "error" -> [z EXCEPT !.fsm = reconnect_connect_failed(@),
                                      !.stream = FALSE]
    [] connect = "again" -> z

\* The last part: what the state machine asks for.
RunReconnect(z, open, send) ==
  LET r == reconnect_run(z.fsm)
      n == [z EXCEPT !.fsm = r.fsm]
  IN CASE r.action = "none" -> n
       [] r.action = "CONNECT" -> jsonrpc_session_connect(n, open)
       [] r.action = "DISCONNECT" ->
            jsonrpc_session_disconnect([n EXCEPT !.fsm = reconnect_disconnected(@)])
       [] r.action = "PROBE" ->
            IF n.rpc # "none" THEN jsonrpc_send(n, TRUE, send) ELSE n

----------------------------------------------------------------------------
(* What the streams answer, and each part of a run under every answer.     *)

Faults == IF host = "up" THEN {} ELSE {"error"}

SendResults(z) ==
  CASE z.wire = "alive" -> {"ok", "again"}
    [] z.wire = "silent" -> {"again"}
    [] z.wire = "closed" -> {"error"}

\* A host that works completes a connection before the attempt's deadline.
ConnectResults(z) ==
  CASE host = "up" -> {"ok"} \cup IF Due(z.fsm) THEN {} ELSE {"again"}
    [] host = "down" -> {"again", "error"}

Accepts(z) ==
  {Accept(z, a) : a \in IF pending THEN {"ok"} ELSE {"again"} \cup Faults}

Connections(z) ==
  CASE z.rpc # "none" -> {RunRpc(z, r) : r \in SendResults(z)}
    [] z.rpc = "none" /\ z.stream -> {RunStream(z, r) : r \in ConnectResults(z)}
    [] OTHER -> {z}

Reconnections(z) ==
  {RunReconnect(z, o, r) : o \in {"ok"} \cup Faults, r \in SendResults(z)}

----------------------------------------------------------------------------
(* Opening a session.                                                      *)

Opened(k) ==
  LET e == reconnect_enable(reconnect_create)
      u == reconnect_connected(reconnect_set_max_tries(reconnect_create, 0))
      f == CASE k = "retry" -> e
             [] k = "passive" -> reconnect_set_passive(e, TRUE)
             [] k = "once" -> reconnect_set_backoff(
                                reconnect_set_max_tries(e, 1), Forever, Forever)
             [] k = "unreliable" -> u
      z == [fsm |-> f, rpc |-> "none", stream |-> FALSE, pstream |-> FALSE,
            moved |-> FALSE, backlog |-> 0, echo |-> "none",
            inbox |-> "none", wire |-> "closed"]
  IN IF k = "unreliable" THEN jsonrpc_open(z) ELSE z

\* An unreliable session's user knows it from the start as connected.
Init ==
  /\ kind \in Kinds
  /\ s = Opened(kind)
  /\ host = "up"
  /\ pending = FALSE
  /\ greeted = (kind = "unreliable")
  /\ silence = 0

----------------------------------------------------------------------------
(* The session's calls.                                                    *)

\* jsonrpc_session_run, after which the user, if connected, compares the
\* sequence number and sends its first request when it has changed.
Run ==
  \E a \in Accepts(s) : \E c \in Connections(a) : \E r \in Reconnections(c) :
    LET fresh == r.rpc # "none" /\ (s.rpc = "none" \/ (pending /\ s.pstream))
        greets == r.rpc # "none" /\ r.moved
    IN /\ \E send \in SendResults(r) :
            s' = IF greets THEN jsonrpc_send([r EXCEPT !.moved = FALSE], FALSE, send)
                 ELSE r
       /\ greeted' = (greets \/ (greeted /\ ~fresh /\ r.rpc # "none"))
       /\ pending' = (pending /\ ~s.pstream)
       /\ silence' = IF fresh \/ r.rpc = "none" \/ r.backlog < s.backlog
                     THEN 0 ELSE silence
       /\ UNCHANGED <<kind, host>>

\* What arrived is taken off the wire: any byte is activity, an echo request
\* is answered, a malformed message and the end of file end the connection.
jsonrpc_session_recv ==
  /\ s.rpc = "ok"
  /\ s.inbox # "none" \/ s.wire = "closed"
  /\ \E r \in SendResults(s) :
       LET a == [s EXCEPT !.inbox = "none", !.fsm = reconnect_activity(@),
                          !.echo = IF s.inbox = "reply" THEN "none" ELSE @]
       IN s' = CASE s.inbox = "none" -> jsonrpc_error(s)
                 [] s.inbox = "junk" -> jsonrpc_error(a)
                 [] s.inbox = "echo" -> jsonrpc_send(a, FALSE, r)
                 [] OTHER -> a
  /\ silence' = IF s.inbox = "none" THEN silence ELSE 0
  /\ UNCHANGED <<kind, host, pending, greeted>>

jsonrpc_session_send ==
  /\ s.rpc # "none"
  /\ \E r \in SendResults(s) : s' = jsonrpc_send(s, FALSE, r)
  /\ UNCHANGED <<kind, host, pending, greeted, silence>>

jsonrpc_session_force_reconnect ==
  /\ s' = [s EXCEPT !.fsm = reconnect_force_reconnect(@)]
  /\ UNCHANGED <<kind, host, pending, greeted, silence>>

\* ovs-vsctl, once it has connected with a session that does not retry.
jsonrpc_session_enable_reconnect ==
  /\ kind = "once"
  /\ s' = [s EXCEPT !.fsm = reconnect_set_backoff(
                              reconnect_set_max_tries(@, Unlimited),
                              DefaultMinBackoff, DefaultMaxBackoff)]
  /\ UNCHANGED <<kind, host, pending, greeted, silence>>

\* The options of a remote, which only ovsdb-server sets.  It listens by itself
\* and opens neither passive sessions nor ones that do not retry.
jsonrpc_session_set_max_backoff ==
  /\ kind \in {"retry", "unreliable"}
  /\ \E m \in MaxBackoffs :
       s' = [s EXCEPT !.fsm = reconnect_set_backoff(@, 0, m)]
  /\ UNCHANGED <<kind, host, pending, greeted, silence>>

\* The silence that counts against the peer starts when probing does.
jsonrpc_session_set_probe_interval ==
  /\ kind \in {"retry", "unreliable"}
  /\ \E p \in {0, DefaultProbeInterval} \ {s.fsm.probe_interval} :
       s' = [s EXCEPT !.fsm = reconnect_set_probe_interval(@, p)]
  /\ silence' = 0
  /\ UNCHANGED <<kind, host, pending, greeted>>

\* With a value that differs.
jsonrpc_session_set_dscp ==
  /\ kind \in {"retry", "unreliable"}
  /\ s' = [s EXCEPT !.pstream = FALSE, !.fsm = reconnect_force_reconnect(@)]
  /\ UNCHANGED <<kind, host, pending, greeted, silence>>

----------------------------------------------------------------------------
(* Time, the wire and the other end.                                       *)

\* The user runs the session as soon as its timer expires.
Tick ==
  /\ ~Due(s.fsm)
  /\ s' = [s EXCEPT !.fsm = Elapse(@)]
  /\ silence' = IF s.rpc = "none" \/ s.fsm.probe_interval = 0 THEN 0
                ELSE Least(silence + 1, MaxSilence)
  /\ UNCHANGED <<kind, host, pending, greeted>>

HostChanges ==
  /\ host' = IF host = "up" THEN "down" ELSE "up"
  /\ UNCHANGED <<s, kind, pending, greeted, silence>>

WireBreaks ==
  /\ s.rpc = "ok" /\ s.wire = "alive" /\ host = "down"
  /\ \E w \in {"silent", "closed"} :
       s' = [s EXCEPT !.wire = w, !.echo = "none"]
  /\ UNCHANGED <<kind, host, pending, greeted, silence>>

\* The peer answers a probe that reached it.
PeerAnswers ==
  /\ s.rpc = "ok" /\ s.wire = "alive" /\ s.inbox = "none" /\ s.echo = "sent"
  /\ s' = [s EXCEPT !.inbox = "reply"]
  /\ UNCHANGED <<kind, host, pending, greeted, silence>>

PeerSends ==
  /\ s.rpc = "ok" /\ s.wire = "alive" /\ s.inbox = "none"
  /\ \E m \in {"data", "echo", "junk"} : s' = [s EXCEPT !.inbox = m]
  /\ UNCHANGED <<kind, host, pending, greeted, silence>>

\* A client of a listening session.  It tries again until it is accepted.
PeerConnects ==
  /\ s.pstream /\ ~pending
  /\ host = "up"
  /\ pending' = TRUE
  /\ UNCHANGED <<s, kind, host, greeted, silence>>

Next ==
  \/ Run
  \/ jsonrpc_session_recv
  \/ jsonrpc_session_send
  \/ jsonrpc_session_force_reconnect
  \/ jsonrpc_session_enable_reconnect
  \/ jsonrpc_session_set_max_backoff
  \/ jsonrpc_session_set_probe_interval
  \/ jsonrpc_session_set_dscp
  \/ Tick
  \/ HostChanges
  \/ WireBreaks
  \/ PeerAnswers
  \/ PeerSends
  \/ PeerConnects

\* The user's main loop runs the session, takes what it received and lets
\* time pass; the peer answers probes and dials a listener until it gets in.
Spec ==
  /\ Init
  /\ [][Next]_vars
  /\ WF_vars(Run)
  /\ WF_vars(jsonrpc_session_recv)
  /\ WF_vars(Tick)
  /\ WF_vars(PeerAnswers)
  /\ WF_vars(PeerConnects)

----------------------------------------------------------------------------
TypeOK ==
  /\ s \in Session
  /\ kind \in {"retry", "passive", "once", "unreliable"}
  /\ host \in {"up", "down"}
  /\ pending \in BOOLEAN
  /\ greeted \in BOOLEAN
  /\ silence \in 0..MaxSilence

(***************************************************************************)
(* The state machine of lib/reconnect.c and the pointers of the session    *)
(* agree: a connected state has a connection, a connection is in a         *)
(* connected state or about to be dropped, an attempt has its stream, a    *)
(* listening state its listener, and a session that waits or has given up  *)
(* has neither connection nor attempt.                                     *)
(***************************************************************************)
StateTellsStream ==
  LET st == s.fsm.state
  IN /\ st \in ConnectedStates => s.rpc # "none"
     /\ s.rpc # "none" => st \in ConnectedStates \cup {"RECONNECT"}
     /\ st = "CONNECTING" => s.stream
     /\ s.stream => s.rpc = "none" /\ st \in {"CONNECTING", "RECONNECT"}
     /\ st = "LISTENING" => s.pstream

(***************************************************************************)
(* While probing is on, no connection outlives two probe intervals without *)
(* a sign of life from the other end, whatever the session's user queues   *)
(* or changes in the meantime (reconnect_run: RECONNECT_PROBE, and         *)
(* RECONNECT_DISCONNECT in S_IDLE).                                        *)
(***************************************************************************)
DeadPeerDropped ==
  s.rpc # "none" /\ s.fsm.probe_interval # 0 => silence < MaxSilence

(***************************************************************************)
(* A user that compares sequence numbers (ovsdb_idl_run) never mistakes a  *)
(* new connection for the one it knew: it has introduced itself on every   *)
(* connection whose number it has seen.                                    *)
(***************************************************************************)
NewConnectionIsSeen == s.rpc # "none" /\ ~s.moved => greeted

(***************************************************************************)
(* A session that may retry, and that probes its connections, always gets  *)
(* a working one again once the other end stays up, whatever state the     *)
(* failures, the backoff and its user's calls have left it in.             *)
(***************************************************************************)
Reconnects ==
  <>[](/\ host = "up"
       /\ s.fsm.max_tries = Unlimited
       /\ s.fsm.probe_interval # 0)
    => []<>(s.rpc = "ok" /\ s.wire = "alive")
=============================================================================
