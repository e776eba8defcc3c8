---------------------------- MODULE OvsdbSystem ----------------------------
(***************************************************************************)
(* The database server, clients that use the IDL, and others that send     *)
(* requests of a scenario, over connections that break.                    *)
(*                                                                         *)
(* A connection carries messages in order both ways.  Its two ends learn   *)
(* on their own that it has broken, so that a client may be back on a new  *)
(* connection while the server still keeps the session of the old one.     *)
(* One step of a client is ovsdb_idl_run with one message to read, one     *)
(* step of the server is ovsdb_jsonrpc_session_run or ovsdb_trigger_run:   *)
(* since messages take any time to arrive, the loops around them reach no  *)
(* other states.                                                           *)
(***************************************************************************)
EXTENDS OvsdbIdl

CONSTANTS
  Idls,         \* clients that use the IDL
  MaxConn,      \* connections 1..MaxConn are theirs, made one after the other
  Scenarios,    \* each: the requests of the others, and how often an IDL
                \* client may ask for the lock on a connection
  MaxCount,     \* where the clients stop incrementing
  MaxQueue,     \* a client sends no more than this ahead of the server
  MaxOut        \* and the server stops reading when this much is unread

VARIABLES
  S,       \* the server
  C,       \* the IDL clients
  c2s,     \* requests on their way to the server
  wire,    \* "free", "dialed" (not accepted yet), "up" or "down"
  scene    \* what is left of the scenario

vars == <<S, C, c2s, wire, scene>>

Others == Conns \ 1..MaxConn

Fresh == {k \in 1..MaxConn : wire[k] = "free"}

Init ==
  /\ S = [NewServer EXCEPT !.live = Others]
  /\ C = [c \in Idls |-> NewIdl]
  /\ c2s = [k \in Conns |-> <<>>]
  /\ wire = [k \in Conns |-> IF k \in Others THEN "up" ELSE "free"]
  /\ scene \in Scenarios

----------------------------------------------------------------------------
(* The server.                                                             *)

\* What is written to a connection that has broken is lost.
Deliver(T) ==
  S' = [T EXCEPT !.out = [k \in Conns |-> IF wire[k] = "up" THEN @[k] ELSE <<>>]]

\* ovsdb_jsonrpc_server_run: a listener accepts.
ServerAccepts(k) ==
  /\ wire[k] = "dialed"
  /\ wire' = [wire EXCEPT ![k] = "up"]
  /\ S' = session_create(S, k)
  /\ UNCHANGED <<C, c2s, scene>>

Backlogs(T, k) ==
  CASE T.out[k] = <<>> -> {FALSE}
    [] Len(T.out[k]) >= MaxOut -> {TRUE}
    [] OTHER -> BOOLEAN

\* ovsdb_jsonrpc_session_run on a session that is connected.
ServerRuns(k) ==
  /\ k \in S.live
  /\ \E done \in {trigger_complete_done(S, k)} : \E backlog \in Backlogs(done, k) :
       IF backlog THEN Deliver(done) /\ UNCHANGED c2s
       ELSE \E f \in {monitor_flush_all(done, k)} :
              IF c2s[k] = <<>> THEN Deliver(f) /\ UNCHANGED c2s
              ELSE /\ Deliver(GotRequest(f, k, Head(c2s[k])))
                   /\ c2s' = [c2s EXCEPT ![k] = Tail(@)]
  /\ UNCHANGED <<C, wire, scene>>

\* ovsdb_jsonrpc_session_run on a session whose connection is found broken.
ServerDrops(k) ==
  /\ k \in S.live /\ wire[k] = "down"
  /\ Deliver(session_close(S, k))
  /\ c2s' = [c2s EXCEPT ![k] = <<>>]
  /\ UNCHANGED <<C, wire, scene>>

TriggerRun ==
  /\ \E late \in BOOLEAN : Deliver(trigger_run(S, late))
  /\ UNCHANGED <<C, c2s, wire, scene>>

----------------------------------------------------------------------------
(* The clients.                                                            *)

\* Client c becomes D, and what it sends is on the wire.  What is known of a
\* transaction is kept while somebody asks for it.
Becomes(c, D) ==
  /\ C' = [C EXCEPT ![c] = [D EXCEPT
       !.send = <<>>,
       !.news = @ /\ D.status \in {"INCOMPLETE", "TRY_AGAIN"},
       !.wrote = IF D.status \in {"INCOMPLETE", "SUCCESS"} THEN @ ELSE None]]
  /\ c2s' = IF D.conn = 0 THEN c2s ELSE [c2s EXCEPT ![D.conn] = @ \o D.send]

IdlConnects(c) ==
  /\ C[c].conn = 0 /\ Fresh # {}
  /\ LET k == CHOOSE x \in Fresh : \A y \in Fresh : x <= y
     IN /\ Becomes(c, Greet([C[c] EXCEPT !.conn = k]))
        /\ wire' = [wire EXCEPT ![k] = "dialed"]
  /\ UNCHANGED <<S, scene>>

IdlReceives(c) ==
  LET k == C[c].conn
  IN /\ k # 0 /\ S.out[k] # <<>>
     /\ Becomes(c, GotMessage(C[c], Head(S.out[k])))
     /\ S' = [S EXCEPT !.out[k] = Tail(@)]
     /\ UNCHANGED <<wire, scene>>

\* The session gives a connection up: an error, a probe without an answer, or
\* ovsdb_idl_force_reconnect.  What was sent may still be read.
IdlDrops(c) ==
  LET k == C[c].conn
  IN /\ k # 0 /\ Fresh # {}
     /\ C' = [C EXCEPT ![c].conn = 0]
     /\ wire' = [wire EXCEPT ![k] = "down"]
     /\ S' = [S EXCEPT !.out[k] = <<>>]
     /\ UNCHANGED <<c2s, scene>>

\* The application: it starts another transaction when the last has ended,
\* and after TXN_TRY_AGAIN when the IDL has changed.
Room(c) == C[c].conn # 0 => Len(c2s[C[c].conn]) < MaxQueue

IdlCommits(c) ==
  /\ C[c].connected /\ Room(c)
  /\ C[c].status # "INCOMPLETE"
  /\ C[c].status = "TRY_AGAIN" => C[c].news
  /\ C[c].rows["counter"] < MaxCount
  /\ Becomes(c, txn_commit_idl(C[c]))
  /\ UNCHANGED <<S, wire, scene>>

IdlSetsLock(c) ==
  /\ C[c].status # "INCOMPLETE" /\ Room(c)
  /\ ~C[c].lock_name => C[c].lock_id < scene.locks
  /\ Becomes(c, set_lock(C[c], ~C[c].lock_name))
  /\ UNCHANGED <<S, wire, scene>>

OtherSends ==
  /\ scene.requests # <<>>
  /\ LET r == Head(scene.requests)
     IN /\ c2s[r.k] = <<>>
        /\ c2s' = [c2s EXCEPT ![r.k] = <<r.msg>>]
  /\ scene' = [scene EXCEPT !.requests = Tail(@)]
  /\ UNCHANGED <<S, C, wire>>

Break(k) ==
  /\ wire[k] \in {"dialed", "up"} /\ Fresh # {}
  /\ wire' = [wire EXCEPT ![k] = "down"]
  /\ c2s' = [c2s EXCEPT ![k] = <<>>]
  /\ S' = [S EXCEPT !.out[k] = <<>>]
  /\ UNCHANGED <<C, scene>>

Next ==
  \/ \E k \in 1..MaxConn : ServerAccepts(k) \/ ServerDrops(k) \/ Break(k)
  \/ \E k \in Conns : ServerRuns(k)
  \/ TriggerRun
  \/ \E c \in Idls : \/ IdlConnects(c)
                     \/ IdlReceives(c)
                     \/ IdlDrops(c)
                     \/ IdlCommits(c)
                     \/ IdlSetsLock(c)
  \/ OtherSends

\* The loops of ovsdb-server and of the clients go round; a client notices that
\* its connection has broken, and connects again.
Fairness ==
  /\ \A k \in 1..MaxConn : WF_vars(ServerAccepts(k)) /\ WF_vars(ServerRuns(k))
  /\ \A c \in Idls :
       /\ WF_vars(IdlConnects(c))
       /\ WF_vars(IdlReceives(c))
       /\ WF_vars(C[c].conn # 0 /\ wire[C[c].conn] = "down" /\ IdlDrops(c))

Spec == Init /\ [][Next]_vars /\ Fairness

----------------------------------------------------------------------------
\* Rows after the updates of a sequence of messages; a monitor's reply starts
\* from its own.
Applied(rows, msgs) ==
  LET Over(r, u) == [q \in Rows |-> IF q \in DOMAIN u THEN u[q] ELSE r[q]]
      One(r, m) == CASE m.m = "update" -> Over(r, m.rows)
                     [] m.m = "monitor" -> Over([q \in Rows |-> None], m.rows)
                     [] OTHER -> r
  IN FoldLeft(One, rows, msgs)

(***************************************************************************)
(* While a client's monitor is in place, its replica, the messages on the  *)
(* way to it and the changes the server still keeps for it add up to the   *)
(* database: no change is lost, doubled or applied out of order, whatever  *)
(* is merged in the server's queue (ovsdb_jsonrpc_monitor_change_cb) while *)
(* the connection is backlogged.                                           *)
(***************************************************************************)
ReplicaCatchesUp ==
  \A c \in Idls :
    LET k == C[c].conn
    IN k # 0 /\ wire[k] = "up" /\ k \in S.monitors =>
         Applied(C[c].rows,
                 Append(S.out[k], [m |-> "update",
                                   rows |-> ComposeUpdate(S.changes[k])])) = S.db

(***************************************************************************)
(* What ovsdb_idl_txn_commit says of its results.  When it reports         *)
(* TXN_SUCCESS the update is visible in the IDL: the notification is never *)
(* behind the reply.  When it reports TXN_TRY_AGAIN on a connection whose  *)
(* contents have arrived, the IDL has changed since the commit: who waits  *)
(* for ovsdb_idl_get_seqno to move from its value then does not wait for   *)
(* something that has already happened.                                    *)
(***************************************************************************)
ResultsAreSeen ==
  \A c \in Idls :
    /\ C[c].status = "SUCCESS" => C[c].rows["counter"] >= C[c].wrote
    /\ C[c].status = "TRY_AGAIN" /\ C[c].conn # 0 /\ ~C[c].monitoring => C[c].news

(***************************************************************************)
(* Once nothing is on its way between a client and the server, and the     *)
(* client wants the lock, both agree on whether it owns it, whatever       *)
(* requests, notifications, thefts and broken connections came before.     *)
(***************************************************************************)
BeliefSettles ==
  \A c \in Idls :
    LET k == C[c].conn
    IN k # 0 /\ wire[k] = "up" /\ c2s[k] = <<>> /\ S.out[k] = <<>> =>
         C[c].has_lock = (C[c].lock_name /\ IsOwner(S, k))

(***************************************************************************)
(* A transaction that waits for a condition which holds is due for another *)
(* try: ovsdb_trigger_run never puts down the flag after a commit, its own *)
(* transactions' commits included, that it has not tried everybody for.    *)
(***************************************************************************)
NoSleepingTrigger ==
  \A i \in DOMAIN S.triggers :
    Verdict(S, S.triggers[i].k, S.triggers[i].txn, FALSE) = "ok" => S.run_triggers

(***************************************************************************)
(* Every transaction that an IDL client sends comes to an end, with the    *)
(* server's reply or, when the connection breaks before that, with the     *)
(* next connection (ovsdb_idl_txn_abort_all).                              *)
(***************************************************************************)
TxnsEnd ==
  \A c \in Idls : (C[c].status = "INCOMPLETE") ~> (C[c].status # "INCOMPLETE")
=============================================================================
