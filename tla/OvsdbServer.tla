---------------------------- MODULE OvsdbServer ----------------------------
(***************************************************************************)
(* The JSON-RPC database server (ovsdb/jsonrpc-server.c, server.c,         *)
(* trigger.c and the way execution.c and transaction.c end a transaction): *)
(* sessions, their monitors, the queue for one lock, and transactions that *)
(* wait.  Each operator takes the server S and returns the one the         *)
(* function of that name leaves; a session is named by its connection.     *)
(*                                                                         *)
(* The database is a counter, which every transaction with a "wait" is     *)
(* about, and one more row, which comes and goes.  A row's value stands    *)
(* for all of its columns; a row that is not there is None.                *)
(***************************************************************************)
EXTENDS Integers, Sequences, FiniteSets, SequencesExt

CONSTANTS
  Conns,   \* connections, each used once
  Unread   \* those whose client does not look at what it is sent

Rows     == {"counter", "extra"}
None     == -1
NoChange == [old |-> None, new |-> None]

\* A transaction: operations "assert" and "wait" (for a value of the counter)
\* may precede an "insert", an "update", a "mutate" that adds, or a "delete".
\* 'timeout' is the "wait"'s.
Txn(id, assert, until, timeout, op, row, value) ==
  [m |-> "transact", id |-> id, assert |-> assert, until |-> until,
   timeout |-> timeout, op |-> op, row |-> row, value |-> value]

NewServer ==
  [db |-> [r \in Rows |-> IF r = "counter" THEN 0 ELSE None],
   born |-> {"counter"},                        \* rows ever inserted
   run_triggers |-> FALSE,
   live |-> {},                                 \* sessions
   monitors |-> {},                             \* sessions with a monitor
   changes |-> [k \in Conns |-> [r \in Rows |-> NoChange]],
   triggers |-> <<>>,                           \* of db: [k, txn]
   completions |-> [k \in Conns |-> <<>>],      \* of a session: [id, result]
   waiters |-> <<>>,                            \* of the lock: [k, mode]
   lost |-> {},                                 \* sessions a waiter was stolen from
   out |-> [k \in Conns |-> <<>>]]              \* on the wire to the client

----------------------------------------------------------------------------
(* Monitors.                                                               *)

\* A bug: a row already in the table is not brought up to date.
ChangeCb_FirstOnly(change, old, new) ==
  IF change = NoChange THEN [old |-> old, new |-> new] ELSE change

\* ovsdb_jsonrpc_monitor_change_cb for one row.
ChangeCb(change, old, new) ==
  CASE change = NoChange -> [old |-> old, new |-> new]
    [] change # NoChange /\ new # None -> [change EXCEPT !.new = new]
    [] change # NoChange /\ new = None ->
         IF change.old = None THEN NoChange ELSE [change EXCEPT !.new = None]

\* The rows of an "update" and their new values, and none for a row that has
\* changed back.
ComposeUpdate(changes) ==
  [r \in {q \in Rows : changes[q].old # changes[q].new} |-> changes[r].new]

\* Answers that no client waits for take no room on the wire.
JsonrpcSend(S, k, msg) ==
  IF k \in S.live \ Unread /\ msg.m \notin {"ok", "error"} THEN [S EXCEPT !.out[k] = Append(@, msg)] ELSE S

monitor_flush_all(S, k) ==
  LET u == ComposeUpdate(S.changes[k])
      c == [S EXCEPT !.changes[k] = [r \in Rows |-> NoChange]]
  IN IF k \notin S.monitors THEN S
     ELSE IF DOMAIN u = {} THEN c ELSE JsonrpcSend(c, k, [m |-> "update", rows |-> u])

\* A bug: a reply overtakes the changes that it depends on.
Send_Unflushed(S, k, msg) == JsonrpcSend(S, k, msg)

session_send(S, k, msg) == JsonrpcSend(monitor_flush_all(S, k), k, msg)

\* The initial contents are the rows there are.
monitor_create(S, k) ==
  [S EXCEPT !.monitors = @ \cup {k}, !.changes[k] = [r \in Rows |-> NoChange]]

monitor_remove_all(S, k) ==
  [S EXCEPT !.monitors = @ \ {k}, !.changes[k] = [r \in Rows |-> NoChange]]

----------------------------------------------------------------------------
(* The lock.                                                               *)

HasWaiter(S, k) == k \in S.lost \/ \E i \in DOMAIN S.waiters : S.waiters[i].k = k
IsOwner(S, k)   == S.waiters # <<>> /\ Head(S.waiters).k = k

\* "lock" and "steal".  A victim that stole the lock itself leaves the queue.
session_lock(S, k, mode, id) ==
  LET me     == [k |-> k, mode |-> mode]
      steals == mode = "steal" /\ S.waiters # <<>>
      victim == Head(S.waiters)
      rest   == IF victim.mode = "steal" THEN Tail(S.waiters) ELSE S.waiters
      got    == CASE steals ->
                       session_send(
                         [S EXCEPT !.waiters = <<me>> \o rest,
                                   !.lost = IF victim.mode = "steal"
                                            THEN @ \cup {victim.k} ELSE @],
                         victim.k, [m |-> "stolen"])
                  [] ~steals -> [S EXCEPT !.waiters = Append(@, me)]
  IN IF HasWaiter(S, k) THEN session_send(S, k, [m |-> "error"])
     ELSE session_send(got, k, [m |-> "lock", id |-> id,
                                 locked |-> IsOwner(got, k)])

\* ovsdb_jsonrpc_session_unlock__: whoever is first in the queue afterwards is
\* told so, even if it already was.
unlock__(S, k) ==
  LET rest == SelectSeq(S.waiters, LAMBDA w : w.k # k)
      gone == [S EXCEPT !.waiters = rest, !.lost = @ \ {k}]
  IN IF k \in S.lost \/ rest = <<>> THEN gone
     ELSE session_send(gone, Head(rest).k, [m |-> "locked"])

session_unlock(S, k) ==
  IF HasWaiter(S, k) THEN session_send(unlock__(S, k), k, [m |-> "ok"])
  ELSE session_send(S, k, [m |-> "error"])

----------------------------------------------------------------------------
(* Transactions.                                                           *)

\* ovsdb_txn_commit: nothing happens if nothing changes; otherwise every
\* monitor is told and waiting transactions are due for another try.
txn_commit(S, row, value) ==
  IF S.db[row] = value THEN S
  ELSE [S EXCEPT !.db[row] = value, !.run_triggers = TRUE,
                 !.changes = [k \in Conns |->
                    IF k \notin S.monitors THEN @[k]
                    ELSE [@[k] EXCEPT ![row] = ChangeCb(@, S.db[row], value)]]]

\* What ovsdb_execute finds before it commits.
Verdict(S, k, txn, late) ==
  CASE txn.assert /\ ~IsOwner(S, k) -> "not owner"
    [] ~(txn.assert /\ ~IsOwner(S, k)) ->
         CASE txn.until \in {None, S.db["counter"]} -> "ok"
           [] OTHER -> IF txn.timeout = "zero" \/ (txn.timeout = "some" /\ late)
                       THEN "timed out" ELSE "waiting"

\* A row once inserted keeps its UUID: another insert makes another row, which
\* is not followed, and an update of a row that is not there changes nothing.
ovsdb_execute(S, txn, verdict) ==
  CASE verdict = "ok" /\ txn.op = "insert" /\ txn.row \notin S.born ->
         [txn_commit(S, txn.row, txn.value) EXCEPT !.born = @ \cup {txn.row}]
    [] verdict = "ok" /\ txn.op = "update" /\ S.db[txn.row] # None ->
         txn_commit(S, txn.row, txn.value)
    [] verdict = "ok" /\ txn.op = "mutate" /\ S.db[txn.row] # None ->
         txn_commit(S, txn.row, S.db[txn.row] + txn.value)
    [] verdict = "ok" /\ txn.op = "delete" -> txn_commit(S, txn.row, None)
    [] OTHER -> S

Reply(id, result) == [m |-> "reply", id |-> id, result |-> result]

IdsOf(S, k) ==
  {S.triggers[i].txn.id : i \in {j \in DOMAIN S.triggers : S.triggers[j].k = k}}
    \cup {S.completions[k][i].id : i \in DOMAIN S.completions[k]}

\* A transaction that need not wait is answered at once.
trigger_create(S, k, txn) ==
  LET v == Verdict(S, k, txn, FALSE)
  IN CASE txn.id \in IdsOf(S, k) -> session_send(S, k, [m |-> "error"])
       [] txn.id \notin IdsOf(S, k) /\ v = "waiting" ->
            [S EXCEPT !.triggers = Append(@, [k |-> k, txn |-> txn])]
       [] OTHER -> session_send(ovsdb_execute(S, txn, v), k, Reply(txn.id, v))

\* ovsdb_trigger_try from ovsdb_trigger_run, for one transaction.
TriggerTry(S, t, late) ==
  LET v == Verdict(S, t.k, t.txn, late)
      e == ovsdb_execute(S, t.txn, v)
  IN IF v = "waiting" THEN [e EXCEPT !.triggers = Append(@, t)]
     ELSE [e EXCEPT !.completions[t.k] = Append(@, [id |-> t.txn.id, result |-> v])]

\* A bug: the flag is cleared after the transactions have been tried.
TriggerRun_ClearsLast(S, late) ==
  LET Again(T, t) ==
        IF S.run_triggers \/ (late /\ t.txn.timeout = "some")
        THEN TriggerTry(T, t, late) ELSE [T EXCEPT !.triggers = Append(@, t)]
  IN [FoldLeft(Again, [S EXCEPT !.triggers = <<>>], S.triggers) EXCEPT
        !.run_triggers = FALSE]

\* 'late': the timeouts of the transactions that have one have run out.
trigger_run(S, late) ==
  LET Again(T, t) ==
        IF S.run_triggers \/ (late /\ t.txn.timeout = "some")
        THEN TriggerTry(T, t, late) ELSE [T EXCEPT !.triggers = Append(@, t)]
  IN FoldLeft(Again, [S EXCEPT !.triggers = <<>>, !.run_triggers = FALSE], S.triggers)

trigger_complete_done(S, k) ==
  LET Answer(T, d) == session_send(T, k, Reply(d.id, d.result))
  IN FoldLeft(Answer, [S EXCEPT !.completions[k] = <<>>], S.completions[k])

\* On a connection that is gone nobody is answered.
trigger_complete_all(S, k) ==
  [S EXCEPT !.triggers = SelectSeq(@, LAMBDA t : t.k # k), !.completions[k] = <<>>]

\* Completions have been sent before a session looks at its requests.
execute_cancel(S, k, id) ==
  LET Mine(t) == t.k = k /\ t.txn.id = id
  IN IF \A i \in DOMAIN S.triggers : ~Mine(S.triggers[i]) THEN S
     ELSE session_send([S EXCEPT !.triggers = SelectSeq(@, LAMBDA t : ~Mine(t))],
                       k, Reply(id, "canceled"))

----------------------------------------------------------------------------
(* Sessions.                                                               *)

session_create(S, k) == [S EXCEPT !.live = @ \cup {k}]

GotRequest(S, k, msg) ==
  CASE msg.m = "transact" -> trigger_create(S, k, msg)
    [] msg.m = "monitor" /\ k \in S.monitors -> session_send(S, k, [m |-> "error"])
    [] msg.m = "monitor" /\ k \notin S.monitors ->
         session_send(monitor_create(S, k), k, [m |-> "monitor", rows |-> S.db])
    [] msg.m \in {"lock", "steal"} -> session_lock(S, k, msg.m, msg.id)
    [] msg.m = "unlock" -> session_unlock(S, k)
    [] msg.m = "cancel" -> execute_cancel(S, k, msg.id)

\* A session whose connection is lost: ovsdb_jsonrpc_session_run sees another
\* sequence number, and since such a session does not reconnect it is closed.
session_close(S, k) ==
  LET quiet == monitor_remove_all(trigger_complete_all(S, k), k)
      freed == IF HasWaiter(S, k) THEN unlock__(quiet, k) ELSE quiet
  IN [freed EXCEPT !.live = @ \ {k}, !.out[k] = <<>>]
=============================================================================
