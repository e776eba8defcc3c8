------------------------------ MODULE OvsdbIdl ------------------------------
(***************************************************************************)
(* A client of the database through the IDL (lib/ovsdb-idl.c): its replica *)
(* of the database, its lock and its one transaction at a time.  Each      *)
(* operator takes the client C and returns the one the function of that    *)
(* name leaves; 'send' is what it sends to the server meanwhile.           *)
(*                                                                         *)
(* The transaction is a verified increment of the counter: it reads the    *)
(* counter, verifies it (ovsdb_idl_txn_verify) and writes its successor.   *)
(***************************************************************************)
EXTENDS OvsdbServer

NewIdl ==
  [conn |-> 0,               \* connection of the session, 0 for none
   rows |-> [r \in Rows |-> None],
   connected |-> FALSE,      \* ovsdb_idl_has_ever_connected
   news |-> FALSE,           \* change_seqno is not what it was at the commit
   monitoring |-> FALSE,     \* monitor_request_id is set
   lock_name |-> FALSE, has_lock |-> FALSE,
   lock_id |-> 0,            \* last id of a "lock" request on this connection
   lock_request_id |-> 0,    \* the one whose reply is waited for, 0 for none
   status |-> "none",        \* of the transaction
   wrote |-> None,           \* the value it writes
   send |-> <<>>]

Statuses == {"none", "INCOMPLETE", "SUCCESS", "TRY_AGAIN", "NOT_LOCKED", "ERROR"}

SendOn(C, msg) == IF C.conn = 0 THEN C ELSE [C EXCEPT !.send = Append(@, msg)]

update_has_lock(C, new) ==
  [C EXCEPT !.has_lock = new,
            !.news = @ \/ (new /\ ~C.has_lock /\ ~C.monitoring)]

\* A bug: the reply to the "lock" that is taken back is still waited for.
Unlock_StillWaiting(C) == SendOn(update_has_lock(C, FALSE), [m |-> "unlock"])

\* "unlock": the reply to an earlier "lock" is not waited for any more.
send_unlock_request(C) ==
  [SendOn(update_has_lock(C, FALSE), [m |-> "unlock"]) EXCEPT !.lock_request_id = 0]

send_lock_request(C) ==
  LET id == C.lock_id + 1
      d  == [update_has_lock(C, FALSE) EXCEPT !.lock_request_id = 0]
  IN IF C.conn = 0 THEN d
     ELSE [SendOn(d, [m |-> "lock", id |-> id]) EXCEPT
             !.lock_id = id, !.lock_request_id = id]

send_monitor_request(C) ==
  [SendOn(C, [m |-> "monitor"]) EXCEPT !.monitoring = TRUE]

txn_abort_all(C) ==
  IF C.status = "INCOMPLETE" THEN [C EXCEPT !.status = "TRY_AGAIN"] ELSE C

\* A bug: transactions sent on the last connection are left as they are.
Greet_KeepsTxns(C) ==
  LET m == [send_monitor_request(C) EXCEPT !.lock_id = 0]
  IN IF C.lock_name THEN send_lock_request(m) ELSE m

\* ovsdb_idl_run on a connection it has not seen before.
Greet(C) ==
  LET m == [send_monitor_request(txn_abort_all(C)) EXCEPT !.lock_id = 0]
  IN IF C.lock_name THEN send_lock_request(m) ELSE m

\* ovsdb_idl_parse_update__: each row is inserted, modified or deleted.
parse_update(C, rows) ==
  [C EXCEPT !.rows = [r \in Rows |-> IF r \in DOMAIN rows THEN rows[r] ELSE @[r]],
            !.news = @ \/ DOMAIN rows # {}]

\* The replica is cleared and loaded again.
MonitorReply(C, rows) ==
  [parse_update([C EXCEPT !.rows = [r \in Rows |-> None]], rows) EXCEPT
     !.monitoring = FALSE, !.connected = TRUE, !.news = TRUE]

LockReply(C, locked) == update_has_lock([C EXCEPT !.lock_request_id = 0], locked)

parse_lock_notify(C, new) ==
  IF C.lock_name THEN update_has_lock(C, new) ELSE C

\* ovsdb_idl_txn_process_reply.
TxnReply(C, result) ==
  [C EXCEPT !.status = CASE result = "ok" -> "SUCCESS"
                         [] result = "timed out" -> "TRY_AGAIN"
                         [] result = "not owner" -> "NOT_LOCKED"
                         [] OTHER -> "ERROR"]

\* One message of ovsdb_idl_run.  Anything not waited for is ignored.
GotMessage(C, msg) ==
  CASE msg.m = "update" -> parse_update(C, msg.rows)
    [] msg.m = "monitor" -> IF C.monitoring THEN MonitorReply(C, msg.rows) ELSE C
    [] msg.m = "lock" -> IF C.lock_request_id = msg.id THEN LockReply(C, msg.locked) ELSE C
    [] msg.m = "locked" -> parse_lock_notify(C, TRUE)
    [] msg.m = "stolen" -> parse_lock_notify(C, FALSE)
    [] msg.m = "reply" -> IF C.status = "INCOMPLETE" THEN TxnReply(C, msg.result) ELSE C

\* ovsdb_idl_txn_commit: without the lock that it needs, or without a
\* connection, the transaction fails here.
txn_commit_idl(C) ==
  LET old == C.rows["counter"]
      t == [C EXCEPT !.news = FALSE, !.wrote = old + 1]
  IN CASE C.lock_name /\ ~C.has_lock -> [t EXCEPT !.status = "NOT_LOCKED"]
       [] ~(C.lock_name /\ ~C.has_lock) /\ C.conn = 0 ->
            [t EXCEPT !.status = "TRY_AGAIN"]
       [] OTHER ->
            [SendOn(t, Txn("idl", C.lock_name, old, "zero", "update", "counter",
                          old + 1))
               EXCEPT !.status = "INCOMPLETE"]

\* ovsdb_idl_set_lock, which asserts that no transaction is outstanding.
set_lock(C, lock) ==
  CASE C.lock_name /\ ~lock ->
         [send_unlock_request(C) EXCEPT !.lock_name = FALSE]
    [] ~C.lock_name /\ lock ->
         send_lock_request([C EXCEPT !.lock_name = TRUE])
    [] OTHER -> C
=============================================================================
