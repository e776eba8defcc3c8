--------------------------- MODULE MCOvsdbSystem ---------------------------
(***************************************************************************)
(* OvsdbSystem for TLC: one client with the IDL, which connects up to two  *)
(* times, and clients without it, whose requests a scenario lists.         *)
(***************************************************************************)
EXTENDS OvsdbSystem

Steal  == [m |-> "steal", id |-> 1]
Unlock == [m |-> "unlock"]
Cancel == [m |-> "cancel", id |-> "raw"]
Insert == Txn("raw", FALSE, None, "zero", "insert", "extra", 0)
Mutate == Txn("raw", FALSE, None, "zero", "mutate", "counter", 1)

\* They wait, for some time, for the counter to have a value, and then delete
\* the row or increment the counter.
Await(n)  == Txn("raw", FALSE, n, "some", "delete", "extra", None)
Follow(n) == Txn("raw", FALSE, n, "some", "mutate", "counter", 1)

By(k, msg) == [k |-> k, msg |-> msg]

\* The lock is stolen, stolen again and given back; a client that holds it has
\* competition; transactions wait, time out, are answered and canceled while
\* rows come and go.
MCScenarios ==
  {[requests |-> <<By(3, Steal), By(3, Unlock)>>, locks |-> 2],
   [requests |-> <<By(3, Steal), By(4, Steal), By(3, Unlock), By(4, Unlock)>>,
    locks |-> 1],
   [requests |-> <<By(3, Mutate)>>, locks |-> 1],
   [requests |-> <<By(3, Insert), By(4, Await(1)), By(3, Mutate)>>, locks |-> 0],
   [requests |-> <<By(4, Await(2)), By(3, Follow(1))>>, locks |-> 0],
   [requests |-> <<By(4, Await(1)), By(4, Await(1)), By(4, Cancel)>>, locks |-> 0]}
=============================================================================
