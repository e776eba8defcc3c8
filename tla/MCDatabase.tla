---------------------------- MODULE MCDatabase -----------------------------
(***************************************************************************)
(* The database for TLC: its file (MCOvsdbFile) and the transactions on    *)
(* its tables (OvsdbTxn).  The file's transactions are one row each and    *)
(* those of OvsdbTxn write no file, so a behaviour is one of either: part  *)
(* says which.                                                             *)
(*                                                                         *)
(* The tables are a root table with one row, which must refer weakly to a  *)
(* port, and a table of ports that holds two of the three.                 *)
(***************************************************************************)
EXTENDS MCOvsdbFile

CONSTANTS Uuids, Table, Roots, MaxRows, Type, Least, Index, Contents(_), Gone, MaxOps

VARIABLES part, tables, transaction, verdict

Txn == INSTANCE OvsdbTxn WITH Rows <- Uuids, db <- tables, txn <- transaction

txnVars == <<tables, transaction, verdict>>

MCTable == <<"root", "port", "port", "port">>

MCMaxRows == [root |-> 1, port |-> 2]

MCType ==
  [s |-> <<"strong", "plain">>, w |-> <<"weak", "plain">>, k |-> <<"plain", "plain">>]

MCLeast == [root |-> [s |-> 0, w |-> 1, k |-> 1], port |-> [s |-> 0, w |-> 0, k |-> 1]]

Row(S, W, k) ==
  [s |-> S \X {0}, w |-> W \X {0}, k |-> {<<k, 0>>}]

MCContents(r) ==
  CASE r = 1 -> {Row(S, W, 0) : S \in {{}, {2}, {2, 3}, {2, 4}}, W \in {{2}, {3}}}
    [] r = 2 -> {Row(S, W, 2) : S \in {{}, {2}, {3}}, W \in {{}, {3}}}
    [] r = 3 -> {Row(S, W, k) : S \in {{}, {2}}, W \in {{}, {2}}, k \in {3, 4}}
    [] r = 4 -> {Row({2}, {1}, 4)}

-----------------------------------------------------------------------------

DatabaseInit == part \in {"file", "tables"} /\ Init /\ Txn!Init

InFile == part = "file" /\ UNCHANGED <<part, txnVars>>

InTables == part = "tables" /\ UNCHANGED <<part, vars>>

DatabaseNext == (InFile /\ Next) \/ (InTables /\ Txn!Next)

DatabaseSpec == DatabaseInit /\ [][DatabaseNext]_<<part, vars, txnVars>>

-----------------------------------------------------------------------------

\* What OvsdbTxn says of ovsdb_txn_commit.
CommitsAsPromised == Txn!CommitsAsPromised

\* What OvsdbTxn says of reference counts and lists of weak references.
CountsExact == part = "tables" => Txn!CountsExact
=============================================================================
