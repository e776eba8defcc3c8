------------------------------ MODULE OvsdbTxn ------------------------------
(***************************************************************************)
(* A transaction of ovsdb-server from ovsdb_txn_create to its commit or    *)
(* abort (ovsdb/transaction.c): strong references are counted, rows that   *)
(* nobody references any more are collected, weak references to rows that  *)
(* are gone are removed, and indexes are kept unique.                      *)
(*                                                                         *)
(* The server runs a transaction without interruption, but it visits the   *)
(* rows in the order of a hash table; for_each_txn_row tries every order.  *)
(***************************************************************************)
EXTENDS Integers, FiniteSets

CONSTANTS
  Rows,       \* the UUIDs of rows
  Table,      \* Table[r]: the table of row r
  Roots,      \* the tables with is_root
  MaxRows,    \* MaxRows[t]: the table's max_rows
  Type,       \* Type[c]: <<key, value>>, each "strong", "weak" or "plain"
  Least,      \* Least[t][c]: the column's n_min
  Index,      \* the columns of the index that every table has
  Contents(_),\* Contents(r): the values that clients give to row r
  Gone,       \* no row
  MaxOps      \* bound on the operations of a transaction

VARIABLES
  db,         \* the committed rows, their n_refs and the weak references
  txn,        \* the transaction, if any
  verdict     \* how the last one ended

vars == <<db, txn, verdict>>

Columns == DOMAIN Type

\* A datum is a set of <<key, value>> pairs, a row a datum for each column.
Atoms(f, kind) ==
  UNION {{<<c, p, i>> : p \in f[c], i \in {j \in {1, 2} : Type[c][j] = kind}} : c \in Columns}

Target(a) == a[2][a[3]]

\* The references that count: those of a row to itself do not.
StrongRefs(f, r) == {a \in Atoms(f, "strong") : Target(a) # r}

-----------------------------------------------------------------------------

NoTxn == [active |-> FALSE]

\* ovsdb_txn_create.  rows is what the tables hold meanwhile; in is txn_rows.
ovsdb_txn_create ==
  [active |-> TRUE, ops |-> 0, rows |-> db.rows, in |-> {}, n_refs |-> db.n_refs,
   links |-> {}, error |-> "none"]

Fail(T, e) == [T EXCEPT !.error = e]

\* ovsdb_txn_row_create, for a row that is not in the transaction yet.
Join(T, S) == [T EXCEPT !.in = @ \cup S]

ovsdb_txn_row_insert(T, r, f) == Join([T EXCEPT !.rows[r] = f], {r})

ovsdb_txn_row_modify(T, r, f) == Join([T EXCEPT !.rows[r] = f], {r})

\* A row that was inserted by the same transaction leaves no trace.
ovsdb_txn_row_delete(T, r) ==
  [T EXCEPT !.rows[r] = Gone, !.in = IF db.rows[r] = Gone THEN @ \ {r} ELSE @ \cup {r}]

-----------------------------------------------------------------------------

\* Can find_or_make_txn_row return a row of the transaction for this UUID?
Found(T, r) == r \in T.in \/ T.rows[r] # Gone

\* ovsdb_txn_adjust_row_refs, for all the columns of a row.
AdjustRefs(T, refs, delta) ==
  IF \A a \in refs : Found(T, Target(a))
  THEN [Join(T, {Target(a) : a \in refs})
          EXCEPT !.n_refs = [r \in Rows |-> @[r] + delta * Cardinality({a \in refs : Target(a) = r})]]
  ELSE Fail(T, IF delta < 0 THEN "bug" ELSE "referential integrity violation")

RefsOf(f, r) == IF f = Gone THEN {} ELSE StrongRefs(f, r)

update_row_ref_count(T, r) ==
  LET U == AdjustRefs(T, RefsOf(db.rows[r], r), -1)
  IN  IF U.error = "none" THEN AdjustRefs(U, RefsOf(T.rows[r], r), 1) ELSE U

check_ref_count(T, r) ==
  IF T.rows[r] = Gone /\ T.n_refs[r] # 0
  THEN Fail(T, "referential integrity violation") ELSE T

RECURSIVE delete_garbage_row(_, _), delete_row_refs(_, _)

delete_row_refs(T, refs) ==
  IF refs = {} \/ T.error # "none" THEN T
  ELSE LET a == CHOOSE x \in refs : TRUE
           t == Target(a)
           U == [Join(T, {t}) EXCEPT !.n_refs[t] = @ - 1]
       IN  IF ~Found(T, t) \/ T.n_refs[t] = 0 \/ T.rows[t] = Gone THEN Fail(T, "bug")
           ELSE delete_row_refs(IF U.n_refs[t] = 0 THEN delete_garbage_row(U, t) ELSE U,
                                refs \ {a})

delete_garbage_row(T, r) ==
  IF Table[r] \in Roots THEN T
  ELSE delete_row_refs([T EXCEPT !.rows[r] = Gone], StrongRefs(T.rows[r], r))

\* A plausible bug: the rows that the deleted row referenced are forgotten.
collect_garbage_Shallow(T, r) ==
  IF T.rows[r] # Gone /\ T.n_refs[r] = 0 /\ Table[r] \notin Roots
  THEN [T EXCEPT !.rows[r] = Gone] ELSE T

collect_garbage(T, r) ==
  IF T.rows[r] # Gone /\ T.n_refs[r] = 0 THEN delete_garbage_row(T, r) ELSE T

check_max_rows(T) ==
  IF \E t \in {Table[r] : r \in T.in} :
       Cardinality({r \in Rows : Table[r] = t /\ T.rows[r] # Gone}) > MaxRows[t]
  THEN Fail(T, "constraint violation") ELSE T

\* The pairs of a datum whose weak references, in position i, still resolve.
Resolved(T, c, datum, i) ==
  IF Type[c][i] = "weak" THEN {p \in datum : T.rows[p[i]] # Gone} ELSE datum

\* add_weak_ref, for every reference that is still there.
WeakTargets(c, datum, i, r) == IF Type[c][i] = "weak" THEN {p[i] : p \in datum} \ {r} ELSE {}

\* A plausible bug: rows that refer weakly to a changed row are not visited.
SourcesOf_None(T, r) == {}

\* The rows whose weak references must be assessed again.
SourcesOf(T, r) == IF db.rows[r] = Gone THEN {} ELSE {l[1] : l \in {k \in db.links : k[2] = r}}

assess_weak_refs(T, r) ==
  LET S == Join(T, SourcesOf(T, r))
      f == T.rows[r]
      keys(c) == Resolved(T, c, f[c], 1)
      both(c) == Resolved(T, c, keys(c), 2)
      dsts == UNION {WeakTargets(c, keys(c), 1, r) \cup WeakTargets(c, both(c), 2, r) : c \in Columns}
      U == [Join(S, dsts) EXCEPT !.rows[r] = [c \in Columns |-> both(c)],
                                 !.links = @ \cup {<<r, d>> : d \in dsts}]
  IN  CASE f = Gone -> S
        [] \E c \in Columns : both(c) # f[c] /\ Cardinality(both(c)) < Least[Table[r]][c] ->
             Fail(S, "constraint violation")
        [] OTHER -> U

IndexOf(f) == [c \in Index |-> f[c]]

Same(r, f, s, g) ==
  r # s /\ Table[r] = Table[s] /\ f # Gone /\ g # Gone /\ IndexOf(f) = IndexOf(g)

\* check_index_uniqueness, for all the rows: a row of the transaction against
\* the others, and against the committed rows that are not in it.
check_index_uniqueness(T) ==
  IF \E r \in T.in, s \in Rows :
       Same(r, T.rows[r], s, IF s \in T.in THEN T.rows[s] ELSE db.rows[s])
  THEN Fail(T, "constraint violation") ELSE T

-----------------------------------------------------------------------------

\* for_each_txn_row: the callback is called once for every row, those that it
\* adds included; the results of all the orders.
RECURSIVE for_each_txn_row(_, _, _)
for_each_txn_row(cb(_, _), T, done) ==
  IF T.error # "none" \/ T.in \subseteq done THEN {T}
  ELSE UNION {for_each_txn_row(cb, cb(T, r), done \cup {r}) : r \in T.in \ done}

Each(cb(_, _), Ts) == UNION {for_each_txn_row(cb, T, {}) : T \in Ts}

Check(check(_), Ts) == {IF T.error = "none" THEN check(T) ELSE T : T \in Ts}

\* determine_changes drops the rows that did not change.
determine_changes(T) == [T EXCEPT !.in = {r \in @ : T.rows[r] # db.rows[r]}]

\* The transaction as the replicas would see it, or its error.
Prepared(T) ==
  LET counted == Each(check_ref_count, Each(update_row_ref_count, {determine_changes(T)}))
      kept == Check(check_max_rows, Each(collect_garbage, counted))
  IN  Check(check_index_uniqueness, Each(assess_weak_refs, kept))

\* ovsdb_txn_row_commit for every row.  Destroying the old version of a row
\* destroys the weak references to it and from it.
Finalized(T) ==
  [rows |-> T.rows,
   n_refs |-> [r \in Rows |-> IF T.rows[r] = Gone THEN 0 ELSE T.n_refs[r]],
   links |-> T.links \cup {l \in db.links : l[1] \notin T.in /\ l[2] \notin T.in}]

-----------------------------------------------------------------------------

Init ==
  /\ db = [rows |-> [r \in Rows |-> Gone], n_refs |-> [r \in Rows |-> 0], links |-> {}]
  /\ txn = NoTxn
  /\ verdict = "none"

Begin ==
  /\ ~txn.active
  /\ txn' = ovsdb_txn_create
  /\ verdict' = "none"
  /\ UNCHANGED db

\* One operation of the request: insert, update or mutate, delete.
Operation ==
  /\ txn.active
  /\ txn.ops < MaxOps
  /\ \E r \in Rows : \E T \in
       IF txn.rows[r] = Gone
       THEN {ovsdb_txn_row_insert(txn, r, f) : f \in {g \in Contents(r) : db.rows[r] = Gone}}
       ELSE {ovsdb_txn_row_modify(txn, r, f) : f \in Contents(r)}
            \cup {ovsdb_txn_row_delete(txn, r)} :
         txn' = [T EXCEPT !.ops = @ + 1]
  /\ UNCHANGED <<db, verdict>>

\* ovsdb_txn_commit; only the first replica, the file, can fail.
Commit ==
  /\ txn.active
  /\ \E T \in Prepared(txn) :
       \/ T.error = "none" /\ db' = Finalized(T) /\ verdict' = "committed"
       \/ T.error # "none" /\ db' = db /\ verdict' = T.error
  /\ txn' = NoTxn

\* ovsdb_txn_abort: an operation or the write to the file has failed.
Abort ==
  /\ txn.active
  /\ txn' = NoTxn
  /\ verdict' = "aborted"
  /\ UNCHANGED db

Next == Begin \/ Operation \/ Commit \/ Abort

Spec == Init /\ [][Next]_vars

-----------------------------------------------------------------------------
(* What a commit promises, said of the whole database. *)

Live(rows) == {r \in Rows : rows[r] # Gone}

RefsTo(rows, r) ==
  UNION {{<<s, a>> : a \in {b \in StrongRefs(rows[s], s) : Target(b) = r}} : s \in Live(rows)}

RECURSIVE Collected(_)
Collected(rows) ==
  LET garbage == {r \in Live(rows) : Table[r] \notin Roots /\ RefsTo(rows, r) = {}}
  IN  IF garbage = {} THEN rows
      ELSE Collected([r \in Rows |-> IF r \in garbage THEN Gone ELSE rows[r]])

Weakened(rows) ==
  [r \in Rows |-> IF rows[r] = Gone THEN Gone
                  ELSE [c \in Columns |-> {p \in rows[r][c] :
                          \A i \in {1, 2} : Type[c][i] = "weak" => rows[p[i]] # Gone}]]

Legal(before, collected, after) ==
  /\ \A r \in Live(before) : \A a \in StrongRefs(before[r], r) : before[Target(a)] # Gone
  /\ \A t \in DOMAIN MaxRows : Cardinality({r \in Live(after) : Table[r] = t}) <= MaxRows[t]
  /\ \A r \in Live(after), c \in Columns :
       after[r][c] # collected[r][c] => Cardinality(after[r][c]) >= Least[Table[r]][c]
  /\ \A r, s \in Live(after) : ~Same(r, after[r], s, after[s])

\* ovsdb_txn_commit, which looks only at the rows that the transaction
\* touched, does what looking at the whole database would: it fails if a row
\* refers strongly to none, if a table is too full, an index not unique or a
\* column too empty; else every unreferenced row is gone, and every weak
\* reference to a row that is gone.  It never meets its own "can't happen".
CommitsAsPromised ==
  [][txn.active /\ ~txn'.active /\ verdict' # "aborted" =>
       LET collected == Collected(txn.rows)
           after == Weakened(collected)
       IN  /\ verdict' # "bug"
           /\ (verdict' = "committed") = Legal(txn.rows, collected, after)
           /\ db'.rows = IF verdict' = "committed" THEN after ELSE db.rows]_vars

\* Between transactions n_refs of every row is the number of strong
\* references from other rows (row.h), and the lists of weak references hold
\* exactly those that the columns hold.
CountsExact ==
  /\ \A r \in Live(db.rows) : db.n_refs[r] = Cardinality(RefsTo(db.rows, r))
  /\ db.links = {<<s, d>> \in Live(db.rows) \X Rows :
                   s # d /\ \E a \in Atoms(db.rows[s], "weak") : Target(a) = d}

=============================================================================
