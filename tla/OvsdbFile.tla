----------------------------- MODULE OvsdbFile -----------------------------
(***************************************************************************)
(* The database file of ovsdb-server and ovsdb-tool: the log of records    *)
(* (ovsdb/log.c), the replica that writes one record per transaction and   *)
(* compacts the log online (ovsdb/file.c), and the lock files that keep    *)
(* other writers away (lib/lockfile.c).                                    *)
(*                                                                         *)
(* A record is its header line and its body together, so offsets count     *)
(* records.  A record whose length, checksum or JSON is wrong is Bad.  A   *)
(* transaction inserts or deletes one row; rows with the same Key collide  *)
(* in a unique index of their table.                                       *)
(*                                                                         *)
(* The file system is external: what is written stays in memory until      *)
(* fsync, a rename until fsync_parent_dir.  A power failure may lose       *)
(* either.  Of the records past the last fsync any may come out damaged    *)
(* and any tail may be missing; a truncation may be undone as a whole.     *)
(***************************************************************************)
EXTENDS Integers, FiniteSets, SequencesExt

CONSTANTS
  Procs,      \* processes that open the database for writing
  Rows,       \* rows, named by their UUIDs
  Key(_),     \* the indexed value of a row
  Inodes,     \* files that exist at the same time
  None,
  MaxRecords  \* bound on the records of a log, damaged ones included

ASSUME OvsdbFileAssumption ==
  /\ None \notin Procs \cup Inodes
  /\ MaxRecords \in Nat /\ MaxRecords >= 2

VARIABLES
  data,      \* [Inodes -> records], what a read of the file returns
  synced,    \* [Inodes -> records], what the disk holds for certain
  dir,       \* the file that the database's name refers to
  syncedDir, \* the file it refers to on disk
  locks,     \* holders of the lock files of the database and of its .tmp
  phase,     \* [Procs -> where the process is in ovsdb_file_*]
  log,       \* [Procs -> struct ovsdb_log, with its file and the position in it]
  db,        \* [Procs -> set of Rows], the tables in memory
  txn,       \* [Procs -> set of Rows], the tables once the transaction commits
  tmp,       \* [Procs -> Inodes or None], the copy that ovsdb_file_compact made
  used,      \* rows whose insertion was attempted: UUIDs are not reused
  versions,  \* history: contents a recovery may find, oldest first; <<>> if excused
  excused    \* history: the log and the promises to clients disagree

vars == <<data, synced, dir, syncedDir, locks, phase, log, db, txn, tmp, used,
          versions, excused>>

disk == <<data, synced, dir, syncedDir>>

Record == [op : {"schema", "insert", "delete", "bad"}, rows : SUBSET Rows]
Schema == [op |-> "schema", rows |-> {}]
Bad    == [op |-> "bad", rows |-> {}]
Insert(S) == [op |-> "insert", rows |-> S]
Delete(S) == [op |-> "delete", rows |-> S]

Phases == {"closed", "idle", "sync", "copy", "rename", "renamed"}

Log == [ino : Inodes \cup {None}, offset : 0..MaxRecords,
        pos : 0..MaxRecords, locked : BOOLEAN,
        mode : {"read", "write"}, write_error : BOOLEAN]

\* The log of a process that has none.
Closed == [ino |-> None, offset |-> 0, pos |-> 0,
           locked |-> FALSE, mode |-> "read", write_error |-> FALSE]

----------------------------------------------------------------------------
(* Reading a log.                                                          *)

UniqueKeys(S) == \A r, q \in S : Key(r) = Key(q) => r = q

\* A record that ovsdb_file_txn_from_json and ovsdb_txn_commit accept when the
\* tables hold the rows S.  The schema makes empty tables.
Valid(S, rec) ==
  \/ rec.op = "schema"
  \/ rec.op = "insert" /\ UniqueKeys(S \cup rec.rows)
  \/ rec.op = "delete" /\ rec.rows \subseteq S

Apply(S, rec) == IF rec.op = "insert" THEN S \cup rec.rows ELSE S \ rec.rows

\* The loop of ovsdb_file_open__: it stops at the first record that cannot be
\* read or applied, and leaves the log's offset in front of it.
Replay(d) ==
  LET f[i \in 0..Len(d)] ==
        IF i = 0 THEN [rows |-> {}, end |-> 0]
        ELSE IF f[i-1].end = i - 1 /\ Valid(f[i-1].rows, d[i])
             THEN [rows |-> Apply(f[i-1].rows, d[i]), end |-> i]
             ELSE f[i-1]
  IN f[Len(d)]

\* The first record is the schema; without it the database cannot be opened.
CanOpen(d) == d # <<>> /\ d[1] = Schema

----------------------------------------------------------------------------
(* Writing a log.                                                          *)

\* A record written at offset n.  Another process may have made the file
\* shorter or longer than this process knows.
WriteAt(d, n, rec) ==
  [i \in 1..(IF Len(d) > n THEN Len(d) ELSE n + 1) |->
     IF i = n + 1 THEN rec ELSE IF i <= n /\ i <= Len(d) THEN d[i] ELSE Bad]

Truncate(d, n) == IF Len(d) > n THEN SubSeq(d, 1, n) ELSE d

NeedsTruncate(l) == l.mode = "read" \/ l.write_error

\* How ovsdb_log_write can end: the seek or the truncation in front of it
\* fails; the write fails and the partial record is removed, or stays; or it
\* succeeds.
WriteResults(l) ==
  {"removed", "torn", "ok"} \cup (IF NeedsTruncate(l) THEN {"refused"} ELSE {})

\* Where the stream is when the record is written.
Position(l) == IF NeedsTruncate(l) THEN l.offset ELSE l.pos

\* What a file holds after ovsdb_log_write of rec.
Written(d, l, rec, result) ==
  LET base == IF NeedsTruncate(l) THEN Truncate(d, l.offset) ELSE d
  IN CASE result = "ok"      -> WriteAt(base, Position(l), rec)
       [] result = "torn"    -> WriteAt(base, Position(l), Bad)
       [] result = "removed" -> Truncate(base, l.offset)
       [] result = "refused" -> d

\* A failed write is forgotten.
AfterWriteForgets(l, result) ==
  [l EXCEPT !.mode = "write", !.write_error = FALSE,
            !.pos = IF result = "refused" THEN @ ELSE Position(l) + 1,
            !.offset = IF result = "ok" THEN @ + 1 ELSE @]

\* struct ovsdb_log after ovsdb_log_write.  A write that fails leaves the stream
\* somewhere past the offset.
AfterWrite(l, result) ==
  [l EXCEPT !.mode = "write", !.write_error = (result # "ok"),
            !.pos = IF result = "refused" THEN @ ELSE Position(l) + 1,
            !.offset = IF result = "ok" THEN @ + 1 ELSE @]

----------------------------------------------------------------------------
(* A process.                                                              *)

Unlock(p, names) == [n \in DOMAIN locks |->
                       IF n \in names /\ locks[n] = p THEN None ELSE locks[n]]

GoTo(p, to) == phase' = [phase EXCEPT ![p] = to]

\* Files with one of the names, or open in one of the processes.
InUse(names, procs) ==
  names \cup {log[q].ino : q \in {o \in procs : phase[o] # "closed"}}
        \cup {tmp[q] : q \in {o \in procs : phase[o] \in {"rename", "renamed"}}}

\* A file without a name that nobody has open is gone.
Keep(inodes) ==
  /\ data' = [i \in Inodes |-> IF i \in inodes THEN data[i] ELSE <<>>]
  /\ synced' = [i \in Inodes |-> IF i \in inodes THEN synced[i] ELSE <<>>]

\* ovsdb_file_open(), read-write: takes the lock file, replays the log.  If
\* the lock is taken or there is no schema, it fails and changes nothing.
ovsdb_file_open(p) ==
  /\ phase[p] = "closed"
  /\ locks.db = None
  /\ CanOpen(data[dir])
  /\ LET r == Replay(data[dir]) IN
       /\ log' = [log EXCEPT ![p] = [ino |-> dir, offset |-> r.end,
                                     pos |-> r.end, locked |-> TRUE,
                                     mode |-> "read", write_error |-> FALSE]]
       /\ db' = [db EXCEPT ![p] = r.rows]
  /\ locks' = [locks EXCEPT !.db = p]
  /\ GoTo(p, "idle")
  /\ excused' = (excused \/ dir # syncedDir)
  /\ versions' = IF excused' THEN <<>> ELSE versions
  /\ UNCHANGED <<disk, txn, tmp, used>>

\* The records a transaction can write: rows inserted have new UUIDs.
Changes(p) == {Insert({r}) : r \in Rows \ used} \cup {Delete({r}) : r \in db[p]}

\* ovsdb_txn_commit() up to the end of ovsdb_log_write().  A failed write
\* aborts the transaction.  Without "durable" a write that succeeds commits it.
ovsdb_txn_commit(p) ==
  /\ phase[p] = "idle"
  /\ Position(log[p]) < MaxRecords
  /\ \E rec \in Changes(p), durable \in BOOLEAN, result \in WriteResults(log[p]) :
       LET new == Apply(db[p], rec) IN
       /\ Valid(db[p], rec)
       /\ data' = [data EXCEPT ![log[p].ino] = Written(@, log[p], rec, result)]
       /\ log' = [log EXCEPT ![p] = AfterWrite(@, result)]
       /\ used' = IF rec.op = "insert" THEN used \cup rec.rows ELSE used
       /\ IF result # "ok" THEN UNCHANGED <<phase, db, txn, versions>>
          ELSE /\ versions' = IF excused THEN <<>> ELSE Append(versions, new)
               /\ IF durable
                  THEN GoTo(p, "sync") /\ txn' = [txn EXCEPT ![p] = new]
                                       /\ UNCHANGED db
                  ELSE db' = [db EXCEPT ![p] = new] /\ UNCHANGED <<phase, txn>>
  /\ UNCHANGED <<synced, dir, syncedDir, locks, tmp, excused>>

Sync(ino) == synced' = [synced EXCEPT ![ino] = data[ino]]

\* The fsync of a durable transaction.  If it fails, the transaction is aborted
\* but its record stays in the log.
ovsdb_log_commit(p) ==
  /\ phase[p] = "sync"
  /\ GoTo(p, "idle")
  /\ \E ok \in BOOLEAN :
       IF ok
       THEN /\ Sync(log[p].ino)
            /\ db' = [db EXCEPT ![p] = txn[p]]
            /\ versions' = IF excused THEN <<>> ELSE <<txn[p]>>
            /\ UNCHANGED excused
       ELSE /\ excused' = TRUE
            /\ versions' = <<>>
            /\ UNCHANGED <<synced, db>>
  /\ txn' = [txn EXCEPT ![p] = {}]
  /\ UNCHANGED <<data, dir, syncedDir, locks, log, tmp, used>>

\* ovsdb_file_destroy() and ovsdb_log_close().
ovsdb_file_destroy(p) ==
  /\ phase[p] = "idle"
  /\ GoTo(p, "closed")
  /\ locks' = IF log[p].locked THEN Unlock(p, {"db"}) ELSE locks
  /\ log' = [log EXCEPT ![p] = Closed]
  /\ db' = [db EXCEPT ![p] = {}]
  /\ UNCHANGED <<disk, txn, tmp, used, versions, excused>>

----------------------------------------------------------------------------
(* ovsdb_file_compact(), on request or at the end of a commit.  The limits *)
(* on age, size and transactions decide when: it may happen at any time.   *)

\* Fsync the old log and take the lock of the temporary file.  If the fsync
\* fails, nothing changes.
compact_commit(p) ==
  /\ phase[p] = "idle"
  /\ Sync(log[p].ino)
  /\ versions' = IF excused THEN <<>> ELSE <<db[p]>>
  /\ IF locks.tmp = None
     THEN locks' = [locks EXCEPT !.tmp = p] /\ GoTo(p, "copy")
     ELSE UNCHANGED <<locks, phase>>
  /\ UNCHANGED <<data, dir, syncedDir, log, db, txn, tmp, used, excused>>

\* The copy is written and not yet on disk when it takes the database's place.
compact_copy_unsynced(p) ==
  /\ phase[p] = "copy"
  /\ GoTo(p, "rename")
  /\ \E ino \in Inodes \ InUse({dir, syncedDir}, Procs) :
       /\ tmp' = [tmp EXCEPT ![p] = ino]
       /\ data' = [data EXCEPT ![ino] = <<Schema, Insert(db[p])>>]
       /\ synced' = [synced EXCEPT ![ino] = <<>>]
  /\ UNCHANGED <<dir, syncedDir, locks, log, db, txn, used, versions, excused>>

\* Removes an old temporary file and saves a copy, which is on disk in the end.
\* Nobody opens the temporary name, so the writes are one step.
compact_copy(p) ==
  /\ phase[p] = "copy"
  /\ GoTo(p, "rename")
  /\ \E ino \in Inodes \ InUse({dir, syncedDir}, Procs) :
       /\ tmp' = [tmp EXCEPT ![p] = ino]
       /\ data' = [data EXCEPT ![ino] = <<Schema, Insert(db[p])>>]
       /\ synced' = [synced EXCEPT ![ino] = <<Schema, Insert(db[p])>>]
  /\ UNCHANGED <<dir, syncedDir, locks, log, db, txn, used, versions, excused>>

\* Any step of the copy, or the rename, fails: the old log stays in use.
compact_fail(p) ==
  /\ phase[p] \in {"copy", "rename"}
  /\ GoTo(p, "idle")
  /\ locks' = Unlock(p, {"tmp"})
  /\ tmp' = [tmp EXCEPT ![p] = None]
  /\ Keep(InUse({dir, syncedDir, log[p].ino}, Procs \ {p}))
  /\ UNCHANGED <<dir, syncedDir, log, db, txn, used, versions, excused>>

\* rename() of the copy over the database.
compact_rename(p) ==
  /\ phase[p] = "rename"
  /\ GoTo(p, "renamed")
  /\ dir' = tmp[p]
  /\ UNCHANGED <<data, synced, syncedDir, locks, log, db, txn, tmp, used,
                 versions, excused>>

\* fsync_parent_dir(), then the old log is closed, which gives up its lock
\* file, and the new one, opened with "locking" false, takes its place.
compact_finish(p) ==
  /\ phase[p] = "renamed"
  /\ GoTo(p, "idle")
  /\ syncedDir' = dir
  /\ locks' = Unlock(p, IF log[p].locked THEN {"db", "tmp"} ELSE {"tmp"})
  /\ log' = [log EXCEPT ![p] = [ino |-> tmp[p], offset |-> 2, pos |-> 2,
                                locked |-> FALSE, mode |-> "write",
                                write_error |-> FALSE]]
  /\ versions' = <<db[p]>>
  /\ excused' = FALSE
  /\ tmp' = [tmp EXCEPT ![p] = None]
  /\ Keep(InUse({dir}, Procs \ {p}))
  /\ UNCHANGED <<dir, db, txn, used>>

----------------------------------------------------------------------------
(* Failures.                                                               *)

\* The process is killed, or exits: the kernel keeps what it wrote and drops
\* its locks.
Kill(p) ==
  /\ phase[p] # "closed"
  /\ GoTo(p, "closed")
  /\ locks' = Unlock(p, {"db", "tmp"})
  /\ log' = [log EXCEPT ![p] = Closed]
  /\ db' = [db EXCEPT ![p] = {}]
  /\ txn' = [txn EXCEPT ![p] = {}]
  /\ tmp' = [tmp EXCEPT ![p] = None]
  /\ Keep(InUse({dir, syncedDir}, Procs \ {p}))
  /\ UNCHANGED <<dir, syncedDir, used, versions, excused>>

CommonLength(s, d) == Cardinality({i \in 1..Len(d) : IsPrefix(SubSeq(d, 1, i), s)})

\* What a power failure can make of a file.
Survivors(s, d) ==
  LET n == CommonLength(s, d)
      Damaged(k, B) == [i \in 1..k |-> IF i \in B THEN Bad ELSE d[i]]
  IN {s} \cup UNION {{Damaged(k, B) : B \in SUBSET ((n+1)..k)} : k \in n..Len(d)}

PowerFailure ==
  /\ \E ino \in {dir, syncedDir} : \E d \in Survivors(synced[ino], data[ino]) :
       /\ dir' = ino
       /\ syncedDir' = ino
       /\ data' = [i \in Inodes |-> IF i = ino THEN d ELSE <<>>]
       /\ synced' = data'
       /\ versions' = <<Replay(d).rows>>
  /\ locks' = [n \in DOMAIN locks |-> None]
  /\ phase' = [p \in Procs |-> "closed"]
  /\ log' = [p \in Procs |-> Closed]
  /\ db' = [p \in Procs |-> {}]
  /\ txn' = [p \in Procs |-> {}]
  /\ tmp' = [p \in Procs |-> None]
  /\ excused' = FALSE
  /\ UNCHANGED used

----------------------------------------------------------------------------

\* A database that ovsdb-tool create has just made and committed.
Init ==
  /\ dir \in Inodes
  /\ syncedDir = dir
  /\ data = [i \in Inodes |-> IF i = dir THEN <<Schema>> ELSE <<>>]
  /\ synced = data
  /\ locks = [db |-> None, tmp |-> None]
  /\ phase = [p \in Procs |-> "closed"]
  /\ log = [p \in Procs |-> Closed]
  /\ db = [p \in Procs |-> {}]
  /\ txn = [p \in Procs |-> {}]
  /\ tmp = [p \in Procs |-> None]
  /\ used = {}
  /\ versions = <<{}>>
  /\ excused = FALSE

Next ==
  \/ \E p \in Procs :
       \/ ovsdb_file_open(p)
       \/ ovsdb_txn_commit(p)
       \/ ovsdb_log_commit(p)
       \/ ovsdb_file_destroy(p)
       \/ compact_commit(p)
       \/ compact_copy(p)
       \/ compact_fail(p)
       \/ compact_rename(p)
       \/ compact_finish(p)
       \/ Kill(p)
  \/ PowerFailure

Spec == Init /\ [][Next]_vars

----------------------------------------------------------------------------
(* Properties.                                                             *)

\* Every variable has its type: the offset of struct ovsdb_log never runs past
\* the bound, and a process's phase is a point of ovsdb_file_*.
TypeOK ==
  /\ data \in [Inodes -> Seq(Record)]
  /\ synced \in [Inodes -> Seq(Record)]
  /\ dir \in Inodes
  /\ syncedDir \in Inodes
  /\ locks \in [{"db", "tmp"} -> Procs \cup {None}]
  /\ phase \in [Procs -> Phases]
  /\ log \in [Procs -> Log]
  /\ db \in [Procs -> SUBSET Rows]
  /\ txn \in [Procs -> SUBSET Rows]
  /\ tmp \in [Procs -> Inodes \cup {None}]
  /\ used \subseteq Rows
  /\ versions \in Seq(SUBSET Rows)
  /\ excused \in BOOLEAN

\* Whenever the power fails, the replay of ovsdb_file_open__ finds the contents
\* after some transaction, and no transaction before the last one whose
\* durable commit (ovsdb_log_commit) was reported is missing: in the middle of
\* a write, after failed writes, and at every point of ovsdb_file_compact.
\* Excused are the two cases the code leaves open: a record whose fsync failed
\* (ovsdb_file_txn_commit aborts its transaction but leaves it in the log), and
\* a process killed between the rename and fsync_parent_dir.
SurvivesPowerFailure ==
  ~excused =>
    \A ino \in {dir, syncedDir} : \A d \in Survivors(synced[ino], data[ino]) :
      CanOpen(d) /\ Replay(d).rows \in Range(versions)

\* The log always holds what the process committed: were ovsdb-server killed
\* now, ovsdb_file_open would bring back the contents after the last
\* transaction, and the next ovsdb_log_write goes right behind its record.
LogIsMemory ==
  \A p \in Procs :
    phase[p] # "closed" /\ ~excused =>
      /\ Last(versions) = IF phase[p] = "sync" THEN txn[p] ELSE db[p]
      /\ Replay(data[dir]).rows = Last(versions)
      /\ Replay(data[log[p].ino]) = [rows |-> Last(versions), end |-> log[p].offset]

\* At most one process has the database open for writing: that is what the
\* lock file taken by ovsdb_log_open is for.
OneWriter == \A p, q \in Procs : phase[p] # "closed" /\ phase[q] # "closed" => p = q

============================================================================
