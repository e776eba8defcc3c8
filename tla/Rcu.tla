-------------------------------- MODULE Rcu --------------------------------
(***************************************************************************)
(* Read-copy-update (lib/ovs-rcu.c), with threads that use it: they read   *)
(* one protected pointer, replace the version it points to, and retire the *)
(* old one with ovsrcu_postpone() or ovsrcu_synchronize().                 *)
(*                                                                         *)
(* A step is one access to shared memory or one critical section: a read   *)
(* of global_seqno, a store to perthread->seqno, an insertion into or a    *)
(* removal from ovsrcu_threads, a push on flushed_cbsets, a seq_change.    *)
(* Only quiesce() is two accesses, a read of global_seqno and the store of *)
(* what was read: the thread holds no pointer in between, and until the    *)
(* store a scan finds it stalled and changes nothing.                      *)
(* The process is multithreaded (single_threaded() is false) and the       *)
(* "urcu" thread runs.  Values of global_seqno are only compared, so they  *)
(* are counted one by one; of flushed_cbsets_seq only "changed since read" *)
(* matters, which is what NoLostWakeup of Seq guarantees.                  *)
(***************************************************************************)
EXTENDS Integers, FiniteSets

CONSTANTS
  Threads,    \* threads made by ovs_thread_create
  Writers,    \* those that replace the protected version
  Tasks,      \* threads made by srv_task_create, with plain pthread_create
  Objects,    \* addresses at which a version of the data can be allocated
  Urcu,       \* the thread of ovsrcu_postpone_thread
  Null,
  CbsetSize,  \* ARRAY_SIZE(cbset->cbs)
  MaxSeqno,   \* bound on global_seqno
  Usages      \* the ways in which writers retire the old version

ASSUME RcuAssumption ==
  /\ Writers \subseteq Threads
  /\ Urcu \notin Threads \cup Tasks
  /\ Threads \cap Tasks = {}
  /\ Null \notin Objects
  /\ CbsetSize \in Nat \ {0}
  /\ MaxSeqno \in Nat \ {0}
  /\ Usages \subseteq {"set_postpone", "postpone_set", "set_synchronize_free"}

VARIABLES
  global,   \* global_seqno
  listed,   \* the threads in ovsrcu_threads
  seqno,    \* seqno[t]: perthread->seqno
  cbset,    \* cbset[t]: the objects whose callbacks are in perthread->cbset
  flushed,  \* the objects in flushed_cbsets
  fnew,     \* flushed_cbsets_seq changed since urcu last read it
  batch,    \* the objects urcu took from flushed_cbsets
  target,   \* target[t]: target_seqno of ovsrcu_synchronize
  pc,       \* pc[t]: the next step of t inside ovs-rcu.c, "run" outside
  op,       \* op[t]: what that step is part of
  current,  \* the version the protected pointer points to
  old,      \* old[t]: the version t is replacing
  ref,      \* ref[t]: the version t reads
  avail     \* memory that is not allocated

vars == <<global, listed, seqno, cbset, flushed, fnew, batch, target, pc, op,
          current, old, ref, avail>>

clientVars == <<current, old, ref, avail>>
cbVars == <<cbset, flushed, fnew, batch>>

OvsThreads == Threads \cup {Urcu}

-----------------------------------------------------------------------------

\* The threads are created: ovsthread_wrapper has called ovsrcu_quiesce_end.
Init ==
  /\ global = 1
  /\ listed = OvsThreads
  /\ seqno = [t \in OvsThreads |-> 1]
  /\ cbset = [t \in OvsThreads |-> {}]
  /\ flushed = {}
  /\ fnew = FALSE
  /\ batch = {}
  /\ target = [t \in OvsThreads |-> 0]
  /\ pc = [t \in OvsThreads |-> "run"]
  /\ op = [t \in OvsThreads |-> "none"]
  /\ current \in Objects
  /\ old = [t \in Threads |-> Null]
  /\ ref = [t \in Threads \cup Tasks |-> Null]
  /\ avail = Objects \ {current}

Goto(t, p, o) ==
  /\ pc' = [pc EXCEPT ![t] = p]
  /\ op' = [op EXCEPT ![t] = o]

\* seq_change(global_seqno).
ChangeGlobal == global < MaxSeqno /\ global' = global + 1

\* A thread at a point where it may call into ovs-rcu.c.
Runs(t) == pc[t] = "run" /\ op[t] = "none"

\* Where a thread that ends its grace-period critical region goes first.
FlushFirst(t, p) == IF cbset[t] = {} THEN p ELSE "flush"

-----------------------------------------------------------------------------
(***************************************************************************)
(* ovsrcu_flush_cbset, called by quiesce, unregister__ and postpone__.     *)
(***************************************************************************)

\* Mutant of FlushPush: perthread->cbset is not reset.
FlushPushAgain(t) ==
  /\ pc[t] = "flush"
  /\ flushed' = flushed \cup cbset[t]
  /\ Goto(t, "note", op[t])
  /\ UNCHANGED <<global, listed, seqno, cbset, fnew, batch, target, clientVars>>

\* The cbset joins flushed_cbsets ...
FlushPush(t) ==
  /\ pc[t] = "flush"
  /\ flushed' = flushed \cup cbset[t]
  /\ cbset' = [cbset EXCEPT ![t] = {}]
  /\ Goto(t, "note", op[t])
  /\ UNCHANGED <<global, listed, seqno, fnew, batch, target, clientVars>>

\* Where the caller of ovsrcu_flush_cbset goes on.
AfterFlush(t) ==
  \/ op[t] = "postpone" /\ Goto(t, "run", "none")
  \/ op[t] = "quiesce" /\ Goto(t, "change", op[t])
  \/ op[t] \in {"leave", "sync"} /\ Goto(t, "remove", op[t])

\* Mutant of FlushNote: the seq is not changed.
FlushNoteSilent(t) ==
  /\ pc[t] = "note"
  /\ AfterFlush(t)
  /\ UNCHANGED <<global, listed, seqno, target, cbVars, clientVars>>

\* ... and then flushed_cbsets_seq changes.
FlushNote(t) ==
  /\ pc[t] = "note"
  /\ fnew' = TRUE
  /\ AfterFlush(t)
  /\ UNCHANGED <<global, listed, seqno, cbset, flushed, batch, target,
                 clientVars>>

-----------------------------------------------------------------------------
(***************************************************************************)
(* Quiescent states.                                                       *)
(***************************************************************************)

\* ovsrcu_quiesce_end: ovsrcu_perthread_get reads global_seqno ...
perthread_get_read(t) ==
  /\ pc[t] \in {"idle", "scanned"}
  /\ seqno' = [seqno EXCEPT ![t] = global]
  /\ Goto(t, "reg", op[t])
  /\ UNCHANGED <<global, listed, target, cbVars, clientVars>>

\* ... and inserts the thread into ovsrcu_threads, later.
perthread_get_insert(t) ==
  /\ pc[t] = "reg"
  /\ listed' = listed \cup {t}
  /\ Goto(t, "run", IF op[t] = "sync" THEN "synced" ELSE "none")
  /\ UNCHANGED <<global, seqno, target, cbVars, clientVars>>

\* Mutant of quiesce: the thread's number is not brought up to date.
quiesce_stays(t) ==
  /\ Runs(t)
  /\ t \in Threads
  /\ ref[t] = Null /\ old[t] = Null
  /\ Goto(t, FlushFirst(t, "change"), "quiesce")
  /\ UNCHANGED <<global, listed, seqno, target, cbVars, clientVars>>

\* ovsrcu_quiesce stores the number it reads.  The thread holds no pointer to
\* RCU-protected data: that is what its caller promises.
quiesce(t) ==
  /\ Runs(t)
  /\ t \in Threads
  /\ ref[t] = Null /\ old[t] = Null
  /\ seqno' = [seqno EXCEPT ![t] = global]
  /\ Goto(t, FlushFirst(t, "change"), "quiesce")
  /\ UNCHANGED <<global, listed, target, cbVars, clientVars>>

\* ovsrcu_quiesce ends with seq_change(global_seqno).
quiesce_change(t) ==
  /\ pc[t] = "change"
  /\ ChangeGlobal
  /\ Goto(t, "run", "none")
  /\ UNCHANGED <<listed, seqno, target, cbVars, clientVars>>

\* ovsrcu_quiesce_start, also as ovsrcu_thread_exit_cb.
quiesce_start(t) ==
  /\ Runs(t)
  /\ t \in Threads
  /\ ref[t] = Null /\ old[t] = Null
  /\ Goto(t, FlushFirst(t, "remove"), "leave")
  /\ UNCHANGED <<global, listed, seqno, target, cbVars, clientVars>>

\* ovsrcu_unregister__ removes the thread from ovsrcu_threads ...
unregister_remove(t) ==
  /\ pc[t] = "remove"
  /\ listed' = listed \ {t}
  /\ Goto(t, "left", op[t])
  /\ UNCHANGED <<global, seqno, target, cbVars, clientVars>>

\* Where the caller of ovsrcu_unregister__ goes on.
AfterLeft(t) ==
  \/ op[t] = "leave" /\ Goto(t, "idle", "none")
  \/ op[t] = "sync" /\ Goto(t, "scan", "sync")
  \/ op[t] = "sleep" /\ Goto(t, "asleep", "none")

\* Mutant of unregister_change: global_seqno is left alone.
unregister_silent(t) ==
  /\ pc[t] = "left"
  /\ AfterLeft(t)
  /\ UNCHANGED <<global, listed, seqno, target, cbVars, clientVars>>

\* ... and changes global_seqno.
unregister_change(t) ==
  /\ pc[t] = "left"
  /\ ChangeGlobal
  /\ AfterLeft(t)
  /\ UNCHANGED <<listed, seqno, target, cbVars, clientVars>>

-----------------------------------------------------------------------------
(***************************************************************************)
(* ovsrcu_synchronize.                                                     *)
(***************************************************************************)

\* Reads the target, then enters a quiescent state.
SyncStart(t) ==
  /\ target' = [target EXCEPT ![t] = global]
  /\ Goto(t, FlushFirst(t, "remove"), "sync")
  /\ UNCHANGED <<global, listed, seqno, cbVars, clientVars>>

\* Mutant of Passed: a thread that stands at the target has quiesced.
PassedAtTarget(t) == \A u \in listed : seqno[u] >= target[t]

\* The scan of ovsrcu_threads finds nobody at or below the target.
Passed(t) == \A u \in listed : seqno[u] > target[t]

\* The wait ends.  A scan that finds a stalled thread changes nothing: it is
\* repeated when global_seqno changes or the warning timer runs out.
SyncScan(t) ==
  /\ pc[t] = "scan"
  /\ Passed(t)
  /\ Goto(t, "scanned", op[t])
  /\ UNCHANGED <<global, listed, seqno, target, cbVars, clientVars>>

-----------------------------------------------------------------------------
(***************************************************************************)
(* ovsrcu_postpone_thread and ovsrcu_call_postponed.                       *)
(***************************************************************************)

\* seq_read(flushed_cbsets_seq).
UrcuRead ==
  /\ Runs(Urcu)
  /\ fnew' = FALSE
  /\ Goto(Urcu, "run", "read")
  /\ UNCHANGED <<global, listed, seqno, cbset, flushed, batch, target, clientVars>>

\* guarded_list_pop_all.
UrcuPop ==
  /\ op[Urcu] = "read"
  /\ batch' = flushed
  /\ flushed' = {}
  /\ Goto(Urcu, "run", IF flushed = {} THEN "empty" ELSE "popped")
  /\ UNCHANGED <<global, listed, seqno, cbset, fnew, target, clientVars>>

UrcuSynchronize == op[Urcu] = "popped" /\ SyncStart(Urcu)

\* The callbacks run: they free their objects.
UrcuCall ==
  /\ pc[Urcu] = "run" /\ op[Urcu] = "synced"
  /\ avail' = avail \cup batch
  /\ batch' = {}
  /\ Goto(Urcu, "run", "none")
  /\ UNCHANGED <<global, listed, seqno, cbset, flushed, fnew, target, current,
                 old, ref>>

\* Nothing was flushed: seq_wait and poll_block.  time_poll quiesces for a
\* moment if the seq has changed, and for the whole sleep otherwise.
UrcuBlock ==
  /\ pc[Urcu] = "run" /\ op[Urcu] = "empty"
  /\ \/ /\ fnew
        /\ seqno' = [seqno EXCEPT ![Urcu] = global]
        /\ Goto(Urcu, "change", "quiesce")
     \/ /\ ~fnew
        /\ Goto(Urcu, "remove", "sleep")
        /\ UNCHANGED seqno
  /\ UNCHANGED <<global, listed, target, cbVars, clientVars>>

\* poll_block returns once flushed_cbsets_seq has changed.
UrcuWake ==
  /\ pc[Urcu] = "asleep"
  /\ fnew
  /\ Goto(Urcu, "idle", "none")
  /\ UNCHANGED <<global, listed, seqno, target, cbVars, clientVars>>

-----------------------------------------------------------------------------
(***************************************************************************)
(* The threads that use the protected pointer.                             *)
(***************************************************************************)

\* ovsrcu_get.
Get(t) ==
  /\ t \in Threads => pc[t] = "run"
  /\ ref' = [ref EXCEPT ![t] = current]
  /\ UNCHANGED <<global, listed, seqno, target, pc, op, cbVars, current, old,
                 avail>>

\* The thread is done with the version it read.
Done(t) ==
  /\ ref[t] # Null
  /\ t \in Threads => pc[t] = "run"
  /\ ref' = [ref EXCEPT ![t] = Null]
  /\ UNCHANGED <<global, listed, seqno, target, pc, op, cbVars, current, old,
                 avail>>

\* A writer that can allocate a new version enters its critical section and
\* keeps the version it replaces.  Writers exclude one another.
WriteBegin(t) ==
  /\ Runs(t)
  /\ avail # {}
  /\ \A u \in Threads : old[u] = Null
  /\ old' = [old EXCEPT ![t] = current]
  /\ Goto(t, "run", "write")
  /\ UNCHANGED <<global, listed, seqno, target, cbVars, current, ref, avail>>

\* The order of the calls that replace and retire a version: it is replaced
\* first, or after ovsrcu_postpone has returned.
MaySet(t) ==
  \/ pc[t] = "run" /\ op[t] = "write" /\ Usages # {"postpone_set"}
  \/ Runs(t) /\ old[t] # Null

\* ovsrcu_set, with a newly allocated version.
Set(t, o) ==
  /\ MaySet(t)
  /\ current = old[t]
  /\ o \in avail
  /\ avail' = avail \ {o}
  /\ current' = o
  /\ old' = IF op[t] = "write" THEN old ELSE [old EXCEPT ![t] = Null]
  /\ UNCHANGED <<global, listed, seqno, target, pc, op, cbVars, ref>>

MayPostpone(t) ==
  /\ pc[t] = "run" /\ op[t] = "write"
  /\ (IF current # old[t] THEN "set_postpone" ELSE "postpone_set") \in Usages

\* ovsrcu_postpone__: a full cbset is flushed.
postpone(t) ==
  /\ MayPostpone(t)
  /\ cbset' = [cbset EXCEPT ![t] = @ \cup {old[t]}]
  /\ IF Cardinality(cbset'[t]) >= CbsetSize THEN Goto(t, "flush", "postpone")
                                            ELSE Goto(t, "run", "none")
  /\ old' = IF current # old[t] THEN [old EXCEPT ![t] = Null] ELSE old
  /\ UNCHANGED <<global, listed, seqno, flushed, fnew, batch, target, current,
                 ref, avail>>

\* xlate_txn_commit after ovsrcu_set: ovsrcu_synchronize ...
CommitSynchronize(t) ==
  /\ "set_synchronize_free" \in Usages
  /\ pc[t] = "run" /\ op[t] = "write"
  /\ current # old[t]
  /\ ref[t] = Null
  /\ SyncStart(t)

\* ... and then the old version is freed.
CommitFree(t) ==
  /\ pc[t] = "run" /\ op[t] = "synced"
  /\ avail' = avail \cup {old[t]}
  /\ old' = [old EXCEPT ![t] = Null]
  /\ Goto(t, "run", "none")
  /\ UNCHANGED <<global, listed, seqno, target, cbVars, current, ref>>

-----------------------------------------------------------------------------

RcuStep(t) ==
  \/ FlushPush(t)
  \/ FlushNote(t)
  \/ perthread_get_read(t)
  \/ perthread_get_insert(t)
  \/ quiesce_change(t)
  \/ unregister_remove(t)
  \/ unregister_change(t)
  \/ SyncScan(t)

UrcuStep == UrcuRead \/ UrcuPop \/ UrcuSynchronize \/ UrcuCall \/ UrcuBlock \/ UrcuWake

WriteStep(t) ==
  \/ \E o \in Objects : Set(t, o)
  \/ postpone(t)
  \/ CommitSynchronize(t)
  \/ CommitFree(t)

Next ==
  \/ \E t \in OvsThreads : RcuStep(t)
  \/ \E t \in Threads : quiesce(t) \/ quiesce_start(t)
  \/ UrcuStep
  \/ \E t \in Threads \cup Tasks : Get(t) \/ Done(t)
  \/ \E t \in Writers : WriteBegin(t) \/ WriteStep(t)

Spec == Init /\ [][Next]_vars

-----------------------------------------------------------------------------
(***************************************************************************)
(* Properties.                                                             *)
(***************************************************************************)

Seqnos == 0 .. MaxSeqno

\* Type invariant: the lists, numbers and callback sets of ovs-rcu.c.
TypeOK ==
  /\ global \in Seqnos
  /\ listed \subseteq OvsThreads
  /\ seqno \in [OvsThreads -> Seqnos]
  /\ cbset \in [OvsThreads -> SUBSET Objects]
  /\ flushed \subseteq Objects
  /\ fnew \in BOOLEAN
  /\ batch \subseteq Objects
  /\ target \in [OvsThreads -> Seqnos]
  /\ pc \in [OvsThreads -> {"run", "flush", "note", "change", "remove", "left",
                            "idle", "reg", "scan", "scanned", "asleep"}]
  /\ op \in [OvsThreads -> {"none", "quiesce", "leave", "sync", "synced",
                            "sleep", "read", "empty", "popped", "postpone",
                            "write"}]
  /\ current \in Objects
  /\ old \in [Threads -> Objects \cup {Null}]
  /\ ref \in [Threads \cup Tasks -> Objects \cup {Null}]
  /\ avail \subseteq Objects

\* The promise of ovsrcu_postpone and ovsrcu_synchronize: memory is freed
\* only once no thread reads it, whatever the threads that register, quiesce
\* or leave do in the meantime.
NoUseAfterFree ==
  /\ current \notin avail
  /\ \A t \in Threads \cup Tasks : ref[t] \notin avail

\* Every object is free, published, or retired in exactly one place: nothing
\* is freed twice and, whichever path flushes a cbset, no callback is lost.
OneFate ==
  \A o \in Objects :
    /\ o \in avail => o # current
    /\ o \in avail \cup {current} =>
         o \notin flushed \cup batch \cup UNION {cbset[t] : t \in OvsThreads}
    /\ o \notin flushed \cap batch
    /\ \A t \in OvsThreads :
         o \in cbset[t] =>
           o \notin flushed \cup batch \cup UNION {cbset[u] : u \in OvsThreads \ {t}}
    /\ \/ o \in avail \cup {current} \cup flushed \cup batch
       \/ \E t \in OvsThreads : o \in cbset[t]
       \/ \E t \in Threads : old[t] = o

\* urcu never sleeps on callbacks: if it sleeps in poll_block() while
\* flushed_cbsets is not empty, the thread that filled the list has still to
\* change the seq, or has changed it.
NoSleepOnFlushed ==
  pc[Urcu] = "asleep" /\ flushed # {} =>
    fnew \/ \E t \in Threads : pc[t] = "note"

\* Once ovsrcu_synchronize scans, one quiescent state of each thread ends it:
\* the number a thread stores or registers with from then on is past the
\* target.
OneQuiesceSuffices ==
  \A t \in OvsThreads : pc[t] = "scan" => global > target[t]

=============================================================================
