----------------------------- MODULE RcuProofs -----------------------------
(***************************************************************************)
(* For any number of threads and versions, any size of a callback set and  *)
(* any interleaving: memory retired through ovs-rcu.c is not in use when   *)
(* it is freed, provided that every reader is a thread that ovs-rcu.c      *)
(* knows (no Tasks) and that a version is unlinked before it is retired.   *)
(*                                                                         *)
(* The argument.  A retired version is no longer published, so nobody can  *)
(* start to read it (Fate).  Whoever reads it is registered, and does not  *)
(* touch its number while it reads (Readers), and that number is at most   *)
(* the target read after the version was retired (Grace).  So the scan of  *)
(* ovsrcu_synchronize, which wants every registered number past the        *)
(* target, finds nobody who still reads it.                                *)
(***************************************************************************)
EXTENDS Rcu, TLAPS

\* Readers are known to ovs-rcu.c and writers unlink before they retire.
Protocol == Tasks = {} /\ "postpone_set" \notin Usages

\* The steps that each operation consists of, and who is registered.
Control ==
  \A t \in OvsThreads :
    /\ t \in listed <=> pc[t] \in {"run", "flush", "note", "change", "remove"}
    /\ pc[t] = "run" =>
         op[t] \in {"none", "write", "synced", "read", "empty", "popped"}
    /\ pc[t] \in {"flush", "note"} =>
         op[t] \in {"postpone", "quiesce", "leave", "sync"}
    /\ pc[t] = "change" => op[t] = "quiesce"
    /\ pc[t] \in {"remove", "left"} => op[t] \in {"leave", "sync", "sleep"}
    /\ pc[t] \in {"scan", "scanned"} => op[t] = "sync"
    /\ pc[t] \in {"idle", "asleep"} => op[t] = "none"
    /\ pc[t] = "reg" => op[t] \in {"none", "sync"}
    /\ seqno[t] <= global

\* What a thread that synchronizes is going to free, and who has something.
Owned ==
  /\ \A t \in Threads :
       /\ old[t] # Null <=> op[t] \in {"write", "sync", "synced"}
       /\ op[t] \in {"sync", "synced"} => old[t] # current
       /\ \A u \in Threads : old[t] # Null /\ old[u] # Null => t = u
  /\ op[Urcu] \notin {"popped", "sync", "synced"} => batch = {}

\* Every version is in one place.
Fate ==
  \A o \in Objects :
    /\ o \in avail =>
         /\ o # current /\ o \notin flushed /\ o \notin batch
         /\ \A t \in OvsThreads : o \notin cbset[t]
         /\ \A t \in Threads : old[t] # o
    /\ o = current \/ (\E t \in Threads : old[t] = o) =>
         /\ o \notin flushed /\ o \notin batch
         /\ \A t \in OvsThreads : o \notin cbset[t]
    /\ o \in flushed =>
         o \notin batch /\ \A t \in OvsThreads : o \notin cbset[t]
    /\ o \in batch => \A t \in OvsThreads : o \notin cbset[t]
    /\ \A t, u \in OvsThreads : o \in cbset[t] /\ o \in cbset[u] => t = u
    /\ \/ o \in avail \/ o = current \/ o \in flushed \/ o \in batch
       \/ \E t \in OvsThreads : o \in cbset[t]
       \/ \E t \in Threads : old[t] = o

\* Who reads is registered, is not in a quiescent state, and reads memory
\* that is allocated.
Readers ==
  \A r \in Threads :
    ref[r] # Null =>
      /\ r \in listed
      /\ op[r] \notin {"quiesce", "leave", "sync", "sleep"}
      /\ ref[r] \notin avail

Victims(t) == IF t = Urcu THEN batch ELSE {old[t]}

ScanPassed(t) ==
  \/ op[t] = "sync" /\ pc[t] \in {"scanned", "reg"}
  \/ op[t] = "synced"

\* Until the scan is passed a reader of a victim stands at or below the
\* target; afterwards there is none.
Grace ==
  \A t \in OvsThreads, r \in Threads :
    ref[r] # Null /\ ref[r] \in Victims(t) =>
      /\ op[t] = "sync" => seqno[r] <= target[t]
      /\ ~ScanPassed(t)

IInv == TypeOK /\ Control /\ Owned /\ Fate /\ Readers /\ Grace

\* The invariant gives the two safety properties.
LEMMA InvariantSuffices ==
  ASSUME Protocol, IInv PROVE NoUseAfterFree /\ OneFate
<1>use. NoUseAfterFree
  <2>null. Null \notin avail
    BY RcuAssumption DEF IInv, TypeOK
  <2>readers. \A r \in Threads : ref[r] \notin avail
    BY <2>null DEF IInv, Readers
  <2>current. current \notin avail
    BY DEF IInv, TypeOK, Fate
  <2>all. Threads \cup Tasks = Threads
    BY DEF Protocol
  <2> QED
    BY <2>readers, <2>current, <2>all DEF NoUseAfterFree
<1>fate. OneFate
  <2> SUFFICES ASSUME NEW o \in Objects
      PROVE /\ o \in avail => o # current
            /\ o \in avail \cup {current} =>
                 o \notin flushed \cup batch \cup UNION {cbset[t] : t \in OvsThreads}
            /\ o \notin flushed \cap batch
            /\ \A t \in OvsThreads :
                 o \in cbset[t] =>
                   o \notin flushed \cup batch
                            \cup UNION {cbset[u] : u \in OvsThreads \ {t}}
            /\ \/ o \in avail \cup {current} \cup flushed \cup batch
               \/ \E t \in OvsThreads : o \in cbset[t]
               \/ \E t \in Threads : old[t] = o
    BY Zenon DEF OneFate
  <2>union. \A S \in SUBSET OvsThreads :
              o \in UNION {cbset[t] : t \in S} <=> \E t \in S : o \in cbset[t]
    OBVIOUS
  <2>all. o \in UNION {cbset[t] : t \in OvsThreads} <=>
            \E t \in OvsThreads : o \in cbset[t]
    BY <2>union
  <2>rest. \A t \in OvsThreads :
             o \in UNION {cbset[u] : u \in OvsThreads \ {t}} <=>
               \E u \in OvsThreads \ {t} : o \in cbset[u]
    BY <2>union
  <2>place. /\ o \in avail =>
                 /\ o # current /\ o \notin flushed /\ o \notin batch
                 /\ \A t \in OvsThreads : o \notin cbset[t]
            /\ o = current =>
                 /\ o \notin flushed /\ o \notin batch
                 /\ \A t \in OvsThreads : o \notin cbset[t]
            /\ o \in flushed =>
                 o \notin batch /\ \A t \in OvsThreads : o \notin cbset[t]
            /\ o \in batch => \A t \in OvsThreads : o \notin cbset[t]
            /\ \A t, u \in OvsThreads : o \in cbset[t] /\ o \in cbset[u] => t = u
            /\ \/ o \in avail \/ o = current \/ o \in flushed \/ o \in batch
               \/ \E t \in OvsThreads : o \in cbset[t]
               \/ \E t \in Threads : old[t] = o
    BY DEF IInv, Fate
  <2> QED
    BY <2>place, <2>all, <2>rest
<1> QED
  BY <1>use, <1>fate

-----------------------------------------------------------------------------
(* Types.                                                                  *)

\* One thread moves, the others stay.
LEMMA GotoEffect ==
  ASSUME TypeOK, NEW t \in OvsThreads, NEW p, NEW o, Goto(t, p, o)
  PROVE  \A u \in OvsThreads :
           /\ pc'[u] = IF u = t THEN p ELSE pc[u]
           /\ op'[u] = IF u = t THEN o ELSE op[u]
BY DEF Goto, TypeOK

Pcs == {"run", "flush", "note", "change", "remove", "left",
        "idle", "reg", "scan", "scanned", "asleep"}

Ops == {"none", "quiesce", "leave", "sync", "synced", "sleep", "read", "empty",
        "popped", "postpone", "write"}

\* Control points and operations stay within their types.
LEMMA GotoType ==
  ASSUME TypeOK, NEW t \in OvsThreads, NEW p \in Pcs, NEW o \in Ops, Goto(t, p, o)
  PROVE  pc' \in [OvsThreads -> Pcs] /\ op' \in [OvsThreads -> Ops]
BY DEF Goto, TypeOK, Pcs, Ops

\* The steps inside ovs-rcu.c are well typed.
LEMMA RcuTypes ==
  ASSUME TypeOK, NEW t \in OvsThreads, RcuStep(t)
  PROVE  TypeOK'
<1> USE RcuAssumption DEF Seqnos
<1>goto. pc' \in [OvsThreads -> Pcs] /\ op' \in [OvsThreads -> Ops]
  <2>old. op[t] \in Ops
    BY DEF TypeOK, Ops
  <2>to. \E p \in Pcs, o \in Ops : Goto(t, p, o)
    BY <2>old DEF RcuStep, FlushPush, FlushNote, AfterFlush, perthread_get_read,
       perthread_get_insert, quiesce_change, unregister_remove,
       unregister_change, AfterLeft, SyncScan, Pcs, Ops
  <2> QED
    BY <2>to, GotoType
<1>global. global' \in Seqnos
  <2>change. ASSUME ChangeGlobal PROVE global' \in Seqnos
    BY <2>change DEF ChangeGlobal, TypeOK
  <2>same. CASE UNCHANGED global
    BY <2>same DEF TypeOK
  <2> QED
    BY <2>change, <2>same DEF RcuStep, FlushPush, FlushNote, perthread_get_read,
       perthread_get_insert, quiesce_change, unregister_remove,
       unregister_change, SyncScan
<1>seqno. seqno' \in [OvsThreads -> Seqnos]
  <2>read. CASE perthread_get_read(t)
    BY <2>read DEF perthread_get_read, TypeOK
  <2>same. CASE UNCHANGED seqno
    BY <2>same DEF TypeOK
  <2> QED
    BY <2>read, <2>same DEF RcuStep, FlushPush, FlushNote,
       perthread_get_insert, quiesce_change, unregister_remove,
       unregister_change, SyncScan
<1>target. target' = target
  BY DEF RcuStep, FlushPush, FlushNote, perthread_get_read,
     perthread_get_insert, quiesce_change, unregister_remove,
     unregister_change, SyncScan
<1>list. listed' \subseteq OvsThreads
  BY DEF TypeOK, RcuStep, FlushPush, FlushNote, perthread_get_read,
     perthread_get_insert, quiesce_change, unregister_remove,
     unregister_change, SyncScan
<1>sets. /\ cbset' \in [OvsThreads -> SUBSET Objects]
         /\ flushed' \subseteq Objects /\ fnew' \in BOOLEAN /\ batch' = batch
  BY DEF TypeOK, RcuStep, FlushPush, FlushNote, perthread_get_read,
     perthread_get_insert, quiesce_change, unregister_remove,
     unregister_change, SyncScan, cbVars
<1>client. UNCHANGED clientVars
  BY DEF RcuStep, FlushPush, FlushNote, perthread_get_read,
     perthread_get_insert, quiesce_change, unregister_remove,
     unregister_change, SyncScan
<1> QED
  BY <1>goto, <1>global, <1>seqno, <1>target, <1>list, <1>sets, <1>client
     DEF TypeOK, clientVars, Pcs, Ops

\* The steps of a thread that starts to quiesce, and of urcu, are well typed.
LEMMA CallTypes ==
  ASSUME TypeOK,
         UrcuStep \/ \E t \in Threads :
           quiesce(t) \/ quiesce_start(t) \/ CommitSynchronize(t)
  PROVE  TypeOK'
<1> USE RcuAssumption DEF Seqnos
<1>goto. pc' \in [OvsThreads -> Pcs] /\ op' \in [OvsThreads -> Ops]
  <2>to. \E t \in OvsThreads, p \in Pcs, o \in Ops : Goto(t, p, o)
    BY DEF UrcuStep, UrcuRead, UrcuPop, UrcuSynchronize, UrcuCall, UrcuBlock,
       UrcuWake, quiesce, quiesce_start, CommitSynchronize, SyncStart,
       FlushFirst, Pcs, Ops, OvsThreads
  <2> QED
    BY <2>to, GotoType
<1>same. UNCHANGED <<global, listed>>
  BY DEF UrcuStep, UrcuRead, UrcuPop, UrcuSynchronize, UrcuCall,
     UrcuBlock, UrcuWake, quiesce, quiesce_start, CommitSynchronize, SyncStart
<1>seqno. seqno' \in [OvsThreads -> Seqnos]
  <2>to. seqno' = seqno \/ \E t \in OvsThreads : seqno' = [seqno EXCEPT ![t] = global]
    BY DEF UrcuStep, UrcuRead, UrcuPop, UrcuSynchronize, UrcuCall,
       UrcuBlock, UrcuWake, quiesce, quiesce_start, CommitSynchronize, SyncStart,
       OvsThreads
  <2> QED
    BY <2>to DEF TypeOK
<1>target. target' \in [OvsThreads -> Seqnos]
  <2>to. target' = target \/ \E t \in OvsThreads : target' = [target EXCEPT ![t] = global]
    BY DEF UrcuStep, UrcuRead, UrcuPop, UrcuSynchronize, UrcuCall,
       UrcuBlock, UrcuWake, quiesce, quiesce_start, CommitSynchronize, SyncStart,
       OvsThreads
  <2> QED
    BY <2>to DEF TypeOK
<1>sets. /\ cbset' = cbset
         /\ flushed' \subseteq Objects /\ fnew' \in BOOLEAN /\ batch' \subseteq Objects
  BY DEF TypeOK, UrcuStep, UrcuRead, UrcuPop, UrcuSynchronize, UrcuCall,
     UrcuBlock, UrcuWake, quiesce, quiesce_start, CommitSynchronize, SyncStart,
     cbVars
<1>client. UNCHANGED <<current, old, ref>> /\ avail' \subseteq Objects
  BY DEF TypeOK, UrcuStep, UrcuRead, UrcuPop, UrcuSynchronize, UrcuCall,
     UrcuBlock, UrcuWake, quiesce, quiesce_start, CommitSynchronize, SyncStart,
     clientVars
<1> QED
  BY <1>goto, <1>same, <1>seqno, <1>target, <1>sets, <1>client DEF TypeOK, Pcs, Ops

\* The steps of readers and writers are well typed.
LEMMA ClientTypes ==
  ASSUME Protocol, IInv,
         \/ \E t \in Threads : Get(t) \/ Done(t) \/ WriteBegin(t) \/ postpone(t)
                                      \/ CommitFree(t)
         \/ \E t \in Threads, o \in Objects : Set(t, o)
  PROVE  TypeOK'
<1> USE RcuAssumption
<1>types. TypeOK
  BY DEF IInv
<1>read. ASSUME NEW t \in Threads, Get(t) \/ Done(t)
         PROVE  TypeOK'
  <2>ref. ref' \in [Threads \cup Tasks -> Objects \cup {Null}]
    BY <1>read, <1>types DEF Get, Done, TypeOK
  <2> QED
    BY <1>read, <1>types, <2>ref DEF Get, Done, TypeOK, cbVars
<1>begin. ASSUME NEW t \in Threads, WriteBegin(t)
          PROVE  TypeOK'
  <2>goto. pc' \in [OvsThreads -> Pcs] /\ op' \in [OvsThreads -> Ops]
    BY <1>begin, <1>types, GotoType DEF WriteBegin, Pcs, Ops, OvsThreads
  <2> QED
    BY <1>begin, <1>types, <2>goto DEF WriteBegin, TypeOK, cbVars, Pcs, Ops
<1>set. ASSUME NEW t \in Threads, NEW o \in Objects, Set(t, o)
        PROVE  TypeOK'
  BY <1>set, <1>types DEF Set, TypeOK, cbVars
<1>postpone. ASSUME NEW t \in Threads, postpone(t)
             PROVE  TypeOK'
  <2>goto. pc' \in [OvsThreads -> Pcs] /\ op' \in [OvsThreads -> Ops]
    <3>to. Goto(t, "flush", "postpone") \/ Goto(t, "run", "none")
      BY <1>postpone DEF postpone
    <3> QED
      BY <3>to, <1>types, GotoType DEF Pcs, Ops, OvsThreads
  <2>object. t \in OvsThreads /\ old[t] \in Objects
    BY <1>postpone, <1>types DEF IInv, Owned, postpone, MayPostpone, TypeOK, OvsThreads
  <2>cbset. cbset' \in [OvsThreads -> SUBSET Objects]
    BY <1>postpone, <1>types, <2>object DEF postpone, TypeOK
  <2> QED
    BY <1>postpone, <1>types, <2>goto, <2>cbset DEF postpone, TypeOK, Pcs, Ops
<1>free. ASSUME NEW t \in Threads, CommitFree(t)
         PROVE  TypeOK'
  <2>goto. pc' \in [OvsThreads -> Pcs] /\ op' \in [OvsThreads -> Ops]
    BY <1>free, <1>types, GotoType DEF CommitFree, Pcs, Ops, OvsThreads
  <2>object. old[t] \in Objects
    BY <1>free, <1>types DEF IInv, Owned, CommitFree, TypeOK
  <2> QED
    BY <1>free, <1>types, <2>goto, <2>object
       DEF CommitFree, TypeOK, cbVars, Pcs, Ops
<1> QED
  BY <1>read, <1>begin, <1>set, <1>postpone, <1>free

-----------------------------------------------------------------------------
(* Steps inside ovs-rcu.c that leave callbacks and clients alone.          *)

\* Such a step cannot change what is where.
LEMMA FateKept ==
  ASSUME Fate, UNCHANGED <<cbset, flushed, batch, current, old, avail>>
  PROVE  Fate'
BY DEF Fate

\* ovsrcu_perthread_get: the thread that takes a new number is not a reader.
LEMMA RegisterStep ==
  ASSUME IInv, NEW t \in OvsThreads,
         perthread_get_read(t) \/ perthread_get_insert(t)
  PROVE  Control' /\ Owned' /\ Fate' /\ Readers' /\ Grace'
<1> USE RcuAssumption
<1>types. TypeOK
  BY DEF IInv
<1>same. UNCHANGED <<global, target, cbVars, clientVars>>
  BY DEF perthread_get_read, perthread_get_insert
<1>fate. Fate'
  BY <1>same, FateKept DEF IInv, cbVars, clientVars
<1>read. CASE perthread_get_read(t)
  <2>goto. \A u \in OvsThreads :
             /\ pc'[u] = IF u = t THEN "reg" ELSE pc[u]
             /\ op'[u] = op[u]
    BY <1>read, <1>types, GotoEffect DEF perthread_get_read
  <2>seqno. \A u \in OvsThreads : seqno'[u] = IF u = t THEN global ELSE seqno[u]
    BY <1>read, <1>types DEF perthread_get_read, TypeOK
  <2>from. pc[t] \in {"idle", "scanned"} /\ t \notin listed /\ listed' = listed
    BY <1>read DEF perthread_get_read, IInv, Control
  <2>control. Control'
    BY <1>types, <1>same, <2>goto, <2>seqno, <2>from
       DEF IInv, Control, TypeOK, Seqnos
  <2>owned. Owned'
    BY <1>same, <2>goto DEF IInv, Owned, OvsThreads, cbVars, clientVars
  <2>readers. Readers'
    BY <1>same, <2>goto, <2>from DEF IInv, Readers, OvsThreads, clientVars
  <2>grace. Grace'
    <3> SUFFICES ASSUME NEW u \in OvsThreads, NEW r \in Threads,
                        ref'[r] # Null, ref'[r] \in Victims(u)'
                 PROVE  /\ op'[u] = "sync" => seqno'[r] <= target'[u]
                        /\ ~ScanPassed(u)'
      BY DEF Grace
    <3>was. ref[r] # Null /\ ref[r] \in Victims(u)
      BY <1>same DEF Victims, cbVars, clientVars
    <3>held. r # t /\ r \in OvsThreads
      BY <3>was, <2>from DEF IInv, Readers, OvsThreads
    <3>old. (op[u] = "sync" => seqno[r] <= target[u]) /\ ~ScanPassed(u)
      BY <3>was DEF IInv, Grace
    <3>scan. ScanPassed(u)' => ScanPassed(u)
      BY <2>goto, <2>from DEF ScanPassed, IInv, Control
    <3> QED
      BY <3>old, <3>scan, <3>held, <2>goto, <2>seqno, <1>same
  <2> QED
    BY <1>fate, <2>control, <2>owned, <2>readers, <2>grace
<1>insert. CASE perthread_get_insert(t)
  <2>goto. \A u \in OvsThreads :
             /\ pc'[u] = IF u = t THEN "run" ELSE pc[u]
             /\ op'[u] = IF u = t THEN IF op[t] = "sync" THEN "synced" ELSE "none"
                                  ELSE op[u]
    BY <1>insert, <1>types, GotoEffect DEF perthread_get_insert
  <2>from. pc[t] = "reg" /\ t \notin listed /\ op[t] \in {"none", "sync"}
    BY <1>insert DEF perthread_get_insert, IInv, Control
  <2>listed. listed' = listed \cup {t} /\ seqno' = seqno
    BY <1>insert DEF perthread_get_insert
  <2>control. Control'
    BY <1>same, <2>goto, <2>from, <2>listed DEF IInv, Control
  <2>owned. Owned'
    <3>op. \A u \in OvsThreads :
             /\ op'[u] \in {"write", "sync", "synced"} <=> op[u] \in {"write", "sync", "synced"}
             /\ op'[u] \in {"sync", "synced"} <=> op[u] \in {"sync", "synced"}
             /\ op'[u] \in {"popped", "sync", "synced"} <=> op[u] \in {"popped", "sync", "synced"}
      BY <2>goto, <2>from
    <3>in. Urcu \in OvsThreads /\ \A u \in Threads : u \in OvsThreads
      BY DEF OvsThreads
    <3> QED
      BY <1>same, <3>op, <3>in DEF IInv, Owned, cbVars, clientVars
  <2>readers. Readers'
    BY <1>same, <2>goto, <2>from, <2>listed DEF IInv, Readers, OvsThreads, clientVars
  <2>grace. Grace'
    BY <1>same, <2>goto, <2>from, <2>listed
       DEF IInv, Grace, ScanPassed, Victims, cbVars, clientVars
  <2> QED
    BY <1>fate, <2>control, <2>owned, <2>readers, <2>grace
<1> QED
  BY <1>read, <1>insert

\* A thread that stores a new number in ovsrcu_quiesce, or urcu in
\* poll_block, is not a reader.
LEMMA QuiesceStep ==
  ASSUME IInv, NEW t \in OvsThreads, NEW p \in {"flush", "change"},
         pc[t] = "run", op[t] \in {"none", "empty"},
         t \in Threads => ref[t] = Null,
         seqno' = [seqno EXCEPT ![t] = global],
         Goto(t, p, "quiesce"),
         UNCHANGED <<global, listed, target, cbVars, clientVars>>
  PROVE  Control' /\ Owned' /\ Fate' /\ Readers' /\ Grace'
<1>types. TypeOK
  BY DEF IInv
<1>goto. \A u \in OvsThreads :
           /\ pc'[u] = IF u = t THEN p ELSE pc[u]
           /\ op'[u] = IF u = t THEN "quiesce" ELSE op[u]
  BY <1>types, GotoEffect
<1>seqno. \A u \in OvsThreads : seqno'[u] = IF u = t THEN global ELSE seqno[u]
  BY <1>types DEF TypeOK
<1>in. Urcu \in OvsThreads /\ \A u \in Threads : u \in OvsThreads
  BY DEF OvsThreads
<1>fate. Fate'
  BY FateKept DEF IInv, cbVars, clientVars
<1>control. Control'
  BY <1>types, <1>goto, <1>seqno, RcuAssumption DEF IInv, Control, TypeOK, Seqnos
<1>owned. Owned'
  BY <1>goto, <1>in DEF IInv, Owned, cbVars, clientVars
<1>readers. Readers'
  BY <1>goto, <1>in DEF IInv, Readers, clientVars
<1>grace. Grace'
  <2> SUFFICES ASSUME NEW u \in OvsThreads, NEW r \in Threads,
                      ref'[r] # Null, ref'[r] \in Victims(u)'
               PROVE  /\ op'[u] = "sync" => seqno'[r] <= target'[u]
                      /\ ~ScanPassed(u)'
    BY DEF Grace
  <2>was. ref[r] # Null /\ ref[r] \in Victims(u)
    BY DEF Victims, cbVars, clientVars
  <2>old. (op[u] = "sync" => seqno[r] <= target[u]) /\ ~ScanPassed(u)
    BY <2>was DEF IInv, Grace
  <2>scan. ScanPassed(u)' => ScanPassed(u)
    BY <1>goto DEF ScanPassed
  <2> QED
    BY <2>was, <2>old, <2>scan, <1>in, <1>goto, <1>seqno
<1> QED
  BY <1>fate, <1>control, <1>owned, <1>readers, <1>grace

\* A thread that begins to leave: ovsrcu_quiesce_start, or urcu falling asleep.
LEMMA LeaveStep ==
  ASSUME IInv, NEW t \in OvsThreads, NEW p \in {"flush", "remove"},
         NEW o \in {"leave", "sleep"}, p = "flush" => o = "leave",
         pc[t] = "run", op[t] \in {"none", "empty"},
         t \in Threads => ref[t] = Null,
         Goto(t, p, o),
         UNCHANGED <<global, listed, seqno, target, cbVars, clientVars>>
  PROVE  Control' /\ Owned' /\ Fate' /\ Readers' /\ Grace'
<1>types. TypeOK
  BY DEF IInv
<1>goto. \A u \in OvsThreads :
           /\ pc'[u] = IF u = t THEN p ELSE pc[u]
           /\ op'[u] = IF u = t THEN o ELSE op[u]
  BY <1>types, GotoEffect
<1>in. Urcu \in OvsThreads /\ \A u \in Threads : u \in OvsThreads
  BY DEF OvsThreads
<1>fate. Fate'
  BY FateKept DEF IInv, cbVars, clientVars
<1>control. Control'
  BY <1>goto DEF IInv, Control
<1>owned. Owned'
  BY <1>goto, <1>in DEF IInv, Owned, cbVars, clientVars
<1>readers. Readers'
  BY <1>goto, <1>in DEF IInv, Readers, clientVars
<1>grace. Grace'
  BY <1>goto DEF IInv, Grace, ScanPassed, Victims, cbVars, clientVars
<1> QED
  BY <1>fate, <1>control, <1>owned, <1>readers, <1>grace

\* ovsrcu_synchronize reads a target that no number is past, after its
\* victims were unlinked.
LEMMA SyncStep ==
  ASSUME IInv, NEW t \in OvsThreads,
         pc[t] = "run", op[t] = IF t = Urcu THEN "popped" ELSE "write",
         t \in Threads => ref[t] = Null /\ old[t] # current,
         SyncStart(t)
  PROVE  Control' /\ Owned' /\ Fate' /\ Readers' /\ Grace'
<1>types. TypeOK
  BY DEF IInv
<1>same. UNCHANGED <<global, listed, seqno, cbVars, clientVars>>
  BY DEF SyncStart
<1>to. PICK p \in {"flush", "remove"} : Goto(t, p, "sync")
  BY DEF SyncStart, FlushFirst
<1>goto. \A u \in OvsThreads :
           /\ pc'[u] = IF u = t THEN p ELSE pc[u]
           /\ op'[u] = IF u = t THEN "sync" ELSE op[u]
  BY <1>types, <1>to, GotoEffect
<1>target. \A u \in OvsThreads : target'[u] = IF u = t THEN global ELSE target[u]
  BY <1>types DEF SyncStart, TypeOK
<1>in. Urcu \in OvsThreads /\ (\A u \in Threads : u \in OvsThreads) /\ Urcu \notin Threads
  BY RcuAssumption DEF OvsThreads
<1>fate. Fate'
  BY <1>same, FateKept DEF IInv, cbVars, clientVars
<1>control. Control'
  BY <1>goto, <1>same DEF IInv, Control
<1>owned. Owned'
  BY <1>goto, <1>in, <1>same DEF IInv, Owned, cbVars, clientVars
<1>readers. Readers'
  BY <1>goto, <1>in, <1>same DEF IInv, Readers, clientVars
<1>grace. Grace'
  <2> SUFFICES ASSUME NEW u \in OvsThreads, NEW r \in Threads,
                      ref'[r] # Null, ref'[r] \in Victims(u)'
               PROVE  /\ op'[u] = "sync" => seqno'[r] <= target'[u]
                      /\ ~ScanPassed(u)'
    BY DEF Grace
  <2>was. ref[r] # Null /\ ref[r] \in Victims(u)
    BY <1>same DEF Victims, cbVars, clientVars
  <2>old. (op[u] = "sync" => seqno[r] <= target[u]) /\ ~ScanPassed(u)
    BY <2>was DEF IInv, Grace
  <2>scan. ~ScanPassed(u)'
    BY <2>old, <1>goto, <1>to DEF ScanPassed
  <2>num. seqno[r] <= global
    BY <1>in DEF IInv, Control
  <2> QED
    BY <2>old, <2>scan, <2>num, <1>in, <1>goto, <1>target, <1>same
<1> QED
  BY <1>fate, <1>control, <1>owned, <1>readers, <1>grace

\* The other steps of a thread inside ovs-rcu.c; the scan is where the grace
\* period ends.
LEMMA InnerStep ==
  ASSUME IInv, NEW t \in OvsThreads,
         \/ quiesce_change(t) \/ unregister_remove(t) \/ unregister_change(t)
         \/ SyncScan(t) \/ (t = Urcu /\ UrcuWake)
  PROVE  Control' /\ Owned' /\ Fate' /\ Readers' /\ Grace'
<1> USE RcuAssumption
<1>types. TypeOK
  BY DEF IInv
<1>same. UNCHANGED <<seqno, target, cbVars, clientVars>>
  BY DEF quiesce_change, unregister_remove, unregister_change, SyncScan, UrcuWake
<1>in. Urcu \in OvsThreads /\ \A u \in Threads : u \in OvsThreads
  BY DEF OvsThreads
<1>global. \A u \in OvsThreads : seqno'[u] <= global'
  <2>nums. global \in Int /\ \A u \in OvsThreads : seqno[u] \in Int /\ seqno[u] <= global
    BY <1>types DEF IInv, Control, TypeOK, Seqnos
  <2>step. global' \in {global, global + 1}
    BY DEF quiesce_change, unregister_remove, unregister_change, SyncScan,
       UrcuWake, ChangeGlobal
  <2> QED
    BY <1>same, <2>nums, <2>step
<1>listed. listed' = IF pc[t] = "remove" THEN listed \ {t} ELSE listed
  BY DEF quiesce_change, unregister_remove, unregister_change, SyncScan, UrcuWake
<1>pick. PICK p, o : Goto(t, p, o) /\
           \/ pc[t] = "change" /\ p = "run" /\ o = "none"
           \/ pc[t] = "remove" /\ p = "left" /\ o = op[t]
           \/ pc[t] = "left" /\ op[t] = "leave" /\ p = "idle" /\ o = "none"
           \/ pc[t] = "left" /\ op[t] = "sync" /\ p = "scan" /\ o = "sync"
           \/ pc[t] = "left" /\ op[t] = "sleep" /\ p = "asleep" /\ o = "none"
           \/ pc[t] = "scan" /\ p = "scanned" /\ o = op[t]
           \/ pc[t] = "asleep" /\ p = "idle" /\ o = "none"
  BY DEF quiesce_change, unregister_remove, unregister_change, AfterLeft,
     SyncScan, UrcuWake
<1>goto. \A u \in OvsThreads :
           /\ pc'[u] = IF u = t THEN p ELSE pc[u]
           /\ op'[u] = IF u = t THEN o ELSE op[u]
  BY <1>types, <1>pick, GotoEffect
<1>fate. Fate'
  BY <1>same, FateKept DEF IInv, cbVars, clientVars
<1>control. Control'
  BY <1>goto, <1>pick, <1>global, <1>listed DEF IInv, Control
<1>op. /\ o = op[t] \/ o = "none"
       /\ op[t] \in {"quiesce", "leave", "sleep", "sync", "none"}
       /\ o = "none" => op[t] \in {"quiesce", "leave", "sleep", "none"}
  BY <1>pick DEF IInv, Control
<1>owned. Owned'
  BY <1>goto, <1>op, <1>in, <1>same DEF IInv, Owned, cbVars, clientVars
<1>readers. Readers'
  BY <1>goto, <1>pick, <1>op, <1>in, <1>listed, <1>same DEF IInv, Readers, Control, clientVars
<1>grace. Grace'
  <2> SUFFICES ASSUME NEW u \in OvsThreads, NEW r \in Threads,
                      ref'[r] # Null, ref'[r] \in Victims(u)'
               PROVE  /\ op'[u] = "sync" => seqno'[r] <= target'[u]
                      /\ ~ScanPassed(u)'
    BY DEF Grace
  <2>was. ref[r] # Null /\ ref[r] \in Victims(u)
    BY <1>same DEF Victims, cbVars, clientVars
  <2>old. (op[u] = "sync" => seqno[r] <= target[u]) /\ ~ScanPassed(u)
    BY <2>was DEF IInv, Grace
  <2>sync. op'[u] = "sync" => op[u] = "sync"
    BY <1>goto, <1>op
  <2>scan. CASE u = t /\ pc[t] = "scan"
    <3>passed. SyncScan(t)
      BY <2>scan DEF quiesce_change, unregister_remove, unregister_change, UrcuWake
    <3>above. seqno[r] > target[t]
      BY <3>passed, <2>was DEF SyncScan, Passed, IInv, Readers
    <3>below. seqno[r] <= target[t]
      BY <2>scan, <2>old DEF IInv, Control
    <3>ints. seqno[r] \in Int /\ target[t] \in Int
      BY <1>types, <1>in DEF TypeOK, Seqnos
    <3> QED
      BY <3>above, <3>below, <3>ints
  <2>other. CASE ~(u = t /\ pc[t] = "scan")
    <3>kept. ~ScanPassed(u)'
      BY <2>other, <2>old, <1>goto, <1>pick DEF ScanPassed
    <3> QED
      BY <2>old, <2>sync, <3>kept, <1>same
  <2> QED
    BY <2>scan, <2>other
<1> QED
  BY <1>fate, <1>control, <1>owned, <1>readers, <1>grace

-----------------------------------------------------------------------------
(* Callbacks on their way from postpone__ to call_postponed.               *)

\* ovsrcu_flush_cbset: the cbset moves to flushed_cbsets.
LEMMA FlushStep ==
  ASSUME IInv, NEW t \in OvsThreads, FlushPush(t) \/ FlushNote(t)
  PROVE  Control' /\ Owned' /\ Fate' /\ Readers' /\ Grace'
<1>types. TypeOK
  BY DEF IInv
<1>same. UNCHANGED <<global, listed, seqno, batch, target, clientVars>>
  BY DEF FlushPush, FlushNote
<1>in. Urcu \in OvsThreads /\ \A u \in Threads : u \in OvsThreads
  BY DEF OvsThreads
<1>pick. PICK p, o : Goto(t, p, o) /\
           \/ pc[t] = "flush" /\ p = "note" /\ o = op[t]
           \/ pc[t] = "note" /\ op[t] = "postpone" /\ p = "run" /\ o = "none"
           \/ pc[t] = "note" /\ op[t] = "quiesce" /\ p = "change" /\ o = op[t]
           \/ pc[t] = "note" /\ op[t] \in {"leave", "sync"} /\ p = "remove" /\ o = op[t]
  BY DEF FlushPush, FlushNote, AfterFlush
<1>goto. \A u \in OvsThreads :
           /\ pc'[u] = IF u = t THEN p ELSE pc[u]
           /\ op'[u] = IF u = t THEN o ELSE op[u]
  BY <1>types, <1>pick, GotoEffect
<1>op. /\ o = op[t] \/ (o = "none" /\ op[t] = "postpone")
       /\ pc[t] # "reg" /\ pc[t] # "scanned" /\ p # "reg" /\ p # "scanned"
       /\ op[t] # "synced"
  BY <1>pick DEF IInv, Control
<1>control. Control'
  BY <1>goto, <1>pick, <1>same DEF IInv, Control
<1>owned. Owned'
  BY <1>goto, <1>op, <1>in, <1>same DEF IInv, Owned, clientVars
<1>readers. Readers'
  BY <1>goto, <1>op, <1>in, <1>same DEF IInv, Readers, clientVars
<1>grace. Grace'
  BY <1>goto, <1>op, <1>same DEF IInv, Grace, ScanPassed, Victims, clientVars
<1>fate. Fate'
  <2>push. CASE FlushPush(t)
    <3>cbset. \A u \in OvsThreads : cbset'[u] = IF u = t THEN {} ELSE cbset[u]
      BY <2>push, <1>types DEF FlushPush, TypeOK
    <3>flushed. flushed' = flushed \cup cbset[t]
      BY <2>push DEF FlushPush
    <3> QED
      BY <3>cbset, <3>flushed, <1>same DEF IInv, Fate, clientVars
  <2>note. CASE FlushNote(t)
    BY <2>note, <1>same, FateKept DEF FlushNote, IInv, clientVars
  <2> QED
    BY <2>push, <2>note
<1> QED
  BY <1>fate, <1>control, <1>owned, <1>readers, <1>grace

\* urcu takes the flushed callbacks, and calls them after the grace period.
LEMMA UrcuCallbacks ==
  ASSUME IInv, UrcuRead \/ UrcuPop \/ UrcuCall
  PROVE  Control' /\ Owned' /\ Fate' /\ Readers' /\ Grace'
<1>types. TypeOK
  BY DEF IInv
<1>same. UNCHANGED <<global, listed, seqno, cbset, target, current, old, ref>>
  BY DEF UrcuRead, UrcuPop, UrcuCall, clientVars
<1>in. Urcu \in OvsThreads /\ (\A u \in Threads : u \in OvsThreads) /\ Urcu \notin Threads
  BY RcuAssumption DEF OvsThreads
<1>from. pc[Urcu] = "run"
  BY <1>types, <1>in DEF UrcuRead, UrcuPop, UrcuCall, Runs, IInv, Control, TypeOK
<1>pick. PICK o \in {"none", "read", "empty", "popped"} :
           Goto(Urcu, "run", o) /\ (o # "popped" => batch' = {})
  BY DEF UrcuRead, UrcuPop, UrcuCall, IInv, Owned, Runs
<1>goto. \A u \in OvsThreads :
           /\ pc'[u] = IF u = Urcu THEN "run" ELSE pc[u]
           /\ op'[u] = IF u = Urcu THEN o ELSE op[u]
  BY <1>types, <1>pick, <1>in, GotoEffect
<1>control. Control'
  BY <1>goto, <1>pick, <1>from, <1>same DEF IInv, Control
<1>owned. Owned'
  BY <1>goto, <1>pick, <1>in, <1>same DEF IInv, Owned
<1>fate. Fate'
  <2>read. CASE UrcuRead
    BY <2>read, FateKept DEF UrcuRead, IInv, clientVars
  <2>pop. CASE UrcuPop
    <3>empty. batch = {}
      BY <2>pop DEF UrcuPop, IInv, Owned
    <3>moved. batch' = flushed /\ flushed' = {} /\ avail' = avail
      BY <2>pop DEF UrcuPop, clientVars
    <3> QED
      BY <3>empty, <3>moved, <1>same DEF IInv, Fate
  <2>call. CASE UrcuCall
    <3>freed. avail' = avail \cup batch /\ batch' = {} /\ flushed' = flushed
      BY <2>call DEF UrcuCall
    <3> QED
      BY <3>freed, <1>same DEF IInv, Fate
  <2> QED
    BY <2>read, <2>pop, <2>call
<1>readers. Readers'
  <2> SUFFICES ASSUME NEW r \in Threads, ref'[r] # Null
               PROVE  /\ r \in listed'
                      /\ op'[r] \notin {"quiesce", "leave", "sync", "sleep"}
                      /\ ref'[r] \notin avail'
    BY DEF Readers
  <2>old. /\ r \in listed /\ op[r] \notin {"quiesce", "leave", "sync", "sleep"}
          /\ ref[r] \notin avail
    BY <1>same DEF IInv, Readers
  <2>call. CASE UrcuCall
    <3>unread. ref[r] \notin batch
      BY <2>call, <1>same, <1>in DEF UrcuCall, IInv, Grace, ScanPassed, Victims
    <3> QED
      BY <2>call, <2>old, <3>unread, <1>goto, <1>in, <1>same DEF UrcuCall
  <2>other. CASE UrcuRead \/ UrcuPop
    BY <2>other, <2>old, <1>goto, <1>in, <1>same DEF UrcuRead, UrcuPop, clientVars
  <2> QED
    BY <2>call, <2>other
<1>grace. Grace'
  <2> SUFFICES ASSUME NEW u \in OvsThreads, NEW r \in Threads,
                      ref'[r] # Null, ref'[r] \in Victims(u)'
               PROVE  /\ op'[u] = "sync" => seqno'[r] <= target'[u]
                      /\ ~ScanPassed(u)'
    BY DEF Grace
  <2>urcu. CASE u = Urcu
    BY <2>urcu, <1>goto, <1>pick, <1>in DEF ScanPassed
  <2>other. CASE u # Urcu
    BY <2>other, <1>goto, <1>same DEF IInv, Grace, ScanPassed, Victims
  <2> QED
    BY <2>urcu, <2>other
<1> QED
  BY <1>fate, <1>control, <1>owned, <1>readers, <1>grace

-----------------------------------------------------------------------------
(* Readers and writers.                                                    *)

\* A thread reads the published version, or is done with it.
LEMMA ReadStep ==
  ASSUME IInv, NEW t \in Threads, Get(t) \/ Done(t)
  PROVE  Control' /\ Owned' /\ Fate' /\ Readers' /\ Grace'
<1>types. TypeOK
  BY DEF IInv
<1>same. UNCHANGED <<global, listed, seqno, target, pc, op, cbset, flushed, batch,
                     current, old, avail>>
  BY DEF Get, Done, cbVars
<1>in. \A u \in Threads : u \in OvsThreads /\ u \in Threads \cup Tasks
  BY DEF OvsThreads
<1>ref. /\ ref'[t] \in {Null, current}
        /\ \A u \in Threads : u # t => ref'[u] = ref[u]
  BY <1>types, <1>in DEF Get, Done, TypeOK
<1>run. pc[t] = "run"
  BY DEF Get, Done
<1>live. current \in Objects /\ current \notin avail
  BY <1>types DEF IInv, Fate, TypeOK
<1>control. Control'
  BY <1>same DEF IInv, Control
<1>owned. Owned'
  BY <1>same DEF IInv, Owned
<1>fate. Fate'
  BY <1>same, FateKept DEF IInv
<1>readers. Readers'
  <2>ok. t \in listed /\ op[t] \notin {"quiesce", "leave", "sync", "sleep"}
    BY <1>run, <1>in DEF IInv, Control
  <2> QED
    BY <1>same, <1>ref, <1>live, <2>ok DEF IInv, Readers
<1>grace. Grace'
  <2>safe. ASSUME NEW u \in OvsThreads, current \in Victims(u)
           PROVE  op[u] \notin {"sync", "synced"}
    <3>urcu. CASE u = Urcu
      BY <3>urcu, <2>safe, <1>live DEF Victims, IInv, Fate
    <3>thread. CASE u # Urcu
      BY <3>thread, <2>safe DEF Victims, IInv, Owned, OvsThreads
    <3> QED
      BY <3>urcu, <3>thread
  <2> SUFFICES ASSUME NEW u \in OvsThreads, NEW r \in Threads,
                      ref'[r] # Null, ref'[r] \in Victims(u)'
               PROVE  /\ op'[u] = "sync" => seqno'[r] <= target'[u]
                      /\ ~ScanPassed(u)'
    BY DEF Grace
  <2>victims. Victims(u)' = Victims(u)
    BY <1>same DEF Victims
  <2>self. CASE r = t
    BY <2>self, <2>safe, <2>victims, <1>ref, <1>same DEF ScanPassed
  <2>other. CASE r # t
    BY <2>other, <2>victims, <1>ref, <1>same DEF IInv, Grace, ScanPassed
  <2> QED
    BY <2>self, <2>other
<1> QED
  BY <1>fate, <1>control, <1>owned, <1>readers, <1>grace

\* A writer starts to replace the published version.
LEMMA BeginStep ==
  ASSUME IInv, NEW t \in Threads, WriteBegin(t)
  PROVE  Control' /\ Owned' /\ Fate' /\ Readers' /\ Grace'
<1>types. TypeOK
  BY DEF IInv
<1>same. UNCHANGED <<global, listed, seqno, target, cbset, flushed, batch,
                     current, ref, avail>>
  BY DEF WriteBegin, cbVars
<1>in. (\A u \in Threads : u \in OvsThreads /\ u # Urcu) /\ Urcu \in OvsThreads
  BY RcuAssumption DEF OvsThreads
<1>from. pc[t] = "run" /\ op[t] = "none" /\ \A u \in Threads : old[u] = Null
  BY DEF WriteBegin, Runs
<1>live. current \in Objects /\ current # Null
  BY <1>types, RcuAssumption DEF TypeOK
<1>goto. \A u \in OvsThreads :
           /\ pc'[u] = pc[u]
           /\ op'[u] = IF u = t THEN "write" ELSE op[u]
  BY <1>types, <1>in, <1>from, GotoEffect DEF WriteBegin
<1>old. \A u \in Threads : old'[u] = IF u = t THEN current ELSE Null
  BY <1>types, <1>from DEF WriteBegin, TypeOK
<1>control. Control'
  BY <1>goto, <1>from, <1>same DEF IInv, Control
<1>owned. Owned'
  BY <1>goto, <1>old, <1>live, <1>from, <1>in, <1>same DEF IInv, Owned
<1>fate. Fate'
  BY <1>old, <1>live, <1>from, <1>same, RcuAssumption DEF IInv, Fate
<1>readers. Readers'
  BY <1>goto, <1>in, <1>same DEF IInv, Readers
<1>grace. Grace'
  BY <1>goto, <1>old, <1>from, <1>in, <1>same
     DEF IInv, Grace, ScanPassed, Victims, OvsThreads
<1> QED
  BY <1>fate, <1>control, <1>owned, <1>readers, <1>grace

\* ovsrcu_set publishes memory that was free.
LEMMA SetStep ==
  ASSUME Protocol, IInv, NEW t \in Threads, NEW o \in Objects, Set(t, o)
  PROVE  Control' /\ Owned' /\ Fate' /\ Readers' /\ Grace'
<1>write. op[t] = "write"
  BY DEF Set, MaySet, Runs, IInv, Owned
<1>same. UNCHANGED <<global, listed, seqno, target, pc, op, cbset, flushed, batch,
                     old, ref>>
  BY <1>write DEF Set, cbVars
<1>set. /\ op[t] = "write" /\ current = old[t] /\ current' = o
        /\ o \in avail /\ avail' = avail \ {o}
  BY <1>write DEF Set
<1>free. /\ o # current /\ o \notin flushed /\ o \notin batch
         /\ \A u \in OvsThreads : o \notin cbset[u]
         /\ \A u \in Threads : old[u] # o
  BY <1>set DEF IInv, Fate
<1>control. Control'
  BY <1>same DEF IInv, Control
<1>owned. Owned'
  BY <1>same, <1>set, <1>free DEF IInv, Owned
<1>fate. Fate'
  BY <1>same, <1>set, <1>free DEF IInv, Fate
<1>readers. Readers'
  BY <1>same, <1>set DEF IInv, Readers
<1>grace. Grace'
  BY <1>same DEF IInv, Grace, ScanPassed, Victims
<1> QED
  BY <1>fate, <1>control, <1>owned, <1>readers, <1>grace

\* ovsrcu_postpone takes over a version that is no longer published.
LEMMA PostponeStep ==
  ASSUME Protocol, IInv, NEW t \in Threads, postpone(t)
  PROVE  Control' /\ Owned' /\ Fate' /\ Readers' /\ Grace'
<1>types. TypeOK
  BY DEF IInv
<1>same. UNCHANGED <<global, listed, seqno, target, flushed, batch, current, ref, avail>>
  BY DEF postpone
<1>usage. current # old[t]
  BY DEF postpone, MayPostpone, Protocol
<1>in. (\A u \in Threads : u \in OvsThreads /\ u # Urcu) /\ Urcu \in OvsThreads
  BY RcuAssumption DEF OvsThreads
<1>from. pc[t] = "run" /\ op[t] = "write" /\ old[t] # current /\ old[t] \in Objects
  BY <1>usage, <1>types DEF postpone, MayPostpone, IInv, Owned, TypeOK
<1>to. Goto(t, "flush", "postpone") \/ Goto(t, "run", "none")
  BY DEF postpone
<1>goto. \A u \in OvsThreads : u # t => pc'[u] = pc[u] /\ op'[u] = op[u]
  BY <1>types, <1>to, <1>in, GotoEffect
<1>pick. \/ pc'[t] = "flush" /\ op'[t] = "postpone"
         \/ pc'[t] = "run" /\ op'[t] = "none"
  BY <1>types, <1>to, <1>in, GotoEffect
<1>old. \A u \in Threads : old'[u] = IF u = t THEN Null ELSE old[u]
  BY <1>types, <1>usage DEF postpone, TypeOK
<1>cbset. \A u \in OvsThreads :
            cbset'[u] = IF u = t THEN cbset[u] \cup {old[t]} ELSE cbset[u]
  BY <1>types, <1>in DEF postpone, TypeOK
<1>others. \A u \in Threads : u # t => old[u] # old[t]
  BY <1>from, RcuAssumption DEF IInv, Owned
<1>control. Control'
  BY <1>goto, <1>pick, <1>from, <1>same DEF IInv, Control
<1>owned. Owned'
  BY <1>goto, <1>pick, <1>old, <1>from, <1>in, <1>same DEF IInv, Owned
<1>fate. Fate'
  <2> SUFFICES ASSUME NEW o \in Objects
               PROVE  /\ o \in avail =>
                           /\ o # current /\ o \notin flushed /\ o \notin batch
                           /\ \A u \in OvsThreads : o \notin cbset'[u]
                           /\ \A u \in Threads : old'[u] # o
                      /\ o = current \/ (\E u \in Threads : old'[u] = o) =>
                           /\ o \notin flushed /\ o \notin batch
                           /\ \A u \in OvsThreads : o \notin cbset'[u]
                      /\ o \in flushed =>
                           o \notin batch /\ \A u \in OvsThreads : o \notin cbset'[u]
                      /\ o \in batch => \A u \in OvsThreads : o \notin cbset'[u]
                      /\ \A u, v \in OvsThreads :
                           o \in cbset'[u] /\ o \in cbset'[v] => u = v
                      /\ \/ o \in avail \/ o = current \/ o \in flushed \/ o \in batch
                         \/ \E u \in OvsThreads : o \in cbset'[u]
                         \/ \E u \in Threads : old'[u] = o
    BY <1>same DEF Fate
  <2>old. \A u \in Threads : old'[u] = o <=> u # t /\ old[u] = o
    BY <1>old, RcuAssumption
  <2>self. CASE o = old[t]
    <3>was. /\ o \notin avail /\ o # current /\ o \notin flushed /\ o \notin batch
            /\ \A u \in OvsThreads : o \notin cbset[u]
      BY <2>self, <1>from DEF IInv, Fate
    <3>now. \A u \in OvsThreads : o \in cbset'[u] <=> u = t
      BY <2>self, <3>was, <1>cbset
    <3>gone. \A u \in Threads : old'[u] # o
      BY <2>self, <2>old, <1>others
    <3> QED
      BY <3>was, <3>now, <3>gone, <1>in
  <2>other. CASE o # old[t]
    <3>now. \A u \in OvsThreads : o \in cbset'[u] <=> o \in cbset[u]
      BY <2>other, <1>cbset
    <3>kept. \A u \in Threads : old'[u] = o <=> old[u] = o
      BY <2>other, <2>old
    <3> QED
      BY <3>now, <3>kept DEF IInv, Fate
  <2> QED
    BY <2>self, <2>other
<1>readers. Readers'
  BY <1>goto, <1>pick, <1>from, <1>in, <1>same DEF IInv, Readers
<1>grace. Grace'
  BY <1>goto, <1>pick, <1>old, <1>in, <1>same
     DEF IInv, Grace, ScanPassed, Victims, OvsThreads
<1> QED
  BY <1>fate, <1>control, <1>owned, <1>readers, <1>grace

\* xlate_txn_commit frees the old version after ovsrcu_synchronize.
LEMMA FreeStep ==
  ASSUME IInv, NEW t \in Threads, CommitFree(t)
  PROVE  Control' /\ Owned' /\ Fate' /\ Readers' /\ Grace'
<1>types. TypeOK
  BY DEF IInv
<1>same. UNCHANGED <<global, listed, seqno, target, cbset, flushed, batch, current, ref>>
  BY DEF CommitFree, cbVars
<1>in. (\A u \in Threads : u \in OvsThreads /\ u # Urcu) /\ Urcu \in OvsThreads
  BY RcuAssumption DEF OvsThreads
<1>from. pc[t] = "run" /\ op[t] = "synced" /\ old[t] # current /\ old[t] \in Objects
  BY <1>types DEF CommitFree, IInv, Owned, TypeOK
<1>goto. \A u \in OvsThreads :
           /\ pc'[u] = pc[u]
           /\ op'[u] = IF u = t THEN "none" ELSE op[u]
  BY <1>types, <1>in, <1>from, GotoEffect DEF CommitFree
<1>old. \A u \in Threads : old'[u] = IF u = t THEN Null ELSE old[u]
  BY <1>types DEF CommitFree, TypeOK
<1>avail. avail' = avail \cup {old[t]}
  BY DEF CommitFree
<1>others. \A u \in Threads : u # t => old[u] # old[t]
  BY <1>from, RcuAssumption DEF IInv, Owned
<1>unread. \A r \in Threads : ref[r] # Null => ref[r] # old[t]
  BY <1>from, <1>in DEF IInv, Grace, ScanPassed, Victims
<1>control. Control'
  BY <1>goto, <1>from, <1>same DEF IInv, Control
<1>owned. Owned'
  BY <1>goto, <1>old, <1>from, <1>in, <1>same DEF IInv, Owned
<1>fate. Fate'
  <2> SUFFICES ASSUME NEW o \in Objects
               PROVE  /\ o \in avail' =>
                           /\ o # current /\ o \notin flushed /\ o \notin batch
                           /\ \A u \in OvsThreads : o \notin cbset[u]
                           /\ \A u \in Threads : old'[u] # o
                      /\ o = current \/ (\E u \in Threads : old'[u] = o) =>
                           /\ o \notin flushed /\ o \notin batch
                           /\ \A u \in OvsThreads : o \notin cbset[u]
                      /\ o \in flushed =>
                           o \notin batch /\ \A u \in OvsThreads : o \notin cbset[u]
                      /\ o \in batch => \A u \in OvsThreads : o \notin cbset[u]
                      /\ \A u, v \in OvsThreads :
                           o \in cbset[u] /\ o \in cbset[v] => u = v
                      /\ \/ o \in avail' \/ o = current \/ o \in flushed \/ o \in batch
                         \/ \E u \in OvsThreads : o \in cbset[u]
                         \/ \E u \in Threads : old'[u] = o
    BY <1>same DEF Fate
  <2>old. \A u \in Threads : old'[u] = o <=> u # t /\ old[u] = o
    BY <1>old, RcuAssumption
  <2>self. CASE o = old[t]
    <3>was. /\ o # current /\ o \notin flushed /\ o \notin batch
            /\ \A u \in OvsThreads : o \notin cbset[u]
      BY <2>self, <1>from DEF IInv, Fate
    <3>now. o \in avail' /\ \A u \in Threads : old'[u] # o
      BY <2>self, <2>old, <1>others, <1>avail
    <3> QED
      BY <3>was, <3>now
  <2>other. CASE o # old[t]
    <3>now. /\ o \in avail' <=> o \in avail
            /\ \A u \in Threads : old'[u] = o <=> old[u] = o
      BY <2>other, <2>old, <1>avail
    <3> QED
      BY <3>now DEF IInv, Fate
  <2> QED
    BY <2>self, <2>other
<1>readers. Readers'
  BY <1>goto, <1>avail, <1>unread, <1>in, <1>same DEF IInv, Readers
<1>grace. Grace'
  BY <1>goto, <1>old, <1>in, <1>same
     DEF IInv, Grace, ScanPassed, Victims, OvsThreads
<1> QED
  BY <1>fate, <1>control, <1>owned, <1>readers, <1>grace

-----------------------------------------------------------------------------

\* Every step keeps the invariant.
LEMMA Inductive ==
  ASSUME Protocol, IInv, [Next]_vars PROVE IInv'
<1>types. TypeOK
  BY DEF IInv
<1>writers. \A t \in Writers : t \in Threads
  BY RcuAssumption
<1>in. Urcu \in OvsThreads /\ (\A u \in Threads : u \in OvsThreads) /\ Urcu \notin Threads
  BY RcuAssumption DEF OvsThreads
<1>stutter. CASE UNCHANGED vars
  <2>type. TypeOK'
    BY <1>stutter, <1>types DEF vars, TypeOK
  <2>control. Control' /\ Owned'
    BY <1>stutter DEF vars, IInv, Control, Owned
  <2>fate. Fate'
    BY <1>stutter, FateKept DEF vars, IInv
  <2>grace. Readers' /\ Grace'
    BY <1>stutter DEF vars, IInv, Readers, Grace, ScanPassed, Victims
  <2> QED
    BY <2>type, <2>control, <2>fate, <2>grace DEF IInv
<1>rcu. ASSUME NEW t \in OvsThreads, RcuStep(t)
        PROVE  IInv'
  <2>type. TypeOK'
    BY <1>rcu, <1>types, RcuTypes
  <2>rest. Control' /\ Owned' /\ Fate' /\ Readers' /\ Grace'
    BY <1>rcu, RegisterStep, InnerStep, FlushStep DEF RcuStep
  <2> QED
    BY <2>type, <2>rest DEF IInv
<1>quiesce. ASSUME NEW t \in Threads, quiesce(t)
            PROVE  IInv'
  <2>type. TypeOK'
    BY <1>quiesce, <1>types, CallTypes
  <2>to. PICK p \in {"flush", "change"} : Goto(t, p, "quiesce")
    BY <1>quiesce DEF quiesce, FlushFirst
  <2>rest. Control' /\ Owned' /\ Fate' /\ Readers' /\ Grace'
    BY <1>quiesce, <2>to, <1>in, QuiesceStep DEF quiesce, Runs
  <2> QED
    BY <2>type, <2>rest DEF IInv
<1>start. ASSUME NEW t \in Threads, quiesce_start(t)
          PROVE  IInv'
  <2>type. TypeOK'
    BY <1>start, <1>types, CallTypes
  <2>to. PICK p \in {"flush", "remove"} : Goto(t, p, "leave")
    BY <1>start DEF quiesce_start, FlushFirst
  <2>rest. Control' /\ Owned' /\ Fate' /\ Readers' /\ Grace'
    BY <1>start, <2>to, <1>in, LeaveStep DEF quiesce_start, Runs
  <2> QED
    BY <2>type, <2>rest DEF IInv
<1>urcu. ASSUME UrcuStep
         PROVE  IInv'
  <2>type. TypeOK'
    BY <1>urcu, <1>types, CallTypes
  <2>sync. ASSUME UrcuSynchronize
           PROVE  Control' /\ Owned' /\ Fate' /\ Readers' /\ Grace'
    <3>run. pc[Urcu] = "run" /\ op[Urcu] = "popped"
      BY <2>sync, <1>in, <1>types DEF UrcuSynchronize, IInv, Control, TypeOK
    <3> QED
      BY <2>sync, <3>run, <1>in, SyncStep DEF UrcuSynchronize
  <2>block. ASSUME UrcuBlock
            PROVE  Control' /\ Owned' /\ Fate' /\ Readers' /\ Grace'
    <3>run. pc[Urcu] = "run" /\ op[Urcu] = "empty"
      BY <2>block DEF UrcuBlock
    <3>now. CASE fnew
      BY <2>block, <3>run, <3>now, <1>in, QuiesceStep DEF UrcuBlock
    <3>sleep. CASE ~fnew
      BY <2>block, <3>run, <3>sleep, <1>in, LeaveStep DEF UrcuBlock
    <3> QED
      BY <3>now, <3>sleep
  <2>rest. Control' /\ Owned' /\ Fate' /\ Readers' /\ Grace'
    BY <1>urcu, <2>sync, <2>block, <1>in, UrcuCallbacks, InnerStep DEF UrcuStep
  <2> QED
    BY <2>type, <2>rest DEF IInv
<1>read. ASSUME NEW t \in Threads, Get(t) \/ Done(t)
         PROVE  IInv'
  BY <1>read, ClientTypes, ReadStep DEF IInv
<1>write. ASSUME NEW t \in Threads, WriteBegin(t) \/ WriteStep(t)
          PROVE  IInv'
  <2>begin. CASE WriteBegin(t)
    BY <2>begin, ClientTypes, BeginStep DEF IInv
  <2>set. ASSUME NEW o \in Objects, Set(t, o)
          PROVE  IInv'
    BY <2>set, ClientTypes, SetStep DEF IInv
  <2>postpone. CASE postpone(t)
    BY <2>postpone, ClientTypes, PostponeStep DEF IInv
  <2>sync. CASE CommitSynchronize(t)
    <3>type. TypeOK'
      BY <2>sync, <1>types, CallTypes
    <3>rest. Control' /\ Owned' /\ Fate' /\ Readers' /\ Grace'
      BY <2>sync, <1>in, SyncStep DEF CommitSynchronize
    <3> QED
      BY <3>type, <3>rest DEF IInv
  <2>free. CASE CommitFree(t)
    BY <2>free, ClientTypes, FreeStep DEF IInv
  <2> QED
    BY <1>write, <2>begin, <2>set, <2>postpone, <2>sync, <2>free DEF WriteStep
<1>all. Threads \cup Tasks = Threads
  BY DEF Protocol
<1> QED
  BY <1>stutter, <1>rcu, <1>quiesce, <1>start, <1>urcu, <1>read, <1>write,
     <1>writers, <1>all DEF Next

\* The threads of the switch start in the invariant.
LEMMA Initially ==
  ASSUME Init PROVE IInv
<1> USE RcuAssumption
<1>type. TypeOK
  <2>nums. 0 \in Seqnos /\ 1 \in Seqnos
    BY DEF Seqnos
  <2>num. global \in Seqnos /\ seqno \in [OvsThreads -> Seqnos]
                            /\ target \in [OvsThreads -> Seqnos]
    BY <2>nums DEF Init
  <2>sets. /\ cbset \in [OvsThreads -> SUBSET Objects] /\ flushed \subseteq Objects
           /\ batch \subseteq Objects /\ avail \subseteq Objects
           /\ listed \subseteq OvsThreads /\ fnew \in BOOLEAN
    BY DEF Init
  <2>places. /\ pc \in [OvsThreads -> Pcs] /\ op \in [OvsThreads -> Ops]
             /\ current \in Objects /\ old \in [Threads -> Objects \cup {Null}]
             /\ ref \in [Threads \cup Tasks -> Objects \cup {Null}]
    BY DEF Init, Pcs, Ops
  <2> QED
    BY <2>num, <2>sets, <2>places DEF TypeOK, Pcs, Ops
<1>control. Control
  BY DEF Init, Control
<1>owned. Owned
  BY DEF Init, Owned, OvsThreads
<1>fate. Fate
  BY DEF Init, Fate
<1>rest. Readers /\ Grace
  BY DEF Init, Readers, Grace
<1> QED
  BY <1>type, <1>control, <1>owned, <1>fate, <1>rest DEF IInv

\* ovs-rcu.c keeps the invariant, for every client that follows the protocol.
THEOREM RcuInvariant == ASSUME Protocol PROVE Spec => []IInv
<1>init. Init => IInv
  BY Initially
<1>step. IInv /\ [Next]_vars => IInv'
  BY Inductive
<1> QED
  BY <1>init, <1>step, PTL DEF Spec

\* Type correctness of the lists, numbers and callback sets.
THEOREM RcuTypeCorrect == ASSUME Protocol PROVE Spec => []TypeOK
<1>weaken. IInv => TypeOK
  BY DEF IInv
<1> QED
  BY RcuInvariant, <1>weaken, PTL

\* No thread reads a version after ovsrcu_call_postponed or xlate_txn_commit
\* freed it, for any number of threads, if readers are registered threads and
\* writers unlink a version before they retire it.
THEOREM GracePeriodsSafe == ASSUME Protocol PROVE Spec => []NoUseAfterFree
<1>weaken. IInv => NoUseAfterFree
  BY InvariantSuffices
<1> QED
  BY RcuInvariant, <1>weaken, PTL

\* A version is never freed twice and its callback is never lost.
THEOREM CallbacksKept == ASSUME Protocol PROVE Spec => []OneFate
<1>weaken. IInv => OneFate
  BY InvariantSuffices
<1> QED
  BY RcuInvariant, <1>weaken, PTL

=============================================================================
