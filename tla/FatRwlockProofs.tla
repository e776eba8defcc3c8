-------------------------- MODULE FatRwlockProofs --------------------------
(***************************************************************************)
(* The fat_rwlock excludes, for any number of threads and any recursion.   *)
(***************************************************************************)
EXTENDS FatRwlock, TLAPS

\* From the end of wrlock_mutex to wrunlock_return.
InWrite(t) == pc[t] \in {"wr", "un"} \/ (pc[t] \in {"out", "try"} /\ depth[t] = UINT_MAX)

\* What the depth says of where the thread is.
DepthTells ==
  \A t \in Threads :
    /\ pc[t] \in {"wr_mutex", "wr", "un"} => depth[t] = UINT_MAX
    /\ pc[t] \in {"rd_slot", "rd"} => depth[t] >= 0
    /\ pc[t] \in {"wr_slot", "exit", "gone"} => depth[t] = 0

\* The writer owns rwlock->mutex: no slot is made or destroyed meanwhile.
WriterHasMutex == \A t \in Threads : InWrite(t) => mutex = t

\* A reader owns the mutex of its slot, which is in the list.
ReaderHasSlot ==
  \A t \in Threads :
    /\ depth[t] > 0 => t \in listed /\ slot[t] = t
    /\ pc[t] \in {"rd", "try"} => t \in listed

\* The writer owns the mutex of every slot in the list.
WriterHasSlots ==
  \A t \in Threads :
    pc[t] \in {"out", "try"} /\ depth[t] = UINT_MAX => \A s \in listed : slot[s] = t

\* Nobody else owns a mutex: rwlock->mutex has a writer, and a slot's mutex
\* the reader whose slot it is, or that writer.
OwnersKnown ==
  /\ \A t \in Threads : mutex = t => InWrite(t)
  /\ \A s, t \in Threads :
       slot[s] = t => s \in listed /\ ((s = t /\ depth[t] > 0) \/ mutex = t)

\* The inductive invariant.
IInv ==
  TypeOK /\ DepthTells /\ WriterHasMutex /\ ReaderHasSlot /\ WriterHasSlots /\ OwnersKnown

\* The invariant gives exclusion: a reader's slot would have two owners.
LEMMA InvExcludes == IInv => WriterIsAlone
<1> SUFFICES ASSUME IInv, NEW t \in Threads, NEW u \in Threads, Writing(t), t # u
             PROVE  ~Reading(u) /\ ~Writing(u)
  BY DEF WriterIsAlone
<1>1. ~Reading(u)
  BY DEF IInv, ReaderHasSlot, WriterHasSlots, Reading, Writing
<1>2. ~Writing(u)
  BY DEF IInv, WriterHasMutex, InWrite, Writing
<1> QED BY <1>1, <1>2

\* It also gives the order of waiting: who owns a mutex is a reader, which
\* waits for nothing, or the one writer, which waits for readers at most.
LEMMA InvOrdersWaiting ==
  ASSUME NULL \notin Threads, IInv PROVE NoCircularWait
<1>reader. ASSUME NEW u \in Threads, depth[u] > 0 PROVE WaitsFor(u) = {}
  BY <1>reader DEF IInv, TypeOK, DepthTells, ReaderHasSlot, WaitsFor, UINT_MAX
<1>owner. ASSUME NEW t \in Threads, NEW u \in WaitsFor(t) PROVE depth[u] > 0 \/ mutex = u
  BY <1>owner DEF IInv, TypeOK, OwnersKnown, WaitsFor
<1>writer. ASSUME NEW u \in Threads, mutex = u, pc[u] # "wr" PROVE WaitsFor(u) = {}
  BY <1>writer DEF IInv, TypeOK, OwnersKnown, InWrite, WaitsFor, UINT_MAX
<1>slots. ASSUME NEW u \in Threads, mutex = u, NEW v \in WaitsFor(u) PROVE depth[v] > 0
  BY <1>slots, <1>owner DEF WaitsFor
<1> QED BY <1>reader, <1>owner, <1>writer, <1>slots DEF NoCircularWait, WaitsFor

\* The lock as fat_rwlock_init leaves it.
LEMMA InitInv ==
  ASSUME NULL \notin Threads PROVE Init => IInv
  BY DEF Init, IInv, TypeOK, DepthTells, WriterHasMutex, ReaderHasSlot,
         WriterHasSlots, OwnersKnown, InWrite, UINT_MAX, Pcs

\* The calls that touch no mutex but, for a new slot, rwlock->mutex.
LEMMA CallsKeepInv ==
  ASSUME NULL \notin Threads, IInv, NEW t \in Threads,
         \/ rdlock(t) \/ rdlock_slot(t) \/ tryrdlock(t)
         \/ wrlock(t) \/ wrlock_slot(t) \/ Exit(t) \/ slot_destructor(t)
  PROVE  IInv'
<1> USE DEF IInv, UINT_MAX
<1>1. TypeOK'
  BY DEF TypeOK, Pcs, Goto, get_slot, rdlock, rdlock_slot, tryrdlock,
         wrlock, wrlock_slot, Exit, slot_destructor
<1>2. DepthTells'
  BY DEF TypeOK, DepthTells, Pcs, Goto, get_slot, rdlock, rdlock_slot, tryrdlock,
         wrlock, wrlock_slot, Exit, slot_destructor
<1>3. WriterHasMutex'
  BY DEF TypeOK, DepthTells, WriterHasMutex, InWrite, Pcs, Goto, get_slot, rdlock,
         rdlock_slot, tryrdlock, wrlock, wrlock_slot, Exit, slot_destructor
<1>4. ReaderHasSlot'
  BY DEF TypeOK, DepthTells, ReaderHasSlot, Pcs, Goto, get_slot, rdlock,
         rdlock_slot, tryrdlock, wrlock, wrlock_slot, Exit, slot_destructor
<1>5. WriterHasSlots'
  BY DEF TypeOK, DepthTells, WriterHasMutex, WriterHasSlots, InWrite, Pcs, Goto,
         get_slot, rdlock, rdlock_slot, tryrdlock, wrlock, wrlock_slot, Exit,
         slot_destructor
<1>6. OwnersKnown'
  BY DEF TypeOK, DepthTells, OwnersKnown, InWrite, Pcs, Goto, get_slot, rdlock,
         rdlock_slot, tryrdlock, wrlock, wrlock_slot, Exit, slot_destructor
<1> QED BY <1>1, <1>2, <1>3, <1>4, <1>5, <1>6

\* A reader takes and gives back the mutex of its own slot: it cannot while a
\* writer has it.
LEMMA ReadersKeepInv ==
  ASSUME NULL \notin Threads, IInv, NEW t \in Threads,
         rdlock_switch(t) \/ tryrdlock_switch(t) \/ rdunlock(t)
  PROVE  IInv'
<1> USE DEF IInv, UINT_MAX
<1>1. TypeOK'
  BY DEF TypeOK, Pcs, Goto, Deepen, rdlock_switch, tryrdlock_switch, rdunlock
<1>2. DepthTells'
  BY DEF TypeOK, DepthTells, Pcs, Goto, Deepen, rdlock_switch, tryrdlock_switch,
         rdunlock
<1>3. WriterHasMutex'
  BY DEF TypeOK, DepthTells, WriterHasMutex, InWrite, Pcs, Goto, Deepen,
         rdlock_switch, tryrdlock_switch, rdunlock
<1>4. ReaderHasSlot'
  BY DEF TypeOK, DepthTells, ReaderHasSlot, Pcs, Goto, Deepen, rdlock_switch,
         tryrdlock_switch, rdunlock
<1>5. WriterHasSlots'
  BY DEF TypeOK, DepthTells, ReaderHasSlot, WriterHasSlots, Pcs, Goto, Deepen,
         rdlock_switch, tryrdlock_switch, rdunlock
<1>6. OwnersKnown'
  BY DEF TypeOK, DepthTells, ReaderHasSlot, OwnersKnown, InWrite, Pcs, Goto, Deepen,
         rdlock_switch, tryrdlock_switch, rdunlock
<1> QED BY <1>1, <1>2, <1>3, <1>4, <1>5, <1>6

\* A writer collects the slots, has them all, and gives them back.
LEMMA WritersKeepInv ==
  ASSUME NULL \notin Threads, IInv, NEW t \in Threads,
         \/ wrlock_mutex(t) \/ wrlock_return(t) \/ wrunlock(t) \/ wrunlock_return(t)
         \/ \E s \in Threads : wrlock_next(t, s) \/ wrunlock_next(t, s)
  PROVE  IInv'
<1> USE DEF IInv, UINT_MAX
<1>1. TypeOK'
  BY DEF TypeOK, Pcs, Goto, wrlock_mutex, wrlock_return, wrunlock, wrunlock_return,
         wrlock_next, wrunlock_next
<1>2. DepthTells'
  BY DEF TypeOK, DepthTells, Pcs, Goto, wrlock_mutex, wrlock_return, wrunlock,
         wrunlock_return, wrlock_next, wrunlock_next
<1>3. WriterHasMutex'
  BY DEF TypeOK, DepthTells, WriterHasMutex, InWrite, Pcs, Goto, wrlock_mutex,
         wrlock_return, wrunlock, wrunlock_return, wrlock_next, wrunlock_next
<1>4. ReaderHasSlot'
  BY DEF TypeOK, DepthTells, ReaderHasSlot, Pcs, Goto, wrlock_mutex, wrlock_return,
         wrunlock, wrunlock_return, wrlock_next, wrunlock_next
<1>5. WriterHasSlots'
  BY DEF TypeOK, DepthTells, WriterHasMutex, WriterHasSlots, InWrite, Pcs, Goto,
         wrlock_mutex, wrlock_return, wrunlock, wrunlock_return, wrlock_next,
         wrunlock_next
<1>6. OwnersKnown'
  <2>1. CASE wrunlock_return(t)
    BY <2>1 DEF TypeOK, DepthTells, WriterHasMutex, OwnersKnown, InWrite, Pcs, Goto,
                wrunlock_return
  <2>2. CASE ~wrunlock_return(t)
    BY <2>2 DEF TypeOK, DepthTells, WriterHasMutex, OwnersKnown, InWrite, Pcs, Goto,
                wrlock_mutex, wrlock_return, wrunlock, wrlock_next, wrunlock_next
  <2> QED BY <2>1, <2>2
<1> QED BY <1>1, <1>2, <1>3, <1>4, <1>5, <1>6

\* Destroying the lock, which nobody uses, and making it again.
LEMMA DestroyKeepsInv ==
  ASSUME IInv, fat_rwlock_destroy
  PROVE  IInv'
  BY DEF IInv, TypeOK, DepthTells, WriterHasMutex, ReaderHasSlot, WriterHasSlots,
         OwnersKnown, InWrite, UINT_MAX, Pcs, fat_rwlock_destroy

\* The invariant of fat-rwlock.c: what the mutexes and the depths say of each
\* other holds at every step of every thread.
THEOREM RwlockInvariant == ASSUME NULL \notin Threads PROVE Spec => []IInv
<1>1. Init => IInv
  BY InitInv
<1>2. IInv /\ [Next]_vars => IInv'
  <2> SUFFICES ASSUME IInv, [Next]_vars PROVE IInv'
    OBVIOUS
  <2>1. CASE UNCHANGED vars
    BY <2>1 DEF vars, IInv, TypeOK, DepthTells, WriterHasMutex, ReaderHasSlot,
                WriterHasSlots, OwnersKnown, InWrite
  <2>2. ASSUME NEW t \in Threads, Step(t) PROVE IInv'
    BY <2>2, CallsKeepInv, ReadersKeepInv, WritersKeepInv DEF Step
  <2>3. CASE fat_rwlock_destroy
    BY <2>3, DestroyKeepsInv
  <2> QED BY <2>1, <2>2, <2>3 DEF Next
<1> QED BY <1>1, <1>2, PTL DEF Spec

\* fat_rwlock_wrlock gives the write-lock to a thread only while no other has
\* the read-lock or the write-lock, however many threads there are.
THEOREM WriterExcludes == ASSUME NULL \notin Threads PROVE Spec => []WriterIsAlone
  BY RwlockInvariant, InvExcludes, PTL

\* The threads that block in fat-rwlock.c never wait for each other in a
\* circle: a writer waits for readers only, and a reader for nobody.
THEOREM WaitingIsOrdered == ASSUME NULL \notin Threads PROVE Spec => []NoCircularWait
<1>1. IInv => NoCircularWait
  BY InvOrdersWaiting
<1> QED BY <1>1, RwlockInvariant, PTL

=============================================================================
