----------------------------- MODULE FatRwlock -----------------------------
(***************************************************************************)
(* The reader-writer lock of lib/fat-rwlock.c.  Every thread that uses it  *)
(* has a slot with a mutex of its own; a reader takes that one, a writer   *)
(* takes the lock's mutex and then the mutex of every slot.                *)
(*                                                                         *)
(* A section between locking and unlocking rwlock->mutex that does not     *)
(* block is one step.  The list of slots is guarded by that mutex, so the  *)
(* writer that walks it sees it fixed; it may lock the slots in any order. *)
(***************************************************************************)
EXTENDS Integers

CONSTANTS
  Threads,
  NULL,
  MaxDepth   \* bound on the recursion of the read-lock

VARIABLES
  listed,    \* the threads that have a slot in rwlock->threads
  mutex,     \* the owner of rwlock->mutex
  slot,      \* slot[t]: the owner of the mutex of t's slot
  depth,     \* depth[t]: slot->depth
  pc         \* where each thread is

vars == <<listed, mutex, slot, depth, pc>>

\* UINT_MAX, the depth of a writer, is (unsigned int) -1.
UINT_MAX == -1

\* "out" is outside the lock's functions, "gone" a thread that has exited.
Pcs == {"out", "rd_slot", "rd", "try", "wr_slot", "wr_mutex", "wr", "un", "exit", "gone"}

Goto(t, p) == pc' = [pc EXCEPT ![t] = p]

-----------------------------------------------------------------------------
(* fat_rwlock_init *)
Init ==
  /\ listed = {}
  /\ mutex = NULL
  /\ slot = [t \in Threads |-> NULL]
  /\ depth = [t \in Threads |-> 0]
  /\ pc = [t \in Threads |-> "out"]

\* fat_rwlock_get_slot__, when the thread has none: rwlock->mutex is locked
\* while the slot is put in the list.
get_slot(t, from, to) ==
  /\ pc[t] = from
  /\ \/ t \in listed /\ listed' = listed
     \/ t \notin listed /\ mutex = NULL /\ listed' = listed \cup {t}
  /\ Goto(t, to)

\* A call of fat_rwlock_rdlock; the code aborts if the thread is the writer.
rdlock(t) ==
  /\ pc[t] = "out"
  /\ depth[t] \in 0 .. MaxDepth - 1
  /\ Goto(t, "rd_slot")
  /\ UNCHANGED <<listed, mutex, slot, depth>>

rdlock_slot(t) ==
  /\ get_slot(t, "rd_slot", "rd")
  /\ UNCHANGED <<mutex, slot, depth>>

\* The switch of fat_rwlock_rdlock and, when it need not block, of
\* fat_rwlock_tryrdlock.
Deepen(t) ==
  /\ \/ depth[t] = 0 /\ slot[t] = NULL /\ slot' = [slot EXCEPT ![t] = t]
     \/ depth[t] > 0 /\ slot' = slot
  /\ depth' = [depth EXCEPT ![t] = @ + 1]

rdlock_switch(t) ==
  /\ pc[t] = "rd"
  /\ Deepen(t)
  /\ Goto(t, "out")
  /\ UNCHANGED <<listed, mutex>>

\* fat_rwlock_tryrdlock: it does not wait for rwlock->mutex to make a slot.
tryrdlock(t) ==
  /\ pc[t] = "out"
  /\ depth[t] < MaxDepth
  /\ t \notin listed => mutex = NULL
  /\ listed' = listed \cup {t}
  /\ Goto(t, "try")
  /\ UNCHANGED <<mutex, slot, depth>>

tryrdlock_switch(t) ==
  /\ pc[t] = "try"
  /\ \/ Deepen(t)
     \/ /\ depth[t] = UINT_MAX \/ (depth[t] = 0 /\ slot[t] # NULL)  \* EBUSY
        /\ UNCHANGED <<slot, depth>>
  /\ Goto(t, "out")
  /\ UNCHANGED <<listed, mutex>>

\* fat_rwlock_wrlock asserts that the thread has no lock.
wrlock(t) ==
  /\ pc[t] = "out"
  /\ depth[t] = 0
  /\ Goto(t, "wr_slot")
  /\ UNCHANGED <<listed, mutex, slot, depth>>

wrlock_slot(t) ==
  /\ get_slot(t, "wr_slot", "wr_mutex")
  /\ depth' = [depth EXCEPT ![t] = UINT_MAX]
  /\ UNCHANGED <<mutex, slot>>

\* A plausible bug: the slots are locked without rwlock->mutex.
wrlock_mutex_NotLocked(t) ==
  /\ pc[t] = "wr_mutex"
  /\ Goto(t, "wr")
  /\ UNCHANGED <<listed, mutex, slot, depth>>

wrlock_mutex(t) ==
  /\ pc[t] = "wr_mutex"
  /\ mutex = NULL
  /\ mutex' = t
  /\ Goto(t, "wr")
  /\ UNCHANGED <<listed, slot, depth>>

wrlock_next(t, s) ==
  /\ pc[t] = "wr"
  /\ s \in listed
  /\ slot[s] = NULL
  /\ slot' = [slot EXCEPT ![s] = t]
  /\ UNCHANGED <<listed, mutex, depth, pc>>

\* A plausible bug: the walk leaves out the slots that are not locked for
\* reading when it meets them.
wrlock_return_FreeSlots(t) ==
  /\ pc[t] = "wr"
  /\ slot[t] = t
  /\ \A s \in listed : slot[s] \in {t, NULL}
  /\ Goto(t, "out")
  /\ UNCHANGED <<listed, mutex, slot, depth>>

wrlock_return(t) ==
  /\ pc[t] = "wr"
  /\ \A s \in listed : slot[s] = t
  /\ Goto(t, "out")
  /\ UNCHANGED <<listed, mutex, slot, depth>>

\* fat_rwlock_unlock of the read-lock.
rdunlock(t) ==
  /\ pc[t] = "out"
  /\ depth[t] > 0
  /\ slot' = IF depth[t] = 1 THEN [slot EXCEPT ![t] = NULL] ELSE slot
  /\ depth' = [depth EXCEPT ![t] = @ - 1]
  /\ UNCHANGED <<listed, mutex, pc>>

\* fat_rwlock_unlock of the write-lock: the slots, one by one, then the mutex.
wrunlock(t) ==
  /\ pc[t] = "out"
  /\ depth[t] = UINT_MAX
  /\ Goto(t, "un")
  /\ UNCHANGED <<listed, mutex, slot, depth>>

wrunlock_next(t, s) ==
  /\ pc[t] = "un"
  /\ s \in listed
  /\ slot[s] = t
  /\ slot' = [slot EXCEPT ![s] = NULL]
  /\ UNCHANGED <<listed, mutex, depth, pc>>

wrunlock_return(t) ==
  /\ pc[t] = "un"
  /\ \A s \in listed : slot[s] # t
  /\ mutex' = NULL
  /\ depth' = [depth EXCEPT ![t] = 0]
  /\ Goto(t, "out")
  /\ UNCHANGED <<listed, slot>>

\* The thread exits; slot_destructor aborts if it has a lock.
Exit(t) ==
  /\ pc[t] = "out"
  /\ depth[t] = 0
  /\ Goto(t, IF t \in listed THEN "exit" ELSE "gone")
  /\ UNCHANGED <<listed, mutex, slot, depth>>

slot_destructor(t) ==
  /\ pc[t] = "exit"
  /\ mutex = NULL
  /\ listed' = listed \ {t}
  /\ Goto(t, "gone")
  /\ UNCHANGED <<mutex, slot, depth>>

\* fat_rwlock_destroy, and fat_rwlock_init at the same address: no thread may
\* use the lock, but the slots of those that did are still there.
fat_rwlock_destroy ==
  /\ \A t \in Threads : pc[t] \in {"out", "gone"} /\ depth[t] = 0
  /\ listed' = {}
  /\ UNCHANGED <<mutex, slot, depth, pc>>

Step(t) ==
  \/ rdlock(t) \/ rdlock_slot(t) \/ rdlock_switch(t)
  \/ tryrdlock(t) \/ tryrdlock_switch(t)
  \/ wrlock(t) \/ wrlock_slot(t) \/ wrlock_mutex(t) \/ wrlock_return(t)
  \/ \E s \in Threads : wrlock_next(t, s) \/ wrunlock_next(t, s)
  \/ rdunlock(t) \/ wrunlock(t) \/ wrunlock_return(t)
  \/ Exit(t) \/ slot_destructor(t)

Next == (\E t \in Threads : Step(t)) \/ fat_rwlock_destroy

Spec == Init /\ [][Next]_vars

-----------------------------------------------------------------------------

TypeOK ==
  /\ listed \subseteq Threads
  /\ mutex \in Threads \cup {NULL}
  /\ slot \in [Threads -> Threads \cup {NULL}]
  /\ depth \in [Threads -> Int]
  /\ \A t \in Threads : depth[t] >= UINT_MAX
  /\ pc \in [Threads -> Pcs]

Reading(t) == depth[t] > 0

Writing(t) == depth[t] = UINT_MAX /\ pc[t] = "out"

\* While fat_rwlock_wrlock has given the write-lock to a thread, no other has
\* the read-lock or the write-lock, whatever slots were made meanwhile.
WriterIsAlone ==
  \A t, u \in Threads : Writing(t) /\ t # u => ~Reading(u) /\ ~Writing(u)

\* The threads that t waits for, blocked in ovs_mutex_lock.
WaitsFor(t) ==
  {u \in Threads \ {t} :
    \/ pc[t] \in {"rd_slot", "wr_slot"} /\ t \notin listed /\ mutex = u
    \/ pc[t] \in {"wr_mutex", "exit"} /\ mutex = u
    \/ pc[t] = "rd" /\ depth[t] = 0 /\ slot[t] = u
    \/ pc[t] = "wr" /\ \E s \in listed : slot[s] = u}

\* No two threads wait for each other: who blocks in one of the lock's
\* functions waits for a thread that waits for none, or for a writer that is
\* collecting slots and waits for such threads only.
NoCircularWait ==
  \A t \in Threads : \A u \in WaitsFor(t) :
    \/ WaitsFor(u) = {}
    \/ mutex = u /\ pc[u] = "wr" /\ \A v \in WaitsFor(u) : WaitsFor(v) = {}

=============================================================================
