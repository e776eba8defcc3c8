------------------------------ MODULE MsgQueue ------------------------------
(***************************************************************************)
(* The task message queue of ofproto/lnx_msq.c: a ring of queuesize + 1    *)
(* slots, guarded by one mutex and one condition variable.  Any thread may *)
(* send (srv_msq_snd); the queue is drained by the task that owns it       *)
(* (srv_msq_rcv).                                                          *)
(*                                                                         *)
(* The code between a lock and the matching unlock is one action.          *)
(* srv_msq_rcv releases and retakes the mutex between the emptiness test   *)
(* and the removal, so it is two actions, and the state in between is a    *)
(* control point of its own.                                               *)
(***************************************************************************)
EXTENDS Integers, Sequences, MsgQueueConfig

VARIABLES
  front,  \* index of the oldest message
  rear,   \* index of the first free slot
  pMsg,   \* the ring
  pc,     \* where each receiver is in srv_msq_rcv
  got     \* the last message each receiver was given

vars == <<front, rear, pMsg, pc, got>>

-----------------------------------------------------------------------------

\* pstQueue->size: one slot more than the capacity, so that a full ring and
\* an empty one differ.
size == QueueSize + 1

Slots == 0 .. QueueSize

Succ(i) == (i + 1) % size

\* The slot that is j places after slot f.
Slot(f, j) == (f + j) % size

IsEmpty == front = rear

IsFull == Succ(rear) = front

\* How far slot r is after slot f.
Distance(f, r) == (r - f + size) % size

\* The messages of ring p from slot f up to slot r, oldest first.
RingSeq(p, f, r) == [i \in 1 .. Distance(f, r) |-> p[Slot(f, i - 1)]]

Count == Distance(front, rear)

Contents == RingSeq(pMsg, front, rear)

-----------------------------------------------------------------------------

\* srv_msq_create: malloc leaves the slots uninitialised.
Init ==
  /\ front = 0
  /\ rear = 0
  /\ pMsg = [i \in Slots |-> NoMsg]
  /\ pc = [r \in Receivers |-> "test"]
  /\ got = [r \in Receivers |-> NoMsg]

\* Mutant of pthread_cond_signal: nobody is woken.
SignalNobody == UNCHANGED pc

\* pthread_cond_signal wakes one of the waiting threads, if there is one.
pthread_cond_signal ==
  \/ \E r \in Receivers : pc[r] = "wait" /\ pc' = [pc EXCEPT ![r] = "test"]
  \/ (\A r \in Receivers : pc[r] # "wait") /\ UNCHANGED pc

\* Mutant of srv_msq_snd: the test for a full ring is gone.
SndUntested(m) ==
  /\ pMsg' = [pMsg EXCEPT ![rear] = m]
  /\ rear' = Succ(rear)
  /\ pthread_cond_signal
  /\ UNCHANGED <<front, got>>

\* srv_msq_snd of message m.  When the ring is full the call returns SRV_ERR
\* and the queue stays as it is: a stuttering step.
srv_msq_snd(m) ==
  /\ ~IsFull
  /\ pMsg' = [pMsg EXCEPT ![rear] = m]
  /\ rear' = Succ(rear)
  /\ pthread_cond_signal
  /\ UNCHANGED <<front, got>>

\* srv_msq_rcv up to the first unlock: wait while the ring is empty.
srv_msq_rcv_test(r) ==
  /\ pc[r] = "test"
  /\ pc' = [pc EXCEPT ![r] = IF IsEmpty THEN "wait" ELSE "take"]
  /\ UNCHANGED <<front, rear, pMsg, got>>

\* srv_msq_rcv from the second lock on: take the slot at front, untested.
\* The receiving task then calls srv_msq_rcv again.
srv_msq_rcv_take(r) ==
  /\ pc[r] = "take"
  /\ got' = [got EXCEPT ![r] = pMsg[front]]
  /\ front' = Succ(front)
  /\ pc' = [pc EXCEPT ![r] = "test"]
  /\ UNCHANGED <<rear, pMsg>>

\* pthread_cond_wait may return although nobody signalled; the while loop
\* around it then tests again.
SpuriousWakeup(r) ==
  /\ pc[r] = "wait"
  /\ pc' = [pc EXCEPT ![r] = "test"]
  /\ UNCHANGED <<front, rear, pMsg, got>>

Next ==
  \/ \E m \in Msgs : srv_msq_snd(m)
  \/ \E r \in Receivers :
       \/ srv_msq_rcv_test(r)
       \/ srv_msq_rcv_take(r)
       \/ SpuriousWakeup(r)

Spec == Init /\ [][Next]_vars

-----------------------------------------------------------------------------

\* The indices stay inside the ring and the slots hold messages.
TypeOK ==
  /\ front \in Slots
  /\ rear \in Slots
  /\ pMsg \in [Slots -> Msgs \cup {NoMsg}]
  /\ pc \in [Receivers -> {"test", "wait", "take"}]
  /\ got \in [Receivers -> Msgs \cup {NoMsg}]

\* The removal in srv_msq_rcv, made after the mutex was released and without
\* testing again, still finds a message.
TakeFindsMessage == \A r \in Receivers : pc[r] = "take" => ~IsEmpty

\* No wakeup is lost: a receiver is asleep in pthread_cond_wait only while
\* the ring is empty.
SleepsOnlyWhenEmpty == \A r \in Receivers : pc[r] = "wait" => IsEmpty

Fifo == INSTANCE BoundedFifo WITH queue <- Contents, Capacity <- QueueSize

\* The ring with its untested removal implements a bounded first-in first-out
\* queue: srv_msq_rcv returns what srv_msq_snd stored, in order, once each.
ImplementsFifo == Fifo!Spec
=============================================================================
