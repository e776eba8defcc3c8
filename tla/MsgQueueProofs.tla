--------------------------- MODULE MsgQueueProofs ---------------------------
(***************************************************************************)
(* For every queue size and every set of messages: the ring of lnx_msq.c   *)
(* never underflows, no receiver sleeps on a message, and the ring         *)
(* implements BoundedFifo.                                                 *)
(*                                                                         *)
(* The argument: indices are in the ring (TypeOK); a receiver between the  *)
(* two critical sections of srv_msq_rcv has seen a message that nobody     *)
(* else can remove, because the queue has one receiver, and a sender       *)
(* cannot close the ring on it, because it keeps one slot free.            *)
(***************************************************************************)
EXTENDS MsgQueue, SequenceTheorems, TLAPS

-----------------------------------------------------------------------------
(* Index arithmetic modulo the size of the ring.                           *)

\* The index that srv_msq_snd and srv_msq_rcv compute stays in the ring.
LEMMA SuccValue ==
  ASSUME NEW i \in Slots
  PROVE  /\ Succ(i) \in Slots
         /\ Succ(i) = IF i = QueueSize THEN 0 ELSE i + 1
BY MsgQueueAssumption DEF Succ, Slots, size

\* A place at most one turn after a slot is that slot's offset, wrapped once.
LEMMA SlotValue ==
  ASSUME NEW f \in Slots, NEW j \in Slots
  PROVE  /\ Slot(f, j) \in Slots
         /\ Slot(f, j) = IF f + j <= QueueSize THEN f + j ELSE f + j - size
BY MsgQueueAssumption DEF Slot, Slots, size

\* The distance from f to r round the ring.
LEMMA DistanceValue ==
  ASSUME NEW f \in Slots, NEW r \in Slots
  PROVE  /\ Distance(f, r) \in Slots
         /\ Distance(f, r) = IF f <= r THEN r - f ELSE r - f + size
BY MsgQueueAssumption DEF Distance, Slots, size

\* Moving rear on makes the ring one message longer, unless it was full.
LEMMA DistanceRear ==
  ASSUME NEW f \in Slots, NEW r \in Slots, Succ(r) # f
  PROVE  Distance(f, Succ(r)) = Distance(f, r) + 1 /\ Distance(f, r) < QueueSize
<1>succ. Succ(r) \in Slots /\ Succ(r) = IF r = QueueSize THEN 0 ELSE r + 1
  BY SuccValue
<1>old. Distance(f, r) = IF f <= r THEN r - f ELSE r - f + size
  BY DistanceValue
<1>new. Distance(f, Succ(r)) = IF f <= Succ(r) THEN Succ(r) - f ELSE Succ(r) - f + size
  BY <1>succ, DistanceValue
<1> QED
  BY MsgQueueAssumption, <1>succ, <1>old, <1>new DEF Slots, size

\* Moving front on makes it one message shorter, unless it was empty.
LEMMA DistanceFront ==
  ASSUME NEW f \in Slots, NEW r \in Slots, f # r
  PROVE  Distance(Succ(f), r) = Distance(f, r) - 1 /\ Distance(f, r) > 0
<1>succ. Succ(f) \in Slots /\ Succ(f) = IF f = QueueSize THEN 0 ELSE f + 1
  BY SuccValue
<1>old. Distance(f, r) = IF f <= r THEN r - f ELSE r - f + size
  BY DistanceValue
<1>new. Distance(Succ(f), r) = IF Succ(f) <= r THEN r - Succ(f) ELSE r - Succ(f) + size
  BY <1>succ, DistanceValue
<1> QED
  BY MsgQueueAssumption, <1>succ, <1>old, <1>new DEF Slots, size

\* The slots of the messages between f and r are not r.
LEMMA SlotBeforeRear ==
  ASSUME NEW f \in Slots, NEW r \in Slots, NEW j \in 0 .. Distance(f, r) - 1
  PROVE  Slot(f, j) \in Slots \ {r}
<1>dist. /\ Distance(f, r) \in Slots
         /\ Distance(f, r) = IF f <= r THEN r - f ELSE r - f + size
  BY DistanceValue
<1>j. j \in Slots
  BY MsgQueueAssumption, <1>dist DEF Slots
<1>slot. /\ Slot(f, j) \in Slots
         /\ Slot(f, j) = IF f + j <= QueueSize THEN f + j ELSE f + j - size
  BY <1>j, SlotValue
<1> QED
  BY MsgQueueAssumption, <1>dist, <1>j, <1>slot DEF Slots, size

\* The slot after the last message is r.
LEMMA SlotAtRear ==
  ASSUME NEW f \in Slots, NEW r \in Slots
  PROVE  Slot(f, Distance(f, r)) = r
<1> DEFINE d == Distance(f, r)
<1>dist. d \in Slots /\ d = IF f <= r THEN r - f ELSE r - f + size
  BY DistanceValue
<1> HIDE DEF d
<1>slot. Slot(f, d) = IF f + d <= QueueSize THEN f + d ELSE f + d - size
  BY <1>dist, SlotValue
<1> QED
  BY MsgQueueAssumption, <1>dist, <1>slot DEF Slots, size, d

\* Counting from the next slot is counting one place further.
LEMMA SlotAfterSucc ==
  ASSUME NEW f \in Slots, NEW j \in Slots, j # QueueSize
  PROVE  Slot(Succ(f), j) = Slot(f, j + 1)
<1>next. j + 1 \in Slots
  BY MsgQueueAssumption DEF Slots
<1>succ. Succ(f) \in Slots /\ Succ(f) = IF f = QueueSize THEN 0 ELSE f + 1
  BY SuccValue
<1>here. Slot(f, j + 1) = IF f + (j + 1) <= QueueSize THEN f + (j + 1) ELSE f + (j + 1) - size
  BY <1>next, SlotValue
<1>there. Slot(Succ(f), j) = IF Succ(f) + j <= QueueSize THEN Succ(f) + j ELSE Succ(f) + j - size
  BY <1>succ, SlotValue
<1> QED
  BY MsgQueueAssumption, <1>succ, <1>here, <1>there DEF Slots, size

-----------------------------------------------------------------------------
(* Type correctness.                                                       *)

\* The state stays well formed: no step of lnx_msq.c leaves the ring.
THEOREM TypeCorrect == Spec => []TypeOK
<1>init. Init => TypeOK
  BY MsgQueueAssumption DEF Init, TypeOK, Slots
<1>step. ASSUME TypeOK, [Next]_vars
         PROVE  TypeOK'
  <2>snd. CASE \E m \in Msgs : srv_msq_snd(m)
    <3> PICK m \in Msgs : srv_msq_snd(m)
      BY <2>snd
    <3> QED
      BY <1>step, SuccValue DEF TypeOK, srv_msq_snd, pthread_cond_signal
  <2>rcv. CASE \E r \in Receivers : srv_msq_rcv_take(r)
    <3> PICK r \in Receivers : srv_msq_rcv_take(r)
      BY <2>rcv
    <3> QED
      BY <1>step, SuccValue DEF TypeOK, srv_msq_rcv_take
  <2>idle. CASE \/ \E r \in Receivers : srv_msq_rcv_test(r) \/ SpuriousWakeup(r)
                \/ UNCHANGED vars
    BY <1>step, <2>idle DEF TypeOK, srv_msq_rcv_test, SpuriousWakeup, vars
  <2> QED
    BY <1>step, <2>snd, <2>rcv, <2>idle DEF Next
<1> QED
  BY <1>init, <1>step, PTL DEF Spec

-----------------------------------------------------------------------------
(* The removal without a test, and the wakeups.                            *)

\* Inductive together with TypeOK.
RingInv == TakeFindsMessage /\ SleepsOnlyWhenEmpty

\* Sending keeps RingInv: the ring is not empty afterwards, and the one
\* receiver, if it slept, is woken by the signal.
LEMMA SndKeepsRingInv ==
  ASSUME TypeOK, RingInv, NEW m \in Msgs, srv_msq_snd(m)
  PROVE  RingInv'
<1>ends. front' = front /\ rear' = Succ(rear) /\ Succ(rear) # front
  BY DEF srv_msq_snd, IsFull
<1>full. ~IsEmpty'
  BY <1>ends, SuccValue DEF TypeOK, IsEmpty
<1>awake. \A r \in Receivers : pc'[r] # "wait"
  BY MsgQueueAssumption DEF srv_msq_snd, pthread_cond_signal, TypeOK
<1> QED
  BY <1>full, <1>awake DEF RingInv, TakeFindsMessage, SleepsOnlyWhenEmpty

\* The receiver keeps RingInv, whichever half of srv_msq_rcv it runs.
LEMMA RcvKeepsRingInv ==
  ASSUME TypeOK, RingInv, NEW r \in Receivers,
         srv_msq_rcv_test(r) \/ srv_msq_rcv_take(r) \/ SpuriousWakeup(r)
  PROVE  RingInv'
<1> USE MsgQueueAssumption
    DEF TypeOK, RingInv, TakeFindsMessage, SleepsOnlyWhenEmpty, IsEmpty
<1>take. CASE srv_msq_rcv_take(r)
  BY <1>take DEF srv_msq_rcv_take
<1>test. CASE srv_msq_rcv_test(r)
  BY <1>test DEF srv_msq_rcv_test
<1>wake. CASE SpuriousWakeup(r)
  BY <1>wake DEF SpuriousWakeup
<1> QED
  BY <1>take, <1>test, <1>wake

\* Both invariants of srv_msq_rcv hold in every reachable state.
THEOREM RingInvariant == Spec => []RingInv
<1>init. Init => RingInv
  BY DEF Init, RingInv, TakeFindsMessage, SleepsOnlyWhenEmpty
<1>still. TypeOK /\ RingInv /\ UNCHANGED vars => RingInv'
  BY DEF RingInv, TakeFindsMessage, SleepsOnlyWhenEmpty, IsEmpty, vars
<1>step. TypeOK /\ RingInv /\ [Next]_vars => RingInv'
  BY <1>still, SndKeepsRingInv, RcvKeepsRingInv DEF Next
<1> QED
  BY <1>init, <1>step, TypeCorrect, PTL DEF Spec

\* srv_msq_rcv never takes from an empty ring, although it gave the mutex
\* away after its test.
THEOREM NoUnderflow == Spec => []TakeFindsMessage
BY RingInvariant, PTL DEF RingInv

\* srv_msq_snd never leaves a receiver asleep on a message.
THEOREM NoLostWakeup == Spec => []SleepsOnlyWhenEmpty
BY RingInvariant, PTL DEF RingInv

-----------------------------------------------------------------------------
(* Refinement of BoundedFifo under the mapping queue <- Contents.          *)

\* What a slot of the ring holds.
Cell == Msgs \cup {NoMsg}

\* The contents of a ring are a sequence, as long as its ends are apart.
LEMMA RingSeqType ==
  ASSUME NEW p \in [Slots -> Cell], NEW f \in Slots, NEW r \in Slots
  PROVE  /\ Distance(f, r) \in Nat /\ Distance(f, r) <= QueueSize
         /\ RingSeq(p, f, r) \in Seq(Cell)
         /\ Len(RingSeq(p, f, r)) = Distance(f, r)
         /\ \A i \in 1 .. Distance(f, r) : RingSeq(p, f, r)[i] = p[Slot(f, i - 1)]
<1>len. Distance(f, r) \in Nat /\ Distance(f, r) <= QueueSize
  <2> Distance(f, r) \in Slots
    BY DistanceValue
  <2> QED
    BY MsgQueueAssumption DEF Slots
<1>slot. ASSUME NEW i \in 1 .. Distance(f, r)
         PROVE  p[Slot(f, i - 1)] \in Cell
  <2> i - 1 \in Slots
    BY <1>len, MsgQueueAssumption DEF Slots
  <2> QED
    BY SlotValue
<1> QED
  BY <1>len, <1>slot DEF RingSeq

\* srv_msq_snd appends to the contents.
LEMMA SndRefines ==
  ASSUME TypeOK, TypeOK', NEW m \in Msgs, srv_msq_snd(m)
  PROVE  Fifo!Send(m)
<1>type. /\ pMsg \in [Slots -> Cell] /\ front \in Slots /\ rear \in Slots
         /\ pMsg' \in [Slots -> Cell] /\ front' \in Slots /\ rear' \in Slots
  BY DEF TypeOK, Slots, Cell
<1> m \in Cell
  BY DEF Cell
<1>ends. /\ front' = front
         /\ rear' = Succ(rear)
         /\ Succ(rear) # front
         /\ got' = got
         /\ pMsg' = [pMsg EXCEPT ![rear] = m]
  BY DEF srv_msq_snd, IsFull
<1>count. Count' = Count + 1 /\ Count < QueueSize
  BY <1>ends, DistanceRear DEF Count, TypeOK, Distance, size
<1>old. /\ Count \in Nat
        /\ Contents \in Seq(Cell) /\ Len(Contents) = Count
        /\ \A i \in 1 .. Count : Contents[i] = pMsg[Slot(front, i - 1)]
  BY <1>type, RingSeqType DEF Contents, Count
<1>new. /\ Contents' \in Seq(Cell) /\ Len(Contents') = Count + 1
        /\ \A i \in 1 .. Count + 1 : Contents'[i] = pMsg'[Slot(front, i - 1)]
  <2> DEFINE c == RingSeq(pMsg', front', rear')
  <2>len. Distance(front', rear') = Count'
    BY DEF Count, Distance, size
  <2>c. Contents' = c
    BY DEF Contents, RingSeq, Distance, Slot, size
  <2>seq. /\ c \in Seq(Cell) /\ Len(c) = Distance(front', rear')
          /\ \A i \in 1 .. Distance(front', rear') : c[i] = pMsg'[Slot(front', i - 1)]
    BY <1>type, RingSeqType
  <2> QED
    BY <1>count, <1>ends, <2>len, <2>c, <2>seq
<1>app. /\ Append(Contents, m) \in Seq(Cell)
        /\ Len(Append(Contents, m)) = Count + 1
        /\ \A i \in 1 .. Count : Append(Contents, m)[i] = Contents[i]
        /\ Append(Contents, m)[Count + 1] = m
  BY <1>old, AppendProperties
<1>cell. ASSUME NEW i \in 1 .. Count + 1
         PROVE  Contents'[i] = Append(Contents, m)[i]
  <2>older. CASE i \in 1 .. Count
    <3> i - 1 \in 0 .. Distance(front, rear) - 1
      BY <2>older, <1>old DEF Count
    <3> Slot(front, i - 1) \in Slots \ {rear}
      BY SlotBeforeRear DEF TypeOK
    <3> QED
      BY <2>older, <1>ends, <1>old, <1>new, <1>app DEF TypeOK
  <2>newest. CASE i = Count + 1
    <3> i - 1 = Distance(front, rear)
      BY <2>newest, <1>old DEF Count
    <3> Slot(front, i - 1) = rear
      BY SlotAtRear DEF TypeOK
    <3> QED
      BY <2>newest, <1>ends, <1>new, <1>app DEF TypeOK
  <2> QED
    BY <2>older, <2>newest, <1>old
<1>append. Contents' = Append(Contents, m)
  BY <1>new, <1>app, <1>cell, SeqEqual
<1> QED
  BY <1>ends, <1>count, <1>old, <1>append DEF Fifo!Send

\* The second half of srv_msq_rcv removes the head of the contents.
LEMMA TakeRefines ==
  ASSUME TypeOK, TypeOK', RingInv, NEW r \in Receivers, srv_msq_rcv_take(r)
  PROVE  Fifo!Receive(r)
<1>type. /\ pMsg \in [Slots -> Cell] /\ front \in Slots /\ rear \in Slots
         /\ pMsg' \in [Slots -> Cell] /\ front' \in Slots /\ rear' \in Slots
  BY DEF TypeOK, Slots, Cell
<1>ends. /\ rear' = rear
         /\ pMsg' = pMsg
         /\ front' = Succ(front)
         /\ front # rear
         /\ got' = [got EXCEPT ![r] = pMsg[front]]
  BY DEF srv_msq_rcv_take, RingInv, TakeFindsMessage, IsEmpty
<1>count. Count' = Count - 1 /\ Count > 0
  BY <1>ends, DistanceFront DEF Count, TypeOK, Distance, size
<1>old. /\ Count \in Nat /\ Count <= QueueSize
        /\ Contents \in Seq(Cell) /\ Len(Contents) = Count
        /\ \A i \in 1 .. Count : Contents[i] = pMsg[Slot(front, i - 1)]
  BY <1>type, RingSeqType DEF Contents, Count
<1>some. Contents # <<>>
  BY <1>old, <1>count
<1>new. /\ Contents' \in Seq(Cell) /\ Len(Contents') = Count - 1
        /\ \A i \in 1 .. Count - 1 : Contents'[i] = pMsg[Slot(Succ(front), i - 1)]
  <2> DEFINE c == RingSeq(pMsg', front', rear')
  <2>len. Distance(front', rear') = Count'
    BY DEF Count, Distance, size
  <2>c. Contents' = c
    BY DEF Contents, RingSeq, Distance, Slot, size
  <2>seq. /\ c \in Seq(Cell) /\ Len(c) = Distance(front', rear')
          /\ \A i \in 1 .. Distance(front', rear') : c[i] = pMsg'[Slot(front', i - 1)]
    BY <1>type, RingSeqType
  <2> QED
    BY <1>count, <1>ends, <2>len, <2>c, <2>seq
<1>head. Head(Contents) = pMsg[front]
  <2> Slot(front, 0) = front
    BY SlotValue, MsgQueueAssumption DEF TypeOK, Slots
  <2> Contents[1] = pMsg[Slot(front, 1 - 1)]
    BY <1>old, <1>count
  <2> QED
    BY <1>old, <1>some
<1>rest. /\ Tail(Contents) \in Seq(Cell) /\ Len(Tail(Contents)) = Count - 1
         /\ \A i \in 1 .. Count - 1 : Tail(Contents)[i] = Contents[i + 1]
  BY <1>old, <1>some, HeadTailProperties
<1>cell. ASSUME NEW i \in 1 .. Count - 1
         PROVE  Contents'[i] = Tail(Contents)[i]
  <2>slot. Slot(Succ(front), i - 1) = Slot(front, i)
    <3> i - 1 \in Slots /\ i - 1 # QueueSize /\ (i - 1) + 1 = i
      BY <1>old, MsgQueueAssumption DEF Slots
    <3> QED
      BY SlotAfterSucc DEF TypeOK
  <2>next. i + 1 \in 1 .. Count /\ (i + 1) - 1 = i
    BY <1>old
  <2> QED
    BY <2>slot, <2>next, <1>old, <1>new, <1>rest
<1>tail. Contents' = Tail(Contents)
  BY <1>new, <1>rest, <1>cell, SeqEqual
<1> QED
  BY <1>ends, <1>some, <1>head, <1>tail DEF Fifo!Receive

\* lnx_msq.c implements a bounded first-in first-out queue.
THEOREM RingImplementsFifo == Spec => ImplementsFifo
<1>init. Init => Fifo!Init
  <2> SUFFICES ASSUME Init PROVE Contents = <<>>
    BY DEF Init, Fifo!Init
  <2> Count = 0
    BY DistanceValue, MsgQueueAssumption DEF Init, Count, Slots
  <2> QED
    BY DEF Contents, RingSeq, Count
<1>step. TypeOK /\ TypeOK' /\ RingInv /\ [Next]_vars => [Fifo!Next]_<<Contents, got>>
  <2> SUFFICES ASSUME TypeOK, TypeOK', RingInv, [Next]_vars
               PROVE  Fifo!Next \/ UNCHANGED <<Contents, got>>
    OBVIOUS
  <2>snd. CASE \E m \in Msgs : srv_msq_snd(m)
    BY <2>snd, SndRefines DEF Fifo!Next
  <2>take. CASE \E r \in Receivers : srv_msq_rcv_take(r)
    BY <2>take, TakeRefines DEF Fifo!Next
  <2>idle. CASE \/ \E r \in Receivers : srv_msq_rcv_test(r) \/ SpuriousWakeup(r)
                \/ UNCHANGED vars
    BY <2>idle DEF srv_msq_rcv_test, SpuriousWakeup, vars, Contents
  <2> QED
    BY <2>snd, <2>take, <2>idle DEF Next
<1> QED
  BY <1>init, <1>step, TypeCorrect, RingInvariant, PTL DEF Spec, ImplementsFifo, Fifo!Spec
=============================================================================
