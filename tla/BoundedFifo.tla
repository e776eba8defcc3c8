----------------------------- MODULE BoundedFifo -----------------------------
(***************************************************************************)
(* What the task message queue promises its users: a first-in first-out    *)
(* queue of at most Capacity messages.  A receiver is given the oldest     *)
(* message and nothing else; no message is lost, duplicated or reordered.  *)
(***************************************************************************)
EXTENDS Naturals, Sequences

CONSTANTS Msgs, NoMsg, Receivers, Capacity

VARIABLES
  queue,  \* the messages sent and not yet received
  got     \* the last message each receiver was given

Init ==
  /\ queue = <<>>
  /\ got = [r \in Receivers |-> NoMsg]

Send(m) ==
  /\ Len(queue) < Capacity
  /\ queue' = Append(queue, m)
  /\ UNCHANGED got

Receive(r) ==
  /\ queue # <<>>
  /\ got' = [got EXCEPT ![r] = Head(queue)]
  /\ queue' = Tail(queue)

Next ==
  \/ \E m \in Msgs : Send(m)
  \/ \E r \in Receivers : Receive(r)

Spec == Init /\ [][Next]_<<queue, got>>
=============================================================================
