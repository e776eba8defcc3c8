--------------------------- MODULE MsgQueueConfig ---------------------------
(* The parameters of a task message queue (MsgQueue). *)
EXTENDS Integers

CONSTANTS
  Msgs,       \* the message blocks that can be queued
  NoMsg,      \* what an uninitialised slot holds
  Receivers,  \* the threads that call srv_msq_rcv on this queue
  QueueSize   \* the argument of srv_msq_create (MAX_MSQ_SIZE in srv_task.c)

\* A queue is drained by one thread: the only caller of srv_msg_rcv is a task
\* that passes its own task id (docker_test.c).
ASSUME MsgQueueAssumption ==
  /\ QueueSize \in Nat \ {0}
  /\ \A r, s \in Receivers : r = s
  /\ NoMsg \notin Msgs
=============================================================================
