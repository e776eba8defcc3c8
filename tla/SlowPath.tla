------------------------------ MODULE SlowPath ------------------------------
(***************************************************************************)
(* The in-house controller's slow path, end to end.  The OFPP_MAX_4 action *)
(* of ofproto-dpif-xlate.c, run by the upcall handler threads, copies each *)
(* packet into a message block and sends it to the task TID_TEST_RECVER;   *)
(* test_recver_entry (docker_test.c) receives it.                          *)
(*                                                                         *)
(* This module composes the buffer pools, the receiver's message queue and *)
(* the task table.  A block that is in the queue belongs to the pseudo     *)
(* thread Queue, so that sending and receiving pass a block on.  A block   *)
(* that the code neither passes on nor frees stays with the thread that    *)
(* had it last.                                                            *)
(***************************************************************************)
EXTENDS Integers, Sequences, FiniteSets

CONSTANTS
  Handlers,      \* the upcall handler threads
  Main,          \* the thread that runs ofproto_init
  Recver,        \* the thread of TID_TEST_RECVER
  Queue,         \* the owner of the blocks in the queue
  PacketSizes,   \* sizes of packets, with the message header
  TableSize,     \* size of the task table
  Pools, QueueSize, Table, g_nMaxTid, RecverTid,
  NULL

VARIABLES
  g_nPoolSize, free, bit, call, held,       \* srv_buffer.c
  front, rear, pMsg, pc, got,               \* lnx_msq.c, the receiver's queue
  g_pstTaskTbl, g_nMaxTblSize, boot,        \* srv_task.c
  at,       \* where each handler is in the action
  pPacket,  \* its message block
  sent,     \* did srv_msg_snd return SRV_OK?
  crashed   \* the process has written through NULL

poolVars == <<g_nPoolSize, free, bit, call, held>>
queueVars == <<front, rear, pMsg, pc, got>>
taskVars == <<g_pstTaskTbl, g_nMaxTblSize, boot>>
xlateVars == <<at, pPacket, sent, crashed>>
vars == <<poolVars, queueVars, taskVars, xlateVars>>

\* Who can hold a block.
Holding == Handlers \cup {Main, Recver, Queue}

B == INSTANCE BufPool WITH Callers <- Holding, Sizes <- PacketSizes \cup {TableSize}

Q == INSTANCE MsgQueue WITH Msgs <- B!Blocks, NoMsg <- NULL,
                            Receivers <- {Recver}

T == INSTANCE TaskTable

-----------------------------------------------------------------------------

Init ==
  /\ B!Init /\ Q!Init /\ T!Init
  /\ at = [h \in Handlers |-> "idle"]
  /\ pPacket = [h \in Handlers |-> NULL]
  /\ sent = [h \in Handlers |-> FALSE]
  /\ crashed = FALSE

\* docker_init up to the point where the task table has its block, or not:
\* the call of srv_buf_alloc and its turns.
BootAlloc ==
  /\ ~crashed
  /\ boot.op = "init"
  /\ \/ B!srv_buf_alloc(Main, TableSize) /\ UNCHANGED taskVars
     \/ B!NextPool(Main) /\ UNCHANGED taskVars
     \/ B!TakeBlock(Main) /\ T!srv_task_init(TRUE)
     \/ B!AllocFails(Main) /\ T!srv_task_init(FALSE)
  /\ UNCHANGED <<queueVars, xlateVars>>

\* The rest of docker_init: registration and start of the tasks.
BootTasks ==
  /\ ~crashed
  /\ \/ \E ok \in BOOLEAN : T!srv_task_register(ok) \/ T!srv_task_start(ok)
     \/ T!Booted
  /\ UNCHANGED <<poolVars, queueVars, xlateVars>>

\* OFPP_MAX_4 with a packet at hand (without one it returns at once).  The
\* handler threads start after ofproto_init.
Xlate(h) ==
  /\ ~crashed
  /\ boot.op = "done"
  /\ at[h] = "idle"
  /\ \E size \in PacketSizes : B!srv_buf_alloc(h, size)
  /\ at' = [at EXCEPT ![h] = "alloc"]
  /\ sent' = [sent EXCEPT ![h] = FALSE]
  /\ UNCHANGED <<queueVars, taskVars, pPacket, crashed>>

\* srv_msg_alloc returns block b or NULL.
Allocated(h, b) ==
  /\ pPacket' = [pPacket EXCEPT ![h] = b]
  /\ at' = [at EXCEPT ![h] = "copy"]

\* The turns of srv_buf_alloc inside srv_msg_alloc.
XlateAlloc(h) ==
  /\ ~crashed
  /\ at[h] = "alloc"
  /\ \/ B!NextPool(h) /\ UNCHANGED <<at, pPacket>>
     \/ B!TakeBlock(h) /\ Allocated(h, Head(free[call[h].i]))
     \/ B!AllocFails(h) /\ Allocated(h, NULL)
  /\ UNCHANGED <<queueVars, taskVars, sent, crashed>>

\* memcpy into the block, whose pointer is not tested.
XlateCopy(h) ==
  /\ ~crashed
  /\ at[h] = "copy"
  /\ at' = [at EXCEPT ![h] = IF pPacket[h] = NULL THEN "dead" ELSE "send"]
  /\ crashed' = (pPacket[h] = NULL)
  /\ UNCHANGED <<poolVars, queueVars, taskVars, pPacket, sent>>

\* srv_msg_snd refuses: the task has no queue, or the queue is full.  The
\* failure is logged and the block is forgotten.
SendFails(h) ==
  /\ ~T!HasQueue(RecverTid) \/ Q!IsFull
  /\ sent' = [sent EXCEPT ![h] = FALSE]
  /\ UNCHANGED <<poolVars, queueVars>>

\* Mutant of SendSucceeds: the handler goes on to free the block it has sent.
SendAndFree(h) ==
  /\ T!HasQueue(RecverTid)
  /\ Q!srv_msq_snd(pPacket[h])
  /\ B!srv_buf_free(h, pPacket[h])
  /\ sent' = [sent EXCEPT ![h] = TRUE]

\* srv_msg_snd queues the block.
SendSucceeds(h) ==
  /\ T!HasQueue(RecverTid)
  /\ Q!srv_msq_snd(pPacket[h])
  /\ B!Pass(h, Queue, pPacket[h])
  /\ sent' = [sent EXCEPT ![h] = TRUE]

XlateSend(h) ==
  /\ ~crashed
  /\ at[h] = "send"
  /\ SendFails(h) \/ SendSucceeds(h)
  /\ at' = [at EXCEPT ![h] = "forward"]
  /\ UNCHANGED <<taskVars, pPacket, crashed>>

\* compose_output_action to the other port, sent or not.
XlateForward(h) ==
  /\ ~crashed
  /\ at[h] = "forward"
  /\ at' = [at EXCEPT ![h] = "idle"]
  /\ pPacket' = [pPacket EXCEPT ![h] = NULL]
  /\ UNCHANGED <<poolVars, queueVars, taskVars, sent, crashed>>

\* test_recver_entry, for ever: srv_msg_rcv, and the block is not freed.
RecverStep ==
  /\ ~crashed
  /\ T!Started(RecverTid)
  /\ \/ Q!srv_msq_rcv_test(Recver) /\ UNCHANGED poolVars
     \/ Q!srv_msq_rcv_take(Recver) /\ B!Pass(Queue, Recver, pMsg[front])
     \/ Q!SpuriousWakeup(Recver) /\ UNCHANGED poolVars
  /\ UNCHANGED <<taskVars, xlateVars>>

Boot == BootAlloc \/ BootTasks

HandlerStep(h) == XlateAlloc(h) \/ XlateCopy(h) \/ XlateSend(h) \/ XlateForward(h)

Next ==
  \/ Boot
  \/ \E h \in Handlers : Xlate(h) \/ HandlerStep(h)
  \/ RecverStep

Spec == Init /\ [][Next]_vars

\* Running threads are scheduled; packets need not arrive.
Fairness ==
  /\ WF_vars(Boot)
  /\ \A h \in Handlers : WF_vars(HandlerStep(h))
  /\ WF_vars(RecverStep /\ pc[Recver] # "wait")

FairSpec == Spec /\ Fairness

-----------------------------------------------------------------------------

\* The components are well formed, and a handler's block is a block.
TypeOK ==
  /\ B!TypeOK /\ Q!TypeOK /\ T!TypeOK
  /\ at \in [Handlers -> {"idle", "alloc", "copy", "send", "forward", "dead"}]
  /\ pPacket \in [Handlers -> B!Blocks \cup {NULL}]
  /\ sent \in [Handlers -> BOOLEAN]
  /\ crashed \in BOOLEAN

\* The queue holds message blocks that are in use, each of them once, and
\* nobody else has them: what a handler has sent it does not touch again.
QueueOwnsItsBlocks ==
  /\ \A i, j \in 1 .. Q!Count : Q!Contents[i] = Q!Contents[j] => i = j
  /\ {Q!Contents[i] : i \in 1 .. Q!Count} = held[Queue]
  /\ B!OneOwner

\* Whatever fails in docker_init, the bound that guards every access to the
\* task table is 0 as long as there is no table, and no thread runs its entry
\* function without the queue it asked for.
StartIsSound == T!BoundGuardsTable /\ T!StartedIsComplete

\* What is sent is received, unless the receiver's thread could not be
\* created or the process dies.
SentIsReceived ==
  \A b \in B!Blocks :
    (b \in held[Queue] /\ T!Started(RecverTid)) ~> (b \in held[Recver] \/ crashed)

\* "packet is sent to TID_TEST_RECVER thread, received in test_recver_entry()"
\* (ofproto-dpif-xlate.c): every packet the action gets past is sent, provided
\* that start-up has gone well.
EveryPacketSent ==
  \A h \in Handlers :
    T!Started(RecverTid) /\ at[h] \in {"forward", "dead"} => sent[h]
=============================================================================
