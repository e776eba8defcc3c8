---------------------------- MODULE MCPrimitives ----------------------------
(***************************************************************************)
(* The primitives that threads share, for TLC: the message queue, the      *)
(* buffer pools, the list macros, the sequence numbers and the             *)
(* reader-writer lock; and the slow path of the in-house controller, which *)
(* uses a queue and pools of its own, here the variables that begin with   *)
(* slow.  None of them interact, so a behaviour is one of any of them:     *)
(* part says which.  The definitions of the pools are at hand under their  *)
(* own names, those of the others through instances.                       *)
(***************************************************************************)
EXTENDS BufPool, MsgQueueConfig, SeqConfig

CONSTANTS
  Nodes, Root, NULL, Lockers, MaxDepth,
  Handlers, Main, Recver, Queue, PacketSizes, TableSize, SlowQueueSize, g_nMaxTid,
  RecverTid

VARIABLES
  part,
  front, rear, pMsg, receiver, got,
  heap,
  seq_next, value, waiters, latch, waiting, nodes, zero, poller, seen, asked, dirty,
  listed, mutex, slot, depth, locker,
  slowPoolSize, slowFree, slowBit, slowCall, slowHeld, slowFront, slowRear, slowMsg,
  slowPc, slowGot, g_pstTaskTbl, g_nMaxTblSize, boot, at, pPacket, sent, crashed

Ring == INSTANCE MsgQueue WITH pc <- receiver

List == INSTANCE SrvList

Number == INSTANCE Seq WITH pc <- poller

Rwlock == INSTANCE FatRwlock WITH Threads <- Lockers, pc <- locker

\* The slow path has one block more; one of them is for the task table.
SlowPools == <<[blocksize |-> 1, blocknr |-> 2], [blocksize |-> 2, blocknr |-> 2]>>

\* A task without a queue, the receiver, and a row whose index is taken.
SlowTable == <<[tid |-> 0, msq |-> FALSE], [tid |-> 1, msq |-> TRUE],
               [tid |-> 1, msq |-> TRUE]>>

Slow == INSTANCE SlowPath WITH
  Pools <- SlowPools, QueueSize <- SlowQueueSize, Table <- SlowTable,
  g_nPoolSize <- slowPoolSize, free <- slowFree, bit <- slowBit, call <- slowCall,
  held <- slowHeld, front <- slowFront, rear <- slowRear, pMsg <- slowMsg,
  pc <- slowPc, got <- slowGot

queueVars == <<front, rear, pMsg, receiver, got>>
numberVars == <<seq_next, value, waiters, latch, waiting, nodes, zero, poller, seen,
                asked, dirty>>
rwlockVars == <<listed, mutex, slot, depth, locker>>
slowVars == <<slowPoolSize, slowFree, slowBit, slowCall, slowHeld, slowFront, slowRear,
              slowMsg, slowPc, slowGot, g_pstTaskTbl, g_nMaxTblSize, boot, at, pPacket,
              sent, crashed>>

allVars == <<part, queueVars, vars, heap, numberVars, rwlockVars, slowVars>>

MCPools == <<[blocksize |-> 1, blocknr |-> 2], [blocksize |-> 2, blocknr |-> 1]>>

-----------------------------------------------------------------------------

PrimitivesInit ==
  /\ part \in {"queue", "pool", "list", "number", "rwlock", "slow"}
  /\ Ring!Init /\ Init /\ List!Init /\ Number!Init /\ Rwlock!Init /\ Slow!Init
  /\ part # "pool" => g_nPoolSize # 0
  /\ part # "slow" => slowPoolSize # 0

InQueue == part = "queue" /\ UNCHANGED <<part, vars, heap, numberVars, rwlockVars, slowVars>>

InPool == part = "pool" /\ UNCHANGED <<part, queueVars, heap, numberVars, rwlockVars, slowVars>>

InList == part = "list" /\ UNCHANGED <<part, queueVars, vars, numberVars, rwlockVars, slowVars>>

InNumber == part = "number" /\ UNCHANGED <<part, queueVars, vars, heap, rwlockVars, slowVars>>

InRwlock == part = "rwlock" /\ UNCHANGED <<part, queueVars, vars, heap, numberVars, slowVars>>

InSlow ==
  part = "slow" /\ UNCHANGED <<part, queueVars, vars, heap, numberVars, rwlockVars>>

PrimitivesNext ==
  \/ InQueue /\ Ring!Next
  \/ InPool /\ Next
  \/ InList /\ List!Next
  \/ InNumber /\ Number!Next
  \/ InRwlock /\ Rwlock!Next
  \/ InSlow /\ Slow!Next

\* The fairness of Seq and of SlowPath.  A condition of one is joined with one
\* of the other: a behaviour belongs to one part from its start, so that is
\* the same as to ask for both.
Serves(t) ==
  \/ t \in Threads /\ InNumber /\ Number!PollWakes(t)
  \/ t \in Handlers /\ InSlow /\ Slow!HandlerStep(t)

Fairness ==
  /\ \A t \in Threads \cup Handlers : WF_allVars(Serves(t))
  /\ \A t \in Threads : WF_allVars(InNumber /\ Number!seq_woke(t))
  /\ WF_allVars(InSlow /\ Slow!Boot)
  /\ WF_allVars(InSlow /\ Slow!RecverStep /\ slowPc[Recver] # "wait")

PrimitivesSpec == PrimitivesInit /\ [][PrimitivesNext]_allVars /\ Fairness

-----------------------------------------------------------------------------
(* The properties of the parts, under the names they have there; those of  *)
(* the pools are BufPool's own.  What is costly to evaluate is looked at   *)
(* only in its own behaviours; in the others the part stays as it began.   *)

\* The ring of lnx_msq.c implements a bounded first-in first-out queue.
ImplementsFifo ==
  Ring!Fifo!Init /\ [][part = "queue" => [Ring!Fifo!Next]_<<Ring!Contents, got>>]_allVars

\* The macros of srv_list.h implement a list of distinct nodes.
ImplementsList ==
  List!L!Init /\ [][part = "list" => [List!L!Next]_(List!Forward)]_allVars

\* A thread that waits for a seq that has changed finds its poll ready.
NoLostWakeup == Number!NoLostWakeup

\* Every sleeper whose seq has changed runs again.
Wakes == Number!Wakes

\* The writer of a fat_rwlock has it alone.
WriterIsAlone == Rwlock!WriterIsAlone

\* No two threads wait for each other in fat-rwlock.c.
NoCircularWait == part = "rwlock" => Rwlock!NoCircularWait

\* A block that is in the receiver's queue belongs to the queue alone.
QueueOwnsItsBlocks == part = "slow" => Slow!QueueOwnsItsBlocks

\* No task is started without its queue, whatever fails.
StartIsSound == Slow!StartIsSound

\* What was sent is received.
SentIsReceived == Slow!SentIsReceived
=============================================================================
