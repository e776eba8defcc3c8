------------------------------ MODULE TaskTable ------------------------------
(***************************************************************************)
(* The task table of ofproto/srv_task.c and the start-up sequence of       *)
(* docker_init (docker_config.c): srv_task_init, srv_task_register_table   *)
(* and srv_task_start_table, on the thread that runs ofproto_init.  What   *)
(* docker_init calls may fail; it reports the failure and goes on with the *)
(* next call.  A task that has been started runs at once, next to the rest *)
(* of the sequence.                                                        *)
(***************************************************************************)
EXTENDS Naturals, Sequences

CONSTANTS
  Table,        \* <<[tid, msq], ...>>: g_astTaskTbl, tid and isMsqEnable
  g_nMaxTid,    \* TID_MAX
  NULL

VARIABLES
  g_pstTaskTbl,   \* NULL, or the rows: registered, has a queue, has a thread
  g_nMaxTblSize,
  boot            \* where docker_init is: the next call and its loop index

-----------------------------------------------------------------------------

Tids == 0 .. g_nMaxTid - 1

EmptyRow == [tid |-> NULL, hMsq |-> FALSE, hTask |-> FALSE]

At(op, i) == [op |-> op, i |-> i]

Init ==
  /\ g_pstTaskTbl = NULL
  /\ g_nMaxTblSize = 0
  /\ boot = At("init", 0)

\* srv_task_init(TID_MAX): the table is a block of the buffer pools; ok says
\* whether srv_buf_alloc had one.
srv_task_init(ok) ==
  /\ boot.op = "init"
  /\ g_pstTaskTbl' = IF ok THEN [t \in Tids |-> EmptyRow] ELSE NULL
  /\ g_nMaxTblSize' = IF ok THEN g_nMaxTid ELSE 0
  /\ boot' = At("register", 1)

\* The tests at the head of srv_task_register; the second one reads the table.
MayRegister(tid) ==
  /\ tid < g_nMaxTblSize
  /\ g_pstTaskTbl[tid].tid = NULL

\* Mutant of RegisterRow: a task without its queue stays registered.
RegisterRowKeepsTid(row, ok) ==
  [tid |-> row.tid, hMsq |-> row.msq /\ ok, hTask |-> FALSE]

\* The row srv_task_register leaves: without the queue it was to have, it is
\* unregistered again.
RegisterRow(row, ok) ==
  [tid |-> IF row.msq => ok THEN row.tid ELSE NULL,
   hMsq |-> row.msq /\ ok,
   hTask |-> FALSE]

\* One turn of srv_task_register_table; ok says whether srv_msq_create
\* succeeds.  The last row, or the first one that fails, ends the loop.
srv_task_register(ok) ==
  /\ boot.op = "register"
  /\ LET row == Table[boot.i]
     IN  IF MayRegister(row.tid)
         THEN /\ g_pstTaskTbl' = [g_pstTaskTbl EXCEPT ![row.tid] = RegisterRow(row, ok)]
              /\ boot' = IF (row.msq => ok) /\ boot.i < Len(Table)
                         THEN At("register", boot.i + 1)
                         ELSE At("start", 0)
         ELSE /\ UNCHANGED g_pstTaskTbl
              /\ boot' = At("start", 0)
  /\ UNCHANGED g_nMaxTblSize

MayStart(tid) == g_pstTaskTbl[tid].tid # NULL /\ ~g_pstTaskTbl[tid].hTask

\* One turn of srv_task_start_table; ok says whether pthread_create succeeds.
srv_task_start(ok) ==
  /\ boot.op = "start"
  /\ g_pstTaskTbl # NULL
  /\ boot.i < g_nMaxTblSize
  /\ g_pstTaskTbl' = IF MayStart(boot.i)
                     THEN [g_pstTaskTbl EXCEPT ![boot.i].hTask = ok]
                     ELSE g_pstTaskTbl
  /\ boot' = At("start", boot.i + 1)
  /\ UNCHANGED g_nMaxTblSize

\* docker_init returns.
Booted ==
  /\ boot.op = "start"
  /\ g_pstTaskTbl = NULL \/ boot.i >= g_nMaxTblSize
  /\ boot' = At("done", 0)
  /\ UNCHANGED <<g_pstTaskTbl, g_nMaxTblSize>>

-----------------------------------------------------------------------------

\* What srv_msg_snd and srv_msg_rcv find for task tid: its queue, or SRV_ERR.
HasQueue(tid) == tid < g_nMaxTblSize /\ g_pstTaskTbl[tid].hMsq

Started(tid) == tid < g_nMaxTblSize /\ g_pstTaskTbl[tid].hTask

-----------------------------------------------------------------------------

\* The table has one row for each task id, and the bound says so.
TypeOK ==
  /\ g_pstTaskTbl \in {NULL} \cup
       [Tids -> [tid : Tids \cup {NULL}, hMsq : BOOLEAN, hTask : BOOLEAN]]
  /\ g_nMaxTblSize \in {0, g_nMaxTid}
  /\ boot.op \in {"init", "register", "start", "done"}
  /\ boot.i \in Nat

\* The bound that guards every access says 0 as long as there is no table.
BoundGuardsTable == g_nMaxTblSize > 0 => g_pstTaskTbl # NULL

\* No thread runs its entry function without the queue it asked for: whatever
\* failed on the way, a task that was started was registered completely.
StartedIsComplete ==
  \A tid \in Tids : Started(tid) =>
    /\ g_pstTaskTbl[tid].tid = tid
    /\ \E k \in 1 .. Len(Table) :
         Table[k].tid = tid /\ (Table[k].msq => HasQueue(tid))
=============================================================================
