------------------------------- MODULE Upcall -------------------------------
(***************************************************************************)
(* The flow cache of ofproto-dpif-upcall.c.  Handler threads translate the *)
(* packets that miss in the datapath and install flows; revalidator        *)
(* threads dump the flows, account for their packets, delete those whose   *)
(* actions are no longer right and collect the garbage; the main thread    *)
(* changes the configuration and stops and restarts the threads.  A        *)
(* udpif_key (ukey) stands for each flow that userspace knows of.          *)
(*                                                                         *)
(* dump_seq is only ever compared with its current value, so a stamp of it *)
(* is a Boolean: fresh.  A flow has a umap to itself, and a thread handles *)
(* one upcall or one dumped flow at a time: both are bounds.  Limits on    *)
(* the number of flows and idle times are choices.  What ovs-rcu.c         *)
(* promises is assumed: a ukey is not reused while a thread refers to it.  *)
(***************************************************************************)
EXTENDS Integers, FiniteSets

CONSTANTS
  Flows, Handlers, Revalidators, Main, NULL,
  Leader,        \* revalidators[0]
  Slice,         \* the flows each revalidator sweeps
  Ukeys,
  MaxPackets,    \* bound: packets that a flow forwards
  MaxPolicy,     \* bound: changes of the configuration
  Misses         \* may a dump leave out flows?  A set of Booleans

VARIABLES
  dp,          \* external: the datapath's flow for each key
  miss,        \* external: the flows with a miss in the datapath's queue
  left,        \* external: how often the dump can still return each flow
  misses,      \* external: do dumps leave out flows?
  forwarded,   \* packets that the datapath has forwarded, for each flow
  pushed,      \* packets that OpenFlow statistics have been told of
  policy,      \* what xlate_actions gives
  reval_seq,
  umap, ukey,  \* the ukey in each umap; the ukeys
  upcall,      \* the handlers: where they are, and their upcall
  thread,      \* the revalidators and the main thread
  exit_latch, reval_exit

dpVars == <<dp, miss, left, misses, forwarded>>
ukeyVars == <<umap, ukey, pushed>>
exitVars == <<exit_latch, reval_exit>>
vars == <<dpVars, ukeyVars, policy, reval_seq, upcall, thread, exitVars>>

\* The threads that dump, delete and collect.
Sweepers == Revalidators \cup {Main}

NoFlow == [there |-> FALSE, n |-> 0, actions |-> 0, own |-> FALSE]

Drop == -1      \* the actions of a flow put without actions
Garbage == -2   \* actions that compare equal to no others

NewUkey == [dumped |-> FALSE, reval |-> 0, exists |-> FALSE, n |-> 0, actions |-> 0,
            locked |-> FALSE]

IdleUpcall == [pc |-> "idle", flow |-> NULL, fresh |-> FALSE, reval |-> 0,
               actions |-> 0, ukey |-> NULL]

IdleThread == [pc |-> "idle", flow |-> NULL, ukey |-> NULL, seq |-> 0, n |-> 0,
               todo |-> {}, gc |-> FALSE]

\* udpif_start_threads.
Started(t) ==
  IF t = Main THEN IdleThread
  ELSE [IdleThread EXCEPT !.pc = IF t = Leader THEN "start" ELSE "b1"]

Init ==
  /\ dp = [f \in Flows |-> NoFlow]
  /\ miss = {}
  /\ left = [f \in Flows |-> 0]
  /\ misses \in Misses
  /\ forwarded = [f \in Flows |-> 0]
  /\ pushed = [f \in Flows |-> 0]
  /\ policy = 0
  /\ reval_seq = 0
  /\ umap = [f \in Flows |-> NULL]
  /\ ukey = [u \in Ukeys |-> NewUkey]
  /\ upcall = [h \in Handlers |-> IdleUpcall]
  /\ thread = [t \in Sweepers |-> Started(t)]
  /\ exit_latch = FALSE
  /\ reval_exit = FALSE

\* A ukey that nobody refers to.
Fresh ==
  CHOOSE u \in Ukeys :
    /\ \A f \in Flows : umap[f] # u
    /\ \A t \in Sweepers : thread[t].ukey # u

Goes(t, pc) == thread' = [thread EXCEPT ![t].pc = pc]

-----------------------------------------------------------------------------
(* The datapath.                                                           *)

\* A packet of flow f is forwarded by its flow, or misses.
Packet(f) ==
  /\ IF dp[f].there
     THEN /\ forwarded[f] < MaxPackets
          /\ forwarded' = [forwarded EXCEPT ![f] = @ + 1]
          /\ dp' = [dp EXCEPT ![f].n = @ + 1]
          /\ UNCHANGED miss
     ELSE /\ f \notin miss
          /\ miss' = miss \cup {f}
          /\ UNCHANGED <<dp, forwarded>>
  /\ UNCHANGED <<left, misses, ukeyVars, policy, reval_seq, upcall, thread, exitVars>>

-----------------------------------------------------------------------------
(* Handlers.                                                               *)

Handles(h, pc, record) == upcall' = [upcall EXCEPT ![h] = [record EXCEPT !.pc = pc]]

\* udpif_upcall_handler looks at the latch between two batches.
HandlerExits(h) ==
  /\ upcall[h].pc = "idle"
  /\ exit_latch
  /\ Handles(h, "exited", upcall[h])
  /\ UNCHANGED <<dpVars, ukeyVars, policy, reval_seq, thread, exitVars>>

\* recv_upcalls: the in_port of the packet belongs to a bridge, or to none.
recv_upcalls(h) ==
  /\ upcall[h].pc = "idle"
  /\ ~exit_latch
  /\ \E f \in miss :
       /\ miss' = miss \ {f}
       /\ \E pc \in {"xlate", "enodev"} : Handles(h, pc, [IdleUpcall EXCEPT !.flow = f])
  /\ UNCHANGED <<dp, left, misses, forwarded, ukeyVars, policy, reval_seq, thread, exitVars>>

\* A flow that drops the packets of a port without a bridge.  It has no ukey.
PutDropFlow(h) ==
  LET f == upcall[h].flow
  IN /\ upcall[h].pc = "enodev"
     /\ dp' = IF dp[f].there THEN dp
              ELSE [dp EXCEPT ![f] = [NoFlow EXCEPT !.there = TRUE, !.actions = Drop]]
     /\ Handles(h, "idle", IdleUpcall)
     /\ UNCHANGED <<miss, left, misses, forwarded, ukeyVars, policy, reval_seq, thread,
                    exitVars>>

\* upcall_xlate reads dump_seq and reval_seq ...
upcall_xlate(h) ==
  /\ upcall[h].pc = "xlate"
  /\ Handles(h, "actions", [upcall[h] EXCEPT !.fresh = TRUE, !.reval = reval_seq])
  /\ UNCHANGED <<dpVars, ukeyVars, policy, reval_seq, thread, exitVars>>

\* ... and then translates.  handle_upcalls installs a flow only while the
\* datapath has fewer than flow_limit of them.
xlate_actions(h) ==
  /\ upcall[h].pc = "actions"
  /\ \/ Handles(h, "install", [upcall[h] EXCEPT !.actions = policy])
     \/ Handles(h, "idle", IdleUpcall)
  /\ UNCHANGED <<dpVars, ukeyVars, policy, reval_seq, thread, exitVars>>

\* Mutant of UkeyOf: the ukey is not locked while the flow is put.
UkeyUnlocked(up) ==
  [NewUkey EXCEPT !.dumped = up.fresh, !.reval = up.reval, !.actions = up.actions]

\* Mutant of UkeyOf: reval_seq is read only when the ukey is installed.
UkeyStampedLate(up) ==
  [NewUkey EXCEPT !.dumped = up.fresh, !.reval = reval_seq, !.actions = up.actions,
                  !.locked = TRUE]

\* ukey_create_from_upcall, and the lock that ukey_install_start takes.
UkeyOf(up) ==
  [NewUkey EXCEPT !.dumped = up.fresh, !.reval = up.reval, !.actions = up.actions,
                  !.locked = TRUE]

\* ukey_install_start by a handler: the ukey enters the umap, unless there is
\* one.
InstallStart(h) ==
  LET up == upcall[h]
      u == Fresh
  IN /\ up.pc = "install"
     /\ IF umap[up.flow] # NULL
        THEN Handles(h, "idle", IdleUpcall) /\ UNCHANGED <<umap, ukey>>
        ELSE /\ Handles(h, "put", [up EXCEPT !.ukey = u])
             /\ umap' = [umap EXCEPT ![up.flow] = u]
             /\ ukey' = [ukey EXCEPT ![u] = UkeyOf(up)]
     /\ UNCHANGED <<dpVars, pushed, policy, reval_seq, thread, exitVars>>

\* dpif_operate puts the flow, or fails; it fails if there is one.
PutFlow(h) ==
  LET up == upcall[h]
  IN /\ up.pc = "put"
     /\ \/ /\ ~dp[up.flow].there
           /\ dp' = [dp EXCEPT ![up.flow] = [there |-> TRUE, n |-> 0, own |-> TRUE,
                                             actions |-> up.actions]]
           /\ Handles(h, "finish", up)
        \/ Handles(h, "failed", up) /\ UNCHANGED dp
     /\ UNCHANGED <<miss, left, misses, forwarded, ukeyVars, policy, reval_seq, thread,
                    exitVars>>

ukey_install_finish(h) ==
  LET up == upcall[h]
  IN /\ up.pc \in {"finish", "failed"}
     /\ ukey' = [ukey EXCEPT ![up.ukey].locked = FALSE,
                             ![up.ukey].exists = (up.pc = "finish")]
     /\ Handles(h, "idle", IdleUpcall)
     /\ UNCHANGED <<dpVars, umap, pushed, policy, reval_seq, thread, exitVars>>

HandlerStep(h) ==
  \/ HandlerExits(h) \/ recv_upcalls(h) \/ PutDropFlow(h) \/ upcall_xlate(h)
  \/ xlate_actions(h) \/ InstallStart(h) \/ PutFlow(h) \/ ukey_install_finish(h)

-----------------------------------------------------------------------------
(* Revalidators: the dump.                                                 *)

\* Mutant of StartDump: the latch is looked at only to skip the dump.
StartDumpForgetsExit ==
  /\ thread[Leader].pc = "start"
  /\ left' = [f \in Flows |-> IF exit_latch THEN 0 ELSE IF dp[f].there THEN 2 ELSE 1]
  /\ Goes(Leader, "b1")
  /\ UNCHANGED <<dp, miss, misses, forwarded, ukeyVars, policy, reval_seq, upcall, exitVars>>

\* The leader starts a dump, unless the threads are to exit.  A flow that is
\* there is returned once or twice, one that comes later at most once.
StartDump ==
  /\ thread[Leader].pc = "start"
  /\ reval_exit' = exit_latch
  /\ left' = [f \in Flows |-> IF exit_latch THEN 0 ELSE IF dp[f].there THEN 2 ELSE 1]
  /\ Goes(Leader, "b1")
  /\ UNCHANGED <<dp, miss, misses, forwarded, ukeyVars, policy, reval_seq, upcall, exit_latch>>

\* udpif_revalidator: what a revalidator does after each of its barriers.
AfterBarrier(t, b) ==
  CASE b = "b1" -> IF reval_exit THEN "exited" ELSE "seq"
    [] b = "b2" -> "sweepseq"
    [] b = "b3" -> IF t = Leader THEN "end" ELSE "b1"

\* ovs_barrier_block: all revalidators have come to barrier b and go on.  The
\* dump is over after the second.
Barrier(b) ==
  /\ \A r \in Revalidators : thread[r].pc = b
  /\ thread' = [t \in Sweepers |->
       IF t = Main THEN thread[t] ELSE [thread[t] EXCEPT !.pc = AfterBarrier(t, b)]]
  /\ left' = IF b = "b2" THEN [f \in Flows |-> 0] ELSE left
  /\ UNCHANGED <<dp, miss, misses, forwarded, ukeyVars, policy, reval_seq, upcall, exitVars>>

\* revalidate reads the sequence numbers.
revalidate(r) ==
  /\ thread[r].pc = "seq"
  /\ thread' = [thread EXCEPT ![r].pc = "dump", ![r].seq = reval_seq]
  /\ UNCHANGED <<dpVars, ukeyVars, policy, reval_seq, upcall, exitVars>>

\* dpif_flow_dump_next gives a flow with the statistics it has now ...
DumpNext(r) ==
  /\ thread[r].pc = "dump"
  /\ \E f \in Flows :
       /\ dp[f].there
       /\ left[f] > 0
       /\ left' = [left EXCEPT ![f] = @ - 1]
       /\ thread' = [thread EXCEPT ![r].pc = "acquire", ![r].flow = f, ![r].n = dp[f].n]
  /\ UNCHANGED <<dp, miss, misses, forwarded, ukeyVars, policy, reval_seq, upcall, exitVars>>

\* ... or there are no more.
DumpEnd(r) ==
  /\ thread[r].pc = "dump"
  /\ misses \/ \A f \in Flows : dp[f].there => left[f] < 2
  /\ thread' = [thread EXCEPT ![r].pc = "b2", ![r].seq = 0]
  /\ UNCHANGED <<dpVars, ukeyVars, policy, reval_seq, upcall, exitVars>>

\* What revalidate_ukey can make of ukey k, given statistics n and a value
\* of reval_seq: whether it keeps the flow, the packets that it pushes and
\* the ukey.  A flow that is not worth a translation is given up; so is one
\* that cannot be parsed or whose port is gone, and then its packets are
\* lost; and one whose actions, or whose mask, are no longer right.
revalidate_ukey(k, n, seq) ==
  LET need == k.reval # seq
      push == IF n > k.n THEN n - k.n ELSE 0
      counted == [k EXCEPT !.n = n]
      Drops(kk, p) == [keep |-> FALSE, push |-> p, ukey |-> kk]
      Keeps(p) == [keep |-> TRUE, push |-> p, ukey |-> [counted EXCEPT !.reval = seq]]
  IN (IF need THEN {Drops(k, 0), Drops(counted, push)} ELSE {})
     \cup (IF need \/ push > 0 THEN {Drops(counted, 0)} ELSE {})
     \cup (IF need /\ k.actions # policy THEN {} ELSE {Keeps(push)})

\* The body of the loop of revalidate, with the ukey of the flow locked: a
\* ukey that this dump has seen is left alone, a flow that is idle for long,
\* or one too many, is not kept, any other is revalidated.
Dumped(r, u, outcome) ==
  /\ ukey' = [ukey EXCEPT ![u] = [outcome.ukey EXCEPT !.dumped = TRUE,
                                                       !.exists = outcome.keep]]
  /\ pushed' = [pushed EXCEPT ![thread[r].flow] = @ + outcome.push]
  /\ thread' = [thread EXCEPT ![r] =
       IF outcome.keep THEN [@ EXCEPT !.pc = "dump", !.flow = NULL, !.n = 0]
       ELSE [@ EXCEPT !.pc = "del", !.ukey = u, !.n = 0]]

Expired(k) == [keep |-> FALSE, push |-> 0, ukey |-> k]

\* ukey_acquire finds the ukey of the flow, or fails to lock it.
ukey_acquire(r) ==
  LET th == thread[r]
      u == umap[th.flow]
  IN /\ th.pc = "acquire"
     /\ u # NULL
     /\ IF ukey[u].locked \/ ukey[u].dumped
        THEN /\ thread' = [thread EXCEPT ![r] = [th EXCEPT !.pc = "dump", !.flow = NULL, !.n = 0]]
             /\ UNCHANGED <<ukey, pushed>>
        ELSE \E outcome \in revalidate_ukey(ukey[u], th.n, th.seq) \cup {Expired(ukey[u])} :
               Dumped(r, u, outcome)
     /\ UNCHANGED <<dpVars, umap, policy, reval_seq, upcall, exitVars>>

\* ukey_acquire finds none, and makes one.  It copies the actions from the
\* address of the pointer to them, not from where that points: only an empty
\* list comes out right.  After a terse dump it has to read the flow first:
\* the flow is still there, as flows without a ukey are not deleted.
ukey_create_from_dpif_flow(r) ==
  LET th == thread[r]
      u == Fresh
  IN /\ th.pc = "acquire"
     /\ umap[th.flow] = NULL
     /\ umap' = [umap EXCEPT ![th.flow] = u]
     /\ ukey' = [ukey EXCEPT ![u] =
          [NewUkey EXCEPT !.dumped = TRUE, !.reval = reval_seq, !.exists = TRUE,
                          !.actions = IF dp[th.flow].actions = Drop THEN Drop ELSE Garbage]]
     /\ thread' = [thread EXCEPT ![r] = [th EXCEPT !.pc = "dump", !.flow = NULL, !.n = 0]]
     /\ UNCHANGED <<dpVars, pushed, policy, reval_seq, upcall, exitVars>>

-----------------------------------------------------------------------------
(* Deletion of a flow, and garbage collection.                             *)

\* push_ukey_ops__: dpif_operate deletes the flow and returns its last
\* statistics, or zeros if there is no such flow, ...
DeleteFlow(t) ==
  LET f == thread[t].flow
  IN /\ thread[t].pc = "del"
     /\ dp' = [dp EXCEPT ![f] = NoFlow]
     /\ thread' = [thread EXCEPT ![t].pc = "push", ![t].n = dp[f].n]
     /\ UNCHANGED <<miss, left, misses, forwarded, ukeyVars, policy, reval_seq, upcall,
                    exitVars>>

\* Mutant of Unpushed: what has been pushed already is forgotten.
UnpushedAll(th) == th.n

Unpushed(th) == th.n - ukey[th.ukey].n

\* ... of which what the ukey does not know yet is pushed, or lost if the
\* flow's port is gone.
push_ukey_ops(t) ==
  LET th == thread[t]
  IN /\ th.pc = "push"
     /\ \E p \in {0, Unpushed(th)} : pushed' = [pushed EXCEPT ![th.flow] = @ + p]
     /\ thread' = [thread EXCEPT ![t] =
          IF th.gc THEN [th EXCEPT !.pc = "remove", !.n = 0]
          ELSE [th EXCEPT !.pc = "dump", !.flow = NULL, !.ukey = NULL, !.n = 0]]
     /\ UNCHANGED <<dpVars, umap, ukey, policy, reval_seq, upcall, exitVars>>

\* Mutant of Swept: a revalidator sweeps every umap.
SweptAll(r) == Flows

Swept(r) == Slice[r]

\* The sweep by a revalidator of its slice.
revalidator_sweep(r) ==
  /\ thread[r].pc = "sweepseq"
  /\ thread' = [thread EXCEPT ![r] =
                  [@ EXCEPT !.pc = "sweep", !.seq = reval_seq, !.todo = Swept(r), !.gc = TRUE]]
  /\ UNCHANGED <<dpVars, ukeyVars, policy, reval_seq, upcall, exitVars>>

\* Mutant of SweepTo: flows that the dump left out are not revalidated.
SweepOnlyDead(t, u) ==
  LET k == ukey[u]
  IN CASE u = NULL \/ k.locked                     -> "sweep"
       [] ~k.exists                               -> "remove"
       [] t = Main                                -> "del"
       [] OTHER                                   -> "sweep"

\* What the sweep does next with ukey u, once it has looked at it.
SweepTo(t, u) ==
  LET k == ukey[u]
  IN CASE u = NULL \/ k.locked                     -> "sweep"
       [] ~k.exists                               -> "remove"
       [] t = Main                                -> "del"
       [] ~k.dumped /\ k.reval # thread[t].seq    -> "missed"
       [] OTHER                                   -> "sweep"

\* revalidator_sweep__ looks at the ukey of flow f.
Visit(t, f) ==
  LET to == SweepTo(t, umap[f])
  IN /\ thread[t].pc = "sweep"
     /\ f \in thread[t].todo
     /\ thread' = [thread EXCEPT ![t] =
          IF to = "sweep" THEN [@ EXCEPT !.todo = @ \ {f}]
          ELSE [@ EXCEPT !.pc = to, !.todo = @ \ {f}, !.flow = f, !.ukey = umap[f]]]
     /\ UNCHANGED <<dpVars, ukeyVars, policy, reval_seq, upcall, exitVars>>

\* The flow was not in the dump: it is revalidated as if it had no packets.
handle_missed_revalidation(r) ==
  LET th == thread[r]
  IN /\ th.pc = "missed"
     /\ \E outcome \in revalidate_ukey(ukey[th.ukey], 0, th.seq) :
          /\ ukey' = [ukey EXCEPT ![th.ukey] = outcome.ukey]
          /\ pushed' = [pushed EXCEPT ![th.flow] = @ + outcome.push]
          /\ thread' = [thread EXCEPT ![r] =
               IF outcome.keep THEN [th EXCEPT !.pc = "sweep", !.flow = NULL, !.ukey = NULL]
               ELSE [th EXCEPT !.pc = "del"]]
     /\ UNCHANGED <<dpVars, umap, policy, reval_seq, upcall, exitVars>>

\* ukey_delete takes the ukey out of its umap.  cmap_replace asserts that it
\* is there.  The ukey is freed once no thread refers to it.
ukey_delete(t) ==
  LET th == thread[t]
  IN /\ th.pc = "remove"
     /\ umap[th.flow] = th.ukey
     /\ umap' = [umap EXCEPT ![th.flow] = NULL]
     /\ ukey' = IF \E s \in Sweepers \ {t} : thread[s].ukey = th.ukey THEN ukey
                ELSE [ukey EXCEPT ![th.ukey] = NewUkey]
     /\ thread' = [thread EXCEPT ![t] = [th EXCEPT !.pc = "sweep", !.flow = NULL, !.ukey = NULL]]
     /\ UNCHANGED <<dpVars, pushed, policy, reval_seq, upcall, exitVars>>

SweepEnd(r) ==
  /\ thread[r].pc = "sweep"
  /\ thread[r].todo = {}
  /\ thread' = [thread EXCEPT ![r].pc = "b3", ![r].gc = FALSE, ![r].seq = 0]
  /\ UNCHANGED <<dpVars, ukeyVars, policy, reval_seq, upcall, exitVars>>

\* The leader changes dump_seq, and sleeps until the next dump.
EndDump ==
  /\ thread[Leader].pc = "end"
  /\ Goes(Leader, "start")
  /\ ukey' = [u \in Ukeys |-> [ukey[u] EXCEPT !.dumped = FALSE]]
  /\ upcall' = [h \in Handlers |-> [upcall[h] EXCEPT !.fresh = FALSE]]
  /\ UNCHANGED <<dpVars, umap, pushed, policy, reval_seq, exitVars>>

Collect(t) ==
  \/ DeleteFlow(t) \/ push_ukey_ops(t) \/ ukey_delete(t)
  \/ \E f \in Flows : Visit(t, f)

RevalidatorStep(r) ==
  \/ revalidate(r) \/ DumpNext(r) \/ DumpEnd(r) \/ ukey_acquire(r)
  \/ ukey_create_from_dpif_flow(r) \/ revalidator_sweep(r)
  \/ handle_missed_revalidation(r) \/ SweepEnd(r) \/ Collect(r)

Revalidation ==
  \/ \E r \in Revalidators : RevalidatorStep(r)
  \/ \E b \in {"b1", "b2", "b3"} : Barrier(b)
  \/ StartDump \/ EndDump

-----------------------------------------------------------------------------
(* The main thread.                                                        *)

\* type_run of ofproto-dpif.c: the new configuration is committed ...
xlate_txn_commit ==
  /\ thread[Main].pc = "idle"
  /\ policy < MaxPolicy
  /\ policy' = policy + 1
  /\ Goes(Main, "changed")
  /\ UNCHANGED <<dpVars, ukeyVars, reval_seq, upcall, exitVars>>

\* ... and then the revalidators are told.
udpif_revalidate ==
  /\ thread[Main].pc = "changed"
  /\ reval_seq' = reval_seq + 1
  /\ Goes(Main, "idle")
  /\ UNCHANGED <<dpVars, ukeyVars, policy, upcall, exitVars>>

\* udpif_stop_threads: the latch is set, ...
udpif_stop_threads ==
  /\ thread[Main].pc = "idle"
  /\ exit_latch' = TRUE
  /\ Goes(Main, "join")
  /\ UNCHANGED <<dpVars, ukeyVars, policy, reval_seq, upcall, reval_exit>>

\* ... the threads are joined, ...
Join ==
  /\ thread[Main].pc = "join"
  /\ \A h \in Handlers : upcall[h].pc = "exited"
  /\ \A r \in Revalidators : thread[r].pc = "exited"
  /\ thread' = [thread EXCEPT ![Main] = [@ EXCEPT !.pc = "sweep", !.todo = Flows, !.gc = TRUE]]
  /\ UNCHANGED <<dpVars, ukeyVars, policy, reval_seq, upcall, exitVars>>

\* ... and every slice has been purged.  udpif_synchronize starts the threads
\* again at once, udpif_flush after the datapath has been flushed.
udpif_start_threads ==
  /\ thread[Main].pc = "sweep"
  /\ thread[Main].todo = {}
  /\ exit_latch' = FALSE
  /\ reval_exit' = FALSE
  /\ dp' \in {dp, [f \in Flows |-> NoFlow]}
  /\ thread' = [t \in Sweepers |-> Started(t)]
  /\ upcall' = [h \in Handlers |-> IdleUpcall]
  /\ UNCHANGED <<miss, left, misses, forwarded, ukeyVars, policy, reval_seq>>

MainStep ==
  udpif_revalidate \/ Join \/ udpif_start_threads \/ Collect(Main)

-----------------------------------------------------------------------------

Next ==
  \/ \E f \in Flows : Packet(f)
  \/ \E h \in Handlers : HandlerStep(h)
  \/ Revalidation
  \/ MainStep \/ xlate_txn_commit \/ udpif_stop_threads

Spec == Init /\ [][Next]_vars

\* Threads are scheduled; the leader's sleep between dumps is bounded by a
\* timer.  That some revalidator moves is enough: between two barriers none of
\* them moves for ever.  No packet has to arrive, no change has to be made.
Fairness ==
  /\ \A h \in Handlers : WF_vars(HandlerStep(h))
  /\ WF_vars(Revalidation)
  /\ WF_vars(MainStep)

FairSpec == Spec /\ Fairness

-----------------------------------------------------------------------------

\* A thread has taken ukey u to delete its flow, and is at one of pcs.
Deleting(u, pcs) == \E t \in Sweepers : thread[t].ukey = u /\ thread[t].pc \in pcs

\* The types of the variables.
TypeOK ==
  /\ miss \subseteq Flows
  /\ left \in [Flows -> 0 .. 2]
  /\ forwarded \in [Flows -> 0 .. MaxPackets]
  /\ pushed \in [Flows -> Int]
  /\ policy \in 0 .. MaxPolicy
  /\ reval_seq \in 0 .. MaxPolicy
  /\ umap \in [Flows -> Ukeys \cup {NULL}]
  /\ \A u \in Ukeys :
       ukey[u] \in [dumped : BOOLEAN, reval : 0 .. MaxPolicy, exists : BOOLEAN,
                    n : 0 .. MaxPackets, actions : {Garbage, Drop} \cup (0 .. MaxPolicy),
                    locked : BOOLEAN]
  /\ exit_latch \in BOOLEAN
  /\ reval_exit \in BOOLEAN

\* ukey_delete finds the ukey in its umap (the assertion of cmap_replace):
\* nobody else has taken it out since this thread looked at it.
RemovedOnce ==
  \A t \in Sweepers : thread[t].pc = "remove" => umap[thread[t].flow] = thread[t].ukey

\* A flow that a handler has put has a ukey that says so, except while it is
\* being put or deleted; and a ukey says so only of a flow that is there.
UkeysMirrorDatapath ==
  \A f \in Flows :
    LET u == umap[f]
    IN /\ dp[f].own => /\ u # NULL
                       /\ ukey[u].exists \/ ukey[u].locked \/ Deleting(u, {"del"})
       /\ u # NULL /\ ukey[u].exists => dp[f].there \/ Deleting(u, {"push", "remove"})

\* A flow with outdated actions is due for revalidation: its ukey has a
\* different reval_seq, unless the main thread is about to change that.
StaleIsMarked ==
  \A f \in Flows :
    dp[f].own /\ dp[f].actions # policy =>
      \/ ukey[umap[f]].reval # reval_seq
      \/ thread[Main].pc = "changed"
      \/ Deleting(umap[f], {"del"})

\* OpenFlow statistics do not count a packet twice.
CountedOnce == \A f \in Flows : pushed[f] <= forwarded[f]

\* They do not if every dump is complete.
CountedOnceIfComplete == ~misses => CountedOnce

\* A flow with outdated actions is deleted, whether or not dumps show it.
StaleFlowsGo ==
  \A f \in Flows :
    (dp[f].own /\ dp[f].actions < policy) ~> ~(dp[f].own /\ dp[f].actions < policy)

\* udpif_stop_threads ends: no thread is left behind at a barrier.
ThreadsStop == exit_latch ~> ~exit_latch
=============================================================================
