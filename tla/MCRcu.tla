------------------------------- MODULE MCRcu -------------------------------
(***************************************************************************)
(* Instances of Rcu for TLC.                                               *)
(***************************************************************************)
EXTENDS Rcu, TLC

Symmetry ==
  Permutations(Threads \ Writers) \cup Permutations(Writers) \cup Permutations(Objects)

\* The bound on global_seqno must not stop the threads.  The numbers are only
\* ever compared, so replacing those in use by their ranks, and forgetting
\* the others, changes nothing that can be observed.  It is done as soon as
\* it can be, which keeps global_seqno below MaxSeqno: a number for each
\* thread, a target for each that synchronizes, 0 and global_seqno itself.
Registered(t) == t \in listed \/ pc[t] = "reg"

Used ==
  {0, global} \cup {seqno[t] : t \in {u \in OvsThreads : Registered(u)}}
              \cup {target[t] : t \in {u \in OvsThreads : op[u] = "sync"}}

Rank(v) == Cardinality({u \in Used : u < v})

Ranked ==
  [global |-> Rank(global),
   seqno  |-> [t \in OvsThreads |-> IF Registered(t) THEN Rank(seqno[t]) ELSE 0],
   target |-> [t \in OvsThreads |-> IF op[t] = "sync" THEN Rank(target[t]) ELSE 0]]

Compact == Ranked = [global |-> global, seqno |-> seqno, target |-> target]

Renumber ==
  /\ ~Compact
  /\ global' = Ranked.global
  /\ seqno' = Ranked.seqno
  /\ target' = Ranked.target
  /\ UNCHANGED <<listed, pc, op, cbVars, clientVars>>

RankedNext == (Compact /\ Next) \/ Renumber

RankedSpec == Init /\ [][RankedNext]_vars

\* Every thread finishes what it does in ovs-rcu.c and with the version it
\* reads, and, as every main loop reaches poll_block(), it quiesces again and
\* again.  Nobody has to write.
LiveSpec ==
  /\ RankedSpec
  /\ WF_vars(Renumber)
  /\ WF_vars(UrcuStep)
  /\ \A t \in OvsThreads : WF_vars(RcuStep(t))
  /\ \A t \in Threads : WF_vars(Done(t)) /\ SF_vars(quiesce(t))
  /\ \A t \in Writers : WF_vars(WriteStep(t))

\* Every callback that is postponed is called: a retired version is freed.
Reclaimed ==
  \A o \in Objects :
    (o \in flushed \cup batch \cup UNION {cbset[t] : t \in OvsThreads})
      ~> (o \in avail)

=============================================================================
