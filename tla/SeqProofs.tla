----------------------------- MODULE SeqProofs -----------------------------
(***************************************************************************)
(* For every set of threads and seqs: no wakeup is lost.                   *)
(*                                                                         *)
(* The argument: sequence numbers are never handed out twice, so the value *)
(* a thread read is the current one exactly when the seq was not touched   *)
(* since (Fresh); a waiter therefore stands for an untouched seq, and what *)
(* a thread asked for is either still watched by a waiter, or has set the  *)
(* latch, or made the wake immediate (Covered).                            *)
(***************************************************************************)
EXTENDS Seq, TLAPS

\* Every number in use was handed out, and a number a thread remembers is the
\* seq's value if and only if the seq was not changed or freed since.
Fresh ==
  \A s \in Seqs :
    /\ value[s] < seq_next
    /\ \A t \in Threads :
         seen[t][s] # None =>
           /\ seen[t][s] < seq_next
           /\ s \in dirty[t] <=> seen[t][s] # value[s]

\* A waiter watches a live seq at its current value, for a thread that has
\* read it since its last change, and the thread can hear it.
Watched ==
  \A t \in Threads, s \in Seqs :
    waiters[t][s] # None =>
      /\ Alive(s)
      /\ waiters[t][s] = value[s]
      /\ s \notin dirty[t]
      /\ pc[t] # "exited"
      /\ pc[t] \in {"run", "poll"} => nodes[t]

\* thread->waiting says whether the latch is polled for.
Polled ==
  \A t \in Threads :
    /\ pc[t] \in {"run", "poll"} => waiting[t] = nodes[t]
    /\ pc[t] \in {"woken", "exited"} => asked[t] = {} /\ nodes[t] = FALSE

\* What a thread asked for still has a waiter, or the poll is ready.
Covered ==
  \A t \in Threads, s \in Seqs :
    s \in asked[t] => waiters[t][s] # None \/ Awake(t)

IInv == TypeOK /\ Fresh /\ Watched /\ Polled /\ Covered

\* The invariant gives the three safety properties.
LEMMA InvariantSuffices ==
  IInv => NoLostWakeup /\ WaiterIsCurrent /\ WaiterIsHeard
<1> SUFFICES ASSUME IInv
             PROVE  NoLostWakeup /\ WaiterIsCurrent /\ WaiterIsHeard
  OBVIOUS
<1>lost. NoLostWakeup
  BY DEF IInv, TypeOK, Watched, Covered, NoLostWakeup
<1>current. WaiterIsCurrent
  BY DEF IInv, Watched, WaiterIsCurrent
<1>heard. WaiterIsHeard
  BY DEF IInv, Watched, WaiterIsHeard
<1> QED
  BY <1>lost, <1>current, <1>heard

-----------------------------------------------------------------------------
(* Types.                                                                  *)

\* A step of any action leaves the state well typed.
LEMMA TypeStep == TypeOK /\ [Next]_vars => TypeOK'
<1> SUFFICES ASSUME TypeOK, [Next]_vars PROVE TypeOK'
  OBVIOUS
<1> USE SeqAssumption DEF TypeOK, Values, None
<1>seq. ASSUME NEW s \in Seqs, seq_create(s) \/ seq_destroy(s) \/ seq_change(s)
        PROVE  TypeOK'
  <2>wake. ASSUME seq_wake_waiters(s)
           PROVE  /\ latch' \in [Threads -> BOOLEAN]
                  /\ waiters' \in [Threads -> [Seqs -> Values]]
    BY <2>wake DEF seq_wake_waiters
  <2>new. ASSUME NewValue(s)
          PROVE  seq_next' \in 1 .. MaxValue + 1 /\ value' \in [Seqs -> Values]
    BY <2>new DEF NewValue
  <2>create. CASE seq_create(s)
    BY <2>create, <2>new DEF seq_create
  <2>destroy. CASE seq_destroy(s)
    BY <2>destroy, <2>wake DEF seq_destroy, Invalidate
  <2>change. CASE seq_change(s)
    BY <2>change, <2>wake, <2>new DEF seq_change, Invalidate
  <2> QED
    BY <1>seq, <2>create, <2>destroy, <2>change
<1>read. ASSUME NEW t \in Threads, NEW s \in Seqs, seq_read(t, s)
         PROVE  TypeOK'
  BY <1>read DEF seq_read
<1>wait. ASSUME NEW t \in Threads, NEW s \in Seqs, seq_wait_at(t, s)
         PROVE  TypeOK'
  <2>waiters. waiters' \in [Threads -> [Seqs -> Values]]
    <3>value. value[s] \in Values /\ waiters[t] \in [Seqs -> Values]
      OBVIOUS
    <3>insert. CASE InsertWaiter(t, s)
      BY <3>insert, <3>value DEF InsertWaiter
    <3>keep. CASE UNCHANGED waiters
      BY <3>keep
    <3> QED
      BY <1>wait, <3>insert, <3>keep DEF seq_wait_at, seq_wait__
  <2>waiting. waiting' \in [Threads -> BOOLEAN]
    BY <1>wait DEF seq_wait_at, seq_wait__, InsertWaiter
  <2>nodes. nodes' \in [Threads -> BOOLEAN]
    BY <1>wait DEF seq_wait_at, seq_wait__, InsertWaiter, latch_wait
  <2>zero. zero' \in [Threads -> BOOLEAN]
    BY <1>wait DEF seq_wait_at, seq_wait__, poll_immediate_wake
  <2>asked. asked' \in [Threads -> SUBSET Seqs]
    BY <1>wait DEF seq_wait_at
  <2> QED
    BY <1>wait, <2>waiters, <2>waiting, <2>nodes, <2>zero, <2>asked
       DEF seq_wait_at
<1>block. ASSUME NEW t \in Threads, poll_block(t)
          PROVE  TypeOK'
  BY <1>block DEF poll_block
<1>unpoll. ASSUME NEW t \in Threads, Unpoll(t)
           PROVE  TypeOK'
  BY <1>unpoll DEF Unpoll
<1>woke. ASSUME NEW t \in Threads, seq_woke(t)
         PROVE  TypeOK'
  BY <1>woke DEF seq_woke, seq_thread_woke
<1>exit. ASSUME NEW t \in Threads, seq_thread_exit(t)
         PROVE  TypeOK'
  BY <1>exit DEF seq_thread_exit, seq_thread_woke
<1>stutter. CASE UNCHANGED vars
  BY <1>stutter DEF vars
<1> QED
  BY <1>seq, <1>read, <1>wait, <1>block, <1>unpoll, <1>woke, <1>exit,
     <1>stutter DEF Next, PollWakes, PollOther

-----------------------------------------------------------------------------
(* What the actions do to one thread and one seq.                          *)

\* seq_wake_waiters on s: latches of the waiters are set, others are kept.
LEMMA WakeEffect ==
  ASSUME TypeOK, NEW s \in Seqs, seq_wake_waiters(s),
         NEW t \in Threads, NEW u \in Seqs
  PROVE  /\ latch'[t] = (latch[t] \/ waiters[t][s] # None)
         /\ waiters'[t][u] = IF u = s THEN None ELSE waiters[t][u]
BY DEF TypeOK, seq_wake_waiters

\* seq_create, seq_destroy and seq_change keep the invariant.
LEMMA SeqStep ==
  ASSUME IInv, NEW s \in Seqs,
         seq_create(s) \/ seq_destroy(s) \/ seq_change(s)
  PROVE  Fresh' /\ Watched' /\ Polled' /\ Covered'
<1> USE SeqAssumption
<1>types. TypeOK /\ TypeOK'
  BY TypeStep DEF IInv, Next
<1>create. CASE seq_create(s)
  <2>fresh. Fresh'
    BY <1>create, <1>types
       DEF IInv, Fresh, seq_create, NewValue, TypeOK, Values, Alive, None
  <2>watched. Watched'
    BY <1>create, <1>types
       DEF IInv, Watched, seq_create, NewValue, TypeOK, Values, Alive, None
  <2> QED
    BY <1>create, <2>fresh, <2>watched
       DEF IInv, Polled, Covered, seq_create, Awake
<1>touch. CASE seq_destroy(s) \/ seq_change(s)
  <2>wake. \A t \in Threads, u \in Seqs :
             /\ latch'[t] = (latch[t] \/ waiters[t][s] # None)
             /\ waiters'[t][u] = IF u = s THEN None ELSE waiters[t][u]
    BY <1>touch, <1>types, WakeEffect DEF seq_destroy, seq_change
  <2>value. \A u \in Seqs :
             /\ u # s => value'[u] = value[u]
             /\ u = s => value'[u] \in {None, seq_next}
    BY <1>touch, <1>types DEF seq_destroy, seq_change, NewValue, TypeOK
  <2>next. seq_next' >= seq_next /\ (value'[s] = seq_next => seq_next' = seq_next + 1)
    BY <1>touch, <1>types DEF seq_destroy, seq_change, NewValue, TypeOK, None
  <2>dirty. \A t \in Threads : dirty'[t] = dirty[t] \cup {s}
    BY <1>touch DEF seq_destroy, seq_change, Invalidate
  <2>same. UNCHANGED <<waiting, nodes, zero, pc, seen, asked>>
    BY <1>touch DEF seq_destroy, seq_change
  <2>fresh. Fresh'
    <3> SUFFICES ASSUME NEW u \in Seqs
                 PROVE  /\ value'[u] < seq_next'
                        /\ \A t \in Threads :
                             seen'[t][u] # None =>
                               /\ seen'[t][u] < seq_next'
                               /\ u \in dirty'[t] <=> seen'[t][u] # value'[u]
      BY DEF Fresh
    <3>num. /\ seq_next \in Nat \ {0} /\ seq_next' \in Nat
            /\ value[u] \in Nat /\ value[u] < seq_next
      BY <1>types DEF IInv, Fresh, TypeOK, Values
    <3>below. value'[u] < seq_next'
      BY <3>num, <2>value, <2>next DEF None
    <3>seen. ASSUME NEW t \in Threads, seen'[t][u] # None
             PROVE  /\ seen'[t][u] < seq_next'
                    /\ u \in dirty'[t] <=> seen'[t][u] # value'[u]
      <4>old. /\ seen'[t][u] = seen[t][u] /\ seen[t][u] \in Nat
              /\ seen[t][u] < seq_next
              /\ u \in dirty[t] <=> seen[t][u] # value[u]
        BY <1>types, <2>same, <3>seen DEF IInv, Fresh, TypeOK, Values
      <4>self. CASE u = s
        BY <4>self, <4>old, <3>num, <3>seen, <2>value, <2>next, <2>dirty
      <4>other. CASE u # s
        BY <4>other, <4>old, <3>num, <2>value, <2>next, <2>dirty
      <4> QED
        BY <4>self, <4>other
    <3> QED
      BY <3>below, <3>seen
  <2>watched. Watched'
    BY <1>types, <2>wake, <2>value, <2>dirty, <2>same
       DEF IInv, Watched, TypeOK, Alive
  <2>polled. Polled'
    BY <2>same DEF IInv, Polled
  <2>covered. Covered'
    <3> SUFFICES ASSUME NEW t \in Threads, NEW u \in Seqs, u \in asked'[t]
                 PROVE  waiters'[t][u] # None \/ Awake(t)'
      BY DEF Covered
    <3>old. waiters[t][u] # None \/ Awake(t)
      BY <2>same DEF IInv, Covered
    <3>heard. waiters[t][u] # None => nodes[t]
      <4>pc. pc[t] \in {"run", "poll"}
        BY <2>same, <1>types DEF IInv, Polled, TypeOK
      <4> QED
        BY <4>pc DEF IInv, Watched
    <3> QED
      BY <3>old, <3>heard, <2>wake, <2>same DEF Awake
  <2> QED
    BY <2>fresh, <2>watched, <2>polled, <2>covered
<1> QED
  BY <1>create, <1>touch

\* seq_read keeps the invariant: the thread now knows the current value.
LEMMA ReadStep ==
  ASSUME IInv, NEW t \in Threads, NEW s \in Seqs, seq_read(t, s)
  PROVE  Fresh' /\ Watched' /\ Polled' /\ Covered'
<1>seen. \A q \in Threads, u \in Seqs :
           seen'[q][u] = IF q = t /\ u = s THEN value[s] ELSE seen[q][u]
  BY DEF seq_read, IInv, TypeOK
<1>dirty. \A q \in Threads :
           dirty'[q] = IF q = t THEN dirty[q] \ {s} ELSE dirty[q]
  BY DEF seq_read, IInv, TypeOK
<1>same. UNCHANGED <<seq_next, value, waiters, latch, waiting, nodes, zero, pc, asked>>
  BY DEF seq_read
<1>fresh. Fresh'
  <2> SUFFICES ASSUME NEW u \in Seqs, NEW q \in Threads
               PROVE  /\ value'[u] < seq_next'
                      /\ seen'[q][u] # None =>
                           /\ seen'[q][u] < seq_next'
                           /\ u \in dirty'[q] <=> seen'[q][u] # value'[u]
    BY <1>same DEF Fresh, IInv
  <2>old. /\ value[u] < seq_next
          /\ seen[q][u] # None =>
               /\ seen[q][u] < seq_next
               /\ u \in dirty[q] <=> seen[q][u] # value[u]
    BY DEF IInv, Fresh
  <2>self. CASE q = t /\ u = s
    BY <2>self, <2>old, <1>seen, <1>dirty, <1>same
  <2>other. CASE ~(q = t /\ u = s)
    <3>kept. seen'[q][u] = seen[q][u] /\ (u \in dirty'[q] <=> u \in dirty[q])
      BY <2>other, <1>seen, <1>dirty
    <3> QED
      BY <3>kept, <2>old, <1>same
  <2> QED
    BY <2>self, <2>other
<1>watched. Watched'
  BY <1>dirty, <1>same DEF IInv, Watched, Alive
<1> QED
  BY <1>fresh, <1>watched, <1>same DEF IInv, Polled, Covered, Awake

\* seq_wait_at keeps the invariant: either the value is current, and there is
\* a waiter afterwards, or the wake is immediate.
LEMMA WaitStep ==
  ASSUME IInv, NEW t \in Threads, NEW s \in Seqs, seq_wait_at(t, s)
  PROVE  Fresh' /\ Watched' /\ Polled' /\ Covered'
<1>types. TypeOK
  BY DEF IInv
<1>same. UNCHANGED <<seq_next, value, latch, pc, seen, dirty>>
  BY DEF seq_wait_at
<1>asked. \A q \in Threads :
           asked'[q] = IF q = t THEN asked[q] \cup {s} ELSE asked[q]
  BY <1>types DEF seq_wait_at, TypeOK
<1>run. pc[t] = "run" /\ waiting[t] = nodes[t] /\ Alive(s)
  BY DEF IInv, Polled, seq_wait_at
<1>fresh. Fresh'
  BY <1>same DEF IInv, Fresh
<1>insert. CASE seen[t][s] = value[s] /\ waiters[t][s] = None
  <2>do. /\ InsertWaiter(t, s) /\ UNCHANGED zero
         /\ s \notin dirty[t]
    BY <1>insert DEF seq_wait_at, seq_wait__, IInv, Fresh
  <2>waiters. \A q \in Threads, u \in Seqs :
       waiters'[q][u] = IF q = t /\ u = s THEN value[s] ELSE waiters[q][u]
    BY <2>do, <1>types DEF InsertWaiter, TypeOK
  <2>nodes. /\ nodes'[t] = TRUE /\ waiting'[t] = TRUE
            /\ \A q \in Threads : q # t => nodes'[q] = nodes[q] /\ waiting'[q] = waiting[q]
    BY <2>do, <1>types, <1>run DEF InsertWaiter, latch_wait, TypeOK
  <2>watched. Watched'
    BY <2>waiters, <2>nodes, <2>do, <1>run, <1>same DEF IInv, Watched, Alive
  <2>polled. Polled'
    BY <2>nodes, <1>run, <1>same, <1>asked DEF IInv, Polled
  <2>covered. Covered'
    <3> SUFFICES ASSUME NEW q \in Threads, NEW u \in Seqs, u \in asked'[q]
                 PROVE  waiters'[q][u] # None \/ Awake(q)'
      BY DEF Covered
    <3>self. CASE q = t /\ u = s
      BY <3>self, <2>waiters, <1>run DEF Alive
    <3>other. CASE ~(q = t /\ u = s)
      <4>old. waiters[q][u] # None \/ Awake(q)
        BY <3>other, <1>asked DEF IInv, Covered
      <4>awake. Awake(q) => Awake(q)'
        BY <2>nodes, <2>do, <1>same DEF Awake
      <4> QED
        BY <4>old, <4>awake, <3>other, <2>waiters
    <3> QED
      BY <3>self, <3>other
  <2> QED
    BY <1>fresh, <2>watched, <2>polled, <2>covered
<1>keep. CASE ~(seen[t][s] = value[s] /\ waiters[t][s] = None)
  <2>do. UNCHANGED <<waiters, waiting, nodes>>
    BY <1>keep DEF seq_wait_at, seq_wait__
  <2>zero. /\ \A q \in Threads : q # t => zero'[q] = zero[q]
           /\ zero[t] => zero'[t]
           /\ waiters[t][s] = None => zero'[t]
    BY <1>keep, <1>types DEF seq_wait_at, seq_wait__, poll_immediate_wake, TypeOK
  <2>watched. Watched'
    BY <2>do, <1>same DEF IInv, Watched, Alive
  <2>polled. Polled'
    BY <2>do, <1>run, <1>same, <1>asked DEF IInv, Polled
  <2>covered. Covered'
    BY <2>do, <2>zero, <1>same, <1>asked DEF IInv, Covered, Awake
  <2> QED
    BY <1>fresh, <2>watched, <2>polled, <2>covered
<1> QED
  BY <1>insert, <1>keep

\* The steps of poll_block and the end of a thread keep the invariant.
LEMMA PollStep ==
  ASSUME IInv, NEW t \in Threads,
         poll_block(t) \/ Unpoll(t) \/ seq_woke(t) \/ seq_thread_exit(t)
  PROVE  Fresh' /\ Watched' /\ Polled' /\ Covered'
<1>types. TypeOK
  BY DEF IInv
<1>block. CASE poll_block(t)
  BY <1>block, <1>types
     DEF poll_block, IInv, TypeOK, Fresh, Watched, Polled, Covered, Awake, Alive
<1>unpoll. CASE Unpoll(t)
  <2>fresh. Fresh'
    BY <1>unpoll DEF Unpoll, IInv, Fresh
  <2>watched. Watched'
    BY <1>unpoll, <1>types DEF Unpoll, IInv, Watched, Alive, TypeOK
  <2>polled. Polled'
    BY <1>unpoll, <1>types DEF Unpoll, IInv, Polled, TypeOK
  <2>covered. Covered'
    BY <1>unpoll, <1>types DEF Unpoll, IInv, Covered, Awake, TypeOK
  <2> QED
    BY <2>fresh, <2>watched, <2>polled, <2>covered
<1>leave. CASE seq_woke(t) \/ seq_thread_exit(t)
  <2>waiters. \A q \in Threads, u \in Seqs :
       waiters'[q][u] = IF q = t THEN None ELSE waiters[q][u]
    BY <1>leave, <1>types DEF seq_woke, seq_thread_exit, seq_thread_woke, TypeOK
  <2>same. UNCHANGED <<seq_next, value, dirty>>
    BY <1>leave DEF seq_woke, seq_thread_exit
  <2>others. \A q \in Threads : q # t =>
               /\ latch'[q] = latch[q] /\ waiting'[q] = waiting[q]
               /\ nodes'[q] = nodes[q] /\ zero'[q] = zero[q] /\ pc'[q] = pc[q]
               /\ seen'[q] = seen[q] /\ asked'[q] = asked[q]
    BY <1>leave, <1>types DEF seq_woke, seq_thread_exit, seq_thread_woke, TypeOK
  <2>self. /\ waiting'[t] = FALSE /\ asked'[t] = {}
           /\ nodes'[t] = FALSE
           /\ pc'[t] \in {"run", "exited"}
           /\ \A u \in Seqs : seen'[t][u] \in {seen[t][u], None}
    <3>woke. CASE seq_woke(t)
      <4>nodes. nodes[t] = FALSE /\ asked[t] = {}
        BY <3>woke DEF seq_woke, IInv, Polled
      <4> QED
        BY <3>woke, <4>nodes, <1>types DEF seq_woke, TypeOK
    <3>exit. CASE seq_thread_exit(t)
      BY <3>exit, <1>types DEF seq_thread_exit, TypeOK
    <3> QED
      BY <1>leave, <3>woke, <3>exit
  <2>fresh. Fresh'
    BY <2>same, <2>others, <2>self DEF IInv, Fresh
  <2>watched. Watched'
    BY <2>waiters, <2>same, <2>others DEF IInv, Watched, Alive
  <2>polled. Polled'
    BY <2>others, <2>self DEF IInv, Polled
  <2>covered. Covered'
    BY <2>waiters, <2>others, <2>self DEF IInv, Covered, Awake
  <2> QED
    BY <2>fresh, <2>watched, <2>polled, <2>covered
<1> QED
  BY <1>block, <1>unpoll, <1>leave

-----------------------------------------------------------------------------

\* Whatever the threads call, and in whatever order, lib/seq.c keeps the
\* invariant.
THEOREM SeqInvariant == Spec => []IInv
<1>init. Init => IInv
  BY SeqAssumption
     DEF Init, IInv, TypeOK, Values, None, Fresh, Watched, Polled, Covered
<1>step. IInv /\ [Next]_vars => IInv'
  <2> SUFFICES ASSUME IInv, [Next]_vars PROVE IInv'
    OBVIOUS
  <2>types. TypeOK'
    BY TypeStep DEF IInv
  <2>stutter. CASE UNCHANGED vars
    BY <2>stutter, <2>types
       DEF vars, IInv, Fresh, Watched, Polled, Covered, Awake, Alive
  <2>next. CASE Next
    BY <2>next, <2>types, SeqStep, ReadStep, WaitStep, PollStep
       DEF Next, PollWakes, PollOther, IInv
  <2> QED
    BY <2>stutter, <2>next
<1> QED
  BY <1>init, <1>step, PTL DEF Spec

\* Type correctness of the sequence numbers, waiters and poll loops.
THEOREM SeqTypeCorrect == Spec => []TypeOK
<1>weaken. IInv => TypeOK
  BY DEF IInv
<1> QED
  BY SeqInvariant, <1>weaken, PTL

\* A thread that sleeps on a seq that changed after it read it, or that was
\* destroyed, has a poll that returns: seq_read, seq_wait and poll_block are
\* free of lost wakeups, for any number of threads and seqs.
THEOREM NoWakeupIsLost == Spec => []NoLostWakeup
<1>weaken. IInv => NoLostWakeup
  BY InvariantSuffices
<1> QED
  BY SeqInvariant, <1>weaken, PTL

\* Waiters are neither stale nor dangling: seq_wake_waiters only meets live
\* threads, seq_waiter_destroy only live seqs, and the defensive branch of
\* seq_wait__ never runs.
THEOREM WaitersSound == Spec => [](WaiterIsCurrent /\ WaiterIsHeard)
<1>weaken. IInv => WaiterIsCurrent /\ WaiterIsHeard
  BY InvariantSuffices
<1> QED
  BY SeqInvariant, <1>weaken, PTL

=============================================================================
