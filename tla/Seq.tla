-------------------------------- MODULE Seq --------------------------------
(***************************************************************************)
(* Sequence numbers (lib/seq.c) with the part of the poll loop             *)
(* (lib/poll-loop.c, lib/latch-unix.c) they rest on: how a thread sleeps   *)
(* until another thread changes a "struct seq", without a lock around the  *)
(* object the seq stands for.                                              *)
(*                                                                         *)
(* Every function of seq.c runs under seq_mutex and is one action.         *)
(* poll_block() is three: it starts to poll, the poll ends and the loop    *)
(* forgets what it waited for, and seq_woke() takes seq_mutex.             *)
(***************************************************************************)
EXTENDS Integers, SeqConfig

VARIABLES
  seq_next,  \* the next sequence number, one counter for all seqs
  value,     \* value[s]: seq->value, None where no seq is allocated
  waiters,   \* waiters[t][s]: value of t's waiter in seq->waiters, or None
  latch,     \* latch[t]: t's wakeup latch is set
  waiting,   \* waiting[t]: thread->waiting
  nodes,     \* nodes[t]: t's latch is in its poll_loop's poll_nodes
  zero,      \* zero[t]: t's timeout_when is LLONG_MIN (immediate wake)
  pc,        \* pc[t]: running, in poll(), back from poll(), or exited
  seen,      \* seen[t][s]: what t's last seq_read of s returned, or None
  asked,     \* history: the seqs t has passed to seq_wait for this poll_block
  dirty      \* history: the seqs changed or destroyed since t last read them

vars == <<seq_next, value, waiters, latch, waiting, nodes, zero, pc, seen,
          asked, dirty>>

None == 0

Alive(s) == value[s] # None

-----------------------------------------------------------------------------

Init ==
  /\ seq_next = 1
  /\ value = [s \in Seqs |-> None]
  /\ waiters = [t \in Threads |-> [s \in Seqs |-> None]]
  /\ latch = [t \in Threads |-> FALSE]
  /\ waiting = [t \in Threads |-> FALSE]
  /\ nodes = [t \in Threads |-> FALSE]
  /\ zero = [t \in Threads |-> FALSE]
  /\ pc = [t \in Threads |-> "run"]
  /\ seen = [t \in Threads |-> [s \in Seqs |-> None]]
  /\ asked = [t \in Threads |-> {}]
  /\ dirty = [t \in Threads |-> {}]

\* Mutant of seq_wake_waiters: the waiters are dropped, no latch is set.
seq_drop_waiters(s) ==
  /\ waiters' = [t \in Threads |-> [waiters[t] EXCEPT ![s] = None]]
  /\ UNCHANGED latch

\* seq_wake_waiters: sets the latch of every waiter's thread and destroys
\* the waiter.
seq_wake_waiters(s) ==
  /\ latch' = [t \in Threads |-> latch[t] \/ waiters[t][s] # None]
  /\ waiters' = [t \in Threads |-> [waiters[t] EXCEPT ![s] = None]]

\* Whatever a thread knew of s is out of date.
Invalidate(s) == dirty' = [t \in Threads |-> dirty[t] \cup {s}]

\* Mutant of NewValue: the counter starts again for a new seq.
NewValueFromOne(s) ==
  /\ seq_next <= MaxValue
  /\ value' = [value EXCEPT ![s] = value[s] + 1]
  /\ seq_next' = seq_next + 1

\* seq->value = seq_next++.
NewValue(s) ==
  /\ seq_next <= MaxValue
  /\ value' = [value EXCEPT ![s] = seq_next]
  /\ seq_next' = seq_next + 1

\* seq_create, at an address that is free.
seq_create(s) ==
  /\ ~Alive(s)
  /\ NewValue(s)
  /\ UNCHANGED <<waiters, latch, waiting, nodes, zero, pc, seen, asked, dirty>>

seq_destroy(s) ==
  /\ Alive(s)
  /\ seq_wake_waiters(s)
  /\ value' = [value EXCEPT ![s] = None]
  /\ Invalidate(s)
  /\ UNCHANGED <<seq_next, waiting, nodes, zero, pc, seen, asked>>

seq_change(s) ==
  /\ Alive(s)
  /\ NewValue(s)
  /\ seq_wake_waiters(s)
  /\ Invalidate(s)
  /\ UNCHANGED <<waiting, nodes, zero, pc, seen, asked>>

seq_read(t, s) ==
  /\ pc[t] = "run"
  /\ Alive(s)
  /\ seen' = [seen EXCEPT ![t][s] = value[s]]
  /\ dirty' = [dirty EXCEPT ![t] = @ \ {s}]
  /\ UNCHANGED <<seq_next, value, waiters, latch, waiting, nodes, zero, pc,
                 asked>>

\* poll_immediate_wake_at.
poll_immediate_wake(t) == zero' = [zero EXCEPT ![t] = TRUE]

\* latch_wait_at: the latch's descriptor joins the loop's poll_nodes.
latch_wait(t) == nodes' = [nodes EXCEPT ![t] = TRUE]

\* The second half of seq_wait__: a new waiter, and the latch is polled for
\* once per poll_block.
InsertWaiter(t, s) ==
  /\ waiters' = [waiters EXCEPT ![t][s] = value[s]]
  /\ waiting' = [waiting EXCEPT ![t] = TRUE]
  /\ IF waiting[t] THEN UNCHANGED nodes ELSE latch_wait(t)

\* seq_wait__, called with the current value of s.  A thread that already
\* waits on s is woken at once if it waits for another value.
seq_wait__(t, s, v) ==
  IF waiters[t][s] = None
  THEN InsertWaiter(t, s) /\ UNCHANGED zero
  ELSE /\ zero' = [zero EXCEPT ![t] = @ \/ waiters[t][s] # v]
       /\ UNCHANGED <<waiters, waiting, nodes>>

\* seq_wait_at(seq, value), with the value of the thread's last seq_read.
seq_wait_at(t, s) ==
  /\ pc[t] = "run"
  /\ Alive(s)
  /\ seen[t][s] # None
  /\ IF seen[t][s] = value[s]
     THEN seq_wait__(t, s, seen[t][s])
     ELSE /\ poll_immediate_wake(t)
          /\ UNCHANGED <<waiters, waiting, nodes>>
  /\ asked' = [asked EXCEPT ![t] = @ \cup {s}]
  /\ UNCHANGED <<seq_next, value, latch, pc, seen, dirty>>

-----------------------------------------------------------------------------
(***************************************************************************)
(* poll_block.                                                             *)
(***************************************************************************)

\* The thread enters poll() with the nodes and the timeout it registered.
poll_block(t) ==
  /\ pc[t] = "run"
  /\ pc' = [pc EXCEPT ![t] = "poll"]
  /\ UNCHANGED <<seq_next, value, waiters, latch, waiting, nodes, zero, seen,
                 asked, dirty>>

\* free_poll_nodes and the reset of the timeout once poll() has returned.
Unpoll(t) ==
  /\ pc[t] = "poll"
  /\ pc' = [pc EXCEPT ![t] = "woken"]
  /\ nodes' = [nodes EXCEPT ![t] = FALSE]
  /\ zero' = [zero EXCEPT ![t] = FALSE]
  /\ asked' = [asked EXCEPT ![t] = {}]
  /\ UNCHANGED <<seq_next, value, waiters, latch, waiting, seen, dirty>>

\* poll() returns because of the latch or of an immediate wake.
Awake(t) == zero[t] \/ (nodes[t] /\ latch[t])

PollWakes(t) == Awake(t) /\ Unpoll(t)

\* poll() returns because of another descriptor, a timer or a signal.
PollOther(t) == Unpoll(t)

\* seq_thread_woke: destroys the thread's waiters and clears its latch.
seq_thread_woke(t) ==
  /\ waiters' = [waiters EXCEPT ![t] = [s \in Seqs |-> None]]
  /\ latch' = [latch EXCEPT ![t] = FALSE]

\* seq_woke, at the end of poll_block.
seq_woke(t) ==
  /\ pc[t] = "woken"
  /\ pc' = [pc EXCEPT ![t] = "run"]
  /\ seq_thread_woke(t)
  /\ waiting' = [waiting EXCEPT ![t] = FALSE]
  /\ UNCHANGED <<seq_next, value, nodes, zero, seen, asked, dirty>>

\* The thread ends: seq_thread_exit, and free_poll_loop.
seq_thread_exit(t) ==
  /\ pc[t] = "run"
  /\ pc' = [pc EXCEPT ![t] = "exited"]
  /\ seq_thread_woke(t)
  /\ waiting' = [waiting EXCEPT ![t] = FALSE]
  /\ nodes' = [nodes EXCEPT ![t] = FALSE]
  /\ zero' = [zero EXCEPT ![t] = FALSE]
  /\ asked' = [asked EXCEPT ![t] = {}]
  /\ seen' = [seen EXCEPT ![t] = [s \in Seqs |-> None]]
  /\ UNCHANGED <<seq_next, value, dirty>>

-----------------------------------------------------------------------------

Next ==
  \/ \E s \in Seqs : seq_create(s) \/ seq_destroy(s) \/ seq_change(s)
  \/ \E t \in Threads, s \in Seqs : seq_read(t, s) \/ seq_wait_at(t, s)
  \/ \E t \in Threads :
       \/ poll_block(t)
       \/ PollWakes(t)
       \/ PollOther(t)
       \/ seq_woke(t)
       \/ seq_thread_exit(t)

Spec == Init /\ [][Next]_vars

\* poll() returns when a descriptor it polls is ready or its timeout is
\* over, and a thread that came back from poll() goes on to seq_woke().
\* Nothing is assumed of the threads' own calls.
LiveSpec ==
  Spec /\ \A t \in Threads : WF_vars(PollWakes(t)) /\ WF_vars(seq_woke(t))

-----------------------------------------------------------------------------
(***************************************************************************)
(* Properties.                                                             *)
(***************************************************************************)

Values == 0 .. MaxValue

\* Type invariant: sequence numbers, waiters, latches and poll-loop state of
\* lib/seq.c have the types their declarations give them.
TypeOK ==
  /\ seq_next \in 1 .. MaxValue + 1
  /\ value \in [Seqs -> Values]
  /\ waiters \in [Threads -> [Seqs -> Values]]
  /\ latch \in [Threads -> BOOLEAN]
  /\ waiting \in [Threads -> BOOLEAN]
  /\ nodes \in [Threads -> BOOLEAN]
  /\ zero \in [Threads -> BOOLEAN]
  /\ pc \in [Threads -> {"run", "poll", "woken", "exited"}]
  /\ seen \in [Threads -> [Seqs -> Values]]
  /\ asked \in [Threads -> SUBSET Seqs]
  /\ dirty \in [Threads -> SUBSET Seqs]

\* No lost wakeup: a thread that sleeps in poll_block() after seq_wait() on a
\* seq that was changed or destroyed since the thread read it (even one that
\* was freed and allocated again at the same address, before or after the
\* seq_wait) finds its poll ready.
NoLostWakeup ==
  \A t \in Threads :
    pc[t] = "poll" /\ asked[t] \cap dirty[t] # {} => Awake(t)

\* A waiter waits for the current value of a live seq: the "different from
\* the value we've already waited for" branch of seq_wait__ never runs, and
\* seq_wake_waiters and seq_waiter_destroy touch no freed seq.
WaiterIsCurrent ==
  \A t \in Threads, s \in Seqs :
    waiters[t][s] # None => Alive(s) /\ waiters[t][s] = value[s]

\* A waiter belongs to a thread that has not exited, so seq_wake_waiters sets
\* no latch that seq_thread_exit destroyed; and as long as the thread has not
\* come back from poll() its latch is among the descriptors it polls.
WaiterIsHeard ==
  \A t \in Threads :
    (\E s \in Seqs : waiters[t][s] # None)
      => /\ pc[t] # "exited"
         /\ pc[t] \in {"run", "poll"} => nodes[t]

\* Every sleeper whose seq changed runs again.
Wakes ==
  \A t \in Threads :
    (pc[t] = "poll" /\ asked[t] \cap dirty[t] # {}) ~> (pc[t] = "run")

=============================================================================
