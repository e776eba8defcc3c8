# A TLA+ model of ovs-docker

The repository is Open vSwitch 2.3.90 with an in-house controller (the "docker"
code of `ofproto/`) built into the switch. This directory holds TLA+ modules for
parts of it, the TLC configurations that check them on small instances, and
proofs that TLAPS checks for every instance. `PROJECT.json` lists components,
runs, mutants, theorems, hazards and findings, and maps every definition to the
lines it models. Paths below are relative to `src/openvswitch-2.3.90/`.

## 1. The system

`ovs-vswitchd` is one process with many threads: the main thread runs the bridge
and the OpenFlow connections, handler threads translate packets the datapath
cannot handle (upcalls), revalidator threads check datapath flows, and `urcu`
runs postponed callbacks. Threads wait for each other through sequence numbers
(`lib/seq.c`) and share read-mostly data by read-copy-update (`lib/ovs-rcu.c`).
The in-house code adds threads of its own (`srv_task.c`), which talk through
message queues and take memory from fixed pools. `ovsdb-server` is a second
process that keeps the configuration in a log on disk and serves it over JSON-RPC.

| part | state | operations | hard behaviours |
|---|---|---|---|
| message queue (`ofproto/lnx_msq.c`) | ring, two indices, mutex, condition | send, receive | the mutex is released between the test and the removal; spurious wakeups |
| buffer pools (`ofproto/srv_buffer.c`, `srv_bitmap.c`) | free lists, bitmaps | alloc, free | the bitmap is read before the pool is locked |
| list macros (`ofproto/srv_list.h`) | pointers | insert, remove, walk | order of assignments |
| task table and start-up (`ofproto/srv_task.c`, `docker_config.c`) | rows with queue and thread | init, register, start | each call can fail; started tasks run next to the rest of start-up |
| slow path (`ofproto/ofproto-dpif-xlate.c`, `docker_test.c`) | message in progress | OFPP_MAX_4 action, receive loop | two handlers, exhausted pools, full queue |
| sequence numbers (`lib/seq.c`, `poll-loop.c`, `latch-unix.c`) | values, waiters, latches | create, change, destroy, read, wait, poll | a change between read, wait and poll; reuse of an address |
| RCU (`lib/ovs-rcu.c`) | sequence numbers, callback sets, list of threads | quiesce, register, leave, synchronize, postpone | threads that come and go during a grace period; callback sets flushed in the middle |
| database file (`ovsdb/log.c`, `file.c`, `lib/lockfile.c`) | log on disk and in memory, lock files | open, commit, compact, close | power failures, kills, failed writes |
| database sessions, locks, triggers, transactions, client | | | not modelled yet |
| reconnection, JSON-RPC and OpenFlow connections | | | not modelled yet |
| OpenFlow tables, upcalls, protocols (BFD, CFM, LACP, STP), learning tables | | | not modelled yet |

`PROJECT.json` names every component, with the reason when it is not modelled.

## 2. Modules

| module | models |
|---|---|
| `BoundedFifo` | what a message queue promises |
| `MsgQueue` | `lnx_msq.c`; implements `BoundedFifo` |
| `BlockAllocator` | what the buffer pools promise |
| `BufPool` | `srv_buffer.c` and the bitmap; implements `BlockAllocator` |
| `NodeList`, `SrvList` | a list of distinct nodes, and the macros of `srv_list.h` that implement it |
| `TaskTable` | `srv_task.c` and `docker_init` |
| `SlowPath` | composes `BufPool`, `MsgQueue` and `TaskTable` with the handlers and the receiver |
| `Seq` | `seq.c` with the poll loop |
| `Rcu` | `ovs-rcu.c` with threads that use it |
| `OvsdbFile` | `ovsdb/log.c`, `ovsdb/file.c` and lock files, with a disk that fails |
| `*Proofs` | theorems about the module of that name |
| `MC*` | values of constants, symmetry and, for RCU, the renumbering of section 3 |

**Steps.** The code between a lock and its unlock is one action; where the code
releases a mutex, or reads shared memory without one, a new action begins.

* `MsgQueue`. `srv_msq_rcv` is `srv_msq_rcv_test` (lock, test, wait) and
  `srv_msq_rcv_take` (lock again, remove). The send to a full ring returns an
  error and changes nothing, so it is no action of the module; `SlowPath` has it.
* `BufPool`. `srv_buf_alloc` is one action per pool it looks at. `srv_buf_free`
  is the unlocked look at the bitmap and the locked `InsertBlock`. `Pass` hands a
  pointer to another thread. A failed `srv_buf_init` leaves no pools at all.
  The model assumes what all code in the repository keeps to: a client frees a
  block once and does not write into the block's head.
* `SrvList`. Every macro is the chain of its assignments on a heap.
* `TaskTable`, `SlowPath`. Start-up is a sequence of calls, each of which may
  fail and is reported and ignored. A block in the queue belongs to a pseudo
  thread `Queue`. The handles of the in-house library are 32 bits wide; the
  model assumes that a pointer fits into one.
* `Seq`. Every function of `seq.c` runs under `seq_mutex` and is one action.
  `poll_block` is three: start to poll, end of the poll, `seq_woke`. `seen`, `asked` and `dirty`
  record what a thread was told, for the properties.
* `Rcu`. One action per access to shared memory or critical section. A quiescent
  state reads `global_seqno` and stores what it read in one step: the thread
  holds no pointer there, and until the store a scan finds it stalled. The
  process is multithreaded, `urcu` runs, a 64-bit store is atomic, and callbacks
  do not postpone others. `Usages` says how writers retire a version:
  `set_postpone` (as `cmap_rehash`), `set_synchronize_free` (as
  `xlate_txn_commit`), `postpone_set` (as `pvector_publish__`). `Tasks` are
  threads that never register.
* `OvsdbFile`. Offsets count records. Opening replays the log until the first
  record that cannot be read or applied. A transaction is the write of a record
  (`ovsdb_txn_commit`) and, if durable, its fsync (`ovsdb_log_commit`). A
  compaction is fsync and lock, copy, rename, and the switch to the new log. The
  limits on age, size and number of transactions that start a compaction by
  itself are left open: it may happen whenever no transaction is in progress.
  The disk is external. What is not synced may come out damaged record by
  record, end anywhere, or, after a truncation, be as it was; a rename may be
  undone until the directory is synced. `versions` is the list of contents that
  a recovery may find; `excused` marks the two cases the code leaves open (see
  section 5).

## 3. Runs

`tlc -config <cfg> <module>` in this directory repeats a run.

| run | instance | shows |
|---|---|---|
| `queue` | capacity 3, 2 messages, 1 receiver | the ring is a bounded FIFO queue (`ImplementsFifo`); the removal after the mutex was released finds a message; the receiver sleeps only over an empty ring; the oldest message is taken in the end |
| `pools` | pools of 2 and 1 blocks, 2 threads | lists, bitmap and owners agree, no block is lost or shared; the pools implement an allocator; every call returns |
| `list` | 5 nodes | the macros implement a list that reads the same in both directions |
| `slow_path` | 2 handlers, pools of 2 and 2 blocks, queue of 2, 3 rows of which one repeats a task | a queued block is the queue's alone, a handler writes only into its own block, no task is started without its queue, start-up ends, what was sent is received |
| `seq` | 2 threads, 2 seqs, 3 values | no interleaving loses a wakeup; no waiter outlives its seq or thread; a sleeper whose seq changed runs |
| `rcu` | 2 threads that both write, 3 objects, callback sets of 2 | no version is freed under a reader or twice; none is lost; `urcu` does not sleep over callbacks; nobody is stuck |
| `rcu_live` | 2 threads, 1 writer, 2 objects, callback sets of 1 | every postponed callback runs |
| `database` | 1 server, 3 rows, two of which collide, logs of up to 4 records | a power failure at any point leaves a log that replays to the contents after some transaction, none before the last reported durable commit missing; a kill loses nothing; failed writes leave no trace |
| `slow_path_sent`, `rcu_postpone_first`, `rcu_task`, `database_lock` | | violated, see section 5 |

Every property of a passing run is broken by a mutant of the code, listed in
`PROJECT.json`; the mutants are the definitions that stand right before the one
they change.

**Bounds.** A capacity of 3 lets the ring wrap with every number of messages in it.
Pools of two blocks and one let an allocation find a block, go on to the next
pool, and fail. Two pools of two blocks leave fewer blocks for packets than the
handlers, the queue and the receiver can hold, so they run dry. Five nodes are
more than any macro touches. Three values of the counter of `seq.c` let a seq be
created, changed, destroyed and created again at the same address; the theorems have no such
bound. Callback sets of 1 and 2 (16 in the code) are filled by one client, which
is when `ovsrcu_postpone` flushes. The numbers of RCU are only compared, so
`MCRcu` replaces those in use by their ranks whenever there is a gap (`Renumber`);
`MaxSeqno` then stops nobody. The theorems are about `Rcu` itself, without the
renumbering. Logs of 4 records hold the schema and three transactions, or a
compacted log and two more; three files let a compaction follow one that was cut
short. UUIDs are not reused, so the rows bound the insertions.

**Deadlock** is not checked where the system may really stop: in `slow_path` (the pools
run dry) and `seq` (threads exit, the counter is bounded).

**Fairness.** Weak fairness of a thread's next step while it is not blocked is
what a scheduler gives; mutexes are held for a few instructions, and no model
needs fairness of a lock. A sleeping receiver has no fairness: only a signal, or
a spurious wakeup that nobody relies on, moves it (`SlowPath`). In `MsgQueue` the
receiver calls `srv_msq_rcv` again and again, as `test_recver_entry` does. In
`Seq` only the end of a poll whose latch is set and the step after it are fair.
In `rcu_live` a thread finishes what it reads, and strong fairness of `quiesce`
says that it comes back to a quiescent state again and again, as every main loop
does in `poll_block`; nobody is obliged to write, register or leave.

## 4. Proofs

`tlapm <module>` checks them. All theorems are about the specifications that the runs
check, for every value of the constants that satisfies the named `ASSUME`.

* **`MsgQueueProofs`.** `RingInv` adds to the types that a receiver past its test
  has a message to take and that a sleeping one has none. It is inductive because
  there is only one receiver (`MsgQueueAssumption`; the only caller of
  `srv_msg_rcv` passes its own task): nobody else can remove what it has seen.
  With the lemmas on modular distances it gives `RingImplementsFifo`: send and
  take are steps of `BoundedFifo`, everything else stutters.
* **`BufPoolProofs`.** `PoolInv` is the conjunction of the types, sound lists, an
  exact bitmap, one owner per block, nothing lost, and that blocks are owned only
  while pools exist. No conjunct is inductive without the others: a block taken
  from a list was nobody's because owners and lists are disjoint, and the
  insertion keeps lists free of duplicates because the thread that inserts owns
  the block. `PoolsImplementAllocator` maps `owner` to the thread that has the block.
* **`SeqProofs`.** `IInv`: numbers are never reused, so the value a thread has seen
  equals the current one exactly if the seq was not touched since; a thread that
  asked to be woken is woken at once, has its latch set, or has a waiter for the
  current value; a thread with a waiter polls its latch. `NoWakeupIsLost` follows
  for any threads and seqs.
* **`RcuProofs`.** `IInv`: every object is in exactly one place (current, being
  replaced, in a callback set, flushed, with `urcu`, free); a reader is registered;
  and, the heart of it, a reader of an object that a grace period is about to free has
  a number at or below the target until the scan has passed it. `GracePeriodsSafe`
  and `CallbacksKept` hold under `Protocol`: every thread is registered, and
  versions are unlinked before they are retired. The runs `rcu_task` and
  `rcu_postpone_first` show that both conditions are needed.

Only model-checked: liveness (TLAPS does not prove it), `SrvList` (walks of the heap are
recursive), `TaskTable`, `SlowPath`, `OvsdbFile`, and of `Rcu`
`NoSleepOnFlushed` and `OneQuiesceSuffices`.

## 5. Where code and documentation disagree

* `slow_path_sent`. The comment at the in-house action says that packets are sent to
  the receiver; the receiver frees no message, so the pools run dry, and the
  action copies the packet through the NULL that `srv_msg_alloc` then returns.
* `rcu_postpone_first`. `pvector_publish__`, the classifier and the example in
  `ovs-rcu.h` postpone the free before they replace the pointer. If that call
  fills the callback set, the grace period can begin before the pointer changes.
* `rcu_task`. Threads of the task table are not registered with RCU, but reach code
  that reads RCU-protected data.
* `database_lock`. An online compaction closes the old log, which unlocks the
  database, and goes on with a log that was opened without a lock. From then on
  another process can open the database for writing, which `ovsdb-tool(1)`
  excludes.

Not findings, as nothing promises otherwise, but listed as hazards: an fsync that
fails aborts the transaction and leaves its record in the log; a process killed
between the rename of a compaction and the sync of the directory leaves a rename
that nobody syncs. `SurvivesPowerFailure` and `LogIsMemory` excuse both, until a
compaction or a power failure has settled which contents count. `srv_msq_num`
counts modulo the wrong number once the ring has wrapped.

## 6. Not modelled

Packet formats, OpenFlow and Netlink encodings, JSON, printing, statistics: data
without control. The kernel datapath, devices and routes: mostly the operating
system. Utilities: no state of their own. Windows code. Of the modelled parts: the
single-threaded start of RCU, `srv_msq_destroy` (never called), timers and other
descriptors of the poll loop, read-only and converting opens of a database and
`ovsdb-tool compact`, the other in-house ports (OFPP_MAX_1 to 3), failures of
`fsync_parent_dir` (its result is ignored).

## 7. Plan

Modules still to come, in order:

1. `Reconnect` (`lib/reconnect.c`): the connection state machine over a clock:
   backoff between its bounds, no probe forgotten, at most `max_tries` attempts;
   then `JsonrpcSession` and `Rconn` on top of it, and a composition of two peers
   over a stream that can break.
2. `OvsdbLocks` and `OvsdbTriggers` (`ovsdb/server.c`, `trigger.c`): lock queues
   with stealing (one owner, every waiter served), waiting transactions retried
   after each change or timed out; composed with `OvsdbFile` and an abstract
   `ovsdb_txn_commit`, and a client (`lib/ovsdb-idl.c`) that sees updates in order.
   `OvsdbFile` gets an abstract specification (a durable map) that it implements,
   the offline compaction and read-only opens.
3. `FatRwlock` and `Barrier` (`lib/fat-rwlock.c`, `ovs-thread.c`): exclusion, no
   deadlock; `Cmap` (`lib/cmap.c`): a lookup that runs next to cuckoo moves finds
   every key that stays in the map, on top of `Rcu`.
4. `Upcall` (`ofproto/ofproto-dpif-upcall.c`): the life of a ukey against handlers,
   revalidators and datapath; `PktBuf`, `Bundles`, `MacLearning`, `TokenBucket`:
   bounded tables with ageing.
5. `Bfd`, `Lacp`, `Cfm`, `Stp`: two ends over a lossy link.

Runs: related components share one run, checked for safety and liveness together,
so that each run stays one question; lists and pools will be composed in one.

Proofs: an inductive invariant for `OvsdbFile` (the synced part of the log replays
to a promised version; the log in memory extends it) and for `SlowPath` from the
theorems about its parts; `OneQuiesceSuffices` for `Rcu`; the exclusion of
`FatRwlock` and `OvsdbLocks`; `Reconnect` as an action property (which state may
follow which).
