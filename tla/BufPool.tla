------------------------------ MODULE BufPool -------------------------------
(***************************************************************************)
(* The buffer pools of ofproto/srv_buffer.c, with the bitmap of            *)
(* srv_bitmap.c and the mutexes of lnx_mutex.c: pools of equal blocks,     *)
(* sorted by block size, each with a list of its free blocks, a bitmap of  *)
(* the blocks in use and a mutex.                                          *)
(*                                                                         *)
(* srv_buf_alloc locks one pool after the other: every pool it looks at is *)
(* one action.  srv_buf_free looks at the bitmap before it locks the pool: *)
(* the look and the insertion are two actions.                             *)
(*                                                                         *)
(* A free list is the sequence of its blocks; the pointer macros that      *)
(* implement it are checked in SrvList.                                    *)
(***************************************************************************)
EXTENDS Integers, Sequences, FiniteSets, BufPoolConfig

VARIABLES
  g_nPoolSize,  \* number of pools in use: 0 when srv_buf_init failed
  free,         \* the free blocks of each pool, in list order
  bit,          \* the bitmaps: bit[b] = 1 when block b is in use
  call,         \* the call each thread is in
  held          \* the blocks each thread has a pointer to

vars == <<g_nPoolSize, free, bit, call, held>>

-----------------------------------------------------------------------------

PoolIds == 1 .. Len(Pools)

\* A block is its pool (poolid in the block's head, which no client writes)
\* and its number in the pool.
BlocksOf(p) == {p} \X (1 .. Pools[p].blocknr)

Blocks == UNION {BlocksOf(p) : p \in PoolIds}

Idle == [op |-> "none"]

Alloc(size, i) == [op |-> "alloc", size |-> size, i |-> i]

Insert(b) == [op |-> "insert", buf |-> b]

Calls == {Idle} \cup {Alloc(s, i) : s \in Sizes, i \in 1 .. Len(Pools) + 1}
              \cup {Insert(b) : b \in Blocks}

In(f, b) == \E k \in 1 .. Len(f) : f[k] = b

Distinct(f) == \A k, l \in 1 .. Len(f) : f[k] = f[l] => k = l

OnList(b) == In(free[b[1]], b)

\* The pools thread t's allocation still has to look at.
Scanning(t) == call[t].op = "alloc" /\ call[t].i <= g_nPoolSize

-----------------------------------------------------------------------------

\* srv_buf_init links the blocks of every pool in address order and clears
\* the bitmaps.  When an allocation fails in the middle, g_nPoolSize is never
\* set; docker_init reports that and carries on.
Init ==
  /\ g_nPoolSize \in {0, Len(Pools)}
  /\ free = [p \in PoolIds |-> [j \in 1 .. Pools[p].blocknr |-> <<p, j>>]]
  /\ bit = [b \in Blocks |-> 0]
  /\ call = [t \in Callers |-> Idle]
  /\ held = [t \in Callers |-> {}]

\* Entry of srv_buf_alloc(size).
srv_buf_alloc(t, size) ==
  /\ call[t] = Idle
  /\ call' = [call EXCEPT ![t] = Alloc(size, 1)]
  /\ UNCHANGED <<g_nPoolSize, free, bit, held>>

\* The pool the allocation is at has a block that is large enough.
Fits(t) ==
  /\ call[t].size <= Pools[call[t].i].blocksize
  /\ free[call[t].i] # <<>>

\* Mutant of TakeBlock: the block is read but stays on the list.
TakeBlockNoRemove(t) ==
  LET p == call[t].i
      b == Head(free[p])
  IN  /\ Scanning(t)
      /\ Fits(t)
      /\ bit' = [bit EXCEPT ![b] = 1]
      /\ held' = [held EXCEPT ![t] = @ \cup {b}]
      /\ call' = [call EXCEPT ![t] = Idle]
      /\ UNCHANGED <<g_nPoolSize, free>>

\* Mutant of TakeBlock: the bitmap is not updated.
TakeBlockNoBit(t) ==
  LET p == call[t].i
      b == Head(free[p])
  IN  /\ Scanning(t)
      /\ Fits(t)
      /\ free' = [free EXCEPT ![p] = Tail(@)]
      /\ held' = [held EXCEPT ![t] = @ \cup {b}]
      /\ call' = [call EXCEPT ![t] = Idle]
      /\ UNCHANGED <<g_nPoolSize, bit>>

\* One turn of the loop of srv_buf_alloc, under the pool's mutex: take the
\* first free block and return it.
TakeBlock(t) ==
  LET p == call[t].i
      b == Head(free[p])
  IN  /\ Scanning(t)
      /\ Fits(t)
      /\ free' = [free EXCEPT ![p] = Tail(@)]
      /\ bit' = [bit EXCEPT ![b] = 1]
      /\ held' = [held EXCEPT ![t] = @ \cup {b}]
      /\ call' = [call EXCEPT ![t] = Idle]
      /\ UNCHANGED g_nPoolSize

\* One turn of the loop of srv_buf_alloc: nothing in this pool, next pool.
NextPool(t) ==
  /\ Scanning(t)
  /\ ~Fits(t)
  /\ call' = [call EXCEPT ![t].i = @ + 1]
  /\ UNCHANGED <<g_nPoolSize, free, bit, held>>

\* srv_buf_alloc after its loop: return NULL.
AllocFails(t) ==
  /\ call[t].op = "alloc"
  /\ call[t].i > g_nPoolSize
  /\ call' = [call EXCEPT ![t] = Idle]
  /\ UNCHANGED <<g_nPoolSize, free, bit, held>>

\* srv_buf_free(b) up to the lock: the pool number and the bitmap are read
\* without the mutex.  A block whose bit is clear is reported ("Buf has been
\* freed.") and left alone.  The caller has the block and gives it up.
srv_buf_free(t, b) ==
  /\ call[t] = Idle
  /\ b \in held[t]
  /\ held' = [held EXCEPT ![t] = @ \ {b}]
  /\ call' = [call EXCEPT ![t] = IF b[1] > g_nPoolSize \/ bit[b] = 0
                                 THEN Idle
                                 ELSE Insert(b)]
  /\ UNCHANGED <<g_nPoolSize, free, bit>>

\* srv_buf_free under the lock: insert before the root, at the end of the
\* list, and clear the bit.
InsertBlock(t) ==
  LET b == call[t].buf
  IN  /\ call[t].op = "insert"
      /\ free' = [free EXCEPT ![b[1]] = Append(@, b)]
      /\ bit' = [bit EXCEPT ![b] = 0]
      /\ call' = [call EXCEPT ![t] = Idle]
      /\ UNCHANGED <<g_nPoolSize, held>>

\* A client hands a block to another thread, as a message does.
Pass(t, u, b) ==
  /\ call[t] = Idle
  /\ b \in held[t]
  /\ t # u
  /\ held' = [held EXCEPT ![u] = @ \cup {b}, ![t] = @ \ {b}]
  /\ UNCHANGED <<g_nPoolSize, free, bit, call>>

Next ==
  \E t \in Callers :
    \/ \E size \in Sizes : srv_buf_alloc(t, size)
    \/ TakeBlock(t)
    \/ NextPool(t)
    \/ AllocFails(t)
    \/ \E b \in Blocks : srv_buf_free(t, b)
    \/ InsertBlock(t)
    \/ \E u \in Callers, b \in Blocks : Pass(t, u, b)

Spec == Init /\ [][Next]_vars

-----------------------------------------------------------------------------

\* Blocks, bits and calls are well formed.
TypeOK ==
  /\ g_nPoolSize \in {0, Len(Pools)}
  /\ free \in [PoolIds -> Seq(Blocks)]
  /\ bit \in [Blocks -> {0, 1}]
  /\ call \in [Callers -> Calls]
  /\ held \in [Callers -> SUBSET Blocks]

\* Every free list holds blocks of its own pool, each at most once.
ListsSound ==
  \A p \in PoolIds : free[p] \in Seq(BlocksOf(p)) /\ Distinct(free[p])

\* The bitmap, by which srv_buf_free recognises a block that "has been
\* freed", says exactly which blocks are on a free list.
BitTellsFree == \A b \in Blocks : bit[b] = 0 <=> OnList(b)

\* Thread t has block b: it has the pointer, or is in the middle of
\* srv_buf_free.
Has(t, b) == b \in held[t] \/ call[t] = Insert(b)

\* A block has one owner: no block is with two threads, or with a thread and
\* on a free list, and a block being freed is not held any more.
OneOwner ==
  \A b \in Blocks :
    /\ \A t, u \in Callers : Has(t, b) /\ Has(u, b) => t = u
    /\ \A t \in Callers : Has(t, b) => ~OnList(b)
    /\ \A t \in Callers : ~(b \in held[t] /\ call[t] = Insert(b))

Holders(b) == {t \in Callers : Has(t, b)}

\* The owner of a block is the set of those that have it: empty, or one
\* thread.
Allocator == INSTANCE BlockAllocator
               WITH owner <- [b \in Blocks |-> Holders(b)], Nobody <- {},
                    Callers <- {{t} : t \in Callers}

\* Clients that free what they own once get what an allocator promises: no
\* block is given to two threads, or given away while somebody has it.
ImplementsAllocator == Allocator!Spec

\* No block gets lost inside the pools: what no client has is on a list.
NothingLost == \A b \in Blocks : OnList(b) \/ \E t \in Callers : Has(t, b)

=============================================================================
