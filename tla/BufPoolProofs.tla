--------------------------- MODULE BufPoolProofs ----------------------------
(***************************************************************************)
(* Proofs about BufPool, for every number of threads and every table of    *)
(* pools: clients that free a block once never share one, and the bitmap   *)
(* agrees with the free lists.                                             *)
(***************************************************************************)
EXTENDS BufPool, SequenceTheorems, TLAPS

-----------------------------------------------------------------------------
(* Facts about blocks, calls and lists. *)

\* A block is in the pool its first component (poolid in the head) names.
LEMMA BlockPool ==
  ASSUME NEW b \in Blocks
  PROVE  b[1] \in PoolIds /\ b \in BlocksOf(b[1])
BY DEF Blocks, BlocksOf

\* The blocks of pool p are blocks, and say that they are p's.
LEMMA PoolBlock ==
  ASSUME NEW p \in PoolIds, NEW b \in BlocksOf(p)
  PROVE  b \in Blocks /\ b[1] = p
BY DEF Blocks, BlocksOf

\* What call[t].op tells about the rest of the call.
LEMMA CallShape ==
  ASSUME NEW c \in Calls
  PROVE  /\ c.op = "alloc" => c.i \in 1 .. Len(Pools) + 1 /\ c.size \in Sizes
                              /\ c = Alloc(c.size, c.i)
         /\ c.op = "insert" => c.buf \in Blocks /\ c = Insert(c.buf)
         /\ c = Idle \/ c.op = "alloc" \/ c.op = "insert"
BY DEF Calls, Idle, Alloc, Insert

\* The three kinds of call differ, and an insertion names its block.
LEMMA CallKinds ==
  /\ \A b \in Blocks : Insert(b) # Idle /\ Insert(b).op = "insert"
                       /\ Insert(b).buf = b
  /\ \A s, i : Alloc(s, i).op = "alloc" /\ \A b \in Blocks : Alloc(s, i) # Insert(b)
  /\ Idle.op = "none"
BY DEF Idle, Alloc, Insert

\* SRV_LIST_REMOVE of the first node of a list without repetitions.
LEMMA TailMembers ==
  ASSUME NEW S, NEW f \in Seq(S), f # <<>>, Distinct(f)
  PROVE  /\ Head(f) \in S
         /\ In(f, Head(f))
         /\ Tail(f) \in Seq(S)
         /\ Distinct(Tail(f))
         /\ \A c : In(Tail(f), c) <=> In(f, c) /\ c # Head(f)
<1>shape. /\ Head(f) = f[1] /\ Tail(f) \in Seq(S) /\ Len(Tail(f)) = Len(f) - 1
          /\ \A k \in 1 .. Len(f) - 1 : Tail(f)[k] = f[k + 1]
          /\ Len(f) \in Nat /\ Len(f) >= 1 /\ f[1] \in S
  BY HeadTailProperties
<1>here. In(f, Head(f))
  BY <1>shape DEF In
<1>dist. Distinct(Tail(f))
  BY <1>shape DEF Distinct
<1>mem. ASSUME NEW c PROVE In(Tail(f), c) <=> In(f, c) /\ c # Head(f)
  <2>there. ASSUME In(Tail(f), c) PROVE In(f, c) /\ c # Head(f)
    <3>k. PICK k \in 1 .. Len(f) - 1 : Tail(f)[k] = c
      BY <1>shape, <2>there DEF In
    <3>v. c = f[k + 1] /\ k + 1 \in 1 .. Len(f) /\ k + 1 # 1 /\ 1 \in 1 .. Len(f)
      BY <3>k, <1>shape
    <3> QED BY <3>v, <1>shape DEF In, Distinct
  <2>back. ASSUME In(f, c), c # Head(f) PROVE In(Tail(f), c)
    <3>k. PICK k \in 1 .. Len(f) : f[k] = c
      BY <2>back DEF In
    <3>v. k - 1 \in 1 .. Len(f) - 1 /\ Tail(f)[k - 1] = c
      BY <3>k, <2>back, <1>shape
    <3> QED BY <3>v, <1>shape DEF In
  <2> QED BY <2>there, <2>back
<1> QED BY <1>shape, <1>here, <1>dist, <1>mem

\* SRV_LIST_INSERT_BEFORE the root, of a node that is not in the list.
LEMMA AppendMembers ==
  ASSUME NEW S, NEW f \in Seq(S), NEW b \in S, Distinct(f), ~In(f, b)
  PROVE  /\ Append(f, b) \in Seq(S)
         /\ Distinct(Append(f, b))
         /\ \A c : In(Append(f, b), c) <=> In(f, c) \/ c = b
<1>shape. /\ Append(f, b) \in Seq(S) /\ Len(Append(f, b)) = Len(f) + 1
          /\ \A k \in 1 .. Len(f) : Append(f, b)[k] = f[k]
          /\ Append(f, b)[Len(f) + 1] = b
          /\ Len(f) \in Nat
  BY AppendProperties
<1>dist. Distinct(Append(f, b))
  BY <1>shape DEF Distinct, In
<1>mem. ASSUME NEW c PROVE In(Append(f, b), c) <=> In(f, c) \/ c = b
  BY <1>shape DEF In
<1> QED BY <1>shape, <1>dist, <1>mem

-----------------------------------------------------------------------------
(* The inductive invariant.  Neither half is inductive alone: that a block  *)
(* being inserted is not yet on its list comes from its having one owner,   *)
(* and that a block taken off a list has no owner comes from the lists.     *)

\* Only after a complete srv_buf_init does any thread have a block.
OwnedMeansUp ==
  \A t \in Callers, b \in Blocks : Has(t, b) => g_nPoolSize = Len(Pools)

PoolInv ==
  /\ TypeOK
  /\ ListsSound
  /\ BitTellsFree
  /\ OneOwner
  /\ OwnedMeansUp
  /\ NothingLost

\* srv_buf_init establishes the invariant.
LEMMA InitEstablishes == Init => PoolInv
<1> SUFFICES ASSUME Init PROVE PoolInv
  OBVIOUS
<1>assm. ASSUME NEW p \in PoolIds PROVE Pools[p].blocknr \in Nat
  <2>row. Pools[p] \in [blocksize : Nat, blocknr : Nat]
    BY BufPoolAssumption, ElementOfSeq DEF PoolIds
  <2> QED BY <2>row
<1>list. ASSUME NEW p \in PoolIds
         PROVE  /\ free[p] \in Seq(BlocksOf(p)) /\ free[p] \in Seq(Blocks)
                /\ Distinct(free[p])
                /\ \A b \in BlocksOf(p) : In(free[p], b)
  <2> DEFINE n == Pools[p].blocknr
  <2>n. n \in Nat
    BY <1>assm
  <2>f. free[p] = [j \in 1 .. n |-> <<p, j>>]
    BY DEF Init
  <2>len. free[p] \in Seq(BlocksOf(p)) /\ Len(free[p]) = n
    <3>el. \A j \in 1 .. n : <<p, j>> \in BlocksOf(p)
      BY DEF BlocksOf
    <3> QED BY <2>n, <2>f, <3>el
  <2>sub. free[p] \in Seq(Blocks)
    BY <2>len, <2>n, <2>f, PoolBlock
  <2>dist. Distinct(free[p])
    BY <2>len, <2>f, <2>n DEF Distinct
  <2>all. ASSUME NEW b \in BlocksOf(p) PROVE In(free[p], b)
    <3>j. PICK j \in 1 .. n : b = <<p, j>>
      BY DEF BlocksOf
    <3> QED BY <3>j, <2>len, <2>f DEF In
  <2> QED BY <2>len, <2>sub, <2>dist, <2>all
<1>type. TypeOK
  <2>free. free \in [PoolIds -> Seq(Blocks)]
    <3>fun. free = [p \in PoolIds |-> free[p]]
      BY DEF Init
    <3> QED BY <1>list, <3>fun
  <2>rest. /\ g_nPoolSize \in {0, Len(Pools)}
           /\ bit \in [Blocks -> {0, 1}]
           /\ held \in [Callers -> SUBSET Blocks]
    BY DEF Init
  <2>call. call \in [Callers -> Calls]
    BY DEF Init, Calls
  <2> QED BY <2>free, <2>rest, <2>call DEF TypeOK
<1>bits. BitTellsFree
  BY <1>list, BlockPool DEF Init, BitTellsFree, OnList
<1>own. OneOwner
  BY CallKinds DEF Init, OneOwner, Has
<1>up. OwnedMeansUp
  BY CallKinds DEF Init, OwnedMeansUp, Has
<1>lost. NothingLost
  BY <1>list, BlockPool DEF NothingLost, OnList
<1> QED BY <1>list, <1>type, <1>bits, <1>own, <1>up, <1>lost DEF PoolInv, ListsSound

\* A step that only moves a thread to a call which inserts nothing: the entry
\* of srv_buf_alloc, its turns that find nothing, and its NULL return.
LEMMA OtherCallKeeps ==
  ASSUME PoolInv, NEW t \in Callers, NEW c \in Calls,
         c.op # "insert", call[t].op # "insert",
         call' = [call EXCEPT ![t] = c],
         UNCHANGED <<g_nPoolSize, free, bit, held>>
  PROVE  PoolInv'
<1>type. TypeOK'
  BY DEF PoolInv, TypeOK
<1>lists. ListsSound' /\ BitTellsFree'
  BY DEF PoolInv, ListsSound, BitTellsFree, OnList
<1>same. ASSUME NEW u \in Callers, NEW b \in Blocks
          PROVE  /\ Has(u, b)' <=> Has(u, b)
                 /\ call'[u] = Insert(b) => call[u] = Insert(b)
  BY CallKinds DEF Has, PoolInv, TypeOK
<1>own. OneOwner'
  BY <1>same DEF PoolInv, OneOwner, OnList
<1>up. OwnedMeansUp'
  BY <1>same DEF PoolInv, OwnedMeansUp
<1>lost. NothingLost'
  BY <1>same DEF PoolInv, NothingLost, OnList
<1> QED BY <1>type, <1>lists, <1>own, <1>up, <1>lost DEF PoolInv

\* The block srv_buf_alloc takes comes off its list with its bit set, and
\* the caller is its only owner.
LEMMA TakeBlockKeeps ==
  ASSUME PoolInv, NEW t \in Callers, TakeBlock(t)
  PROVE  PoolInv'
<1> DEFINE p == call[t].i
           f == free[p]
           b == Head(f)
<1>p. /\ p \in PoolIds /\ f # <<>> /\ call[t].op = "alloc"
      /\ g_nPoolSize = Len(Pools)
  <2>c. call[t] \in Calls /\ g_nPoolSize \in {0, Len(Pools)} /\ Len(Pools) \in Nat
    BY BufPoolAssumption, LenProperties DEF PoolInv, TypeOK
  <2>i. p \in 1 .. Len(Pools) + 1 /\ p <= g_nPoolSize
    BY <2>c, CallShape DEF TakeBlock, Scanning
  <2>pool. p \in PoolIds /\ g_nPoolSize = Len(Pools)
    BY <2>c, <2>i DEF PoolIds
  <2> QED BY <2>pool DEF TakeBlock, Fits, Scanning
<1>f. f \in Seq(BlocksOf(p)) /\ Distinct(f)
  BY <1>p DEF PoolInv, ListsSound
<1>tail. /\ b \in BlocksOf(p) /\ In(f, b) /\ Tail(f) \in Seq(BlocksOf(p))
         /\ Distinct(Tail(f))
         /\ \A c : In(Tail(f), c) <=> In(f, c) /\ c # b
  BY <1>p, <1>f, TailMembers
<1>b. b \in Blocks /\ b[1] = p
  BY <1>p, <1>tail, PoolBlock
<1>next. /\ free' = [free EXCEPT ![p] = Tail(f)]
         /\ bit' = [bit EXCEPT ![b] = 1]
         /\ held' = [held EXCEPT ![t] = held[t] \cup {b}]
         /\ call' = [call EXCEPT ![t] = Idle]
         /\ g_nPoolSize' = g_nPoolSize
  BY DEF TakeBlock
<1> HIDE DEF p, f, b
<1>old. TypeOK /\ ListsSound /\ BitTellsFree /\ OneOwner /\ NothingLost
  BY DEF PoolInv
<1>sub. Tail(f) \in Seq(Blocks)
  BY <1>tail, <1>p, PoolBlock, SeqDef
<1>type. TypeOK'
  <2>idle. Idle \in Calls
    BY DEF Calls
  <2>free. free' \in [PoolIds -> Seq(Blocks)]
    BY <1>old, <1>next, <1>p, <1>sub DEF TypeOK
  <2>bit. bit' \in [Blocks -> {0, 1}]
    BY <1>old, <1>next, <1>b DEF TypeOK
  <2>call. call' \in [Callers -> Calls]
    BY <1>old, <1>next, <2>idle DEF TypeOK
  <2>held. held' \in [Callers -> SUBSET Blocks]
    BY <1>old, <1>next, <1>b DEF TypeOK
  <2>size. g_nPoolSize' \in {0, Len(Pools)}
    BY <1>old, <1>next DEF TypeOK
  <2> QED BY <2>free, <2>bit, <2>call, <2>held, <2>size DEF TypeOK
<1>upd. /\ free'[p] = Tail(f) /\ free[p] = f
        /\ \A q \in PoolIds : q # p => free'[q] = free[q]
  BY <1>old, <1>next, <1>p DEF TypeOK, f
<1>lists. ListsSound'
  BY <1>old, <1>upd, <1>tail DEF ListsSound
<1>on. ASSUME NEW c \in Blocks PROVE OnList(c)' <=> OnList(c) /\ c # b
  <2>same. CASE c[1] = p
    BY <2>same, <1>upd, <1>tail DEF OnList
  <2>other. CASE c[1] # p
    BY <2>other, <1>upd, <1>b, BlockPool DEF OnList
  <2> QED BY <2>same, <2>other
<1>bits. BitTellsFree'
  BY <1>old, <1>next, <1>on, <1>b DEF BitTellsFree, TypeOK
<1>none. \A u \in Callers : ~Has(u, b)
  <2>on. OnList(b)
    BY <1>upd, <1>b, <1>tail DEF OnList
  <2> QED BY <2>on, <1>b, <1>old DEF OneOwner
<1>has. ASSUME NEW u \in Callers, NEW c \in Blocks
        PROVE  /\ Has(u, c)' => Has(u, c) \/ (u = t /\ c = b)
               /\ c \in held'[u] => c \in held[u] \/ (u = t /\ c = b)
               /\ call'[u] = Insert(c) => call[u] = Insert(c) /\ u # t
               /\ Has(u, c) => Has(u, c)'
  BY <1>old, <1>next, <1>p, CallKinds DEF Has, TypeOK
<1>own. OneOwner'
  <2> SUFFICES ASSUME NEW c \in Blocks
               PROVE  /\ \A u, v \in Callers : Has(u, c)' /\ Has(v, c)' => u = v
                      /\ \A u \in Callers : Has(u, c)' => ~OnList(c)'
                      /\ \A u \in Callers : ~(c \in held'[u] /\ call'[u] = Insert(c))
    BY DEF OneOwner
  <2>mine. CASE c = b
    BY <2>mine, <1>has, <1>none, <1>on, <1>b DEF Has
  <2>rest. CASE c # b
    BY <2>rest, <1>has, <1>on, <1>old DEF OneOwner
  <2> QED BY <2>mine, <2>rest
<1>up. OwnedMeansUp'
  BY <1>next, <1>p DEF OwnedMeansUp
<1>lost. NothingLost'
  <2> SUFFICES ASSUME NEW c \in Blocks
               PROVE  OnList(c)' \/ \E u \in Callers : Has(u, c)'
    BY DEF NothingLost
  <2>mine. CASE c = b
    BY <2>mine, <1>next, <1>old DEF Has, TypeOK
  <2>rest. CASE c # b
    BY <2>rest, <1>on, <1>has, <1>old DEF NothingLost
  <2> QED BY <2>mine, <2>rest
<1> QED BY <1>type, <1>lists, <1>bits, <1>own, <1>up, <1>lost DEF PoolInv

\* The locked half of srv_buf_free: the block goes back on its list, its bit
\* is cleared, and nobody has it any more.
LEMMA InsertBlockKeeps ==
  ASSUME PoolInv, NEW t \in Callers, InsertBlock(t)
  PROVE  PoolInv'
<1> DEFINE b == call[t].buf
           p == b[1]
           f == free[p]
<1>b. b \in Blocks /\ call[t] = Insert(b)
  BY CallShape DEF PoolInv, TypeOK, InsertBlock
<1>p. p \in PoolIds /\ b \in BlocksOf(p)
  BY <1>b, BlockPool
<1>f. f \in Seq(BlocksOf(p)) /\ Distinct(f)
  BY <1>p DEF PoolInv, ListsSound
<1>next. /\ free' = [free EXCEPT ![p] = Append(f, b)]
         /\ bit' = [bit EXCEPT ![b] = 0]
         /\ call' = [call EXCEPT ![t] = Idle]
         /\ UNCHANGED <<g_nPoolSize, held>>
  BY DEF InsertBlock
<1>old. TypeOK /\ ListsSound /\ BitTellsFree /\ OneOwner /\ NothingLost /\ OwnedMeansUp
  BY DEF PoolInv
<1>mine. Has(t, b) /\ ~In(f, b)
  BY <1>b, <1>old DEF OneOwner, Has, OnList
<1> HIDE DEF p, f, b
<1>app. /\ Append(f, b) \in Seq(BlocksOf(p)) /\ Distinct(Append(f, b))
        /\ \A c : In(Append(f, b), c) <=> In(f, c) \/ c = b
  BY <1>p, <1>f, <1>mine, AppendMembers
<1>sub. Append(f, b) \in Seq(Blocks)
  BY <1>app, <1>p, PoolBlock, SeqDef
<1>type. TypeOK'
  <2>idle. Idle \in Calls
    BY DEF Calls
  <2>free. free' \in [PoolIds -> Seq(Blocks)]
    BY <1>old, <1>next, <1>p, <1>sub DEF TypeOK
  <2>bit. bit' \in [Blocks -> {0, 1}]
    BY <1>old, <1>next, <1>b DEF TypeOK
  <2>call. call' \in [Callers -> Calls]
    BY <1>old, <1>next, <2>idle DEF TypeOK
  <2>held. held' \in [Callers -> SUBSET Blocks]
    BY <1>old, <1>next, <1>b DEF TypeOK
  <2>size. g_nPoolSize' \in {0, Len(Pools)}
    BY <1>old, <1>next DEF TypeOK
  <2> QED BY <2>free, <2>bit, <2>call, <2>held, <2>size DEF TypeOK
<1>upd. /\ free'[p] = Append(f, b) /\ free[p] = f
        /\ \A q \in PoolIds : q # p => free'[q] = free[q]
  BY <1>old, <1>next, <1>p DEF TypeOK, f
<1>lists. ListsSound'
  BY <1>old, <1>upd, <1>app DEF ListsSound
<1>on. ASSUME NEW c \in Blocks PROVE OnList(c)' <=> OnList(c) \/ c = b
  <2>same. CASE c[1] = p
    BY <2>same, <1>upd, <1>app DEF OnList
  <2>other. CASE c[1] # p
    BY <2>other, <1>upd, <1>b, BlockPool DEF OnList, p
  <2> QED BY <2>same, <2>other
<1>bits. BitTellsFree'
  BY <1>old, <1>next, <1>on, <1>b DEF BitTellsFree, TypeOK
<1>has. ASSUME NEW u \in Callers, NEW c \in Blocks
        PROVE  /\ Has(u, c)' <=> Has(u, c) /\ c # b
               /\ c \in held'[u] <=> c \in held[u]
               /\ call'[u] = Insert(c) => call[u] = Insert(c)
  <2>c. CASE c = b
    <3>u. Has(u, c) => u = t
      BY <2>c, <1>mine, <1>b, <1>old DEF OneOwner
    <3> QED BY <3>u, <2>c, <1>old, <1>next, <1>b, CallKinds DEF Has, TypeOK, OneOwner
  <2>d. CASE c # b
    BY <2>d, <1>old, <1>next, <1>b, CallKinds DEF Has, TypeOK
  <2> QED BY <2>c, <2>d
<1>own. OneOwner'
  BY <1>has, <1>on, <1>old DEF OneOwner
<1>up. OwnedMeansUp'
  BY <1>has, <1>next, <1>old DEF OwnedMeansUp
<1>lost. NothingLost'
  BY <1>has, <1>on, <1>old DEF NothingLost
<1> QED BY <1>type, <1>lists, <1>bits, <1>own, <1>up, <1>lost DEF PoolInv

\* The unlocked half of srv_buf_free, for a client that gives its pointer up:
\* the block stays with the thread until the insertion.
LEMMA FreeKeeps ==
  ASSUME PoolInv, NEW t \in Callers, NEW b \in Blocks,
         srv_buf_free(t, b)
  PROVE  PoolInv'
<1>old. TypeOK /\ ListsSound /\ BitTellsFree /\ OneOwner /\ NothingLost /\ OwnedMeansUp
  BY DEF PoolInv
<1>mine. Has(t, b) /\ ~OnList(b) /\ bit[b] # 0
  BY <1>old DEF srv_buf_free, Has, OneOwner, BitTellsFree
<1>up. b[1] <= g_nPoolSize /\ b[1] \in Nat /\ g_nPoolSize \in Nat
  BY <1>mine, <1>old, BlockPool, BufPoolAssumption, LenProperties
     DEF OwnedMeansUp, PoolIds
<1>next. /\ call' = [call EXCEPT ![t] = Insert(b)]
         /\ held' = [held EXCEPT ![t] = held[t] \ {b}]
         /\ UNCHANGED <<g_nPoolSize, free, bit>>
         /\ call[t] = Idle /\ b \in held[t]
  <2>test. ~(b[1] > g_nPoolSize \/ bit[b] = 0)
    BY <1>mine, <1>up
  <2>held. held' = [held EXCEPT ![t] = held[t] \ {b}]
    BY Zenon DEF srv_buf_free
  <2>call. call' = [call EXCEPT ![t] = Insert(b)]
    BY <2>test, Zenon DEF srv_buf_free
  <2> QED BY <2>held, <2>call DEF srv_buf_free
<1>type. TypeOK'
  <2>c. Insert(b) \in Calls
    BY DEF Calls
  <2>call. call' \in [Callers -> Calls]
    BY <1>old, <1>next, <2>c DEF TypeOK
  <2>held. held' \in [Callers -> SUBSET Blocks]
    BY <1>old, <1>next DEF TypeOK
  <2> QED BY <1>old, <1>next, <2>call, <2>held DEF TypeOK
<1>lists. ListsSound' /\ BitTellsFree'
  BY <1>old, <1>next DEF ListsSound, BitTellsFree, OnList
<1>has. ASSUME NEW u \in Callers, NEW c \in Blocks
        PROVE  /\ Has(u, c)' <=> Has(u, c)
               /\ OnList(c)' <=> OnList(c)
               /\ ~(c \in held'[u] /\ call'[u] = Insert(c))
  <2>me. CASE u = t
    BY <2>me, <1>old, <1>next, CallKinds DEF Has, TypeOK, OnList
  <2>you. CASE u # t
    BY <2>you, <1>old, <1>next DEF Has, TypeOK, OnList, OneOwner
  <2> QED BY <2>me, <2>you
<1>own. OneOwner'
  BY <1>has, <1>old DEF OneOwner
<1>upn. OwnedMeansUp'
  BY <1>has, <1>next, <1>old DEF OwnedMeansUp
<1>lost. NothingLost'
  BY <1>has, <1>old DEF NothingLost
<1> QED BY <1>type, <1>lists, <1>own, <1>upn, <1>lost DEF PoolInv

\* A message hands its block over: from one owner to one owner.
LEMMA PassKeeps ==
  ASSUME PoolInv, NEW t \in Callers, NEW u \in Callers,
         NEW b \in Blocks, Pass(t, u, b)
  PROVE  PoolInv'
<1>old. TypeOK /\ ListsSound /\ BitTellsFree /\ OneOwner /\ NothingLost /\ OwnedMeansUp
  BY DEF PoolInv
<1>next. /\ held' = [held EXCEPT ![u] = held[u] \cup {b}, ![t] = held[t] \ {b}]
         /\ UNCHANGED <<g_nPoolSize, free, bit, call>>
         /\ b \in held[t] /\ t # u
  <2>held. held' = [held EXCEPT ![u] = @ \cup {b}, ![t] = @ \ {b}]
    BY Zenon DEF Pass
  <2> QED BY <2>held, <1>old DEF Pass, TypeOK
<1>heldt. /\ held'[t] = held[t] \ {b}
          /\ held'[u] = held[u] \cup {b}
          /\ \A v \in Callers : v # t /\ v # u => held'[v] = held[v]
  BY <1>next, <1>old DEF TypeOK
<1>type. TypeOK'
  BY <1>old, <1>next DEF TypeOK
<1>lists. ListsSound' /\ BitTellsFree'
  BY <1>old, <1>next DEF ListsSound, BitTellsFree, OnList
<1>mine. Has(t, b) /\ ~OnList(b) /\ \A v \in Callers : Has(v, b) => v = t
  BY <1>next, <1>old DEF Has, OneOwner
<1>on. \A c \in Blocks : OnList(c)' <=> OnList(c)
  BY <1>next DEF OnList
<1>moved. ASSUME NEW v \in Callers
          PROVE  /\ Has(v, b)' <=> v = u
                 /\ ~(b \in held'[v] /\ call'[v] = Insert(b))
  <2>nobody. \A w \in Callers : call'[w] # Insert(b)
    BY <1>mine, <1>next, <1>old DEF Has, OneOwner
  <2>held. b \in held'[v] <=> v = u
    <3>a. CASE v = t
      BY <3>a, <1>heldt, <1>next
    <3>b. CASE v = u
      BY <3>b, <1>heldt
    <3>c. CASE v # t /\ v # u
      BY <3>c, <1>heldt, <1>mine DEF Has
    <3> QED BY <3>a, <3>b, <3>c
  <2> QED BY <2>nobody, <2>held DEF Has
<1>rest. ASSUME NEW v \in Callers, NEW c \in Blocks, c # b
         PROVE  (Has(v, c)' <=> Has(v, c)) /\ (c \in held'[v] <=> c \in held[v])
  <2>held. c \in held'[v] <=> c \in held[v]
    <3>a. CASE v = t
      BY <3>a, <1>heldt, <1>rest
    <3>b. CASE v = u
      BY <3>b, <1>heldt, <1>rest
    <3>c. CASE v # t /\ v # u
      BY <3>c, <1>heldt
    <3> QED BY <3>a, <3>b, <3>c
  <2> QED BY <2>held, <1>next DEF Has
<1>own. OneOwner'
  <2> SUFFICES ASSUME NEW c \in Blocks
               PROVE  /\ \A v, w \in Callers : Has(v, c)' /\ Has(w, c)' => v = w
                      /\ \A v \in Callers : Has(v, c)' => ~OnList(c)'
                      /\ \A v \in Callers : ~(c \in held'[v] /\ call'[v] = Insert(c))
    BY DEF OneOwner
  <2>b. CASE c = b
    BY <2>b, <1>moved, <1>mine, <1>on
  <2>c. CASE c # b
    BY <2>c, <1>rest, <1>on, <1>old, <1>next DEF OneOwner
  <2> QED BY <2>b, <2>c
<1>up. OwnedMeansUp'
  BY <1>rest, <1>mine, <1>next, <1>old DEF OwnedMeansUp
<1>lost. NothingLost'
  BY <1>rest, <1>moved, <1>on, <1>old DEF NothingLost
<1> QED BY <1>type, <1>lists, <1>own, <1>up, <1>lost DEF PoolInv

\* The three actions of srv_buf_alloc that take no block.
LEMMA ScanIsOtherCall ==
  ASSUME PoolInv, NEW t \in Callers,
         (\E size \in Sizes : srv_buf_alloc(t, size)) \/ NextPool(t) \/ AllocFails(t)
  PROVE  /\ \E c \in Calls : c.op # "insert" /\ call' = [call EXCEPT ![t] = c]
         /\ call[t].op # "insert"
         /\ UNCHANGED <<g_nPoolSize, free, bit, held>>
<1>t. call \in [Callers -> Calls] /\ call[t] \in Calls
      /\ g_nPoolSize \in {0, Len(Pools)} /\ Len(Pools) \in Nat
  BY BufPoolAssumption, LenProperties DEF PoolInv, TypeOK
<1>entry. CASE \E size \in Sizes : srv_buf_alloc(t, size)
  <2>s. PICK size \in Sizes : srv_buf_alloc(t, size)
    BY <1>entry
  <2>c. Alloc(size, 1) \in Calls
    BY <1>t DEF Calls
  <2> QED BY <2>s, <2>c, CallKinds DEF srv_buf_alloc
<1>turn. CASE NextPool(t)
  <2> DEFINE s == call[t].size
             i == call[t].i
  <2>i. s \in Sizes /\ i \in 1 .. Len(Pools) /\ call[t] = Alloc(s, i)
    BY <1>t, <1>turn, CallShape DEF NextPool, Scanning
  <2>n. [call[t] EXCEPT !.i = i + 1] = Alloc(s, i + 1) /\ Alloc(s, i + 1) \in Calls
    <3>r. \A j : [Alloc(s, i) EXCEPT !.i = j] = Alloc(s, j)
      BY DEF Alloc
    <3>j. i + 1 \in 1 .. Len(Pools) + 1
      BY <2>i, <1>t
    <3> HIDE DEF s, i
    <3>m. Alloc(s, i + 1) \in Calls
      BY <2>i, <3>j DEF Calls
    <3> QED BY <2>i, <3>r, <3>m
  <2>c. call' = [call EXCEPT ![t] = Alloc(s, i + 1)]
    BY <2>n, <1>turn, <1>t DEF NextPool
  <2> QED BY <2>n, <2>c, <1>turn, CallKinds DEF NextPool, Scanning
<1>null. CASE AllocFails(t)
  <2>c. Idle \in Calls /\ Idle.op # "insert"
    BY CallKinds DEF Calls
  <2> QED BY <2>c, <1>null DEF AllocFails
<1> QED BY <1>entry, <1>turn, <1>null

\* Every step of clients that free once keeps the invariant.
LEMMA StepKeeps ==
  ASSUME PoolInv, [Next]_vars
  PROVE  PoolInv'
<1>idle. CASE UNCHANGED vars
  BY <1>idle DEF vars, PoolInv, TypeOK, ListsSound, BitTellsFree, OneOwner,
                 OwnedMeansUp, NothingLost, OnList, Has
<1>move. CASE Next
  <2>t. PICK t \in Callers :
          \/ (\E size \in Sizes : srv_buf_alloc(t, size)) \/ NextPool(t) \/ AllocFails(t)
          \/ TakeBlock(t)
          \/ \E b \in Blocks : srv_buf_free(t, b)
          \/ InsertBlock(t)
          \/ \E u \in Callers, b \in Blocks : Pass(t, u, b)
    BY <1>move DEF Next
  <2>scan. CASE (\E size \in Sizes : srv_buf_alloc(t, size)) \/ NextPool(t) \/ AllocFails(t)
    <3>c. /\ \E c \in Calls : c.op # "insert" /\ call' = [call EXCEPT ![t] = c]
          /\ call[t].op # "insert"
          /\ UNCHANGED <<g_nPoolSize, free, bit, held>>
      BY <2>scan, ScanIsOtherCall
    <3>d. PICK c \in Calls : c.op # "insert" /\ call' = [call EXCEPT ![t] = c]
      BY <3>c
    <3> QED BY <3>c, <3>d, OtherCallKeeps
  <2>take. CASE TakeBlock(t)
    BY <2>take, TakeBlockKeeps
  <2>free. CASE \E b \in Blocks : srv_buf_free(t, b)
    BY <2>free, FreeKeeps
  <2>insert. CASE InsertBlock(t)
    BY <2>insert, InsertBlockKeeps
  <2>pass. CASE \E u \in Callers, b \in Blocks : Pass(t, u, b)
    BY <2>pass, PassKeeps
  <2> QED BY <2>t, <2>scan, <2>take, <2>free, <2>insert, <2>pass
<1> QED BY <1>idle, <1>move

-----------------------------------------------------------------------------

\* The invariant holds in every state clients that free once can reach.
THEOREM PoolInvariant == Spec => []PoolInv
<1>start. Init => PoolInv
  BY InitEstablishes
<1>step. PoolInv /\ [Next]_vars => PoolInv'
  BY StepKeeps
<1> QED BY <1>start, <1>step, PTL DEF Spec

\* The data of srv_buffer.c stay well formed.
THEOREM PoolTypeCorrect == Spec => []TypeOK
<1>inv. PoolInv => TypeOK
  BY DEF PoolInv
<1> QED BY <1>inv, PoolInvariant, PTL

\* srv_buf_alloc never gives a block to a second thread.
THEOREM NoSharedBlock == Spec => []OneOwner
<1>inv. PoolInv => OneOwner
  BY DEF PoolInv
<1> QED BY <1>inv, PoolInvariant, PTL

\* No free list of srv_buffer.c ever holds a block twice, or another pool's.
THEOREM FreeListsSound == Spec => []ListsSound
<1>inv. PoolInv => ListsSound
  BY DEF PoolInv
<1> QED BY <1>inv, PoolInvariant, PTL

\* The test of srv_buf_free for a block that has been freed is exact.
THEOREM BitmapExact == Spec => []BitTellsFree
<1>inv. PoolInv => BitTellsFree
  BY DEF PoolInv
<1> QED BY <1>inv, PoolInvariant, PTL

\* srv_buf_free puts every block back where srv_buf_alloc will find it.
THEOREM NoBlockLost == Spec => []NothingLost
<1>inv. PoolInv => NothingLost
  BY DEF PoolInv
<1> QED BY <1>inv, PoolInvariant, PTL

-----------------------------------------------------------------------------
(* The pools implement an allocator.  The owner of a block is the one       *)
(* thread that has it; every step moves at most one block between owners.   *)

\* In every reachable state a block has at most one holder.
LEMMA HoldersValue ==
  ASSUME PoolInv, NEW b \in Blocks
  PROVE  /\ \A t \in Callers : Has(t, b) => Holders(b) = {t}
         /\ (\A t \in Callers : ~Has(t, b)) => Holders(b) = {}
BY DEF PoolInv, OneOwner, Holders

\* Taking a block: from nobody to the calling thread.
LEMMA TakeMoves ==
  ASSUME PoolInv, PoolInv', NEW t \in Callers, TakeBlock(t)
  PROVE  \E b \in Blocks :
           /\ Holders(b) = {} /\ Holders(b)' = {t}
           /\ \A c \in Blocks \ {b} : Holders(c)' = Holders(c)
<1> DEFINE p == call[t].i
           h == Head(free[p])
<1>p. p \in PoolIds /\ free[p] # <<>>
  <2>c. call[t] \in Calls /\ g_nPoolSize \in {0, Len(Pools)} /\ Len(Pools) \in Nat
    BY BufPoolAssumption, LenProperties DEF PoolInv, TypeOK
  <2>i. p \in 1 .. Len(Pools) + 1 /\ p <= g_nPoolSize
    BY <2>c, CallShape DEF TakeBlock, Scanning
  <2>pool. p \in PoolIds
    BY <2>c, <2>i DEF PoolIds
  <2> QED BY <2>pool DEF TakeBlock, Fits
<1>f. free[p] \in Seq(BlocksOf(p)) /\ Distinct(free[p])
  BY <1>p DEF PoolInv, ListsSound
<1>h. h \in BlocksOf(p) /\ In(free[p], h)
  BY <1>p, <1>f, TailMembers
<1>next. /\ held' = [held EXCEPT ![t] = held[t] \cup {h}]
         /\ call' = [call EXCEPT ![t] = Idle]
         /\ call[t].op = "alloc"
  BY DEF TakeBlock, Scanning
<1>b. PICK b \in Blocks : b = h /\ b[1] = p
  BY <1>p, <1>h, PoolBlock
<1> HIDE DEF h, p
<1>none. \A u \in Callers : ~Has(u, b)
  BY <1>b, <1>h DEF PoolInv, OneOwner, OnList
<1>has. \A u \in Callers, c \in Blocks : Has(u, c)' <=> Has(u, c) \/ (u = t /\ c = b)
  BY <1>next, <1>b, CallKinds DEF PoolInv, TypeOK, Has
<1> QED BY <1>none, <1>has DEF Holders

\* Inserting a block: from the calling thread to nobody.
LEMMA InsertMoves ==
  ASSUME PoolInv, PoolInv', NEW t \in Callers, InsertBlock(t)
  PROVE  \E b \in Blocks :
           /\ Holders(b) = {t} /\ Holders(b)' = {}
           /\ \A c \in Blocks \ {b} : Holders(c)' = Holders(c)
<1>b. PICK b \in Blocks : call[t] = Insert(b)
  BY CallShape DEF PoolInv, TypeOK, InsertBlock
<1>next. call' = [call EXCEPT ![t] = Idle] /\ held' = held
  BY DEF InsertBlock
<1>mine. Has(t, b)
  BY <1>b DEF Has
<1>set. Holders(b) = {t}
  BY <1>mine, HoldersValue
<1>gone. \A u \in Callers : ~Has(u, b)'
  <2>u. \A u \in Callers : Has(u, b)' => Has(u, b) /\ u # t
    BY <1>next, <1>b, CallKinds DEF PoolInv, TypeOK, Has, OneOwner
  <2> QED BY <2>u, <1>mine DEF PoolInv, OneOwner
<1>has. \A u \in Callers, c \in Blocks \ {b} : Has(u, c)' <=> Has(u, c)
  BY <1>next, <1>b, CallKinds DEF PoolInv, TypeOK, Has
<1> QED BY <1>set, <1>gone, <1>has DEF Holders

\* The unlocked half of srv_buf_free moves no block: the thread keeps it.
LEMMA FreeMoves ==
  ASSUME PoolInv, NEW t \in Callers, NEW b \in Blocks,
         srv_buf_free(t, b)
  PROVE  \A c \in Blocks : Holders(c)' = Holders(c)
<1>mine. Has(t, b) /\ ~OnList(b) /\ bit[b] # 0
  BY DEF PoolInv, srv_buf_free, Has, OneOwner, BitTellsFree
<1>up. b[1] <= g_nPoolSize /\ b[1] \in Nat /\ g_nPoolSize \in Nat
  BY <1>mine, BlockPool, BufPoolAssumption, LenProperties
     DEF PoolInv, OwnedMeansUp, PoolIds
<1>test. ~(b[1] > g_nPoolSize \/ bit[b] = 0)
  BY <1>mine, <1>up
<1>held. held' = [held EXCEPT ![t] = held[t] \ {b}]
  BY Zenon DEF srv_buf_free
<1>call. call' = [call EXCEPT ![t] = Insert(b)] /\ call[t] = Idle /\ b \in held[t]
  BY <1>test, Zenon DEF srv_buf_free
<1>has. ASSUME NEW u \in Callers, NEW c \in Blocks PROVE Has(u, c)' <=> Has(u, c)
  <2>me. CASE u = t
    BY <2>me, <1>held, <1>call, CallKinds DEF PoolInv, Has, TypeOK
  <2>you. CASE u # t
    BY <2>you, <1>held, <1>call DEF PoolInv, Has, TypeOK
  <2> QED BY <2>me, <2>you
<1> QED BY <1>has DEF Holders

\* Handing a block over: from one thread to the other.
LEMMA PassMoves ==
  ASSUME PoolInv, PoolInv', NEW t \in Callers,
         NEW u \in Callers, NEW b \in Blocks, Pass(t, u, b)
  PROVE  /\ Holders(b) = {t} /\ Holders(b)' = {u}
         /\ \A c \in Blocks \ {b} : Holders(c)' = Holders(c)
<1>held. held' = [held EXCEPT ![u] = @ \cup {b}, ![t] = @ \ {b}]
  BY Zenon DEF Pass
<1>same. call' = call /\ b \in held[t] /\ t # u
  BY DEF Pass
<1>heldt. /\ held'[t] = held[t] \ {b}
          /\ held'[u] = held[u] \cup {b}
          /\ \A v \in Callers : v # t /\ v # u => held'[v] = held[v]
  BY <1>held, <1>same DEF PoolInv, TypeOK
<1>before. Holders(b) = {t}
  <2>has. Has(t, b)
    BY <1>same DEF Has
  <2> QED BY <2>has, HoldersValue
<1>after. Holders(b)' = {u}
  <2>u. Has(u, b)'
    BY <1>heldt DEF Has
  <2> QED BY <2>u DEF PoolInv, OneOwner, Holders
<1>rest. ASSUME NEW v \in Callers, NEW c \in Blocks, c # b
         PROVE  Has(v, c)' <=> Has(v, c)
  <2>a. CASE v = t
    BY <2>a, <1>heldt, <1>same, <1>rest DEF Has
  <2>b. CASE v = u
    BY <2>b, <1>heldt, <1>same, <1>rest DEF Has
  <2>c. CASE v # t /\ v # u
    BY <2>c, <1>heldt, <1>same DEF Has
  <2> QED BY <2>a, <2>b, <2>c
<1> QED BY <1>before, <1>after, <1>rest DEF Holders

\* srv_buf_alloc and srv_buf_free implement BlockAllocator for clients that
\* free once: a block has one owner at a time, and only a free one is given.
THEOREM PoolsImplementAllocator == Spec => ImplementsAllocator
<1> SUFFICES Spec => Allocator!Spec
  BY DEF ImplementsAllocator
<1> DEFINE own == [b \in Blocks |-> Holders(b)]
<1>start. Init => Allocator!Init
  <2> SUFFICES ASSUME Init PROVE own = [b \in Blocks |-> {}]
    BY DEF Allocator!Init
  <2>h. \A b \in Blocks : Holders(b) = {}
    BY CallKinds DEF Init, Holders, Has
  <2> QED BY <2>h
<1>step. ASSUME PoolInv, PoolInv', [Next]_vars PROVE [Allocator!Next]_own
  <2>still. ASSUME \A c \in Blocks : Holders(c)' = Holders(c) PROVE own' = own
    BY <2>still
  <2>moves. ASSUME NEW b \in Blocks, NEW H,
                   Holders(b)' = H,
                   \A c \in Blocks \ {b} : Holders(c)' = Holders(c)
            PROVE  own' = [own EXCEPT ![b] = H]
    BY <2>moves
  <2>idle. CASE UNCHANGED vars
    <3>h. \A c \in Blocks : Holders(c)' = Holders(c)
      BY <2>idle DEF vars, Holders, Has
    <3> QED BY <3>h, <2>still
  <2>move. CASE Next
    <3>t. PICK t \in Callers :
            \/ (\E size \in Sizes : srv_buf_alloc(t, size)) \/ NextPool(t) \/ AllocFails(t)
            \/ TakeBlock(t)
            \/ \E b \in Blocks : srv_buf_free(t, b)
            \/ InsertBlock(t)
            \/ \E u \in Callers, b \in Blocks : Pass(t, u, b)
      BY <2>move DEF Next
    <3>scan. CASE (\E size \in Sizes : srv_buf_alloc(t, size)) \/ NextPool(t) \/ AllocFails(t)
      <4>c. /\ \E c \in Calls : c.op # "insert" /\ call' = [call EXCEPT ![t] = c]
            /\ call[t].op # "insert"
            /\ UNCHANGED <<g_nPoolSize, free, bit, held>>
        BY <3>scan, <1>step, ScanIsOtherCall
      <4>h. \A c \in Blocks : Holders(c)' = Holders(c)
        BY <4>c, <1>step, CallKinds DEF PoolInv, TypeOK, Holders, Has
      <4> QED BY <4>h, <2>still
    <3>take. CASE TakeBlock(t)
      <4>b. PICK b \in Blocks : /\ Holders(b) = {} /\ Holders(b)' = {t}
                                /\ \A c \in Blocks \ {b} : Holders(c)' = Holders(c)
        BY <3>take, <1>step, TakeMoves
      <4>o. own[b] = {} /\ own' = [own EXCEPT ![b] = {t}]
        BY <4>b, <2>moves
      <4>a. Allocator!Alloc({t}, b)
        BY <4>o DEF Allocator!Alloc
      <4> QED BY <4>a DEF Allocator!Next
    <3>free. CASE \E b \in Blocks : srv_buf_free(t, b)
      BY <3>free, <1>step, FreeMoves, <2>still
    <3>insert. CASE InsertBlock(t)
      <4>b. PICK b \in Blocks : /\ Holders(b) = {t} /\ Holders(b)' = {}
                                /\ \A c \in Blocks \ {b} : Holders(c)' = Holders(c)
        BY <3>insert, <1>step, InsertMoves
      <4>o. own[b] = {t} /\ own' = [own EXCEPT ![b] = {}]
        BY <4>b, <2>moves
      <4>a. Allocator!Free({t}, b)
        BY <4>o DEF Allocator!Free
      <4> QED BY <4>a DEF Allocator!Next
    <3>pass. CASE \E u \in Callers, b \in Blocks : Pass(t, u, b)
      <4>p. PICK u \in Callers, b \in Blocks : Pass(t, u, b)
        BY <3>pass
      <4>b. /\ Holders(b) = {t} /\ Holders(b)' = {u}
            /\ \A c \in Blocks \ {b} : Holders(c)' = Holders(c)
        BY <4>p, <1>step, PassMoves
      <4>o. own[b] = {t} /\ own' = [own EXCEPT ![b] = {u}]
        BY <4>b, <2>moves
      <4>a. Allocator!Pass({t}, {u}, b)
        BY <4>o DEF Allocator!Pass
      <4> QED BY <4>a DEF Allocator!Next
    <3> QED BY <3>t, <3>scan, <3>take, <3>free, <3>insert, <3>pass
  <2> QED BY <1>step, <2>idle, <2>move
<1>inv. Spec => []PoolInv
  BY PoolInvariant
<1> QED BY <1>start, <1>step, <1>inv, PTL DEF Spec, Allocator!Spec
=============================================================================
