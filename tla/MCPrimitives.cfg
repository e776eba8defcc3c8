SPECIFICATION PrimitivesSpec
CONSTANTS
  Msgs = {m1, m2}
  NoMsg = NoMsg
  Receivers = {r1}
  QueueSize = 3
  Callers = {c1, c2}
  Sizes = {1, 2}
  Pools <- MCPools
  Nodes = {n1, n2, n3, n4, n5}
  Root = Root
  NULL = NULL
  Threads = {t1, t2}
  Seqs = {s1, s2}
  MaxValue = 2
  Lockers = {l1, l2, l3}
  MaxDepth = 2
  Handlers = {t1, t2}
  Main = Main
  Recver = Recver
  Queue = Queue
  PacketSizes = {1, 2}
  TableSize = 2
  SlowQueueSize = 2
  g_nMaxTid = 2
  RecverTid = 1
INVARIANTS NothingLost NoLostWakeup WriterIsAlone NoCircularWait QueueOwnsItsBlocks StartIsSound
PROPERTIES ImplementsFifo ImplementsAllocator ImplementsList Wakes SentIsReceived
CHECK_DEADLOCK FALSE
