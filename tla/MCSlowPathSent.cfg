SPECIFICATION Spec
CONSTANTS
  Handlers = {h1}
  Main = Main
  Recver = Recver
  Queue = Queue
  PacketSizes = {1, 2}
  TableSize = 2
  Pools <- MCPools
  QueueSize = 4
  Table <- MCTable
  g_nMaxTid = 2
  RecverTid = 1
  NULL = NULL
INVARIANT EveryPacketSent
CHECK_DEADLOCK FALSE
