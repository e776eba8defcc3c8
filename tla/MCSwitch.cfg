SPECIFICATION SwitchSpec
CONSTANTS
  Threads = {w, a}
  Writers = {w, a}
  Tasks = {}
  Objects = {o1, o2, o3}
  Urcu = urcu
  Null = null
  CbsetSize = 2
  MaxSeqno = 8
  Usages = {"set_postpone", "set_synchronize_free"}
  Flows = {f1}
  Handlers = {h1}
  Revalidators = {r1, r2}
  Main = Main
  NULL = NULL
  Leader = r1
  Ukeys = {u1}
  MaxPackets = 1
  MaxPolicy = 1
  Misses = {FALSE}
SYMMETRY Symmetry
INVARIANTS NoUseAfterFree OneFate NoSleepOnFlushed OneQuiesceSuffices  UkeysMirrorDatapath CountedOnceIfComplete
