SPECIFICATION RankedSpec
CONSTANTS
  Threads = {w, a}
  Writers = {w}
  Tasks = {k}
  Objects = {o1, o2, o3}
  Urcu = urcu
  Null = null
  CbsetSize = 2
  MaxSeqno = 8
  Usages = {"set_postpone"}
SYMMETRY Symmetry
INVARIANTS NoUseAfterFree
CHECK_DEADLOCK FALSE
