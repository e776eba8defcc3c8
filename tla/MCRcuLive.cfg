SPECIFICATION LiveSpec
CONSTANTS
  Threads = {w, a}
  Writers = {w}
  Tasks = {}
  Objects = {o1, o2}
  Urcu = urcu
  Null = null
  CbsetSize = 1
  MaxSeqno = 8
  Usages = {"set_postpone", "set_synchronize_free"}
PROPERTIES Reclaimed
