SPECIFICATION Spec
CONSTANTS
  Flows = {f1}
  Handlers = {h1}
  Revalidators = {r1, r2}
  Main = Main
  NULL = NULL
  Leader = r1
  Slice <- MCSlice
  Ukeys = {u1}
  MaxPackets = 1
  MaxPolicy = 1
  Misses = {TRUE}
INVARIANT CountedOnce
