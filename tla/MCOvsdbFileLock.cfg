SPECIFICATION Spec
CONSTANTS
  Procs = {s, t}
  Rows = {1}
  Key <- MCKey
  Inodes = {f1, f2, f3}
  None = None
  MaxRecords = 2
SYMMETRY MCSymmetry
INVARIANT OneWriter
