SPECIFICATION DatabaseSpec
CONSTANTS
  Procs = {s}
  Rows = {1, 2, 3}
  Key <- MCKey
  Inodes = {f1, f2, f3}
  None = None
  MaxRecords = 4
  Uuids = {1, 2, 3, 4}
  Table <- MCTable
  Roots = {"root"}
  MaxRows <- MCMaxRows
  Type <- MCType
  Least <- MCLeast
  Index = {"k"}
  Contents <- MCContents
  Gone = Gone
  MaxOps = 2
SYMMETRY MCSymmetry
INVARIANTS SurvivesPowerFailure LogIsMemory CountsExact
PROPERTY CommitsAsPromised
