SPECIFICATION WritesSpec
CONSTANTS
  Path = {p1, p2}
  Cid = {v1, v2}
  None = None
  AnyCid = AnyCid
  Swap = {v1, v2, AnyCid}
  MaxRev = 3
  MaxBatch = 1
CHECK_DEADLOCK FALSE
INVARIANTS WholeExport
