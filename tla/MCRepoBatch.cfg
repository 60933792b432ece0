SPECIFICATION Spec
CONSTANTS
  Path = {p1}
  Cid = {v1, v2}
  None = None
  AnyCid = AnyCid
  Swap = {AnyCid}
  MaxRev = 3
  MaxBatch = 2
INVARIANTS OpsExplainCommit
CHECK_DEADLOCK FALSE
