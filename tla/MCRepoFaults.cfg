SPECIFICATION FaultySpec
CONSTANTS
  Path = {p1}
  Cid = {v1}
  None = None
  AnyCid = AnyCid
  Swap = {AnyCid}
  MaxRev = 3
  MaxBatch = 2
INVARIANTS IInv NothingDangles AckedIsKept EventOrder
PROPERTIES GapsShow
SYMMETRY CidSymmetry
