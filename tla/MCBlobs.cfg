CONSTANTS
  Did = {d1, d2}
  Cid = {c1, c2}
  None = None
  Req = {r1, r2, r3}
  MaxStarts = 5
  MaxKey = 5
  Limit = {1, 2}
  Reader = {s1}
SPECIFICATION MCSpec
SYMMETRY Symmetry
INVARIANTS
  FilesAndRows
  UploadKept
  PagesComplete
CHECK_DEADLOCK FALSE
