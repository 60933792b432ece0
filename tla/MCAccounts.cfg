SPECIFICATION Spec
CONSTANTS
  Handle = {h1, h2}
  PlcDid = {d1, d2}
  Code = {k1}
  None = None
  Req = {r1, r2}
  MaxStarts = 4
INVARIANTS IInv HandlePublished HandleAgrees StatusTold RepoFollowsAccount RepoIsOwn InviteOnce
CHECK_DEADLOCK FALSE
SYMMETRY Symmetry
