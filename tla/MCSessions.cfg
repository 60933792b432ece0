CONSTANTS
  Did = {d1}
  Secret = {p1, p2}
  Email = {e1}
  Name = {n1}
  None = None
  Req = {r1, r2}
  MaxStarts = 4
  MaxMail = 1
  MaxApp = 1
  MaxLife = 2
SPECIFICATION Spec
SYMMETRY Symmetry
INVARIANTS
  OneHolder
  LoginLasts
  SessionsOwn
  ActsOnce
CHECK_DEADLOCK FALSE
