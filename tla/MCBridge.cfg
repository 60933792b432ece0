CONSTANTS
  Content = {p1, p2}
  None = None
  Run = {r1, r2}
  MaxKey = 3
  MaxRuns = 2
SPECIFICATION Spec
SYMMETRY Symmetry
INVARIANTS
  PublishedOnce
  EchoEnds
  RoundTrip
CHECK_DEADLOCK FALSE
