CONSTANTS
  h1 = h1
  h2 = h2
  Host = {h1, h2}
  Blank = Blank
  None = None
  Form <- MCForm
  Env <- MCEnv
  Req = {r1, r2}
  MaxStarts = 2
  MaxTunnels = 2
  MaxBoots = 1
SPECIFICATION MCSpec
INVARIANTS
  NoChildLeft
  ChildCurrent
  TunnelWhole
  SettingsWhole
PROPERTIES
  StopEnds
CHECK_DEADLOCK FALSE
