SPECIFICATION Spec
CONSTANTS
  Client = {c1}
  MaxEvent = 2
  LiveCap = 2
  OutCap = 1
INVARIANTS StreamOrder
