SPECIFICATION Spec
CONSTANTS
  Client = {c1, c2}
  MaxEvent = 3
  LiveCap = 2
  OutCap = 1
INVARIANTS SentIsStored OneRewind RInv
PROPERTIES ImplementsStream

