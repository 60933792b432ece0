SPECIFICATION FairSpec
CONSTANTS
  Client = {c1, c2}
  MaxEvent = 2
  LiveCap = 1
  OutCap = 1
PROPERTIES PublishReturns EventArrives
