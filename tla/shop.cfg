SPECIFICATION FairSpec
CONSTANTS
  p1 = p1
  Products = {p1}
  Writes = {1, 2}
  Requests <- MCRequests
  NoBody = NoBody
  InitialCart <- OneUnit
  MaxOpen = 1
INVARIANTS
  TypeOK
  FreshCartIsStored
  RefusalsAreClean
PROPERTIES
  SentAgainUntouched
  CancelSticks
  ClicksEnd
CHECK_DEADLOCK FALSE
