SPECIFICATION FairSpec
CONSTANTS
  u1 = u1  o1 = o1  o2 = o2  c1 = c1  c2 = c2
  Users = {u1}
  Products = {p1}
  Checkouts = {o1}
  Cancels = {c1, c2}
  Caller <- OneShopper
  NoOrder = NoOrder
  MaxQty = 2
  InitialStock <- OneUnit
  Faults = {"abort", "ackLost"}
PROPERTIES
  RequestsEnd
  PendingResolves
