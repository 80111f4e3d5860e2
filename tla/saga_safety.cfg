SPECIFICATION Spec
CONSTANTS
  u1 = u1  o1 = o1  o2 = o2  c1 = c1  c2 = c2
  Users = {u1}
  Products = {p1}
  Checkouts = {o1, o2}
  Cancels = {c1}
  Caller <- OneShopper
  NoOrder = NoOrder
  MaxQty = 1
  InitialStock <- OneUnit
  Faults = {"abort", "ackLost", "throw"}
SYMMETRY Symmetry
INVARIANTS
  TypeOK
  ChargedOnlyIfReserved
  RefundedOnlyIfConfirmed
  EventsTellOneStory
  HeldOnlyIfReleaseFailed
  StockExact
  AllOrNothing
PROPERTY ConfirmOnlyAuthorized
