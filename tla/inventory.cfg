SPECIFICATION Spec
CONSTANTS
  p1 = p1  p2 = p2
  Products = {p1, p2}
  Orders = {o1, o2, o3}
  Calls = {c1, c2}
  NoOrder = NoOrder
  NoRow = NoRow
  InitialStock <- MCStock
  Baskets <- MCBaskets
  Rank <- MCRank
  PoolMax = 2
  Faults = {"abort", "ackLost", "crash"}
SYMMETRY Symmetry
INVARIANTS
  TypeOK
  DeadlockNeedsRelease
PROPERTY ImplementsLedger
