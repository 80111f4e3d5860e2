SPECIFICATION FairSpec
CONSTANTS
  p1 = p1  p2 = p2  o1 = o1  o2 = o2  o3 = o3
  Products = {p1, p2}
  Orders = {o1, o2, o3}
  Calls = {c1, c2}
  NoOrder = NoOrder
  InitialStock <- MCStock
  Baskets <- MCBaskets
  Faults = {"abort", "ackLost"}
INVARIANTS
  TypeOK
  StockConserved
  NoStrandedStock
  OkIsTruthful
PROPERTY CallsAnswered
