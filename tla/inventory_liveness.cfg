SPECIFICATION FairSpec
CONSTANTS
  p1 = p1  p2 = p2
  Products = {p1, p2}
  Orders = {o1}
  Calls = {c1, c2, c3}
  NoOrder = NoOrder
  NoRow = NoRow
  InitialStock <- MCStock
  Baskets <- OneOfEach
  Rank <- MCRank
  PoolMax = 2
  Faults = {"abort", "ackLost"}
PROPERTY CallsAnswered
