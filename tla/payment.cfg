SPECIFICATION FairSpec
CONSTANTS
  Orders = {o1, o2}
  Calls = {c1, c2}
  NoOrder = NoOrder
  MaxRefunds = 2
  Faults = {"abort", "ackLost"}
INVARIANTS
  TypeOK
  RefundsAreOfCharges
  AnswersAreTruthful
PROPERTIES
  ChargedOnce
  CallsAnswered
