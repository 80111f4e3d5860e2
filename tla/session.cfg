SPECIFICATION Spec
CONSTANTS
  Features = {"locks", "channel"}
  t1 = t1  t2 = t2  f1 = f1  f2 = f2
  Tabs = {t1, t2}
  Flows = {f1, f2}
  TabOf <- MCTwoTabs
  NoFlow = NoFlow
  Emails = {e1}
  NoEmail = NoEmail
  Tokens = {k1, k2, k3}
  NoToken = NoToken
  MaxInbox = 1
  MaxExpired = 1
  Faults = {"throw", "net"}
INVARIANTS
  TypeOK
  NotLoggedOutByRace
  ExchangedOnce
  RotationSound
  RegisteredOnce
SYMMETRY Symmetry
