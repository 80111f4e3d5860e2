SPECIFICATION FairSpec
CONSTANTS
  Features = {"locks", "channel"}
  t1 = t1  t2 = t2  f1 = f1  f2 = f2
  Tabs = {t1}
  Flows = {f1, f2}
  TabOf <- MCOneTab
  NoFlow = NoFlow
  Emails = {e1}
  NoEmail = NoEmail
  Tokens = {k1, k2, k3}
  NoToken = NoToken
  MaxInbox = 1
  MaxExpired = 0
  Faults = {"net"}
PROPERTY RefreshEnds
