SPECIFICATION Spec
CONSTANTS
  None = None
  MaxWaiting = 2
  w1 = w1
  w2 = w2
  a1 = a1
  a2 = a2
  b1 = b1
  Accounts = {a1, a2, b1}
  Workspaces = {w1, w2}
  HomeOf <- Home
  Tabs = {t1, t2, t3}
SYMMETRY SymTabs
INVARIANT LockedHasNoView
