\* A fresh start of the browser that stops half way is followed by a migration.
SPECIFICATION Spec
CONSTANTS
  None = None
  Bad = Bad
  w1 = w1
  w2 = w2
  a1 = a1
  a2 = a2
  a3 = a3
  a4 = a4
  Workspaces = {w1}
  Spaces = {a1, a2}
  Default <- MCOne
  Items = {i1}
  MaxDamage = 2
INVARIANT PreservedFirst
CHECK_DEADLOCK FALSE
