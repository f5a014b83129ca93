\* Two workspaces, four accounts (two with random identifiers), one damaged file; or
\* two vaults in two builds; or two old logins of one user name and two calls.
SPECIFICATION FilesSpec
CONSTANTS
  None = None
  Bad = Bad
  w1 = w1
  w2 = w2
  a1 = a1
  a2 = a2
  a3 = a3
  a4 = a4
  Workspaces = {w1, w2}
  Spaces = {a1, a2, a3, a4}
  Default <- MCDefault
  Items = {i1}
  MaxDamage = 1
  Vaults = {v1, v2}
  Passwords = {p1, p2}
  ThisBuild = 2
  NewestBuild = 3
  MaxRandom = 3
  l1 = l1
  l2 = l2
  m1 = m1
  m2 = m2
  Logins = {l1, l2}
  Names = {m1, m2}
  NameOf <- MCNameOf
  Folded <- MCFolded
  Older = {l2}
  Migrations = {c1, c2}
  MaxEntries = 2
SYMMETRY MCRandom
INVARIANTS NothingLost StillReadable ValidatedMeansHandled
 
CHECK_DEADLOCK FALSE
