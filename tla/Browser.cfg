\* Two Account Spaces, two sign-ins and two Google accounts; two sites; two or three
\* tabs.
\* The identifiers a1, a2 and c1, c2 serve all parts.
SPECIFICATION BrowserSpec
CONSTANTS
  None = None
  w1 = w1
  Accounts = {a1, a2}
  Workspaces = {w1}
  HomeOf <- Home
  MaxWaiting = 2
  Attempts = {c1, c2}
  Subs = {s1, s2}
  AccountSpaces = {a1, a2}
  Calls = {}
  TabIds = {c1, c2}
  Sites = {"shop", "bank"}
  MaxLoads = 2
  Projects = {p1}
  DevServer = "shop"
  MaxRing = 1
  MaxLayers = 2
  MaxAsks = 2
  MaxDuring = 1
  StripTabs = {c1, c2, c3}
  Hosts = {"x", "y"}
  MaxClosed = 1
  MaxCache = 1
  MaxIcons = 1
  MaxPopups = 1
  MaxFetches = 1
  MaxTabActs = 4
SYMMETRY BrowserSymmetry
INVARIANTS OneSubject GrantOfIdentity  StatusTruthful  FrozenUnprotected UncoveredShows IconsStayInAccount
PROPERTY IdentityKept
CHECK_DEADLOCK FALSE
