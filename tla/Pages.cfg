\* The three Account Spaces and three tabs of the views; two spaces and two tabs for
\* the other parts, and a window of two sizes.  s1 and s2 serve as spaces and as tabs.
SPECIFICATION ControllerSpec
CONSTANTS
  None = None
  MaxWaiting = 2
  w1 = w1
  w2 = w2
  a1 = a1
  a2 = a2
  b1 = b1
  Accounts = {a1, a2, b1}
  Workspaces = {w1, w2}
  HomeOf <- Home
  Tabs = {t1, t2, t3}
  AccountSpaces = {s1, s2}
  Calls = {c1, c2}
  Queries = {c1, c2}
  Captures = {c1, c2}
  TabIds = {s1, s2}
  Sites = {"shop", "shop-login", "bank"}
  MaxLoads = 2
  MaxFills = 1
  MaxKept = 1
  PageUrls = {"p", "q"}
  OtherUrls = {"chrome"}
  Titles = {"t", ""}
  FolderNames = {"F", "G"}
  Nodes <- ChromeNodes
  Profiles <- Chrome
  MaxItems = 4
  MaxDepth = 3
  MaxImported = 2
  MaxVisits = 1
  MaxClock = 4
  Widths = {900, 1200}
  PanelWidths = {400}
  MaxActs = 4
SYMMETRY ControllerSymmetry
INVARIANTS ViewsBelong  ExportsEachOnce PageFillsTheRest
PROPERTIES PromptsDecide SentOnce MovesOneEntry
CHECK_DEADLOCK FALSE
