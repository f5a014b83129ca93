\* Two workflow runs and four publish jobs; or one of the other components.
\* The identifiers a1, a2, c1, c2 and n1, n2 serve all of them.
SPECIFICATION ServicesSpec
CONSTANTS
  None = None
  MaxBuild = 2
  MaxVersion = 3
  MaxAttempt = 4
  Endpoints = {e1}
  Bundled = e1
  Contents = {b1, b2}
  Downloads = {d1}
  Releases = {r1, r2}
  AccountSpaces = {a1, a2}
  Calls = {c1, c2}
  LinkCalls = {c1, c2, c3}
  Payloads = {n1, n2}
  Projects = {n1, n2}
  Apps = {n1, n2}
  MaxPrepared = 1
  SafeReads = 2
  MaxVersions = 3
  MaxPairs = 2
  Tries = 2
  Configs = {"v1", "v2"}
  MaxChecks = 2
  MaxStarts = 2
  Clients = {"c"}
  TokenHolders = {"c"}
  Editions = {a1, a2}
  Installers = {"small", "large"}
  SizeOf <- FileSizes
  MinTtl = 1
  MaxTtl = 2
  DefaultTtl = 1
  Configured = {None, 0, 3}
  MaxTime = 2
  MaxByte = 3
SYMMETRY ServicesSymmetry
INVARIANTS ServesVerified  ReplacesWhatItRead TaskOnce ForgottenIsGone  PanelOnly LinkGivesOneFile
PROPERTIES ImplementsServed ConfirmedOnce
CHECK_DEADLOCK FALSE
