----------------------------- MODULE MCBrowser -----------------------------
(***************************************************************************)
(* The Google sign-in of the Account Spaces, the developer tools, the      *)
(* menus over a page, and the tab strip with its icons, for TLC.  They     *)
(* share no variable with one another but the pages that the tools and the *)
(* menus see; each behaviour takes the steps of one of them, which a       *)
(* property of one of them cannot tell from behaviours in which the others *)
(* also take steps.                                                        *)
(***************************************************************************)
EXTENDS GoogleAccess, DeveloperTools, PageCover, TabStrip, TLC

CONSTANT w1

Home(a) == w1

VARIABLE part   \* the part whose steps are followed

googleAccessVars == vars

browserVars == <<vars, contextVars, toolVars, coverVars, stripVars, part>>

(* Where a part starts in several ways, only its own behaviours do; in the *)
(* other ones there are no accounts, pages or tabs, the tools are closed   *)
(* and one menu stays open.                                                *)
NoAccounts ==
  /\ accounts = {} /\ removed = {} /\ locked = {} /\ active = << >> /\ front = w1 /\ pending = {}
  /\ sub = [a \in Accounts |-> None] /\ token = [a \in Accounts |-> None]
  /\ status = [a \in Accounts |-> "disconnected"] /\ attempt = [c \in Attempts |-> Idle("unused")]
  /\ op = [a \in Accounts |-> None] /\ cached = [a \in Accounts |-> None]
  /\ entry = {} /\ flights = {} /\ raced = {} /\ crossed = {}

NoPages == page = << >> /\ inFront = None /\ loads = 0

ToolsClosed ==
  /\ workspace = << >> /\ tools = [t \in TabIds |-> "closed"]
  /\ rings = [t \in TabIds |-> [k \in Kinds |-> << >>]]
  /\ project = None /\ waiting = None /\ shared = {}

CoveredThroughout ==
  /\ visible = {} /\ covered = TRUE /\ layers = 1 /\ phase = "ready"
  /\ shot = None /\ frame = None /\ asks = << >>

NoStrip ==
  /\ tabs = << >> /\ frontTab = None /\ popups = {} /\ cache = {} /\ fetches = {}
  /\ runtime = << >> /\ closed = << >> /\ recent = << >> /\ marked = << >> /\ kept = {}
  /\ tabActs = 0

BrowserInit ==
  /\ part \in {"google", "tools", "cover", "tabs"}
  /\ IF part = "google" THEN Init ELSE NoAccounts
  /\ IF part = "tools" THEN ToolsInit ELSE ToolsClosed
  /\ IF part = "cover" THEN CoverInit ELSE CoveredThroughout
  /\ IF part = "tabs" THEN StripInit ELSE NoStrip
  /\ part \notin {"tools", "cover"} => NoPages

BrowserNext ==
  \/ /\ part = "google" /\ Next
     /\ UNCHANGED <<toolVars, contextVars, coverVars, stripVars, part>>
  \/ /\ part = "tools" /\ ToolsNext
     /\ UNCHANGED <<googleAccessVars, coverVars, stripVars, part>>
  \/ /\ part = "cover" /\ CoverNext
     /\ UNCHANGED <<googleAccessVars, toolVars, stripVars, part>>
  \/ /\ part = "tabs" /\ StripNext
     /\ UNCHANGED <<googleAccessVars, toolVars, contextVars, coverVars, part>>

BrowserSymmetry ==
  Permutations(Accounts) \cup Permutations(Attempts) \cup Permutations(Subs)

BrowserSpec == BrowserInit /\ [][BrowserNext]_browserVars
=============================================================================
