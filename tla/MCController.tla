---------------------------- MODULE MCController ----------------------------
(***************************************************************************)
(* The parts of the controller that share no variable with one another,    *)
(* for TLC: tabs and views, prompts, fills and consent, bookmarks and      *)
(* history, and the layout of the window.  Each behaviour takes the steps  *)
(* of one of them: a property of one part cannot tell it from behaviours   *)
(* in which the others also take steps.                                    *)
(***************************************************************************)
EXTENDS MCPages, PermissionPrompts, PageFills, AiConsent, Library, WindowLayout

(* A Chrome profile with folders in folders, a name that is used twice, an *)
(* address that is not of the web, and a root of its own.                  *)
Page(n, u) == [name |-> n, url |-> u, children |-> << >>]
Folder(n, c) == [name |-> n, url |-> "", children |-> c]

Deep == Folder("G", <<Page("t", "p")>>)
Bar  == Folder("F", <<Deep, Page("t", "q")>>)

ChromeNodes == {Bar, Deep, Page("t", "p"), Page("t", "q"), Page("t", "chrome")}

Chrome ==
  {[roots |-> <<[root |-> "bookmark_bar", name |-> "F",
                 children |-> <<Bar, Page("t", "chrome")>>],
                [root |-> "synced", name |-> "F",
                 children |-> <<Page("t", "q"), Page("t", "p")>>]>>,
    visits |-> <<[url |-> "p", visitedAt |-> 1], [url |-> "chrome", visitedAt |-> 0]>>]}

VARIABLE part   \* the part whose steps are followed

viewVars == vars
windowVars == <<libraryVars, layoutVars>>

controllerVars == <<viewVars, promptVars, contextVars, fillVars, consentVars, windowVars, part>>

(* Where a part starts in several ways, only its own behaviours do; in the *)
(* other ones there are one address in all tabs, and nobody reads.      *)
NoReader == bookmarks = << >> /\ history = << >> /\ reader = None /\ clock = 1

ControllerInit ==
  /\ part \in {"views", "prompts", "fills", "consent", "library", "layout"}
  /\ Init /\ PromptsInit /\ FillsInit /\ ConsentInit /\ LayoutInit
  /\ part \notin {"fills", "consent"} => \A t \in TabIds : page[t].url = "shop"
  /\ part # "layout" => \A w \in Widths : window.width <= w
  /\ part # "views" => accounts = Accounts /\ front = w1 /\ active[w1] = a1
  /\ IF part = "library" THEN LibraryInit ELSE NoReader

ControllerNext ==
  \/ /\ part = "views" /\ Next
     /\ UNCHANGED <<promptVars, contextVars, fillVars, consentVars, windowVars, part>>
  \/ /\ part = "prompts" /\ PromptsNext
     /\ UNCHANGED <<viewVars, contextVars, fillVars, consentVars, windowVars, part>>
  \/ /\ part = "fills" /\ FillsNext
     /\ UNCHANGED <<viewVars, promptVars, consentVars, windowVars, part>>
  \/ /\ part = "consent" /\ ConsentNext
     /\ UNCHANGED <<viewVars, promptVars, fillVars, windowVars, part>>
  \/ /\ part = "library" /\ LibraryNext
     /\ UNCHANGED <<viewVars, promptVars, contextVars, fillVars, consentVars, layoutVars, part>>
  \/ /\ part = "layout" /\ LayoutNext
     /\ UNCHANGED <<viewVars, promptVars, contextVars, fillVars, consentVars, libraryVars, part>>

ControllerSymmetry == SymTabs \cup Permutations(AccountSpaces)

ControllerSpec == ControllerInit /\ [][ControllerNext]_controllerVars
=============================================================================
