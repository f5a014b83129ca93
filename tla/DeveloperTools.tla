--------------------------- MODULE DeveloperTools ---------------------------
(***************************************************************************)
(* What the Development workspace lets the user see of a page              *)
(* (electron/main.ts): Chromium's tools docked to it, the rings of console *)
(* messages and failed requests of each tab, a report, the inspection of   *)
(* an element, and the server of a project that VS Code starts.  A tab is  *)
(* judged by its stored address (developerTarget()), while its view may    *)
(* still paint another page; a report, an inspection and the start of a    *)
(* server wait for an answer, and the user goes on meanwhile.              *)
(***************************************************************************)
EXTENDS PageContext

CONSTANTS
  Projects,   \* projects that VS Code offers
  DevServer,  \* the page of the server that VS Code starts
  MaxRing     \* the bound on a ring (100 in the code)

ASSUME ToolsAssumption == DevServer \in Sites

VARIABLES
  workspace,  \* of each tab
  tools,      \* of each tab: DevTools
  rings,      \* console and network of each tab: the newest entries
  project,    \* the project selected in the bridge, and whose server it is said to have
  waiting,    \* the call that waits for the page or for VS Code
  shared      \* history: what reports and inspections took, and where servers were opened

toolVars == <<workspace, tools, rings, project, waiting, shared>>

Kinds == {"console", "network"}

(* Tools that were opened before the page that is stored had committed are *)
(* told apart, for the properties.                                         *)
ToolStates == {"closed", "open", "early"}

(* An entry is of the page that was painted; whether that was the page     *)
(* stored is noted for the properties.                                     *)
Entry == [of : Sites, ahead : BOOLEAN]

NotWaiting == [call |-> "none", tab |-> None, name |-> None, gen |-> 0, project |-> None]

ToolsInit ==
  /\ ContextInit
  /\ workspace \in [TabIds -> {"development", "banking"}]
  /\ tools = [t \in TabIds |-> "closed"]
  /\ rings = [t \in TabIds |-> [k \in Kinds |-> <<>>]]
  /\ project = [id |-> None, server |-> None]
  /\ waiting = NotWaiting
  /\ shared = {}

-----------------------------------------------------------------------------
\* canUseDeveloperTools()
MayUse(t, s) == workspace[t] = "development" /\ ~page[t].home /\ ~Protected(s)

\* developerTarget(): the stored address, and a view
Target(t) == page[t].painted # None /\ MayUse(t, page[t].url)

\* requireDeveloperWorkspace(): Home will do
InDevelopment == workspace[inFront] = "development" /\ ~Protected(page[inFront].url)

\* toggleDeveloperTools() and "Inspect element"
ToggleTools ==
  /\ Target(inFront)
  /\ tools' = [tools EXCEPT ![inFront] =
       IF @ # "closed" THEN "closed"
       ELSE IF page[inFront].painted = page[inFront].url THEN "open" ELSE "early"]
  /\ UNCHANGED <<contextVars, workspace, rings, project, waiting, shared>>

(* A variant of Newest that keeps every entry.                             *)
Everything(s) == s

Newest(s) == IF Len(s) > MaxRing THEN Tail(s) ELSE s

(* recordConsoleMessage() and recordNetworkIssue(): a message names the    *)
(* script it is from, an issue the address asked for, of any site.         *)
Record(t, kind, source) ==
  /\ Target(t) /\ ~Protected(source)
  /\ rings' = [rings EXCEPT ![t][kind] =
       Newest(Append(@, [of |-> page[t].painted, ahead |-> page[t].painted # page[t].url]))]
  /\ UNCHANGED <<contextVars, workspace, tools, project, waiting, shared>>

ClearDiagnostics ==
  /\ Target(inFront)
  /\ rings' = [rings EXCEPT ![inFront] = [k \in Kinds |-> <<>>]]
  /\ UNCHANGED <<contextVars, workspace, tools, project, waiting, shared>>

AsksFor(call, p) ==
  waiting' = [call |-> call, tab |-> inFront, name |-> page[inFront].url,
              gen |-> page[inFront].gen, project |-> p]

\* captureDeveloperDiagnostics() and inspectDeveloperPage(): a script runs in the page
AskPage(call) ==
  /\ waiting = NotWaiting /\ Target(inFront) /\ page[inFront].load = None
  /\ AsksFor(call, None)
  /\ UNCHANGED <<contextVars, workspace, tools, rings, project, shared>>

(* The page has answered; a page that went away does not.  A report is     *)
(* given if the tab in front is still the one asked, at the same address;  *)
(* an inspection is sent to VS Code whatever is in front.                  *)
PageAnswers ==
  LET t == waiting.tab
      same == inFront = t /\ Target(t) /\ page[t].url = waiting.name
  IN  /\ waiting.call \in {"report", "inspect"}
      /\ waiting' = NotWaiting
      /\ shared' = IF page[t].gen = waiting.gen /\ (waiting.call = "report" => same)
                   THEN shared \cup {<<waiting.call, page[t].painted, waiting.name>>} ELSE shared
      /\ UNCHANGED <<contextVars, workspace, tools, rings, project>>

\* selectBridgeProject()
SelectProject(p) ==
  /\ InDevelopment /\ project.id # p
  /\ project' = [id |-> p, server |-> None]
  /\ UNCHANGED <<contextVars, workspace, tools, rings, waiting, shared>>

\* runBridgeAction('server.start')
StartServer ==
  /\ waiting = NotWaiting /\ InDevelopment /\ project.id # None
  /\ AsksFor("server", project.id)
  /\ UNCHANGED <<contextVars, workspace, tools, rings, project, shared>>

(* The user has allowed the command in VS Code and the server runs: its    *)
(* address is filed under the project selected by now, and opened in the   *)
(* tab in front by now.                                                    *)
ServerRuns ==
  /\ waiting.call = "server"
  /\ waiting' = NotWaiting
  /\ project' = [project EXCEPT !.server = waiting.project]
  /\ shared' = shared \cup {<<"server", workspace[inFront], waiting.project>>}
  /\ Visit(DevServer)
  /\ UNCHANGED <<workspace, tools, rings>>

-----------------------------------------------------------------------------
(* Navigation, with what becomes of the tools.                             *)
StoreAddress(s) == Visit(s) /\ UNCHANGED toolVars

(* A variant of OnCommit: the tools stay.                                  *)
ToolsStay(t, s) == tools

\* commitNavigation() of a protected page closes the tools, also under Home
OnCommit(t, s) == IF Protected(s) THEN [tools EXCEPT ![t] = "closed"] ELSE tools

CommitPage(t, s) ==
  /\ Commit(t, s) /\ tools' = OnCommit(t, s)
  /\ UNCHANGED <<workspace, rings, project, waiting, shared>>

ShowHome ==
  /\ GoHome /\ tools' = [tools EXCEPT ![inFront] = "closed"]
  /\ UNCHANGED <<workspace, rings, project, waiting, shared>>

\* hideAllViews() closes the tools of every view
ShowTab(t) ==
  /\ Activate(t) /\ tools' = [u \in TabIds |-> "closed"]
  /\ UNCHANGED <<workspace, rings, project, waiting, shared>>

ToolsNext ==
  \/ ToggleTools \/ ClearDiagnostics \/ PageAnswers \/ StartServer \/ ServerRuns \/ ShowHome
  \/ \E call \in {"report", "inspect"} : AskPage(call)
  \/ \E p \in Projects : SelectProject(p)
  \/ \E s \in Sites : StoreAddress(s)
  \/ \E t \in TabIds :
       \/ (StartLoad(t) \/ Abort(t)) /\ UNCHANGED toolVars
       \/ ShowTab(t)
       \/ \E s \in Sites :
            \/ CommitPage(t, s)
            \/ PageNavigates(t, s) /\ UNCHANGED toolVars
            \/ \E k \in Kinds : Record(t, k, s)

ToolsSpec == ToolsInit /\ [][ToolsNext]_<<contextVars, toolVars>>

-----------------------------------------------------------------------------
(* "Developer tools are available only for non-protected pages in the      *)
(* Development workspace" (requireDeveloperTarget), however pages, tabs    *)
(* and Home follow one another: the tools are open on no other page, and   *)
(* no other page is recorded.  What is judged is the stored address, so    *)
(* what happens to a protected page that is being left is excepted: tools  *)
(* that were opened on it, and messages that it sent, between the address  *)
(* bar and the commit.  Such tools stay open when that navigation is       *)
(* stopped, and while the protected page is loaded anew in its place.      *)
ProtectedUnseen ==
  \A t \in TabIds :
    /\ tools[t] # "closed" =>
         /\ t = inFront /\ workspace[t] = "development" /\ ~page[t].home
         /\ Protected(page[t].painted) => tools[t] = "early"
    /\ \A k \in Kinds : \A i \in 1 .. Len(rings[t][k]) :
         Protected(rings[t][k][i].of) => rings[t][k][i].ahead

(* A report is filed under the address of the page it describes: false     *)
(* for a page that is being left.                                          *)
ReportsNameTheirPage == \A x \in shared : x[1] = "report" => x[2] = x[3]

(* "Banking never receives one: nothing outside it may open a page there"  *)
(* (main.ts, openFromSideApp): false for a server that runs late.          *)
NothingOpensInBanking == \A x \in shared : x[1] = "server" => x[2] = "development"

(* A project is said to have its own server: false, as above.              *)
OwnServer == project # None => project.server \in {None, project.id}
=============================================================================
