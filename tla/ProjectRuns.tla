----------------------------- MODULE ProjectRuns -----------------------------
(***************************************************************************)
(* What the VS Code extension runs for the browser                         *)
(* (vscode-extension/src/project-service.ts): a development server and     *)
(* tests of a project the user allowed, each command approved as it was    *)
(* discovered.  The dialogs, the file system and the processes are VS      *)
(* Code's and the system's.                                                *)
(***************************************************************************)
EXTENDS Spaces

CONSTANTS
  Projects,
  Configs,     \* what the project's configuration says; part of a command's fingerprint
  MaxChecks,    \* commands of one test (2 or 20 in the code)
  MaxStarts     \* commands started in one minute (5 in the code)

VARIABLES
  granted,      \* projects the user allowed
  configured,   \* the configuration of each project now
  lasting,      \* commands allowed for good, by project and configuration
  job,          \* each request that runs or stops something
  alive,        \* requests whose process runs
  server,       \* running: the request whose process is the project's server
  testing,      \* activeTasks: the request whose process is the project's test
  liveRun,      \* liveRunActive
  starts,       \* commandStarts of the last minute
  asked, began  \* history: commands allowed once, commands started

projectVars == <<granted, configured, lasting, job, alive, server, testing, liveRun, starts, asked, began>>

JobKinds == {"server", "restart", "checks", "page", "live", "stop", "cancel"}
Command == [kind : JobKinds, project : Projects, version : Configs, left : 0..MaxChecks,
        target : Calls \cup {None}, stage : {"site", "ask", "running", "ending", "over"}]

ASSUME ProjectAssumption ==
  MaxChecks \in Nat \ {0} /\ MaxStarts \in Nat \ {0} /\ None \notin Calls \cup Command

ProjectTypeOK ==
  /\ granted \subseteq Projects /\ configured \in [Projects -> Configs]
  /\ lasting \subseteq Projects \X Configs
  /\ job \in [Calls -> Command \cup {None}] /\ alive \subseteq Calls
  /\ server \in [Projects -> Calls \cup {None}] /\ testing \in [Projects -> Calls \cup {None}]
  /\ liveRun \in BOOLEAN /\ starts \in 0..MaxStarts
  /\ asked \subseteq Calls \X Projects \X Configs /\ began \subseteq Calls \X Projects \X Configs

ProjectInit ==
  /\ granted = {} /\ configured \in [Projects -> Configs] /\ lasting = {}
  /\ job = [c \in Calls |-> None] /\ alive = {}
  /\ server = [p \in Projects |-> None] /\ testing = [p \in Projects |-> None]
  /\ liveRun = FALSE /\ starts = 0 /\ asked = {} /\ began = {}

JobAt(c, stage) == job[c] # None /\ job[c].stage = stage
Tests == {"checks", "page", "live"}

-----------------------------------------------------------------------------
\* authorize()
AllowProject(p) ==
  /\ p \notin granted /\ granted' = granted \cup {p}
  /\ UNCHANGED <<configured, lasting, job, alive, server, testing, liveRun, starts, asked, began>>

\* package.json or another configuration file is edited, or a branch checked out
ConfigChanges(p, v) ==
  /\ v # configured[p] /\ configured' = [configured EXCEPT ![p] = v]
  /\ UNCHANGED <<granted, lasting, job, alive, server, testing, liveRun, starts, asked, began>>

\* the minute of the oldest start is over
StartForgotten ==
  /\ starts > 0 /\ starts' = starts - 1
  /\ UNCHANGED <<granted, configured, lasting, job, alive, server, testing, liveRun, asked, began>>

(* startServer(), stopServer(), runTest() and cancelTask() up to their     *)
(* first wait; inspect() discovers the commands and their fingerprints.    *)
BeginJob(c, kind, p) ==
  /\ job[c] = None
  /\ kind \in {"server"} \cup Tests => p \in granted
  /\ kind = "live" => ~liveRun
  /\ LET target == IF kind = "cancel" /\ testing[p] # None THEN testing[p]
                   ELSE IF kind \in {"stop", "restart", "cancel"} THEN server[p] ELSE None
         stage == IF target # None THEN "ending" ELSE IF kind \in {"stop", "cancel"} THEN "over"
                  ELSE IF kind = "live" THEN "site" ELSE "ask"
     IN /\ kind = "restart" /\ target = None => p \in granted
        /\ job' = [job EXCEPT ![c] =
             [kind |-> kind, project |-> p, version |-> configured[p], target |-> target, stage |-> stage,
              left |-> IF kind = "checks" THEN MaxChecks ELSE 1]]
  /\ UNCHANGED <<granted, configured, lasting, alive, server, testing, liveRun, starts, asked, began>>

\* approveLiveSite(): only now is the run marked
SiteApproved(c, yes) ==
  /\ JobAt(c, "site")
  /\ job' = [job EXCEPT ![c].stage = IF yes THEN "ask" ELSE "over"]
  /\ liveRun' = (liveRun \/ yes)
  /\ UNCHANGED <<granted, configured, lasting, alive, server, testing, starts, asked, began>>

(* A variant of Approved: for this project, whatever the command is now.   *)
ApprovedOnceForAll(p, v) == \E w \in Configs : <<p, w>> \in lasting

\* the stored approval of approveCommand()
Approved(p, v) == <<p, v>> \in lasting

\* the finally block of a live test
LiveEnds(c) == liveRun' = (liveRun /\ job[c].kind # "live")

(* approveCommand() has an answer, or needs none; then guardCommandStart() *)
(* and the process, unless the project has one of that kind already.       *)
RunCommand(c, answer) ==
  /\ JobAt(c, "ask")
  /\ LET j == job[c]
         key == <<j.project, j.version>>
         isTest == j.kind \in Tests
         mine == IF isTest THEN testing ELSE server
         runs == starts < MaxStarts /\ mine[j.project] = None
     IN /\ IF Approved(j.project, j.version) THEN answer = "none" ELSE answer \in {"once", "always", "no"}
        /\ lasting' = IF answer = "always" THEN lasting \cup {key} ELSE lasting
        /\ asked' = IF answer = "once" THEN asked \cup {<<c, j.project, j.version>>} ELSE asked
        /\ starts' = IF answer # "no" /\ starts < MaxStarts THEN starts + 1 ELSE starts
        /\ IF answer # "no" /\ runs
             THEN /\ alive' = alive \cup {c} /\ began' = began \cup {<<c, j.project, j.version>>}
                  /\ job' = [job EXCEPT ![c].stage = "running", ![c].left = @ - 1]
                  /\ server' = IF isTest THEN server ELSE [server EXCEPT ![j.project] = c]
                  /\ testing' = IF isTest THEN [testing EXCEPT ![j.project] = c] ELSE testing
                  /\ UNCHANGED liveRun
             ELSE /\ job' = [job EXCEPT ![c].stage = "over"]
                  /\ LiveEnds(c) /\ UNCHANGED <<alive, began, server, testing>>
  /\ UNCHANGED <<granted, configured>>

(* A process ends.  A server's entry goes whoever is in it by then; a      *)
(* test's only if it is its own, and the next command follows.             *)
ProcessExits(c) ==
  /\ c \in alive /\ alive' = alive \ {c}
  /\ LET j == job[c] IN
     IF j.kind \in Tests
       THEN /\ testing' = IF testing[j.project] = c THEN [testing EXCEPT ![j.project] = None] ELSE testing
            /\ job' = [job EXCEPT ![c].stage = IF j.left > 0 THEN "ask" ELSE "over"]
            /\ IF j.left > 0 THEN UNCHANGED liveRun ELSE LiveEnds(c)
            /\ UNCHANGED server
       ELSE /\ server' = [server EXCEPT ![j.project] = None]
            /\ job' = [job EXCEPT ![c].stage = "over"] /\ UNCHANGED <<testing, liveRun>>
  /\ UNCHANGED <<granted, configured, lasting, starts, asked, began>>

(* terminateProcess() is over, because the process is or after 5 s; the    *)
(* entry goes whoever is in it by then.  A restart then starts.            *)
StopEnds(c) ==
  /\ JobAt(c, "ending")
  /\ LET j == job[c]
         ofTest == j.kind = "cancel" /\ job[j.target].kind \in Tests
         again == j.kind = "restart" /\ j.project \in granted
     IN /\ server' = IF ofTest THEN server ELSE [server EXCEPT ![j.project] = None]
        /\ testing' = IF ofTest THEN [testing EXCEPT ![j.project] = None] ELSE testing
        /\ job' = [job EXCEPT ![c].stage = IF again THEN "ask" ELSE "over",
                              ![c].version = IF again THEN configured[j.project] ELSE @]
  /\ UNCHANGED <<granted, configured, lasting, alive, liveRun, starts, asked, began>>

ProjectNext ==
  \/ \E p \in Projects : AllowProject(p) \/ \E v \in Configs : ConfigChanges(p, v)
  \/ StartForgotten
  \/ \E c \in Calls :
       \/ \E k \in JobKinds, p \in Projects : BeginJob(c, k, p)
       \/ \E yes \in BOOLEAN : SiteApproved(c, yes)
       \/ \E answer \in {"none", "once", "always", "no"} : RunCommand(c, answer)
       \/ ProcessExits(c) \/ StopEnds(c)

ProjectSpec == ProjectInit /\ [][ProjectNext]_projectVars

-----------------------------------------------------------------------------
(* What runs was allowed as it was discovered: once for this request, or   *)
(* for good for this very command.  "Always" does not cover a command      *)
(* whose configuration has changed since, across restarts and reruns.      *)
ApprovedStarts ==
  \A b \in began : b \in asked \/ <<b[2], b[3]>> \in lasting

(* Of a project at most one test process runs, so that cancelling the test *)
(* reaches it ("A project test is already running", exec()): false, since  *)
(* a cancellation that ends late drops the entry of the next command.      *)
TestsTracked == \A c \in alive : job[c].kind \in Tests => testing[job[c].project] = c

\* "Only one live-site test may run at a time" (runPageTest()): false while the site is asked about
OneLive == Cardinality({c \in alive : job[c].kind = "live"}) <= 1
=============================================================================
