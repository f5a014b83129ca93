------------------------- MODULE PermissionPrompts -------------------------
(***************************************************************************)
(* The permission manager (electron/account-permissions.ts) and the one    *)
(* prompt the window can show (electron/main.ts), for one origin.  A       *)
(* request is answered at once from a grant, or queued as the prompt, or   *)
(* refused because a prompt is already open.  Locking, clearing and        *)
(* deleting an Account Space take its grants and its prompt away and then  *)
(* wait; requests go on meanwhile.                                         *)
(***************************************************************************)
EXTENDS Spaces

CONSTANT Queries   \* identifiers, each used for one request

VARIABLES
  space,      \* state of each Account Space
  always,     \* permissionGrants of the account records
  sessionGrants,
  once,       \* oneTimeGrants: accounts with one download allowed
  prompt,     \* pendingPermission
  ask,        \* each request: its account, what it asks for, how far it is
  onceGiven,  \* history: answers "allow once" to downloads of each account
  onceSpent   \* history: downloads that started on such an answer

promptVars == <<space, always, sessionGrants, once, prompt, ask, onceGiven, onceSpent>>

(* Geolocation is refused everywhere, and notifications, media and capture  *)
(* away from their own sites; "camera" stands for what may be asked here.  *)
Capabilities == {"camera", "display-capture", "download", "geolocation"}
Decisions == {"allow-once", "allow-session", "allow-always", "deny"}
AskStages == {"sources", "waiting", "again", "granted", "denied"}

Grants == AccountSpaces \X Capabilities
Ask == [account : AccountSpaces, capability : Capabilities, stage : AskStages, page : BOOLEAN]
Prompt == [request : Queries, fresh : BOOLEAN]

ASSUME PromptsAssumption == None \notin Ask \cup Prompt

PromptsTypeOK ==
  /\ space \in [AccountSpaces -> SpaceStates]
  /\ always \subseteq Grants /\ sessionGrants \subseteq Grants /\ once \subseteq AccountSpaces
  /\ prompt \in Prompt \cup {None}
  /\ ask \in [Queries -> Ask \cup {None}]
  /\ onceGiven \in [AccountSpaces -> Nat] /\ onceSpent \in [AccountSpaces -> Nat]

PromptsInit ==
  /\ space = [a \in AccountSpaces |-> "open"]
  /\ always = {} /\ sessionGrants = {} /\ once = {}
  /\ prompt = None
  /\ ask = [r \in Queries |-> None]
  /\ onceGiven = [a \in AccountSpaces |-> 0] /\ onceSpent = [a \in AccountSpaces |-> 0]

-----------------------------------------------------------------------------
\* isCapabilityAllowedAtOrigin()
AllowedAtOrigin(c) == c # "geolocation"

OnceCovers(a, c) == c = "download" /\ a \in once

(* evaluate(): the workspace and the site first, then the lock, then the   *)
(* grants.                                                                 *)
Evaluate(a, c) ==
  IF ~AllowedAtOrigin(c) \/ ~Usable(space[a]) THEN "denied"
  ELSE IF OnceCovers(a, c) \/ <<a, c>> \in sessionGrants \cup always THEN "granted"
  ELSE "prompt"

(* A variant of Consumed: the grant stays.                                 *)
NotConsumed(a, c) == once

\* evaluate() with consumeOnce
Consumed(a, c) == IF c = "download" THEN once \ {a} ELSE once

AskStaged(r, stage) == ask' = [ask EXCEPT ![r].stage = stage]

(* queuePermissionPrompt(): one prompt at a time, any other is refused.     *)
Queue(r, a, c) ==
  /\ ask' = [ask EXCEPT ![r] = [account |-> a, capability |-> c, page |-> TRUE,
                                stage |-> IF prompt = None THEN "waiting" ELSE "denied"]]
  /\ prompt' = IF prompt = None THEN [request |-> r, fresh |-> TRUE] ELSE prompt

(* The permission request handler and will-download.                       *)
Decide(r, a, c) ==
  LET e == Evaluate(a, c) IN
  IF e = "prompt"
    THEN Queue(r, a, c) /\ UNCHANGED <<once, onceSpent>>
    ELSE /\ ask' = [ask EXCEPT ![r] = [account |-> a, capability |-> c, stage |-> e, page |-> TRUE]]
         /\ once' = IF e = "granted" THEN Consumed(a, c) ELSE once
         /\ onceSpent' = IF e = "granted" /\ OnceCovers(a, c) THEN [onceSpent EXCEPT ![a] = @ + 1]
                         ELSE onceSpent
         /\ UNCHANGED prompt

\* a page of an account whose views are open, or were built while a handler waits
AskPermission(r, a, c) ==
  /\ ask[r] = None /\ space[a] # "gone" /\ c # "display-capture"
  /\ Decide(r, a, c)
  /\ UNCHANGED <<space, always, sessionGrants, onceGiven>>

(* Screen sharing first asks the system for its windows and screens.       *)
AskDisplay(r, a) ==
  /\ ask[r] = None /\ space[a] # "gone"
  /\ ask' = [ask EXCEPT ![r] = [account |-> a, capability |-> "display-capture", page |-> TRUE,
       stage |-> IF Evaluate(a, "display-capture") = "denied" THEN "denied" ELSE "sources"]]
  /\ UNCHANGED <<space, always, sessionGrants, once, prompt, onceGiven, onceSpent>>

\* desktopCapturer.getSources() has answered: createPrompt() evaluates again
DisplaySources(r) ==
  /\ ask[r] # None /\ ask[r].stage = "sources"
  /\ \E found \in BOOLEAN :
       IF found /\ Evaluate(ask[r].account, "display-capture") # "denied"
         THEN Queue(r, ask[r].account, "display-capture")
         ELSE AskStaged(r, "denied") /\ UNCHANGED prompt
  /\ UNCHANGED <<space, always, sessionGrants, once, onceGiven, onceSpent>>

(* sourceContents.downloadURL() of an allowed download: it asks again.     *)
DownloadAgain(r) ==
  /\ ask[r] # None /\ ask[r].stage = "again"
  /\ IF ask[r].page THEN Decide(r, ask[r].account, "download")
     ELSE AskStaged(r, "denied") /\ UNCHANGED <<once, onceSpent, prompt>>
  /\ UNCHANGED <<space, always, sessionGrants, onceGiven>>

\* the page that asked is closed; nobody tells the prompt
PageCloses(r) ==
  /\ ask[r] # None /\ ask[r].page /\ ask[r].stage \in {"sources", "waiting", "again"}
  /\ ask' = [ask EXCEPT ![r].page = FALSE]
  /\ UNCHANGED <<space, always, sessionGrants, once, prompt, onceGiven, onceSpent>>

PromptExpires ==
  /\ prompt # None /\ prompt.fresh
  /\ prompt' = [prompt EXCEPT !.fresh = FALSE]
  /\ UNCHANGED <<space, always, sessionGrants, once, ask, onceGiven, onceSpent>>

(* A variant of MayApply: the account is not looked at again.              *)
OnlyFresh(a, c) == prompt.fresh

\* applyDecision() neither throws nor finds the permission denied by now
MayApply(a, c) == prompt.fresh /\ Evaluate(a, c) # "denied"

(* respondToPermissionPrompt() and applyDecision().  A screen that is not   *)
(* on the list is not shared, though the decision was recorded.            *)
RespondToPrompt(d, listed) ==
  /\ prompt # None
  /\ LET r == prompt.request
         a == ask[r].account
         c == ask[r].capability
         ok == MayApply(a, c) /\ d # "deny"
         given == ok /\ (c = "display-capture" => listed)
         retained == ok /\ d = "allow-once" /\ c = "download"
     IN /\ sessionGrants' = IF ok /\ d = "allow-session" THEN sessionGrants \cup {<<a, c>>} ELSE sessionGrants
        /\ always' = IF ok /\ d = "allow-always" THEN always \cup {<<a, c>>} ELSE always
        /\ once' = IF retained THEN once \cup {a} ELSE once
        /\ onceGiven' = IF retained THEN [onceGiven EXCEPT ![a] = @ + 1] ELSE onceGiven
        /\ AskStaged(r, IF ~given THEN "denied"
                     ELSE IF c # "download" THEN "granted"
                     ELSE IF ask[r].page THEN "again" ELSE "denied")
  /\ prompt' = None
  /\ UNCHANGED <<space, onceSpent>>

-----------------------------------------------------------------------------
(* A variant of Cancelled: the prompt goes, its request gets no answer.    *)
NotAnswered(a, r) == ask[r]

(* The request of a prompt that is taken away is answered: respond(false). *)
Cancelled(a, r) ==
  IF prompt # None /\ prompt.request = r /\ ask[r].account = a
    THEN [ask[r] EXCEPT !.stage = "denied", !.page = FALSE]
  ELSE IF ask[r] # None /\ ask[r].account = a THEN [ask[r] EXCEPT !.page = FALSE]
  ELSE ask[r]

\* closeAccountViews() and cancelAccountOperations()
CancelAccount(a) ==
  /\ sessionGrants' = {g \in sessionGrants : g[1] # a}
  /\ once' = once \ {a}
  /\ ask' = [r \in Queries |-> Cancelled(a, r)]
  /\ prompt' = IF prompt # None /\ ask[prompt.request].account = a THEN None ELSE prompt

\* setAccountSpaceLocked(true), clearAccountSpaceData(), deleteAccountSpace(), up to their await
HandlerBegins(a, s) ==
  /\ space[a] = "open" /\ s \in {"locking", "clearing", "deleting"}
  /\ CancelAccount(a)
  /\ space' = [space EXCEPT ![a] = s]
  /\ UNCHANGED <<always, onceGiven, onceSpent>>

HandlerEnds(a, s) ==
  /\ \/ space[a] = "locking" /\ s = "locked"
     \/ space[a] = "clearing" /\ s = "open"
     \/ space[a] = "deleting" /\ s \in {"gone", "open"}
     \/ space[a] = "locked" /\ s = "open"
  /\ space' = [space EXCEPT ![a] = s]
  /\ always' = IF s = "gone" THEN {g \in always : g[1] # a} ELSE always
  /\ UNCHANGED <<sessionGrants, once, prompt, ask, onceGiven, onceSpent>>

PromptsNext ==
  \/ \E r \in Queries, a \in AccountSpaces :
       \/ \E c \in Capabilities : AskPermission(r, a, c)
       \/ AskDisplay(r, a)
  \/ \E r \in Queries : DisplaySources(r) \/ DownloadAgain(r) \/ PageCloses(r)
  \/ PromptExpires
  \/ \E d \in Decisions, listed \in BOOLEAN : RespondToPrompt(d, listed)
  \/ \E a \in AccountSpaces, s \in SpaceStates : HandlerBegins(a, s) \/ HandlerEnds(a, s)

PromptsSpec == PromptsInit /\ [][PromptsNext]_promptVars

-----------------------------------------------------------------------------
(* A request waits exactly when it is the open prompt: whatever closes the *)
(* prompt (an answer, an expired answer, a lock, a deletion) answers the   *)
(* page, and no second request hangs behind it.                            *)
WaitingIsShown ==
  \A r \in Queries : (ask[r] # None /\ ask[r].stage = "waiting")
                        <=> (prompt # None /\ prompt.request = r)

(* "Allow once" for a download starts at most one: each download that      *)
(* starts without a lasting grant has an answer of its own.                *)
OncePerDecision == \A a \in AccountSpaces : onceSpent[a] <= onceGiven[a]

(* What the user is asked decides: no page is left waiting without its     *)
(* prompt, an answer for once counts once, and no request is granted for   *)
(* an Account Space that is locked or gone, also when its prompt was made  *)
(* before the lock and answered after it.                                  *)
PromptsDecide ==
  [][/\ (WaitingIsShown /\ OncePerDecision)'
     /\ \A r \in Queries :
          ask'[r] # None /\ ask'[r].stage = "granted" /\ (ask[r] = None \/ ask[r].stage # "granted")
            => Usable(space[ask'[r].account])]_promptVars
=============================================================================
