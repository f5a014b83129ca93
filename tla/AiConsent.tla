----------------------------- MODULE AiConsent -----------------------------
(***************************************************************************)
(* What of a page may leave the device (electron/main.ts and               *)
(* electron/ai-account-spaces.ts): a page is read into a preview, the user *)
(* approves the preview, and the approval is spent on one question to the  *)
(* cloud model, one VS Code handoff or one task of the Control Center.     *)
(***************************************************************************)
EXTENDS PageContext

CONSTANTS
  Captures,   \* identifiers, each used for one reading of a page
  MaxKept     \* the bound on previews and on approvals (20 in the code)

VARIABLES
  capture,    \* each reading: its tab, the address it is filed under, the pages it holds
  previews,   \* pendingAiPreviews
  approvals,  \* aiApprovals: the reading each was given for
  overdue,    \* previews and approvals whose five minutes are over
  sent,       \* history: how often each reading left the device
  revoked     \* history: the readings that were discarded

consentVars == <<capture, previews, approvals, overdue, sent, revoked>>
aiVars == <<contextVars, consentVars>>

CaptureKinds == {"page", "diagnostics"}
CaptureRecord == [tab : TabIds, name : Sites, read : SUBSET Sites, kind : CaptureKinds,
            stage : {"waiting", "reading", "more", "read", "failed"}]

(* Of each preview or approval, when it was added; the oldest is the least. *)
KeptReading == [of : Captures, turn : Nat]

ASSUME ConsentAssumption == None \notin CaptureRecord

ConsentTypeOK ==
  /\ ContextTypeOK
  /\ capture \in [Captures -> CaptureRecord \cup {None}]
  /\ previews \subseteq KeptReading /\ approvals \subseteq KeptReading
  /\ overdue \subseteq {"preview", "approval"} \X Captures
  /\ sent \in [Captures -> Nat] /\ revoked \subseteq Captures

ConsentInit ==
  /\ ContextInit
  /\ capture = [c \in Captures |-> None]
  /\ previews = {} /\ approvals = {} /\ overdue = {}
  /\ sent = [c \in Captures |-> 0] /\ revoked = {}

-----------------------------------------------------------------------------
Without(S, c) == {e \in S : e.of # c}
Holds(S, c) == \E e \in S : e.of = c

LastTurn(S) == IF S = {} THEN 0 ELSE (CHOOSE e \in S : \A f \in S : f.turn <= e.turn).turn
With(S, c) == S \cup {[of |-> c, turn |-> LastTurn(S) + 1]}

\* pruneAiCapabilities(): what is over goes, then the oldest
Pruned(S, kind) ==
  LET fresh == {e \in S : <<kind, e.of>> \notin overdue}
  IN {e \in fresh : Cardinality({f \in fresh : f.turn > e.turn}) < MaxKept}

(* prepareAiPreview(): the stored address is judged.  The page is asked at *)
(* once, or when a load under way is over.                                 *)
PreparePreview(c) ==
  /\ capture[c] = None
  /\ previews' = Pruned(previews, "preview") /\ approvals' = Pruned(approvals, "approval")
  /\ LET f == page[inFront] IN
     capture' = IF Protected(f.url) \/ f.home \/ f.painted = None THEN capture
       ELSE [capture EXCEPT ![c] =
              [tab |-> inFront, name |-> f.url, kind |-> "page",
               read |-> IF f.load = None THEN {f.painted} ELSE {},
               stage |-> IF f.load = None THEN "reading" ELSE "waiting"]]
  /\ UNCHANGED <<contextVars, overdue, sent, revoked>>

\* captureDeveloperDiagnostics(): what a developer's page is made of
PrepareDiagnostics(c) ==
  /\ capture[c] = None
  /\ LET f == page[inFront] IN
     /\ ~f.home /\ ~Protected(f.url) /\ f.painted # None /\ f.load = None
     /\ capture' = [capture EXCEPT ![c] = [tab |-> inFront, name |-> f.url, kind |-> "diagnostics",
                                           read |-> {f.painted}, stage |-> "more"]]
  /\ UNCHANGED <<contextVars, previews, approvals, overdue, sent, revoked>>

(* The rest of prepareDeveloperAiPreview(): the tab must be the one it     *)
(* was; structure and picture come from the tab in front by then.          *)
MoreDiagnostics(c) ==
  /\ capture[c] # None /\ capture[c].stage = "more"
  /\ LET f == page[inFront]
         same == inFront = capture[c].tab /\ f.url = capture[c].name /\ ~f.home /\ f.painted # None
     IN capture' = IF same /\ ~Protected(f.url)
          THEN [capture EXCEPT ![c].stage = "reading", ![c].read = @ \cup {f.painted}]
          ELSE [capture EXCEPT ![c].stage = "failed"]
  /\ UNCHANGED <<contextVars, previews, approvals, overdue, sent, revoked>>

\* did-stop-loading: the script of a reading that waited runs in what is there
WaitedRead(c) ==
  /\ capture[c] # None /\ capture[c].stage = "waiting"
  /\ page[capture[c].tab].load = None
  /\ capture' = [capture EXCEPT ![c].stage = "reading", ![c].read = {page[capture[c].tab].painted}]
  /\ UNCHANGED <<contextVars, previews, approvals, overdue, sent, revoked>>

\* the page has answered, or its view is gone
PageRead(c, answered) ==
  /\ capture[c] # None /\ capture[c].stage = "reading"
  /\ capture' = [capture EXCEPT ![c].stage = IF answered THEN "read" ELSE "failed"]
  /\ previews' = IF answered THEN With(previews, c) ELSE previews
  /\ UNCHANGED <<contextVars, approvals, overdue, sent, revoked>>

-----------------------------------------------------------------------------
\* sameAiSource() and the protection of the page that is stored by now
SameSource(c) ==
  inFront = capture[c].tab /\ page[inFront].url = capture[c].name /\ ~page[inFront].home
    /\ ~Protected(page[inFront].url)

\* maySendAiPreviewToCloud()
MaySend(c) == capture[c].kind = "diagnostics" \/ capture[c].name # "mail"

(* A variant of Taken: the entry remains.                                  *)
Remains(S, c) == S

\* approveAiPreview() and consumeAiApproval() delete the entry before they check it
Taken(S, c) == Without(S, c)

ApprovePreview(c) ==
  /\ Holds(previews, c)
  /\ previews' = Taken(previews, c)
  /\ approvals' = IF <<"preview", c>> \notin overdue /\ SameSource(c) /\ MaySend(c)
                  THEN With(approvals, c) ELSE approvals
  /\ overdue' = overdue \ {<<"preview", c>>}
  /\ UNCHANGED <<contextVars, capture, sent, revoked>>

(* askAi(), handing over to VS Code and the Control Center: the approval is *)
(* spent whatever becomes of the request.                                  *)
Send(c, answered) ==
  /\ Holds(approvals, c)
  /\ LET good == <<"approval", c>> \notin overdue /\ SameSource(c) IN
     /\ approvals' = Taken(approvals, c)
     /\ sent' = IF good /\ answered THEN [sent EXCEPT ![c] = @ + 1] ELSE sent
  /\ overdue' = overdue \ {<<"approval", c>>}
  /\ UNCHANGED <<contextVars, capture, previews, revoked>>

(* A variant of Discarded: the previews only.                              *)
PreviewsDiscarded == /\ previews' = {} /\ UNCHANGED approvals

Discarded == previews' = {} /\ approvals' = {}

\* revokeAiContext(), and cancelAccountOperations() of any Account Space
Revoke ==
  /\ previews \cup approvals # {}
  /\ Discarded
  /\ revoked' = revoked \cup {e.of : e \in previews \cup approvals}
  /\ UNCHANGED <<contextVars, capture, overdue, sent>>

GrowsLate(kind, c) ==
  /\ Holds(IF kind = "preview" THEN previews ELSE approvals, c)
  /\ overdue' = overdue \cup {<<kind, c>>}
  /\ UNCHANGED <<contextVars, capture, previews, approvals, sent, revoked>>

ConsentNext ==
  \/ \E c \in Captures :
       \/ PreparePreview(c) \/ PrepareDiagnostics(c) \/ MoreDiagnostics(c) \/ WaitedRead(c)
       \/ ApprovePreview(c)
       \/ \E b \in BOOLEAN : PageRead(c, b) \/ Send(c, b)
       \/ \E k \in {"preview", "approval"} : GrowsLate(k, c)
  \/ Revoke
  \/ \E s \in Sites : Visit(s) /\ UNCHANGED consentVars
  \/ \E t \in TabIds :
       \/ (StartLoad(t) \/ Abort(t) \/ Activate(t)) /\ UNCHANGED consentVars
       \/ \E s \in Sites : (PageNavigates(t, s) \/ Commit(t, s)) /\ UNCHANGED consentVars
  \/ GoHome /\ UNCHANGED consentVars

ConsentSpec == ConsentInit /\ [][ConsentNext]_aiVars

-----------------------------------------------------------------------------
(* One approval buys one request: what was read once leaves the device at  *)
(* most once, through whatever order of previews, approvals and retries,   *)
(* and never after the user took the preview or the approval back, also by *)
(* the lock of an Account Space.                                           *)
SentOnce ==
  [][\A c \in Captures : sent'[c] # sent[c] => sent[c] = 0 /\ c \notin revoked]_aiVars

(* "A protected or banking page is refused three times, not once - at      *)
(* extraction, at approval, and immediately before the request leaves"     *)
(* (docs/systems/ai-consent.md): nothing read from one is sent.            *)
ProtectedStays == \A c \in Captures : sent[c] > 0 => \A s \in capture[c].read : ~Protected(s)
=============================================================================
