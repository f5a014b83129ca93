---------------------------- MODULE ControlCenter ----------------------------
(***************************************************************************)
(* The link to the AI Development Control Center on this computer          *)
(* (electron/control-center-link.ts): a pairing, kept in memory and in a   *)
(* sealed file, and calls that each prove who answers before the token     *)
(* goes out.  The Control Center, its tokens and what it keeps of a        *)
(* request are external.                                                   *)
(***************************************************************************)
EXTENDS Spaces

CONSTANTS
  LinkCalls,  \* identifiers, each used for one call of the link
  MaxPairs,   \* bound on the pairings
  Tries       \* withRetry(): 3

VARIABLES
  link,         \* the pairing in memory; 0 when there is none
  linkFile,     \* the pairing in the sealed file
  reached,     \* verifiedBase: the pinned key answered last at the address
  linkCall,     \* each call under way
  port,         \* who answers at the address: the Control Center, another program, nobody
  paired,       \* pairings the Control Center made
  accepted,     \* those it still accepts
  made          \* the request identifiers it made a task or evidence for

linkVars == <<link, linkFile, reached, linkCall, port, paired, accepted, made>>

LinkCallKinds == {"pair", "status", "read", "send"}
Pairings == 0..MaxPairs
LinkCall == [kind : LinkCallKinds, stage : {"pairing", "hello", "token", "retry", "over"},
             app : Pairings, token : Pairings, try : 1..Tries]

ASSUME LinkAssumption == MaxPairs \in Nat /\ Tries \in Nat \ {0} /\ None \notin LinkCall

LinkTypeOK ==
  /\ link \in Pairings /\ linkFile \in Pairings /\ reached \in BOOLEAN
  /\ linkCall \in [LinkCalls -> LinkCall \cup {None}]
  /\ port \in {"center", "other", "nobody"}
  /\ paired \in Pairings /\ accepted \subseteq 1..paired
  /\ made \subseteq LinkCalls \X (1..Tries)

LinkInit ==
  /\ link = 0 /\ linkFile = 0 /\ reached = FALSE
  /\ linkCall = [c \in LinkCalls |-> None] /\ port = "center"
  /\ paired = 0 /\ accepted = {} /\ made = {}

LinkAt(c, stage) == linkCall[c] # None /\ linkCall[c].stage = stage
Finish(c) == linkCall' = [linkCall EXCEPT ![c].stage = "over", ![c].app = 0, ![c].token = 0]

\* verify() up to its request
AsksHello(call) == [call EXCEPT !.stage = "hello", !.app = link]

(* A variant of RequestId: every attempt has an identifier of its own.     *)
FreshRequestId(c) == <<c, linkCall[c].try>>

\* one identifier for a call and its retries
RequestId(c) == <<c, 1>>

-----------------------------------------------------------------------------
BeginPair(c) ==
  /\ linkCall[c] = None
  /\ linkCall' = [linkCall EXCEPT ![c] = [kind |-> "pair", stage |-> "pairing", app |-> 0, token |-> 0, try |-> 1]]
  /\ UNCHANGED <<link, linkFile, reached, port, paired, accepted, made>>

\* status(), repositories(), tasks(), createTask(), addEvidence(): nothing without a link
BeginLinkCall(c, kind) ==
  /\ linkCall[c] = None /\ link # 0
  /\ linkCall' = [linkCall EXCEPT ![c] = AsksHello([kind |-> kind, stage |-> "hello", app |-> 0,
                                                    token |-> 0, try |-> 1])]
  /\ reached' = FALSE
  /\ UNCHANGED <<link, linkFile, port, paired, accepted, made>>

(* pair(): a new pairing replaces the one before, in memory and then in    *)
(* the file; if that fails, the file keeps what it had.  Then status().    *)
PairAnswered(c, answered, kept) ==
  /\ LinkAt(c, "pairing")
  /\ IF port = "center" /\ paired < MaxPairs
       THEN paired' = paired + 1 /\ accepted' = accepted \cup {paired + 1}
       ELSE UNCHANGED <<paired, accepted>>
  /\ IF paired' > paired /\ answered
       THEN /\ link' = paired' /\ linkFile' = IF kept THEN paired' ELSE linkFile
            /\ reached' = IF kept THEN FALSE ELSE reached
            /\ IF kept THEN linkCall' = [linkCall EXCEPT ![c].stage = "hello", ![c].app = paired'] ELSE Finish(c)
       ELSE Finish(c) /\ UNCHANGED <<link, linkFile, reached>>
  /\ UNCHANGED <<port, made>>

\* a hello of the paired Control Center is signed by the key of the pairing in memory now
verifyStatement(c) == port = "center" /\ link # 0 /\ link = linkCall[c].app

(* The answer to a hello: signed by the key of the pairing that is in      *)
(* memory by now, unsigned, or lost.  Who was proven gets the token.       *)
HelloAnswered(c, answered) ==
  /\ LinkAt(c, "hello")
  /\ LET u == linkCall[c]
         signed == answered /\ verifyStatement(c)
         lost == ~answered \/ port = "nobody" IN
     IF signed
       THEN /\ reached' = TRUE
            /\ IF u.kind \in {"pair", "status"} THEN Finish(c)
               ELSE linkCall' = [linkCall EXCEPT ![c].stage = "token", ![c].token = link]
       ELSE /\ UNCHANGED reached
            /\ IF lost /\ u.kind = "send" /\ u.try < Tries
               THEN linkCall' = [linkCall EXCEPT ![c].stage = "retry", ![c].try = @ + 1, ![c].app = 0] ELSE Finish(c)
  /\ UNCHANGED <<link, linkFile, port, paired, accepted, made>>

(* The request with the token: what arrives is made, also when the answer  *)
(* is lost, but for an identifier that was already.                        *)
TokenCallArrives(c) ==
  /\ LinkAt(c, "token")
  /\ port = "center" /\ linkCall[c].token \in accepted /\ linkCall[c].kind = "send"
  /\ made' = made \cup {RequestId(c)} /\ made' # made
  /\ UNCHANGED <<link, linkFile, reached, linkCall, port, paired, accepted>>

(* A variant of Remembered: the link the call began with.                  *)
RememberedBefore(c) == linkCall[c].app

(* createTask() adds the page's repository to the link as it is by then;   *)
(* when there is none any more, that throws.                               *)
Remembered(c) == IF link = 0 THEN linkFile ELSE link

TokenAnswered(c) ==
  /\ LinkAt(c, "token") /\ port = "center" /\ linkCall[c].token \in accepted
  /\ linkCall[c].kind = "send" => RequestId(c) \in made
  /\ linkFile' = IF linkCall[c].kind = "send" THEN Remembered(c) ELSE linkFile
  /\ Finish(c)
  /\ UNCHANGED <<link, reached, port, paired, accepted, made>>

\* 401: the link goes when the pinned key was the last to answer at this address
TokenRefused(c) ==
  /\ LinkAt(c, "token") /\ (port = "other" \/ (port = "center" /\ linkCall[c].token \notin accepted))
  /\ Finish(c)
  /\ IF reached THEN link' = 0 /\ linkFile' = 0 /\ reached' = FALSE ELSE UNCHANGED <<link, linkFile, reached>>
  /\ UNCHANGED <<port, paired, accepted, made>>

\* an error, or an answer that parseTask() and parseRepositories() do not take: no retry
TokenAnswerRejected(c) ==
  /\ LinkAt(c, "token") /\ port # "nobody"
  /\ Finish(c)
  /\ UNCHANGED <<link, linkFile, reached, port, paired, accepted, made>>

TokenAnswerLost(c) ==
  /\ LinkAt(c, "token")
  /\ IF linkCall[c].kind = "send" /\ linkCall[c].try < Tries
       THEN linkCall' = [linkCall EXCEPT ![c].stage = "retry", ![c].try = @ + 1, ![c].app = 0, ![c].token = 0]
       ELSE Finish(c)
  /\ UNCHANGED <<link, linkFile, reached, port, paired, accepted, made>>

\* withRetry(): the pause is over
TryAgain(c) ==
  /\ LinkAt(c, "retry")
  /\ IF link = 0 THEN Finish(c) /\ UNCHANGED reached
     ELSE /\ linkCall' = [linkCall EXCEPT ![c] = AsksHello(@)] /\ reached' = FALSE
  /\ UNCHANGED <<link, linkFile, port, paired, accepted, made>>

RemoveLink ==
  /\ link' = 0 /\ linkFile' = 0 /\ reached' = FALSE
  /\ UNCHANGED <<linkCall, port, paired, accepted, made>>

\* load(): a file that cannot be read is moved aside
LinkRestart(damaged) ==
  /\ link' = IF damaged THEN 0 ELSE linkFile
  /\ linkFile' = link' /\ reached' = FALSE
  /\ linkCall' = [c \in LinkCalls |-> IF linkCall[c] = None THEN None
                    ELSE [linkCall[c] EXCEPT !.stage = "over", !.app = 0, !.token = 0]]
  /\ UNCHANGED <<port, paired, accepted, made>>

PortChanges(p) == port' = p /\ UNCHANGED <<link, linkFile, reached, linkCall, paired, accepted, made>>

\* disconnected in the Control Center
CenterForgets(n) ==
  /\ n \in accepted /\ accepted' = accepted \ {n}
  /\ UNCHANGED <<link, linkFile, reached, linkCall, port, paired, made>>

LinkNext ==
  \/ \E c \in LinkCalls :
       \/ BeginPair(c) \/ TokenCallArrives(c) \/ TokenAnswered(c) \/ TokenRefused(c) \/ TokenAnswerLost(c)
       \/ TokenAnswerRejected(c) \/ TryAgain(c)
       \/ \E k \in LinkCallKinds \ {"pair"} : BeginLinkCall(c, k)
       \/ \E a \in BOOLEAN : HelloAnswered(c, a)
       \/ \E a, k \in BOOLEAN : PairAnswered(c, a, k)
  \/ RemoveLink \/ \E d \in BOOLEAN : LinkRestart(d)
  \/ \E p \in {"center", "other", "nobody"} : PortChanges(p)
  \/ \E n \in Pairings : CenterForgets(n)

LinkSpec == LinkInit /\ [][LinkNext]_linkVars

-----------------------------------------------------------------------------
(* A task that was sent is made once: over lost answers, tries, a restart  *)
(* of the Control Center and a pairing that changed between two tries.     *)
TaskOnce == \A c \in LinkCalls : Cardinality({r \in made : r[1] = c}) <= 1

(* A link that was removed, by the user or by a refusal, does not come     *)
(* back with the next start: no call that was under way writes it again.   *)
ForgottenIsGone == link = 0 => linkFile = 0
=============================================================================
