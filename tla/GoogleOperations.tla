-------------------------- MODULE GoogleOperations --------------------------
(***************************************************************************)
(* Calls of the Google services (electron/google-services.ts,              *)
(* electron/google-confirmations.ts and runGoogleOperation() of            *)
(* electron/main.ts).  A read is tried three times; a change is confirmed  *)
(* first and tried once.  A call is cancelled by its identifier, or with   *)
(* its Account Space.                                                      *)
(***************************************************************************)
EXTENDS Spaces

CONSTANTS
  Payloads,      \* what a change says: recipients, text, times
  MaxPrepared,   \* confirmations kept (50 in the code)
  SafeReads       \* SAFE_READ_ATTEMPTS

VARIABLES
  call,       \* each operation: account, kind, how far it is, attempt
  operations, \* the operations that can be cancelled
  prepared,   \* pending confirmations; tokens count up, so the least is the oldest
  tokens,     \* history: what each confirmation said
  requested   \* history: what was asked of Google and under which confirmation

opVars == <<call, operations, prepared, tokens, requested>>

OpKinds == {"read", "change"}
OpStages == {"token", "request", "backoff", "done", "failed", "cancelled"}
Operation == [account : AccountSpaces, kind : OpKinds, payload : Payloads, token : Nat,
         stage : OpStages, aborted : BOOLEAN, attempt : 1..SafeReads]
Confirmation == [token : Nat, account : AccountSpaces, payload : Payloads, fresh : BOOLEAN]

ASSUME OperationsAssumption == SafeReads \in Nat \ {0} /\ MaxPrepared \in Nat \ {0} /\ None \notin Operation

OperationsTypeOK ==
  /\ call \in [Calls -> Operation \cup {None}]
  /\ operations \subseteq Calls
  /\ prepared \subseteq Confirmation
  /\ tokens \in Seq([account : AccountSpaces, payload : Payloads])
  /\ requested \in Seq([by : Calls, account : AccountSpaces, payload : Payloads, token : Nat])

OperationsInit ==
  /\ call = [c \in Calls |-> None] /\ operations = {}
  /\ prepared = {} /\ tokens = <<>> /\ requested = <<>>

Underway(c) == call[c] # None /\ call[c].stage \in {"token", "request", "backoff"}

-----------------------------------------------------------------------------
Oldest(kept) == CHOOSE x \in kept : \A y \in kept : x.token <= y.token

(* GoogleMutationConfirmations.prepare(): the oldest goes when there are   *)
(* too many.                                                               *)
PrepareChange(a, p) ==
  /\ Len(tokens) < Cardinality(Calls)
  /\ tokens' = Append(tokens, [account |-> a, payload |-> p])
  /\ LET more == prepared \cup {[token |-> Len(tokens'), account |-> a, payload |-> p, fresh |-> TRUE]}
     IN prepared' = IF Cardinality(more) > MaxPrepared THEN more \ {Oldest(more)} ELSE more
  /\ UNCHANGED <<call, operations, requested>>

ConfirmationExpires(x) ==
  /\ x \in prepared /\ x.fresh
  /\ prepared' = (prepared \ {x}) \cup {[x EXCEPT !.fresh = FALSE]}
  /\ UNCHANGED <<call, operations, tokens, requested>>

(* A variant of Matches: of the account alone, not of what was confirmed.  *)
MatchesAccount(x, a, p) == x.fresh /\ x.account = a

\* consume(): the account, the service, the revision and the hash of the payload
Matches(x, a, p) == x.fresh /\ x.account = a /\ x.payload = p

\* runGoogleOperation() of a read
BeginRead(c, a, p) ==
  /\ call[c] = None
  /\ call' = [call EXCEPT ![c] = [account |-> a, kind |-> "read", payload |-> p, token |-> 0,
                                  stage |-> "token", aborted |-> FALSE, attempt |-> 1]]
  /\ operations' = operations \cup {c}
  /\ UNCHANGED <<prepared, tokens, requested>>

(* sendGmail(), shareDriveFile(), writeCalendarEvent(): the confirmation is *)
(* gone before it is compared.                                             *)
BeginChange(c, a, p, t) ==
  /\ call[c] = None
  /\ LET held == \E x \in prepared : x.token = t /\ Matches(x, a, p) IN
     /\ call' = [call EXCEPT ![c] = [account |-> a, kind |-> "change", payload |-> p, token |-> t,
                                     stage |-> IF held THEN "token" ELSE "failed",
                                     aborted |-> FALSE, attempt |-> 1]]
     /\ operations' = IF held THEN operations \cup {c} ELSE operations
  /\ prepared' = {x \in prepared : x.token # t}
  /\ UNCHANGED <<tokens, requested>>

\* the finally block forgets the operation
Ends(c, stage) ==
  /\ call' = [call EXCEPT ![c].stage = stage]
  /\ operations' = operations \ {c}

Asks(c) == requested' = Append(requested, [by |-> c, account |-> call[c].account,
                                           payload |-> call[c].payload, token |-> call[c].token])

\* apiJson(): getAccessToken() has answered
TokenReady(c) ==
  /\ call[c] # None /\ call[c].stage = "token"
  /\ call' = [call EXCEPT ![c].stage = "request"]
  /\ Asks(c)
  /\ UNCHANGED <<operations, prepared, tokens>>

TokenFails(c) ==
  /\ call[c] # None /\ call[c].stage = "token"
  /\ Ends(c, "failed")
  /\ UNCHANGED <<prepared, tokens, requested>>

(* A variant of MayRetry: whatever the request was.                        *)
RetryAnything(c) == call[c].attempt < SafeReads

\* only a safe read is asked again
MayRetry(c) == call[c].kind = "read" /\ call[c].attempt < SafeReads

(* The answer, or none: a refused token asks for another at once, a quota, *)
(* a failing server and a lost answer wait first.                          *)
ServiceAnswers(c, answer) ==
  /\ call[c] # None /\ call[c].stage = "request"
  /\ IF answer = "ok" THEN Ends(c, "done")
     ELSE IF answer # "refused" /\ MayRetry(c)
       THEN /\ call' = [call EXCEPT ![c].stage = IF answer = "unauthorized" THEN "token" ELSE "backoff",
                                    ![c].attempt = @ + 1]
            /\ UNCHANGED operations
       ELSE Ends(c, "failed")
  /\ UNCHANGED <<prepared, tokens, requested>>

(* A variant of StillWanted: the loop does not look at the signal.         *)
NotAsked(c) == TRUE

\* the head of the loop in apiJson()
StillWanted(c) == ~call[c].aborted

BackoffOver(c) ==
  /\ call[c] # None /\ call[c].stage = "backoff"
  /\ IF StillWanted(c) THEN call' = [call EXCEPT ![c].stage = "token"] /\ UNCHANGED operations
     ELSE Ends(c, "cancelled")
  /\ UNCHANGED <<prepared, tokens, requested>>

(* An aborted call ends at once where it waits for a token or an answer; a *)
(* read that lost its answer this way, and one that backs off, end at the  *)
(* head of the loop.                                                       *)
Aborted(c) ==
  IF call[c].stage = "backoff" \/ (call[c].stage = "request" /\ MayRetry(c))
    THEN [call[c] EXCEPT !.aborted = TRUE, !.stage = "backoff",
                         !.attempt = IF call[c].stage = "request" THEN @ + 1 ELSE @]
  ELSE [call[c] EXCEPT !.aborted = TRUE, !.stage = "cancelled"]

CancelOperation(c) ==
  /\ c \in operations
  /\ call' = [call EXCEPT ![c] = Aborted(c)]
  /\ operations' = IF Aborted(c).stage = "cancelled" THEN operations \ {c} ELSE operations
  /\ UNCHANGED <<prepared, tokens, requested>>

\* cancelAccountOperations(): confirmations and operations of a locked, cleared or deleted account
CancelOperationsOf(a) ==
  /\ \E c \in Calls : Underway(c) /\ call[c].account = a
  /\ call' = [c \in Calls |-> IF c \in operations /\ call[c].account = a THEN Aborted(c) ELSE call[c]]
  /\ operations' = {c \in operations : call[c].account # a}
  /\ prepared' = {x \in prepared : x.account # a}
  /\ UNCHANGED <<tokens, requested>>

OperationsNext ==
  \/ \E a \in AccountSpaces, p \in Payloads : PrepareChange(a, p)
  \/ \E x \in prepared : ConfirmationExpires(x)
  \/ \E c \in Calls, a \in AccountSpaces, p \in Payloads :
       \/ BeginRead(c, a, p)
       \/ \E t \in DOMAIN tokens : BeginChange(c, a, p, t)
  \/ \E c \in Calls :
       \/ TokenReady(c) \/ TokenFails(c) \/ BackoffOver(c) \/ CancelOperation(c)
       \/ \E answer \in {"ok", "unauthorized", "refused", "lost"} : ServiceAnswers(c, answer)
  \/ \E a \in AccountSpaces : CancelOperationsOf(a)

OperationsSpec == OperationsInit /\ [][OperationsNext]_opVars

-----------------------------------------------------------------------------
(* A confirmation sends one request, of the account and of exactly what    *)
(* was confirmed: a lost answer is not asked again, a second call with the *)
(* same confirmation is refused.  After a cancellation, of the call or of  *)
(* its account, nothing more is asked of Google for it, also when it was   *)
(* backing off.                                                            *)
ConfirmedOnce ==
  [][\A i \in DOMAIN requested' \ DOMAIN requested :
       LET r == requested'[i] IN
       /\ r.token # 0 => /\ [account |-> r.account, payload |-> r.payload] = tokens[r.token]
                         /\ \A j \in DOMAIN requested : requested[j].token # r.token
       /\ call[r.by] # None => ~call[r.by].aborted]_opVars
=============================================================================
