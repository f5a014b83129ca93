---------------------------- MODULE GoogleAccess ----------------------------
(***************************************************************************)
(* Google access of Account Spaces under everything that is done to them   *)
(* (AccountLifecycle): sign-ins (GoogleOAuthManager), grants and statuses  *)
(* (AccountStore, BrowserController), access tokens (GoogleTokenBroker).   *)
(* Google's answers are free.  Modules, scopes and the content of tokens   *)
(* are left out, and so is what Google keeps of a grant.                   *)
(***************************************************************************)
EXTENDS AccountLifecycle

CONSTANTS
  Attempts,  \* sign-ins, never used twice
  Subs       \* Google accounts

ASSUME GoogleAssumption == None \notin Attempts \cup Subs

VARIABLES
  sub,      \* googleIdentity of each Account Space, kept when it signs out
  token,    \* refreshToken: the grant it comes from
  status,   \* googleConnection
  attempt,  \* how far each sign-in is
  op,       \* operations of GoogleOAuthManager: the sign-in that can be cancelled
  cached,   \* accessTokens of the broker: the grant each comes from
  entry,    \* refreshes of the broker: accounts whose refresh is joined
  flights,  \* refreshes under way; current: clear() was not called since
  raced,    \* history: accounts with a token asked for while a handler switched them off
  crossed   \* history: accounts that had two sign-ins under way

googleVars == <<sub, token, status, attempt, op, cached, entry, flights, raced, crossed>>
vars == <<lifecycleVars, googleVars>>

(* A grant is that of a sign-in.  "troubled" is any status that an error   *)
(* leaves: offline, quota-limited, reconnect-required, revocation-pending. *)
Grant    == [sub : Subs, by : Attempts]
Status   == {"disconnected", "connecting", "connected", "locked", "troubled"}
UnderWay == {"asking", "cancelled", "answered", "exchanging", "saving"}
Attempt  == [account : Accounts \cup {None}, step : UnderWay \cup {"unused", "over"},
             previous : Status, sub : Subs \cup {None}, grant : Grant \cup {None}]
Flight   == [account : Accounts, grant : Grant, current : BOOLEAN]

\* a sign-in that is not begun, or over
Idle(step) == [account |-> None, step |-> step, previous |-> "disconnected",
               sub |-> None, grant |-> None]

Init ==
  /\ LifecycleInit
  /\ sub = [a \in Accounts |-> None]
  /\ token = [a \in Accounts |-> None]
  /\ status = [a \in Accounts |-> "disconnected"]
  /\ attempt = [c \in Attempts |-> Idle("unused")]
  /\ op = [a \in Accounts |-> None]
  /\ cached = [a \in Accounts |-> None]
  /\ entry = {}
  /\ flights = {}
  /\ raced = {}
  /\ crossed = {}

-----------------------------------------------------------------------------
Ongoing(c) == attempt[c].step \in UnderWay
AtStep(c, step) == attempt[c].step = step
Over(c) == attempt' = [attempt EXCEPT ![c] = Idle("over")]

SetStatus(a, s) == status' = [status EXCEPT ![a] = s]
MaybeStatus(a, s) == IF a \in accounts THEN SetStatus(a, s) ELSE UNCHANGED status

\* a variant of AfterFailure that forgets the grant
SaysDisconnected(a, previous) == "disconnected"

\* connectGoogleAccount(): what a sign-in that failed leaves
AfterFailure(a, previous) == IF token[a] # None THEN previous ELSE "disconnected"

SwitchingOff(a) == \E kind \in {"lock", "signout", "revoke", "erase"} : IsPending(kind, a)

\* an access token of a, or one that is being got
HasAccess(a) == cached[a] # None \/ \E f \in flights : f.account = a /\ f.current

(* The bookkeeping of every action.                                        *)
Note ==
  /\ raced' = {a \in Accounts : (a \in raced \/ (a \in entry' \ entry /\ SwitchingOff(a))) /\ HasAccess(a)'}
  /\ crossed' = crossed \cup {a \in Accounts : \E c, d \in Attempts :
                                 c # d /\ attempt'[c].account = a /\ attempt'[d].account = a}

(* GoogleOAuthManager.cancel(); a receiver that has its answer goes on.    *)
CancelSignIn(a) ==
  /\ op' = [op EXCEPT ![a] = None]
  /\ attempt' = IF op[a] # None /\ AtStep(op[a], "asking")
                THEN [attempt EXCEPT ![op[a]].step = "cancelled"] ELSE attempt

\* a variant of Outdated: no new generation
NoneOutdated(a) == {}

\* GoogleTokenBroker.clear(): a new generation
Outdated(a) == {f \in flights : f.account = a}

(* cancelAccountOperations().                                              *)
Stop(a) ==
  /\ CancelSignIn(a)
  /\ cached' = [cached EXCEPT ![a] = None]
  /\ entry' = entry \ {a}
  /\ flights' = (flights \ Outdated(a)) \cup {[f EXCEPT !.current = FALSE] : f \in Outdated(a)}

TokensStay == UNCHANGED <<cached, entry, flights>>

-----------------------------------------------------------------------------
(* Signing in.                                                             *)

(* connectGoogleAccount() while a sign-in waits for its answer, or of a    *)
(* locked account, or before Google is configured.                         *)
ConnectRefused(a) ==
  /\ UNCHANGED <<lifecycleVars, sub, token, attempt, op>> /\ TokensStay
  /\ Member(a)
  /\ \/ (op[a] # None \/ a \in locked) /\ SetStatus(a, AfterFailure(a, status[a]))
     \/ op[a] = None /\ SetStatus(a, "troubled")
  /\ Note

Connect(c, a) ==
  /\ UNCHANGED <<lifecycleVars, sub, token>> /\ TokensStay
  /\ AtStep(c, "unused")
  /\ Member(a) /\ op[a] = None /\ a \notin locked
  /\ SetStatus(a, "connecting")
  /\ op' = [op EXCEPT ![a] = c]
  /\ attempt' = [attempt EXCEPT ![c] = [Idle("asking") EXCEPT !.account = a, !.previous = status[a]]]
  /\ Note

(* cancelGoogleConnection().                                               *)
CancelConnect(a) ==
  /\ UNCHANGED <<lifecycleVars, sub, token>> /\ TokensStay
  /\ Member(a) /\ op[a] # None
  /\ CancelSignIn(a)
  /\ SetStatus(a, "disconnected")
  /\ Note

(* The receiver has the code and is being closed.                          *)
Answered(c) ==
  /\ UNCHANGED <<lifecycleVars, sub, token, status, op>> /\ TokensStay
  /\ AtStep(c, "asking")
  /\ attempt' = [attempt EXCEPT ![c].step = "answered"]
  /\ Note

(* connect() goes on: whatever operation there is for the account is over. *)
Exchange(c) ==
  /\ UNCHANGED <<lifecycleVars, sub, token, status>> /\ TokensStay
  /\ AtStep(c, "answered")
  /\ attempt' = [attempt EXCEPT ![c].step = "exchanging"]
  /\ op' = [op EXCEPT ![attempt[c].account] = None]
  /\ Note

(* Variants of SameIdentity and Unclaimed, without the comparison.         *)
AnyIdentity(a, s) == TRUE
ClaimedToo(a, s) == TRUE

SameIdentity(a, s) == sub[a] \in {None, s}
Unclaimed(a, s) == \A b \in accounts \ {a} : sub[b] # s

(* The code is exchanged and the identity compared; Google may leave out   *)
(* the refresh token, then the old one stays.  The avatar is fetched next. *)
Exchanged(c, s) ==
  /\ UNCHANGED <<lifecycleVars, sub, token, status, op>> /\ TokensStay
  /\ AtStep(c, "exchanging")
  /\ LET a == attempt[c].account IN
     /\ a \in accounts /\ SameIdentity(a, s)
     /\ \E g \in {[sub |-> s, by |-> c], token[a]} \ {None} :
          attempt' = [attempt EXCEPT ![c].step = "saving",
                                     ![c].sub = s, ![c].grant = g]
  /\ Note

(* saveGoogleGrant(), which checks again who has the identity.             *)
Save(c) ==
  /\ UNCHANGED <<lifecycleVars, op>> /\ TokensStay
  /\ AtStep(c, "saving")
  /\ LET a == attempt[c].account IN
     /\ a \in accounts /\ Unclaimed(a, attempt[c].sub)
     /\ sub' = [sub EXCEPT ![a] = attempt[c].sub]
     /\ token' = [token EXCEPT ![a] = attempt[c].grant]
     /\ SetStatus(a, "connected")
  /\ Over(c)
  /\ Note

(* connect() throws: refused, cancelled, too late, not this identity.  It  *)
(* forgets whatever operation the account has by now.                      *)
ConnectFails(c) ==
  /\ UNCHANGED <<lifecycleVars, sub, token>> /\ TokensStay
  /\ Ongoing(c) /\ ~AtStep(c, "answered")
  /\ LET a == attempt[c].account IN
     /\ op' = [op EXCEPT ![a] = None]
     /\ \E s \in {AfterFailure(a, attempt[c].previous), "troubled"} : MaybeStatus(a, s)
  /\ Over(c)
  /\ Note

-----------------------------------------------------------------------------
(* Access tokens.                                                          *)

(* getAccessToken() finds none and no refresh to join.                     *)
Refresh(a) ==
  /\ UNCHANGED <<lifecycleVars, sub, token, status, attempt, op, cached>>
  /\ a \in accounts \ locked /\ token[a] # None
  /\ cached[a] = None /\ a \notin entry
  /\ entry' = entry \cup {a}
  /\ flights' = flights \cup {[account |-> a, grant |-> token[a], current |-> TRUE]}
  /\ Note

(* The refresh is answered; finally, whatever refresh is joined by now is  *)
(* not joined any more.                                                    *)
Refreshed(f) ==
  /\ UNCHANGED <<lifecycleVars, sub, token, attempt, op>>
  /\ flights' = flights \ {f}
  /\ entry' = entry \ {f.account}
  /\ \/ /\ f.current
        /\ cached' = [cached EXCEPT ![f.account] = f.grant]
        /\ MaybeStatus(f.account, "connected")
     \/ /\ f.current
        /\ MaybeStatus(f.account, "troubled")
        /\ UNCHANGED cached
     \/ UNCHANGED <<cached, status>>
  /\ Note

(* An access token expires, or an answer of 401 invalidates it.            *)
Expire(a) ==
  /\ UNCHANGED <<lifecycleVars, sub, token, status, attempt, op, entry, flights>>
  /\ cached[a] # None
  /\ cached' = [cached EXCEPT ![a] = None]
  /\ Note

-----------------------------------------------------------------------------
(* Account Spaces.                                                         *)

Lock(a) == LockBegins(a) /\ Stop(a) /\ UNCHANGED <<sub, token, status>> /\ Note

GrantsStay == UNCHANGED <<sub, token, attempt, op>> /\ TokensStay

Locked(a) == LockEnds(a) /\ MaybeStatus(a, "locked") /\ GrantsStay /\ Note

Open(a) ==
  /\ Unlock(a)
  /\ SetStatus(a, IF token[a] # None THEN "connected" ELSE "disconnected")
  /\ GrantsStay
  /\ Note

Clear(a) == ClearBegins(a) /\ Stop(a) /\ UNCHANGED <<sub, token, status>> /\ Note

Cleared(a) == ClearEnds(a) /\ UNCHANGED status /\ GrantsStay /\ Note

(* AccountStore.disconnectGoogle() of an account that is there.            *)
Disconnect(a) ==
  /\ token' = [token EXCEPT ![a] = None]
  /\ MaybeStatus(a, "disconnected")
  /\ UNCHANGED sub

SignOut(a) ==
  /\ UNCHANGED lifecycleVars
  /\ Member(a)
  /\ Stop(a) /\ Disconnect(a)
  /\ Note

(* disconnectGoogleAccount() with revocation.                              *)
SignOutBegins(a) ==
  /\ UNCHANGED <<accounts, removed, locked, active, front, sub, token, status>>
  /\ Member(a) /\ token[a] # None
  /\ Begins("signout", a)
  /\ Stop(a)
  /\ Note

Answer(a, revoked) ==
  \/ revoked /\ Disconnect(a)
  \/ ~revoked /\ MaybeStatus(a, "troubled") /\ UNCHANGED <<sub, token>>

SignOutEnds(a) ==
  /\ UNCHANGED <<accounts, removed, locked, active, front, attempt, op>> /\ TokensStay
  /\ Ends("signout", a)
  /\ \E revoked \in BOOLEAN : Answer(a, revoked)
  /\ Note

Delete(a) ==
  /\ DeleteBegins(a, IF token[a] # None THEN "revoke" ELSE "erase")
  /\ Stop(a)
  /\ UNCHANGED <<sub, token, status>>
  /\ Note

Revoked(a) ==
  /\ \E revoked \in BOOLEAN : RevokeEnds(a, revoked) /\ Answer(a, revoked)
  /\ UNCHANGED <<attempt, op>> /\ TokensStay
  /\ Note

(* The record goes with the account.                                       *)
Deleted(a) ==
  /\ DeleteEnds(a)
  /\ sub' = [sub EXCEPT ![a] = None]
  /\ token' = [token EXCEPT ![a] = None]
  /\ SetStatus(a, "disconnected")
  /\ UNCHANGED <<attempt, op>> /\ TokensStay
  /\ Note

NotDeleted(a) == DeleteFails(a) /\ UNCHANGED status /\ GrantsStay /\ Note

Elsewhere ==
  /\ \/ \E a \in Accounts : SwitchTo(a) \/ Add(a)
     \/ \E w \in Workspaces : SwitchWorkspace(w)
  /\ UNCHANGED googleVars

-----------------------------------------------------------------------------
SignInSteps ==
  \/ \E a \in Accounts : ConnectRefused(a) \/ CancelConnect(a)
  \/ \E c \in Attempts, a \in Accounts : Connect(c, a)
  \/ \E c \in Attempts, s \in Subs : Exchanged(c, s)
  \/ \E c \in Attempts : Answered(c) \/ Exchange(c) \/ Save(c) \/ ConnectFails(c)

TokenSteps ==
  \/ \E a \in Accounts : Refresh(a) \/ Expire(a)
  \/ \E f \in flights : Refreshed(f)

AccountSteps ==
  \/ \E a \in Accounts : Lock(a) \/ Locked(a) \/ Open(a) \/ Clear(a) \/ Cleared(a)
  \/ \E a \in Accounts : SignOut(a) \/ SignOutBegins(a) \/ SignOutEnds(a)
  \/ \E a \in Accounts : Delete(a) \/ Revoked(a) \/ Deleted(a) \/ NotDeleted(a)
  \/ Elsewhere

Next == SignInSteps \/ TokenSteps \/ AccountSteps

Spec == Init /\ [][Next]_vars

-----------------------------------------------------------------------------
TypeOK ==
  /\ LifecycleTypeOK
  /\ sub \in [Accounts -> Subs \cup {None}]
  /\ token \in [Accounts -> Grant \cup {None}]
  /\ status \in [Accounts -> Status]
  /\ attempt \in [Attempts -> Attempt]
  /\ op \in [Accounts -> Attempts \cup {None}]
  /\ cached \in [Accounts -> Grant \cup {None}]
  /\ entry \subseteq Accounts
  /\ flights \subseteq Flight
  /\ raced \subseteq Accounts
  /\ crossed \subseteq Accounts

(* A Google account is connected to one Account Space at most, even when   *)
(* sign-ins of several overlap (docs/systems/google-account-spaces.md,     *)
(* line 132; the check of saveGoogleGrant()).                              *)
OneSubject == \A a, b \in accounts : sub[a] # None /\ sub[a] = sub[b] => a = b

(* An Account Space holds the grant of the identity it shows: an old       *)
(* refresh token never meets a new identity (the comment at                *)
(* google-oauth.ts:104).                                                   *)
GrantOfIdentity == \A a \in Accounts : token[a] # None => token[a].sub = sub[a]

(* A reconnect keeps the identity                                          *)
(* (docs/systems/google-account-spaces.md, line 134), unless two sign-ins  *)
(* of the account have overlapped.                                         *)
IdentityKept ==
  [][\A a \in accounts' \ crossed : sub[a] # None => sub'[a] = sub[a]]_vars

(* An account that is locked, signed out or gone has no access token in    *)
(* memory (docs/systems/google-account-spaces.md, lines 101 to 107),       *)
(* unless one was asked for while it was being switched off.               *)
QuietWhenOff ==
  \A a \in Accounts : cached[a] # None /\ a \notin raced => a \in accounts \ locked /\ token[a] # None

(* No account says "disconnected" while it holds a grant that works (the   *)
(* comment at main.ts:813), once no sign-in of it is under way and unless  *)
(* two sign-ins of it have overlapped.                                     *)
StatusTruthful ==
  \A a \in accounts \ crossed :
    /\ \A c \in Attempts : attempt[c].account # a
    /\ status[a] = "disconnected"
    => token[a] = None
=============================================================================
