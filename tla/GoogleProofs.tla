---------------------------- MODULE GoogleProofs ----------------------------
(***************************************************************************)
(* Google access of any number of Account Spaces, with any number of       *)
(* sign-ins and Google accounts; the strip of any number of tabs with the  *)
(* icons that are fetched with the accounts' cookies; and the bookmarks of *)
(* any number of folders, moved, exported and imported.                    *)
(***************************************************************************)
EXTENDS GoogleAccess, LifecycleProofs, TabStrip, Library, FiniteSetTheorems,
        SequenceTheorems, WellFoundedInduction

(* What the handlers do to the accounts is a step of a handler, or nothing. *)
LEMMA StepOfHandler ==
  ASSUME Next
  PROVE  \/ \E a \in Accounts : HandlerStep(a)
         \/ \E w \in Workspaces : SwitchWorkspace(w)
         \/ UNCHANGED lifecycleVars
<1>1. CASE SignInSteps
  BY <1>1 DEF SignInSteps, ConnectRefused, CancelConnect, Connect, Answered, Exchange, Exchanged, Save, ConnectFails
<1>2. CASE TokenSteps
  BY <1>2 DEF TokenSteps, Refresh, Expire, Refreshed
<1>3. CASE AccountSteps
  <2>1. CASE \E a \in Accounts : Lock(a) \/ Locked(a) \/ Open(a)
    BY <2>1 DEF Lock, Locked, Open, HandlerStep
  <2>2. CASE \E a \in Accounts : Clear(a) \/ Cleared(a) \/ NotDeleted(a)
    BY <2>2 DEF Clear, Cleared, NotDeleted, ClearBegins, ClearEnds, DeleteFails, HandlerStep, CallsOf, Waits
  <2>3. CASE \E a \in Accounts : SignOut(a) \/ SignOutBegins(a) \/ SignOutEnds(a)
    BY <2>3 DEF SignOut, SignOutBegins, SignOutEnds, HandlerStep, CallsOf, Waits
  <2>4. CASE \E a \in Accounts : Delete(a)
    BY <2>4 DEF Delete, DeleteBegins, HandlerStep, CallsOf, Waits
  <2>5. CASE \E a \in Accounts : Revoked(a) \/ Deleted(a)
    BY <2>5 DEF Revoked, Deleted, HandlerStep
  <2>6. CASE Elsewhere
    BY <2>6 DEF Elsewhere, HandlerStep
  <2> QED BY <1>3, <2>1, <2>2, <2>3, <2>4, <2>5, <2>6 DEF AccountSteps
<1> QED BY <1>1, <1>2, <1>3 DEF Next

-----------------------------------------------------------------------------
(* Types.                                                                  *)

LEMMA AttemptSteps ==
  ASSUME NEW r \in Attempt, NEW s \in UnderWay
  PROVE  [r EXCEPT !.step = s] \in Attempt
  BY DEF Attempt

LEMMA AttemptResults ==
  ASSUME NEW r \in Attempt, NEW s \in Subs, NEW g \in Grant
  PROVE  [r EXCEPT !.step = "saving", !.sub = s, !.grant = g] \in Attempt
  BY DEF Attempt, UnderWay

LEMMA SignInTyped ==
  ASSUME TypeOK, NEW c \in Attempts,
         Answered(c) \/ Exchange(c) \/ Save(c) \/ ConnectFails(c)
  PROVE  attempt' \in [Attempts -> Attempt]
<1>1. CASE Answered(c)
  BY <1>1, AttemptSteps DEF Answered, TypeOK, UnderWay
<1>2. CASE Exchange(c)
  BY <1>2, AttemptSteps DEF Exchange, TypeOK, UnderWay
<1>3. CASE Save(c) \/ ConnectFails(c)
  BY <1>3 DEF Save, ConnectFails, Over, Idle, TypeOK, Attempt, Status
<1> QED BY <1>1, <1>2, <1>3

LEMMA ExchangedTyped ==
  ASSUME TypeOK, NEW c \in Attempts, NEW s \in Subs, Exchanged(c, s)
  PROVE  attempt' \in [Attempts -> Attempt]
<1>1. PICK g \in {[sub |-> s, by |-> c], token[attempt[c].account]} \ {None} :
        attempt' = [attempt EXCEPT ![c].step = "saving", ![c].sub = s, ![c].grant = g]
  BY DEF Exchanged
<1>2. g \in Grant
  BY DEF TypeOK, Attempt, Grant, Exchanged, LifecycleTypeOK
<1> QED BY <1>1, <1>2, AttemptResults DEF TypeOK

(* A handler that stops the operations of an account.                      *)
LEMMA StopTyped ==
  ASSUME TypeOK, NEW a \in Accounts, Stop(a)
  PROVE  /\ attempt' \in [Attempts -> Attempt] /\ op' \in [Accounts -> Attempts \cup {None}]
         /\ cached' \in [Accounts -> Grant \cup {None}] /\ entry' \subseteq Accounts
         /\ flights' \subseteq Flight
<1>1. attempt' \in [Attempts -> Attempt]
  <2>1. CASE op[a] # None /\ AtStep(op[a], "asking")
    <3>1. op[a] \in Attempts
      BY <2>1 DEF TypeOK
    <3>2. [attempt[op[a]] EXCEPT !.step = "cancelled"] \in Attempt
      BY <3>1, AttemptSteps DEF TypeOK, UnderWay
    <3> QED BY <2>1, <3>1, <3>2 DEF Stop, CancelSignIn, TypeOK
  <2> QED BY <2>1 DEF Stop, CancelSignIn, TypeOK
<1>2. op' \in [Accounts -> Attempts \cup {None}]
  BY DEF Stop, CancelSignIn, TypeOK
<1>3. \A f \in Flight : [f EXCEPT !.current = FALSE] \in Flight
  BY DEF Flight
<1>4. flights' \subseteq Flight
  BY <1>3 DEF Stop, Outdated, TypeOK
<1> QED BY <1>1, <1>2, <1>4 DEF Stop, TypeOK

LEMMA RefreshTyped ==
  ASSUME TypeOK, NEW a \in Accounts, Refresh(a)
  PROVE  flights' \subseteq Flight /\ entry' \subseteq Accounts
<1>1. token[a] \in Grant
  BY DEF Refresh, TypeOK
<1>2. [account |-> a, grant |-> token[a], current |-> TRUE] \in Flight
  BY <1>1 DEF Flight
<1> QED BY <1>2 DEF Refresh, TypeOK

(* What an account says of its connection.                                 *)
LEMMA StatusTyped ==
  ASSUME TypeOK, NEW a \in Accounts, NEW s \in Status, SetStatus(a, s) \/ MaybeStatus(a, s)
  PROVE  status' \in [Accounts -> Status]
  BY DEF TypeOK, SetStatus, MaybeStatus

LEMMA FailureTyped ==
  ASSUME NEW a \in Accounts, NEW previous \in Status PROVE AfterFailure(a, previous) \in Status
  BY DEF AfterFailure, Status

(* Every step keeps every type.                                            *)
LEMMA SignInStepsTyped ==
  ASSUME TypeOK, LifecycleTypeOK', SignInSteps PROVE TypeOK'
<1>0. raced' \subseteq Accounts /\ crossed' \subseteq Accounts
  BY DEF SignInSteps, ConnectRefused, CancelConnect, Connect, Exchanged, Answered, Exchange, Save, ConnectFails, Note, TypeOK
<1>1. CASE \E a \in Accounts : ConnectRefused(a)
  <2>1. PICK a \in Accounts : ConnectRefused(a) BY <1>1
  <2>2. status' \in [Accounts -> Status]
    BY <2>1, StatusTyped, FailureTyped DEF ConnectRefused, TypeOK, Status
  <2> QED BY <1>0, <2>1, <2>2 DEF ConnectRefused, TokensStay, TypeOK
<1>2. CASE \E a \in Accounts : CancelConnect(a)
  <2>1. PICK a \in Accounts : CancelConnect(a) BY <1>2
  <2>2. status' \in [Accounts -> Status]
    BY <2>1, StatusTyped DEF CancelConnect, Status
  <2>3. attempt' \in [Attempts -> Attempt]
    <3>1. op[a] \in Attempts
      BY <2>1 DEF CancelConnect, TypeOK
    <3>2. [attempt[op[a]] EXCEPT !.step = "cancelled"] \in Attempt
      BY <3>1, AttemptSteps DEF TypeOK, UnderWay
    <3> QED BY <2>1, <3>1, <3>2 DEF CancelConnect, CancelSignIn, TypeOK
  <2> QED BY <1>0, <2>1, <2>2, <2>3 DEF CancelConnect, CancelSignIn, TokensStay, TypeOK
<1>3. CASE \E c \in Attempts, a \in Accounts : Connect(c, a)
  <2>1. PICK c \in Attempts, a \in Accounts : Connect(c, a) BY <1>3
  <2>2. attempt' \in [Attempts -> Attempt]
    BY <2>1 DEF Connect, TypeOK, Idle, Attempt, UnderWay
  <2>3. status' \in [Accounts -> Status]
    BY <2>1, StatusTyped DEF Connect, Status
  <2> QED BY <1>0, <2>1, <2>2, <2>3 DEF Connect, TokensStay, TypeOK
<1>4. CASE \E c \in Attempts, s \in Subs : Exchanged(c, s)
  <2>1. PICK c \in Attempts, s \in Subs : Exchanged(c, s) BY <1>4
  <2>2. attempt' \in [Attempts -> Attempt] BY <2>1, ExchangedTyped
  <2> QED BY <1>0, <2>1, <2>2 DEF Exchanged, TokensStay, TypeOK
<1>5. CASE \E c \in Attempts : Answered(c) \/ Exchange(c)
  <2>1. PICK c \in Attempts : Answered(c) \/ Exchange(c) BY <1>5
  <2>2. attempt' \in [Attempts -> Attempt] BY <2>1, SignInTyped
  <2> QED BY <1>0, <2>1, <2>2 DEF Answered, Exchange, TokensStay, TypeOK
<1>6. CASE \E c \in Attempts : Save(c)
  <2>1. PICK c \in Attempts : Save(c) BY <1>6
  <2>2. attempt' \in [Attempts -> Attempt] BY <2>1, SignInTyped
  <2>3. attempt[c].account \in Accounts
    BY <2>1 DEF Save, TypeOK, LifecycleTypeOK
  <2>4. status' \in [Accounts -> Status]
    BY <2>1, <2>3, StatusTyped DEF Save, Status
  <2>5. attempt[c].sub \in Subs \cup {None} /\ attempt[c].grant \in Grant \cup {None}
    BY DEF TypeOK, Attempt
  <2> QED BY <1>0, <2>1, <2>2, <2>4, <2>5 DEF Save, TokensStay, TypeOK
<1>7. CASE \E c \in Attempts : ConnectFails(c)
  <2>1. PICK c \in Attempts : ConnectFails(c) BY <1>7
  <2>2. attempt' \in [Attempts -> Attempt] BY <2>1, SignInTyped
  <2>3. PICK s \in {AfterFailure(attempt[c].account, attempt[c].previous), "troubled"} :
          MaybeStatus(attempt[c].account, s)
    BY <2>1 DEF ConnectFails
  <2>4. s \in Status
    BY <2>3 DEF AfterFailure, Status, TypeOK, Attempt
  <2>5. status' \in [Accounts -> Status]
    BY <2>3, <2>4 DEF MaybeStatus, SetStatus, TypeOK
  <2> QED BY <1>0, <2>1, <2>2, <2>5 DEF ConnectFails, TokensStay, TypeOK
<1> QED BY <1>1, <1>2, <1>3, <1>4, <1>5, <1>6, <1>7 DEF SignInSteps

LEMMA TokenStepsTyped ==
  ASSUME TypeOK, LifecycleTypeOK', TokenSteps PROVE TypeOK'
<1>0. raced' \subseteq Accounts /\ crossed' \subseteq Accounts
  BY DEF TokenSteps, Refresh, Expire, Refreshed, Note, TypeOK
<1>1. CASE \E a \in Accounts : Refresh(a)
  BY <1>0, <1>1, RefreshTyped DEF Refresh, TypeOK
<1>2. CASE \E a \in Accounts : Expire(a)
  BY <1>0, <1>2 DEF Expire, TypeOK
<1>3. CASE \E f \in flights : Refreshed(f)
  <2>1. PICK f \in flights : Refreshed(f) BY <1>3
  <2>2. f.account \in Accounts /\ f.grant \in Grant
    BY DEF TypeOK, Flight
  <2>3. status' \in [Accounts -> Status]
    BY <2>1, <2>2, StatusTyped DEF Refreshed, Status, TypeOK
  <2> QED BY <1>0, <2>1, <2>2, <2>3 DEF Refreshed, TypeOK
<1> QED BY <1>1, <1>2, <1>3 DEF TokenSteps

LEMMA AccountStepsTyped ==
  ASSUME TypeOK, LifecycleTypeOK', AccountSteps PROVE TypeOK'
<1>1. CASE \E a \in Accounts : Lock(a) \/ Clear(a) \/ SignOutBegins(a) \/ Delete(a)
  <2>1. PICK a \in Accounts : Lock(a) \/ Clear(a) \/ SignOutBegins(a) \/ Delete(a) BY <1>1
  <2>2. Stop(a) /\ UNCHANGED <<sub, token, status>> /\ Note
    BY <2>1 DEF Lock, Clear, SignOutBegins, Delete
  <2> QED BY <2>2, StopTyped DEF Note, TypeOK
<1>2. CASE \E a \in Accounts : SignOut(a)
  <2>1. PICK a \in Accounts : SignOut(a) BY <1>2
  <2>2. status' \in [Accounts -> Status]
    BY <2>1, StatusTyped DEF SignOut, Disconnect, Status
  <2> QED BY <2>1, <2>2, StopTyped DEF SignOut, Disconnect, Note, TypeOK
<1>3. CASE \E a \in Accounts : Locked(a) \/ Open(a)
  <2>1. PICK a \in Accounts : Locked(a) \/ Open(a) BY <1>3
  <2>2. status' \in [Accounts -> Status]
    BY <2>1, StatusTyped DEF Locked, Open, Status
  <2> QED BY <2>1, <2>2 DEF Locked, Open, GrantsStay, TokensStay, Note, TypeOK
<1>4. CASE \E a \in Accounts : Cleared(a) \/ NotDeleted(a)
  BY <1>4 DEF Cleared, NotDeleted, GrantsStay, TokensStay, Note, TypeOK
<1>5. CASE \E a \in Accounts : SignOutEnds(a) \/ Revoked(a)
  <2>1. PICK a \in Accounts : SignOutEnds(a) \/ Revoked(a) BY <1>5
  <2>2. PICK revoked \in BOOLEAN : Answer(a, revoked)
    BY <2>1 DEF SignOutEnds, Revoked
  <2>3. status' \in [Accounts -> Status]
    BY <2>2, StatusTyped DEF Answer, Disconnect, Status
  <2>4. sub' \in [Accounts -> Subs \cup {None}] /\ token' \in [Accounts -> Grant \cup {None}]
    BY <2>2 DEF Answer, Disconnect, TypeOK
  <2> QED BY <2>1, <2>3, <2>4 DEF SignOutEnds, Revoked, TokensStay, Note, TypeOK
<1>6. CASE \E a \in Accounts : Deleted(a)
  <2>1. PICK a \in Accounts : Deleted(a) BY <1>6
  <2>2. status' \in [Accounts -> Status]
    BY <2>1, StatusTyped DEF Deleted, Status
  <2> QED BY <2>1, <2>2 DEF Deleted, TokensStay, Note, TypeOK
<1>7. CASE Elsewhere
  BY <1>7 DEF Elsewhere, googleVars, TypeOK
<1> QED BY <1>1, <1>2, <1>3, <1>4, <1>5, <1>6, <1>7 DEF AccountSteps

-----------------------------------------------------------------------------
(* Identities and grants.                                                  *)

(* What is being saved is a grant of the identity that was compared.       *)
SavingMatches ==
  \A c \in Attempts : AtStep(c, "saving") =>
    attempt[c].sub \in Subs /\ attempt[c].grant \in Grant \ {None} /\ attempt[c].grant.sub = attempt[c].sub

(* An account that is not there has no identity.                           *)
GoneForgotten == \A a \in Accounts \ accounts : sub[a] = None

GrantInv == GrantOfIdentity /\ SavingMatches /\ GoneForgotten /\ OneSubject

(* Who writes the record of an account, and who makes and removes accounts. *)
LEMMA Records ==
  ASSUME Next
  PROVE  \/ UNCHANGED <<sub, token>>
         \/ \E c \in Attempts : Save(c)
         \/ \E a \in Accounts : Disconnect(a)
         \/ \E a \in Accounts : Deleted(a)
<1>1. CASE SignInSteps
  BY <1>1 DEF SignInSteps, ConnectRefused, CancelConnect, Connect, Answered, Exchange, Exchanged, ConnectFails
<1>2. CASE TokenSteps
  BY <1>2 DEF TokenSteps, Refresh, Expire, Refreshed
<1>3. CASE AccountSteps
  <2>1. CASE \E a \in Accounts : Lock(a) \/ Locked(a) \/ Open(a) \/ Clear(a) \/ Cleared(a)
    BY <2>1 DEF Lock, Locked, Open, Clear, Cleared, GrantsStay
  <2>2. CASE \E a \in Accounts : SignOut(a) \/ SignOutBegins(a) \/ SignOutEnds(a)
    BY <2>2 DEF SignOut, SignOutBegins, SignOutEnds, Answer
  <2>3. CASE \E a \in Accounts : Delete(a) \/ Revoked(a) \/ Deleted(a) \/ NotDeleted(a)
    BY <2>3 DEF Delete, Revoked, NotDeleted, Answer, GrantsStay
  <2>4. CASE Elsewhere
    BY <2>4 DEF Elsewhere, googleVars
  <2> QED BY <1>3, <2>1, <2>2, <2>3, <2>4 DEF AccountSteps
<1> QED BY <1>1, <1>2, <1>3 DEF Next

LEMMA Comers ==
  ASSUME Next
  PROVE  \/ UNCHANGED accounts
         \/ UNCHANGED googleVars /\ \E a \in Accounts : Add(a)
         \/ \E a \in Accounts : Deleted(a)
<1>1. CASE SignInSteps
  BY <1>1 DEF SignInSteps, ConnectRefused, CancelConnect, Connect, Answered, Exchange, Exchanged, Save, ConnectFails, lifecycleVars
<1>2. CASE TokenSteps
  BY <1>2 DEF TokenSteps, Refresh, Expire, Refreshed, lifecycleVars
<1>3. CASE AccountSteps
  <2>1. CASE \E a \in Accounts : Lock(a) \/ Locked(a) \/ Open(a) \/ Clear(a) \/ Cleared(a)
    BY <2>1 DEF Lock, Locked, Open, Clear, Cleared, LockBegins, LockEnds, Unlock, ClearBegins, ClearEnds
  <2>2. CASE \E a \in Accounts : SignOut(a) \/ SignOutBegins(a) \/ SignOutEnds(a)
    BY <2>2 DEF SignOut, SignOutBegins, SignOutEnds, lifecycleVars
  <2>3. CASE \E a \in Accounts : Delete(a) \/ Revoked(a) \/ Deleted(a) \/ NotDeleted(a)
    BY <2>3 DEF Delete, Revoked, NotDeleted, DeleteBegins, RevokeEnds, DeleteFails
  <2>4. CASE Elsewhere
    BY <2>4 DEF Elsewhere, SwitchTo, SwitchWorkspace
  <2> QED BY <1>3, <2>1, <2>2, <2>3, <2>4 DEF AccountSteps
<1> QED BY <1>1, <1>2, <1>3 DEF Next

(* A sign-in changes by its own steps, or is cancelled.                    *)
LEMMA SignInMoves ==
  ASSUME TypeOK, Next
  PROVE  \/ UNCHANGED attempt
         \/ \E c \in Attempts, a \in Accounts : Connect(c, a)
         \/ \E c \in Attempts : Answered(c) \/ Exchange(c) \/ Over(c)
         \/ \E c \in Attempts, s \in Subs : Exchanged(c, s)
         \/ \E c \in Attempts : AtStep(c, "asking") /\ attempt' = [attempt EXCEPT ![c].step = "cancelled"]
<1>1. CASE SignInSteps
  BY <1>1 DEF SignInSteps, ConnectRefused, CancelConnect, CancelSignIn, Save, ConnectFails, TypeOK
<1>2. CASE TokenSteps
  BY <1>2 DEF TokenSteps, Refresh, Expire, Refreshed
<1>3. CASE AccountSteps
  <2>1. CASE \E a \in Accounts : Stop(a)
    BY <2>1 DEF Stop, CancelSignIn, TypeOK
  <2>2. CASE \E a \in Accounts : Lock(a) \/ Locked(a) \/ Open(a) \/ Clear(a) \/ Cleared(a)
    BY <2>1, <2>2 DEF Lock, Locked, Open, Clear, Cleared, GrantsStay
  <2>3. CASE \E a \in Accounts : SignOut(a) \/ SignOutBegins(a) \/ SignOutEnds(a)
    BY <2>1, <2>3 DEF SignOut, SignOutBegins, SignOutEnds
  <2>4. CASE \E a \in Accounts : Delete(a) \/ Revoked(a) \/ Deleted(a) \/ NotDeleted(a)
    BY <2>1, <2>4 DEF Delete, Revoked, Deleted, NotDeleted, GrantsStay
  <2>5. CASE Elsewhere
    BY <2>5 DEF Elsewhere, googleVars
  <2> QED BY <1>3, <2>1, <2>2, <2>3, <2>4, <2>5 DEF AccountSteps
<1> QED BY <1>1, <1>2, <1>3 DEF Next

(* What is saved next was compared in this step or before it.              *)
LEMMA SavingComesFrom ==
  ASSUME TypeOK, Next, NEW c \in Attempts, AtStep(c, "saving")'
  PROVE  attempt'[c] = attempt[c] \/ \E s \in Subs : Exchanged(c, s)
<1>1. CASE \E d \in Attempts, a \in Accounts : Connect(d, a)
  BY <1>1 DEF Connect, Idle, AtStep, TypeOK
<1>2. CASE \E d \in Attempts : Answered(d) \/ Exchange(d) \/ Over(d)
  BY <1>2 DEF Answered, Exchange, Over, Idle, AtStep, TypeOK, Attempt
<1>3. CASE \E d \in Attempts, s \in Subs : Exchanged(d, s)
  BY <1>3 DEF Exchanged, AtStep, TypeOK
<1>4. CASE \E d \in Attempts : AtStep(d, "asking") /\ attempt' = [attempt EXCEPT ![d].step = "cancelled"]
  BY <1>4 DEF AtStep, TypeOK, Attempt
<1> QED BY <1>1, <1>2, <1>3, <1>4, SignInMoves

LEMMA SavingKept ==
  ASSUME TypeOK, SavingMatches, GrantOfIdentity, GoneForgotten, Next PROVE SavingMatches'
<1>1. SUFFICES ASSUME NEW c \in Attempts, AtStep(c, "saving")'
               PROVE  attempt'[c].sub \in Subs /\ attempt'[c].grant \in Grant \ {None}
                      /\ attempt'[c].grant.sub = attempt'[c].sub
  BY DEF SavingMatches
<1>2. CASE attempt'[c] = attempt[c]
  BY <1>1, <1>2 DEF SavingMatches, AtStep
<1>3. CASE \E s \in Subs : Exchanged(c, s)
  <2>1. PICK s \in Subs : Exchanged(c, s) BY <1>3
  <2>2. PICK g \in {[sub |-> s, by |-> c], token[attempt[c].account]} \ {None} :
          attempt' = [attempt EXCEPT ![c].step = "saving", ![c].sub = s, ![c].grant = g]
    BY <2>1 DEF Exchanged
  <2>3. attempt[c].account \in Accounts /\ SameIdentity(attempt[c].account, s)
    BY <2>1 DEF Exchanged, TypeOK, LifecycleTypeOK
  <2>4. g \in Grant \ {None}
    BY <2>2, <2>3 DEF TypeOK, Grant
  <2>5. g.sub = s
    BY <2>2, <2>3, <2>4, GoogleAssumption DEF GrantOfIdentity, SameIdentity, TypeOK, Grant
  <2> QED BY <2>2, <2>4, <2>5 DEF TypeOK, Attempt
<1> QED BY <1>1, <1>2, <1>3, SavingComesFrom

LEMMA IdentitiesKept ==
  ASSUME TypeOK, GrantInv, Next PROVE GrantOfIdentity' /\ GoneForgotten' /\ OneSubject'
<1>1. CASE \E c \in Attempts : Save(c)
  <2>1. PICK c \in Attempts : Save(c) BY <1>1
  <2> DEFINE a == attempt[c].account
  <2>2. a \in accounts /\ a \in Accounts /\ UNCHANGED accounts
    BY <2>1 DEF Save, lifecycleVars, TypeOK, LifecycleTypeOK
  <2>3. /\ sub' = [sub EXCEPT ![a] = attempt[c].sub] /\ token' = [token EXCEPT ![a] = attempt[c].grant]
        /\ Unclaimed(a, attempt[c].sub)
    BY <2>1 DEF Save
  <2>4. attempt[c].grant.sub = attempt[c].sub
    BY <2>1 DEF Save, GrantInv, SavingMatches
  <2>5. GrantOfIdentity'
    BY <2>2, <2>3, <2>4 DEF GrantInv, GrantOfIdentity, TypeOK
  <2>6. GoneForgotten'
    BY <2>2, <2>3 DEF GrantInv, GoneForgotten, TypeOK
  <2>7. OneSubject'
    BY <2>2, <2>3 DEF GrantInv, OneSubject, Unclaimed, TypeOK, LifecycleTypeOK
  <2> QED BY <2>5, <2>6, <2>7
<1>2. CASE \E a \in Accounts : Deleted(a)
  <2>1. PICK a \in Accounts : Deleted(a) BY <1>2
  <2>2. accounts' = accounts \ {a} /\ sub' = [sub EXCEPT ![a] = None] /\ token' = [token EXCEPT ![a] = None]
    BY <2>1 DEF Deleted, DeleteEnds
  <2> QED BY <2>2 DEF GrantInv, GrantOfIdentity, GoneForgotten, OneSubject, TypeOK, LifecycleTypeOK
<1>3. CASE UNCHANGED <<sub, token>> \/ \E a \in Accounts : Disconnect(a)
  <2>1. sub' = sub /\ \A b \in Accounts : token'[b] \in {None, token[b]}
    BY <1>3 DEF Disconnect, TypeOK
  <2>2. GrantOfIdentity'
    BY <2>1 DEF GrantInv, GrantOfIdentity
  <2>3. CASE UNCHANGED accounts
    BY <2>1, <2>2, <2>3 DEF GrantInv, GoneForgotten, OneSubject
  <2>4. CASE \E a \in Accounts : Add(a)
    <3>1. PICK a \in Accounts : Add(a) BY <2>4
    <3>2. a \notin accounts /\ accounts' = accounts \cup {a}
      BY <3>1 DEF Add
    <3> QED BY <2>1, <2>2, <3>2 DEF GrantInv, GoneForgotten, OneSubject, TypeOK, LifecycleTypeOK
  <2> QED BY <1>2, <2>3, <2>4, Comers
<1> QED BY <1>1, <1>2, <1>3, Records

(* Every step but those that touch nothing of Google does the bookkeeping.  *)
LEMMA Noted ==
  ASSUME Next PROVE UNCHANGED googleVars \/ Note
<1>1. CASE SignInSteps
  BY <1>1 DEF SignInSteps, ConnectRefused, CancelConnect, Connect, Answered, Exchange, Exchanged, Save, ConnectFails
<1>2. CASE TokenSteps
  BY <1>2 DEF TokenSteps, Refresh, Expire, Refreshed
<1>3. CASE AccountSteps
  BY <1>3 DEF AccountSteps, Lock, Locked, Open, Clear, Cleared, SignOut, SignOutBegins, SignOutEnds,
              Delete, Revoked, Deleted, NotDeleted, Elsewhere
<1> QED BY <1>1, <1>2, <1>3 DEF Next

(* Two sign-ins of one account are noted as overlapping.                   *)
OverlapsNoted ==
  \A c, d \in Attempts : c # d /\ attempt[c].account = attempt[d].account
    => attempt[c].account \in crossed \cup {None}

(* What was compared still holds of the account, unless sign-ins overlap.  *)
StillSame ==
  \A c \in Attempts : AtStep(c, "saving") /\ attempt[c].account \in Accounts \ crossed
    => SameIdentity(attempt[c].account, attempt[c].sub)

OverlapInv == OverlapsNoted /\ StillSame

LEMMA OverlapsKept ==
  ASSUME TypeOK, TypeOK', OverlapsNoted, Next PROVE OverlapsNoted' /\ crossed \subseteq crossed'
<1>1. CASE UNCHANGED googleVars
  BY <1>1 DEF googleVars, OverlapsNoted
<1>2. CASE Note
  <2>1. \A c \in Attempts : attempt'[c].account \in Accounts \cup {None}
    BY DEF TypeOK, Attempt
  <2> QED BY <1>2, <2>1 DEF Note, OverlapsNoted
<1> QED BY <1>1, <1>2, Noted

LEMMA StillSameKept ==
  ASSUME TypeOK, TypeOK', OverlapInv, Next PROVE StillSame'
<1>1. SUFFICES ASSUME NEW c \in Attempts, AtStep(c, "saving")', attempt'[c].account \in Accounts \ crossed'
               PROVE  sub'[attempt'[c].account] \in {None, attempt'[c].sub}
  BY DEF StillSame, SameIdentity
<1> DEFINE a == attempt'[c].account
<1>2. a \in Accounts \ crossed /\ OverlapsNoted'
  BY <1>1, OverlapsKept DEF OverlapInv
<1>3. sub[a] \in {None, attempt'[c].sub} /\ attempt[c].account = a /\ attempt[c].step \in {"saving", "exchanging"}
  <2>1. CASE attempt'[c] = attempt[c]
    BY <1>1, <1>2, <2>1 DEF OverlapInv, StillSame, SameIdentity, AtStep
  <2>2. CASE \E s \in Subs : Exchanged(c, s)
    <3>1. PICK s \in Subs : Exchanged(c, s) BY <2>2
    <3>2. attempt[c].step = "exchanging" /\ sub[attempt[c].account] \in {None, s}
      BY <3>1 DEF Exchanged, SameIdentity, AtStep
    <3>3. attempt'[c].account = attempt[c].account /\ attempt'[c].sub = s
      BY <3>1 DEF Exchanged, TypeOK, Attempt
    <3> QED BY <3>2, <3>3
  <2> QED BY <1>1, <2>1, <2>2, SavingComesFrom
<1>4. CASE \E d \in Attempts : Save(d)
  <2>1. PICK d \in Attempts : Save(d) BY <1>4
  <2>2. d # c
    BY <1>1, <2>1 DEF Save, Over, Idle, AtStep, TypeOK
  <2>3. attempt[d].account # a
    BY <1>2, <1>3, <2>2, GoogleAssumption, LifecycleAssumption DEF OverlapInv, OverlapsNoted
  <2> QED BY <1>2, <1>3, <2>1, <2>3 DEF Save, TypeOK
<1>5. CASE \E b \in Accounts : Deleted(b)
  BY <1>2, <1>3, <1>5 DEF Deleted, TypeOK
<1>6. CASE UNCHANGED sub
  BY <1>3, <1>6
<1> QED BY <1>4, <1>5, <1>6, Records DEF Disconnect

LEMMA SubOfStep ==
  ASSUME TypeOK, OverlapInv, Next, NEW a \in accounts', a \notin crossed, sub[a] # None
  PROVE  sub'[a] = sub[a]
<1>1. CASE \E c \in Attempts : Save(c)
  <2>1. PICK c \in Attempts : Save(c) BY <1>1
  <2>2. /\ attempt[c].account \in Accounts /\ AtStep(c, "saving")
        /\ sub' = [sub EXCEPT ![attempt[c].account] = attempt[c].sub]
    BY <2>1 DEF Save, TypeOK, LifecycleTypeOK
  <2>3. CASE attempt[c].account = a
    BY <2>2, <2>3 DEF OverlapInv, StillSame, SameIdentity, TypeOK
  <2>4. CASE attempt[c].account # a
    BY <2>2, <2>4 DEF TypeOK
  <2> QED BY <2>3, <2>4
<1>2. CASE \E b \in Accounts : Deleted(b)
  <2>1. PICK b \in Accounts : Deleted(b) BY <1>2
  <2>2. accounts' = accounts \ {b} /\ sub' = [sub EXCEPT ![b] = None]
    BY <2>1 DEF Deleted, DeleteEnds
  <2> QED BY <2>2 DEF TypeOK
<1>3. CASE UNCHANGED sub
  BY <1>3
<1> QED BY <1>1, <1>2, <1>3, Records DEF Disconnect

-----------------------------------------------------------------------------
(* Access tokens.                                                          *)

(* Who has an access token may have it: is there, unlocked and signed in,  *)
(* and nothing switches it off.                                            *)
MayHaveAccess(a) == a \in accounts \ locked /\ token[a] # None /\ ~SwitchingOff(a)

AccessInv == \A a \in Accounts \ raced : HasAccess(a) => MayHaveAccess(a)

(* Whatever switches an account off stops it first.                        *)
LEMMA StopsFirst ==
  ASSUME TypeOK, GrantInv, Next, NEW a \in Accounts, MayHaveAccess(a)
  PROVE  Stop(a) \/ MayHaveAccess(a)'
<1>1. CASE SignInSteps
  <2>1. UNCHANGED lifecycleVars
    BY <1>1 DEF SignInSteps, ConnectRefused, CancelConnect, Connect, Answered, Exchange, Exchanged, Save, ConnectFails
  <2>2. token'[a] # None
    <3>1. CASE UNCHANGED token
      BY <3>1 DEF MayHaveAccess
    <3>2. CASE \E c \in Attempts : Save(c)
      BY <3>2 DEF Save, GrantInv, SavingMatches, MayHaveAccess, TypeOK
    <3> QED BY <1>1, <3>1, <3>2
            DEF SignInSteps, ConnectRefused, CancelConnect, Connect, Answered, Exchange, Exchanged, ConnectFails
  <2> QED BY <2>1, <2>2 DEF lifecycleVars, MayHaveAccess, SwitchingOff, IsPending
<1>2. CASE TokenSteps
  BY <1>2 DEF TokenSteps, Refresh, Expire, Refreshed, lifecycleVars, MayHaveAccess, SwitchingOff, IsPending
<1>3. CASE \E b \in Accounts : Lock(b) \/ Locked(b) \/ Open(b) \/ Clear(b) \/ Cleared(b)
  BY <1>3 DEF Lock, Locked, Open, Clear, Cleared, LockBegins, LockEnds, Unlock, ClearBegins, ClearEnds, Begins, Ends,
              Updated, GrantsStay, MayHaveAccess, SwitchingOff, IsPending
<1>4. CASE \E b \in Accounts : SignOut(b) \/ SignOutBegins(b)
  BY <1>4 DEF SignOut, SignOutBegins, Disconnect, Begins, lifecycleVars, TypeOK, MayHaveAccess, SwitchingOff, IsPending
<1>5. CASE \E b \in Accounts : SignOutEnds(b)
  BY <1>5 DEF SignOutEnds, Answer, Disconnect, Ends, TypeOK, MayHaveAccess, SwitchingOff, IsPending
<1>6. CASE \E b \in Accounts : Delete(b)
  BY <1>6 DEF Delete, DeleteBegins, Begins, MayHaveAccess, SwitchingOff, IsPending
<1>7. CASE \E b \in Accounts : Revoked(b)
  BY <1>7 DEF Revoked, RevokeEnds, Answer, Disconnect, TypeOK, MayHaveAccess, SwitchingOff, IsPending
<1>8. CASE \E b \in Accounts : Deleted(b) \/ NotDeleted(b)
  BY <1>8 DEF Deleted, NotDeleted, DeleteEnds, DeleteFails, Ends, GrantsStay, TypeOK, MayHaveAccess, SwitchingOff, IsPending
<1>9. CASE Elsewhere
  BY <1>9 DEF Elsewhere, SwitchTo, Add, SwitchWorkspace, googleVars, MayHaveAccess, SwitchingOff, IsPending
<1> QED BY <1>1, <1>2, <1>3, <1>4, <1>5, <1>6, <1>7, <1>8, <1>9 DEF Next, AccountSteps

(* An account that is stopped has no access token and gets none.           *)
LEMMA StopEndsAccess ==
  ASSUME TypeOK, NEW a \in Accounts, NEW b \in Accounts, Stop(b)
  PROVE  HasAccess(a)' => HasAccess(a) /\ a # b
<1>1. \A f \in flights' : f.current => f \in flights /\ f.account # b
  BY DEF Stop, Outdated, TypeOK, Flight
<1>2. cached' = [cached EXCEPT ![b] = None]
  BY DEF Stop
<1> QED BY <1>1, <1>2 DEF HasAccess, TypeOK

(* An access token is one there was, or is asked for.                      *)
LEMMA AccessAskedFor ==
  ASSUME TypeOK, Next, NEW a \in Accounts, HasAccess(a)'
  PROVE  HasAccess(a) \/ Refresh(a)
<1>1. CASE \E b \in Accounts : Refresh(b)
  <2>1. PICK b \in Accounts : Refresh(b) BY <1>1
  <2>2. CASE a # b
    BY <2>1, <2>2 DEF Refresh, HasAccess
  <2> QED BY <2>1, <2>2
<1>2. CASE \E b \in Accounts : Expire(b)
  BY <1>2 DEF Expire, HasAccess, TypeOK
<1>3. CASE \E f \in flights : Refreshed(f)
  <2>1. PICK f \in flights : Refreshed(f) BY <1>3
  <2>2. f \in Flight BY DEF TypeOK
  <2> QED BY <2>1, <2>2 DEF Refreshed, HasAccess, TypeOK, Flight
<1>4. CASE UNCHANGED <<cached, flights>>
  BY <1>4 DEF HasAccess
<1>5. CASE \E b \in Accounts : Stop(b)
  BY <1>5, StopEndsAccess
<1>6. CASE SignInSteps
  BY <1>4, <1>6 DEF SignInSteps, ConnectRefused, CancelConnect, Connect, Answered, Exchange, Exchanged, Save,
                    ConnectFails, TokensStay
<1>7. CASE AccountSteps
  BY <1>4, <1>5, <1>7 DEF AccountSteps, Lock, Locked, Open, Clear, Cleared, SignOut, SignOutBegins, SignOutEnds,
                          Delete, Revoked, Deleted, NotDeleted, Elsewhere, GrantsStay, TokensStay, googleVars
<1> QED BY <1>1, <1>2, <1>3, <1>6, <1>7 DEF Next, TokenSteps

LEMMA AccessKept ==
  ASSUME TypeOK, TypeOK', GrantInv, AccessInv, Next PROVE AccessInv'
<1> SUFFICES ASSUME NEW a \in Accounts, a \notin raced', HasAccess(a)' PROVE MayHaveAccess(a)'
  BY DEF AccessInv
<1>1. CASE HasAccess(a)
  <2>1. a \notin raced
    BY Noted DEF Note, googleVars
  <2>2. MayHaveAccess(a)
    BY <1>1, <2>1 DEF AccessInv
  <2> QED BY <2>2, StopsFirst, StopEndsAccess
<1>2. CASE Refresh(a)
  <2>1. a \in entry' \ entry /\ Note
    BY <1>2 DEF Refresh
  <2>2. ~SwitchingOff(a)
    BY <2>1 DEF Note
  <2> QED BY <1>2, <2>2 DEF Refresh, lifecycleVars, MayHaveAccess, SwitchingOff, IsPending
<1> QED BY <1>1, <1>2, AccessAskedFor

-----------------------------------------------------------------------------
(* What an account says of its connection.                                 *)

(* The sign-in that can be cancelled is one of the account, before its     *)
(* exchange.                                                               *)
OpOfAccount ==
  \A a \in Accounts : op[a] # None =>
    attempt[op[a]].account = a /\ attempt[op[a]].step \in {"asking", "cancelled", "answered"}

UnusedIsIdle == \A c \in Attempts : AtStep(c, "unused") => attempt[c].account = None

(* What a sign-in that fails goes back to is not "disconnected" when there *)
(* is a grant.                                                             *)
TruthfulBefore ==
  \A a \in accounts \ crossed, c \in Attempts :
    attempt[c].account = a /\ attempt[c].previous = "disconnected" => token[a] = None

StatusInv == OpOfAccount /\ UnusedIsIdle /\ TruthfulBefore /\ StatusTruthful

(* A step that begins and ends no sign-in.                                 *)
Onward == \A c \in Attempts : attempt'[c].account = attempt[c].account /\ attempt'[c].previous = attempt[c].previous

(* Nothing is granted to a, and it does not say "disconnected" for the     *)
(* first time with a grant.                                                *)
NoNews(a) ==
  /\ token'[a] \in {None, token[a]}
  /\ status'[a] \in {status[a], "connecting", "connected", "locked", "troubled"} \/ token'[a] = None

LEMMA CancelIsOnward ==
  ASSUME TypeOK, NEW a \in Accounts, CancelSignIn(a) PROVE Onward
<1>1. CASE op[a] # None /\ AtStep(op[a], "asking")
  BY <1>1 DEF CancelSignIn, Onward, TypeOK, Attempt
<1>2. CASE ~(op[a] # None /\ AtStep(op[a], "asking"))
  BY <1>2 DEF CancelSignIn, Onward
<1> QED BY <1>1, <1>2

(* The steps of accounts and of access tokens say nothing that is not so.  *)
LEMMA QuietSteps ==
  ASSUME TypeOK, TokenSteps \/ AccountSteps
  PROVE  Onward /\ \A a \in Accounts : NoNews(a)
<1>1. CASE TokenSteps
  <2>1. CASE \E a \in Accounts : Refresh(a) \/ Expire(a)
    BY <2>1 DEF Refresh, Expire, Onward, NoNews
  <2>2. CASE \E f \in flights : Refreshed(f)
    BY <2>2 DEF Refreshed, MaybeStatus, SetStatus, Onward, NoNews, TypeOK
  <2> QED BY <1>1, <2>1, <2>2 DEF TokenSteps
<1>2. CASE \E a \in Accounts : Lock(a) \/ Clear(a) \/ SignOutBegins(a) \/ Delete(a)
  BY <1>2, CancelIsOnward DEF Lock, Clear, SignOutBegins, Delete, Stop, NoNews
<1>3. CASE \E a \in Accounts : Locked(a) \/ Open(a) \/ Cleared(a) \/ NotDeleted(a)
  BY <1>3 DEF Locked, Open, Cleared, NotDeleted, GrantsStay, MaybeStatus, SetStatus, Onward, NoNews, TypeOK
<1>4. CASE \E a \in Accounts : SignOut(a)
  BY <1>4, CancelIsOnward DEF SignOut, Stop, Disconnect, MaybeStatus, SetStatus, NoNews, TypeOK
<1>5. CASE \E a \in Accounts : SignOutEnds(a) \/ Revoked(a)
  BY <1>5 DEF SignOutEnds, Revoked, Answer, Disconnect, MaybeStatus, SetStatus, Onward, NoNews, TypeOK
<1>6. CASE \E a \in Accounts : Deleted(a)
  BY <1>6 DEF Deleted, SetStatus, Onward, NoNews, TypeOK
<1>7. CASE Elsewhere
  BY <1>7 DEF Elsewhere, googleVars, Onward, NoNews
<1> QED BY <1>1, <1>2, <1>3, <1>4, <1>5, <1>6, <1>7 DEF AccountSteps

LEMMA QuietStepsKeep ==
  ASSUME TypeOK, GrantInv, StatusInv, Next, crossed \subseteq crossed', Onward, \A a \in Accounts : NoNews(a)
  PROVE  TruthfulBefore' /\ StatusTruthful'
<1>1. \A a \in Accounts \ accounts : token[a] = None
  BY GoogleAssumption DEF GrantInv, GrantOfIdentity, GoneForgotten, TypeOK, Grant
<1>2. accounts' \subseteq Accounts
  BY Comers DEF Add, Deleted, DeleteEnds, TypeOK, LifecycleTypeOK
<1>3. TruthfulBefore'
  BY <1>1, <1>2 DEF StatusInv, TruthfulBefore, Onward, NoNews
<1>4. StatusTruthful'
  BY <1>1, <1>2 DEF StatusInv, StatusTruthful, Onward, NoNews
<1> QED BY <1>3, <1>4

(* A sign-in that begins or ends leaves what is so, or overlaps another.   *)
LEMMA SignInStepsKeep ==
  ASSUME TypeOK, TypeOK', GrantInv, OverlapsNoted, StatusInv, SignInSteps
  PROVE  TruthfulBefore' /\ StatusTruthful'
<1>0. /\ Next /\ crossed \subseteq crossed' /\ OverlapsNoted'
      /\ UNCHANGED accounts /\ accounts \subseteq Accounts
  <2>1. Next BY DEF Next
  <2>2. UNCHANGED accounts
    BY DEF SignInSteps, ConnectRefused, CancelConnect, Connect, Answered, Exchange, Exchanged, Save, ConnectFails, lifecycleVars
  <2> QED BY <2>1, <2>2, OverlapsKept DEF TypeOK, LifecycleTypeOK
<1>1. CASE \E a \in Accounts : ConnectRefused(a)
  <2>1. Onward /\ \A a \in Accounts : NoNews(a)
    BY <1>1 DEF ConnectRefused, AfterFailure, SetStatus, Onward, NoNews, TypeOK
  <2> QED BY <1>0, <2>1, QuietStepsKeep
<1>2. CASE \E c \in Attempts : Answered(c) \/ Exchange(c)
  <2>1. Onward /\ \A a \in Accounts : NoNews(a)
    BY <1>2 DEF Answered, Exchange, Onward, NoNews, TypeOK, Attempt
  <2> QED BY <1>0, <2>1, QuietStepsKeep
<1>3. CASE \E c \in Attempts, s \in Subs : Exchanged(c, s)
  <2>1. Onward /\ \A a \in Accounts : NoNews(a)
    BY <1>3 DEF Exchanged, Onward, NoNews, TypeOK, Attempt
  <2> QED BY <1>0, <2>1, QuietStepsKeep
<1>4. CASE \E a \in Accounts : CancelConnect(a)
  <2>1. PICK a \in Accounts : CancelConnect(a) BY <1>4
  <2>2. Onward BY <2>1, CancelIsOnward DEF CancelConnect
  <2>3. op[a] \in Attempts /\ attempt'[op[a]].account = a
    BY <2>1, <2>2 DEF CancelConnect, StatusInv, OpOfAccount, Onward, TypeOK
  <2>4. UNCHANGED token /\ \A b \in Accounts \ {a} : status'[b] = status[b]
    BY <2>1 DEF CancelConnect, SetStatus, TypeOK
  <2> QED BY <1>0, <2>2, <2>3, <2>4 DEF StatusInv, TruthfulBefore, StatusTruthful, Onward
<1>5. CASE \E c \in Attempts, a \in Accounts : Connect(c, a)
  <2>1. PICK c \in Attempts, a \in Accounts : Connect(c, a) BY <1>5
  <2>2. /\ attempt'[c].account = a /\ attempt'[c].previous = status[a]
        /\ \A d \in Attempts \ {c} : attempt'[d] = attempt[d]
        /\ UNCHANGED token
        /\ \A b \in Accounts \ {a} : status'[b] = status[b]
    BY <2>1 DEF Connect, Idle, SetStatus, TypeOK
  <2>3. attempt[c].account = None
    BY <2>1 DEF Connect, StatusInv, UnusedIsIdle
  <2>4. a \notin crossed' => \A d \in Attempts \ {c} : attempt'[d].account # a
    BY <1>0, <2>2, LifecycleAssumption DEF OverlapsNoted
  <2>5. TruthfulBefore'
    <3> SUFFICES ASSUME NEW b \in accounts \ crossed', NEW d \in Attempts,
                        attempt'[d].account = b, attempt'[d].previous = "disconnected"
                 PROVE  token[b] = None
      BY <1>0, <2>2 DEF TruthfulBefore
    <3>1. CASE d = c
      BY <1>0, <2>2, <2>3, <2>4, <3>1, LifecycleAssumption DEF StatusInv, StatusTruthful
    <3>2. CASE d # c
      BY <1>0, <2>2, <3>2 DEF StatusInv, TruthfulBefore
    <3> QED BY <3>1, <3>2
  <2>6. StatusTruthful'
    BY <1>0, <2>2, <2>3, LifecycleAssumption DEF StatusInv, StatusTruthful
  <2> QED BY <2>5, <2>6
<1>6. CASE \E c \in Attempts : Save(c) \/ ConnectFails(c)
  <2>1. PICK c \in Attempts : Save(c) \/ ConnectFails(c) BY <1>6
  <2> DEFINE a == attempt[c].account
  <2>2. /\ attempt'[c].account = None
        /\ \A d \in Attempts \ {c} : attempt'[d] = attempt[d]
        /\ \A b \in Accounts \ {a} : status'[b] = status[b] /\ token'[b] = token[b]
    BY <2>1 DEF Save, ConnectFails, Over, Idle, MaybeStatus, SetStatus, TypeOK
  <2>3. a \in accounts \ crossed => \A d \in Attempts \ {c} : attempt'[d].account # a
    BY <1>0, <2>2, LifecycleAssumption DEF OverlapsNoted
  <2>4. TruthfulBefore'
    BY <1>0, <2>2, <2>3, LifecycleAssumption DEF StatusInv, TruthfulBefore
  <2>5. a \in accounts \ crossed => (status'[a] = "disconnected" => token'[a] = None)
    <3>1. CASE Save(c)
      BY <1>0, <3>1 DEF Save, SetStatus, TypeOK
    <3>2. CASE ConnectFails(c)
      BY <1>0, <3>2 DEF ConnectFails, AfterFailure, MaybeStatus, SetStatus, TypeOK, StatusInv, TruthfulBefore
    <3> QED BY <2>1, <3>1, <3>2
  <2>6. StatusTruthful'
    BY <1>0, <2>2, <2>5, LifecycleAssumption DEF StatusInv, StatusTruthful
  <2> QED BY <2>4, <2>6
<1> QED BY <1>1, <1>2, <1>3, <1>4, <1>5, <1>6 DEF SignInSteps

LEMMA OpKept ==
  ASSUME TypeOK, StatusInv, Next PROVE OpOfAccount' /\ UnusedIsIdle'
<1>1. CASE \E a \in Accounts : CancelSignIn(a)
  BY <1>1 DEF CancelSignIn, AtStep, StatusInv, OpOfAccount, UnusedIsIdle, TypeOK, Attempt
<1>2. CASE UNCHANGED <<op, attempt>>
  BY <1>2 DEF StatusInv, OpOfAccount, UnusedIsIdle, AtStep
<1>3. CASE \E c \in Attempts, a \in Accounts : Connect(c, a)
  BY <1>3 DEF Connect, Idle, AtStep, StatusInv, OpOfAccount, UnusedIsIdle, TypeOK
<1>4. CASE \E c \in Attempts : Answered(c) \/ Exchange(c)
  BY <1>4 DEF Answered, Exchange, AtStep, StatusInv, OpOfAccount, UnusedIsIdle, TypeOK, Attempt
<1>5. CASE \E c \in Attempts, s \in Subs : Exchanged(c, s)
  BY <1>5 DEF Exchanged, AtStep, StatusInv, OpOfAccount, UnusedIsIdle, TypeOK, Attempt
<1>6. CASE \E c \in Attempts : Save(c) \/ ConnectFails(c)
  BY <1>6 DEF Save, ConnectFails, Over, Idle, AtStep, StatusInv, OpOfAccount, UnusedIsIdle, TypeOK, Attempt
<1>7. CASE TokenSteps
  BY <1>2, <1>7 DEF TokenSteps, Refresh, Expire, Refreshed
<1>8. CASE AccountSteps
  BY <1>1, <1>2, <1>8 DEF AccountSteps, Lock, Locked, Open, Clear, Cleared, SignOut, SignOutBegins, SignOutEnds,
                          Delete, Revoked, Deleted, NotDeleted, Elsewhere, GrantsStay, googleVars, Stop
<1>9. CASE SignInSteps
  BY <1>1, <1>2, <1>3, <1>4, <1>5, <1>6, <1>9 DEF SignInSteps, ConnectRefused, CancelConnect
<1> QED BY <1>7, <1>8, <1>9 DEF Next

LEMMA StatusKept ==
  ASSUME TypeOK, TypeOK', GrantInv, OverlapsNoted, StatusInv, Next PROVE StatusInv'
<1>1. TruthfulBefore' /\ StatusTruthful'
  BY OverlapsKept, QuietSteps, QuietStepsKeep, SignInStepsKeep DEF Next
<1> QED BY <1>1, OpKept DEF StatusInv

-----------------------------------------------------------------------------
(* The inductive invariant.                                                *)

GoogleInv == TypeOK /\ ActiveAtHome /\ GrantInv /\ OverlapInv /\ AccessInv /\ StatusInv

LEMMA InitGoogle == Init => GoogleInv
<1> SUFFICES ASSUME Init PROVE GoogleInv OBVIOUS
<1>1. LifecycleInv
  BY LifecycleInitially DEF Init
<1>2. TypeOK
  BY <1>1 DEF Init, TypeOK, LifecycleInv, Status, Attempt, Idle
<1>3. GrantInv
  <2>1. /\ \A a \in Accounts : sub[a] = None /\ token[a] = None
        /\ \A c \in Attempts : attempt[c].step = "unused"
        /\ accounts \subseteq Accounts
    BY <1>2 DEF Init, Idle, TypeOK, LifecycleTypeOK
  <2>2. GrantOfIdentity BY <2>1 DEF GrantOfIdentity
  <2>3. SavingMatches BY <2>1 DEF SavingMatches, AtStep
  <2>4. GoneForgotten BY <2>1 DEF GoneForgotten
  <2>5. OneSubject BY <2>1 DEF OneSubject
  <2> QED BY <2>2, <2>3, <2>4, <2>5 DEF GrantInv
<1>4. OverlapInv
  BY DEF Init, OverlapInv, OverlapsNoted, StillSame, AtStep, Idle
<1>5. AccessInv
  BY DEF Init, AccessInv, HasAccess
<1>6. StatusInv
  BY <1>1 DEF Init, StatusInv, OpOfAccount, UnusedIsIdle, TruthfulBefore, StatusTruthful, AtStep, Idle,
              LifecycleInv, LifecycleTypeOK
<1> QED BY <1>1, <1>2, <1>3, <1>4, <1>5, <1>6 DEF GoogleInv, LifecycleInv

LEMMA NextGoogle == GoogleInv /\ [Next]_vars => GoogleInv'
<1> SUFFICES ASSUME GoogleInv, [Next]_vars PROVE GoogleInv' OBVIOUS
<1>1. CASE Next
  <2>1. LifecycleInv
    BY DEF GoogleInv, LifecycleInv, TypeOK
  <2>2. LifecycleInv'
    BY <1>1, <2>1, StepOfHandler, HandlerKeeps, WorkspaceKeeps, LifecycleStutters
  <2>3. TypeOK'
    BY <1>1, <2>2, SignInStepsTyped, TokenStepsTyped, AccountStepsTyped DEF Next, GoogleInv, LifecycleInv
  <2> QED BY <1>1, <2>2, <2>3, SavingKept, IdentitiesKept, OverlapsKept, StillSameKept, AccessKept, StatusKept
    DEF GoogleInv, GrantInv, OverlapInv, LifecycleInv
<1>2. CASE UNCHANGED vars
  BY <1>2 DEF vars, lifecycleVars, googleVars, GoogleInv, ActiveAtHome, TypeOK, LifecycleTypeOK,
              GrantInv, GrantOfIdentity, SavingMatches, GoneForgotten, OneSubject, AtStep,
              OverlapInv, OverlapsNoted, StillSame, SameIdentity,
              AccessInv, MayHaveAccess, HasAccess, SwitchingOff, IsPending,
              StatusInv, OpOfAccount, UnusedIsIdle, TruthfulBefore, StatusTruthful
<1> QED BY <1>1, <1>2

LEMMA AlwaysGoogle == Spec => []GoogleInv
<1> HIDE DEF GoogleInv
<1> QED BY InitGoogle, NextGoogle, PTL DEF Spec

(* Every variable of an account, a sign-in and the token broker keeps its  *)
(* type (connect(), GoogleTokenBroker, AccountStore).                      *)
THEOREM GoogleTypeCorrect == Spec => []TypeOK
<1>1. GoogleInv => TypeOK BY DEF GoogleInv
<1> HIDE DEF GoogleInv, TypeOK
<1> QED BY <1>1, AlwaysGoogle, PTL

(* A Google account is connected to one Account Space at most              *)
(* (saveGoogleGrant()), whatever sign-ins overlap.                         *)
THEOREM OneSpacePerSubject == Spec => []OneSubject
<1>1. GoogleInv => OneSubject BY DEF GoogleInv, GrantInv
<1> HIDE DEF GoogleInv, OneSubject
<1> QED BY <1>1, AlwaysGoogle, PTL

(* No Account Space holds the grant of an identity other than the one it   *)
(* shows (connect(), saveGoogleGrant(), disconnectGoogle()).               *)
THEOREM GrantMatchesIdentity == Spec => []GrantOfIdentity
<1>1. GoogleInv => GrantOfIdentity BY DEF GoogleInv, GrantInv
<1> HIDE DEF GoogleInv, GrantOfIdentity
<1> QED BY <1>1, AlwaysGoogle, PTL

(* An account keeps the identity it has, whatever sign-ins follow, unless  *)
(* two of its own overlap (the comparison of connect()).                   *)
THEOREM ReconnectKeepsIdentity == Spec => IdentityKept
<1> DEFINE Kept == \A a \in accounts' \ crossed : sub[a] # None => sub'[a] = sub[a]
<1>1. GoogleInv /\ [Next]_vars => [Kept]_vars
  BY SubOfStep DEF GoogleInv
<1> HIDE DEF GoogleInv, Kept
<1>2. Spec => [][Kept]_vars
  BY <1>1, AlwaysGoogle, PTL DEF Spec
<1> QED BY <1>2 DEF IdentityKept, Kept

(* An account that is locked, signed out or gone has no access token in    *)
(* memory (GoogleTokenBroker.clear(), cancelAccountOperations()), unless   *)
(* one was asked for while it was being switched off.                      *)
THEOREM NoTokenWhenOff == Spec => []QuietWhenOff
<1>1. GoogleInv => QuietWhenOff
  BY DEF GoogleInv, AccessInv, HasAccess, MayHaveAccess, QuietWhenOff
<1> HIDE DEF GoogleInv, QuietWhenOff
<1> QED BY <1>1, AlwaysGoogle, PTL

(* No account says "disconnected" while it holds a grant, once no sign-in  *)
(* of it is under way and unless two of its own overlap                    *)
(* (connectGoogleAccount()).                                               *)
THEOREM DisconnectedIsSo == Spec => []StatusTruthful
<1>1. GoogleInv => StatusTruthful BY DEF GoogleInv, StatusInv
<1> HIDE DEF GoogleInv, StatusTruthful
<1> QED BY <1>1, AlwaysGoogle, PTL

-----------------------------------------------------------------------------
(* The tab strip.                                                          *)

(* The cache has icons under keys of their accounts.                       *)
OwnEntries(icons) ==
  \A e \in icons : e.key \in AccountSpaces \X Hosts /\ e.icon \in Icon /\ e.key[1] = e.icon.by

(* What a tab shows, what is cached and what is kept was fetched by the    *)
(* account it is shown, cached and kept for; an icon on its way is for the *)
(* account of its tab, as long as that tab is there.                       *)
StripInv ==
  /\ StripTypeOK
  /\ \A i, j \in DOMAIN tabs : tabs[i].id = tabs[j].id => tabs[i].space = tabs[j].space
  /\ \A i \in DOMAIN tabs, r \in Runtime :
       r = runtime[tabs[i].id] /\ r.icon # None => r.icon.by = tabs[i].space
  /\ \A i \in DOMAIN tabs, f \in fetches : tabs[i].id = f.tab => tabs[i].space = f.space
  /\ OwnEntries(cache)
  /\ \A k \in kept : k.icon.by = k.space /\ k.host \in marked[k.space]

LEMMA LeastOf ==
  ASSUME NEW S, S \subseteq Nat, S # {}
  PROVE  Min(S) \in S /\ \A y \in S : Min(S) <= y
<1>1. PICK x \in S : \A y \in S : ~ (<<y, x>> \in OpToRel(<, Nat))
  BY NatLessThanWellFounded, WFMin, Zenon
<1>2. \A y \in S : ~ (y < x)
  BY <1>1, Zenon DEF OpToRel
<1>3. \A y \in S : x <= y
  BY <1>2
<1> QED BY <1>3 DEF Min

LEMMA GreatestOf ==
  ASSUME NEW n \in Nat, NEW S, S \subseteq 0..n, S # {}
  PROVE  Max(S) \in S /\ \A y \in S : Max(S) >= y
<1> DEFINE D == {n - x : x \in S}
<1>1. D \subseteq Nat
  OBVIOUS
<1>5. PICK z \in S : TRUE
  OBVIOUS
<1>6. n - z \in D
  OBVIOUS
<1>2. PICK d \in D : \A e \in D : d <= e
  BY <1>1, <1>6, LeastOf
<1>3. PICK x \in S : d = n - x
  BY <1>2
<1>4. \A y \in S : x >= y
  <2> SUFFICES ASSUME NEW y \in S PROVE x >= y OBVIOUS
  <2>1. n - x <= n - y BY <1>2, <1>3
  <2> QED BY <2>1
<1> QED BY <1>4 DEF Max

LEMMA TabThere ==
  ASSUME StripTypeOK, NEW t \in Ids
  PROVE  /\ At(t) \in DOMAIN tabs /\ TabOf(t) = tabs[At(t)] /\ TabOf(t).id = t
         /\ t \in StripTabs /\ TabOf(t) \in StripTab
<1>1. PICK i \in DOMAIN tabs : tabs[i].id = t
  BY DEF Ids
<1>2. At(t) \in DOMAIN tabs /\ tabs[At(t)].id = t
  BY <1>1 DEF At
<1>3. tabs[At(t)] \in StripTab
  BY <1>2 DEF StripTypeOK
<1> QED BY <1>2, <1>3 DEF TabOf, StripTab

LEMMA FrontThere ==
  ASSUME StripTypeOK
  PROVE  /\ frontTab \in Ids /\ TabOf(frontTab) \in StripTab /\ frontTab \in StripTabs
         /\ TabOf(frontTab).space \in AccountSpaces
<1>1. frontTab \in Ids BY DEF StripTypeOK
<1>2. TabOf(frontTab) \in StripTab /\ frontTab \in StripTabs BY <1>1, TabThere
<1> QED BY <1>1, <1>2 DEF StripTab

(* What an account owns, its tabs keep, when tabs come, go and move.       *)
SameHome(x, y) == x.id = y.id /\ x.space = y.space

LEMMA StripKeeps ==
  ASSUME StripInv, StripTypeOK', NEW N \in SUBSET StripTabs, NEW s,
         \A t \in N : Fresh(t) /\ \A r \in Runtime : r = runtime'[t] => r.icon = None,
         \A t \in StripTabs \ N, r \in Runtime : r = runtime'[t] /\ r.icon # None =>
           runtime[t] \in Runtime /\ runtime[t].icon = r.icon,
         \A i \in DOMAIN tabs' : \/ tabs'[i].id \in N /\ tabs'[i].space = s
                                 \/ \E j \in DOMAIN tabs : SameHome(tabs'[i], tabs[j]),
         fetches' = fetches, cache' = cache \/ OwnEntries(cache'), kept' = kept, marked' = marked
  PROVE  StripInv'
<1>0. \A i \in DOMAIN tabs' : tabs'[i].id \in StripTabs
  <2>1. tabs' \in Seq(StripTab)
    BY DEF StripTypeOK
  <2>2. \A i \in DOMAIN tabs' : tabs'[i] \in StripTab
    BY <2>1
  <2> QED BY <2>2 DEF StripTab
<1>a. \A j \in DOMAIN tabs : tabs[j].id \notin N
  BY DEF Fresh, Ids
<1>1. \A i, j \in DOMAIN tabs' : tabs'[i].id = tabs'[j].id => tabs'[i].space = tabs'[j].space
  BY <1>a DEF StripInv, SameHome
<1>2. \A i \in DOMAIN tabs', r \in Runtime :
        r = runtime'[tabs'[i].id] /\ r.icon # None => r.icon.by = tabs'[i].space
  <2> SUFFICES ASSUME NEW i \in DOMAIN tabs', NEW r \in Runtime, r = runtime'[tabs'[i].id], r.icon # None
               PROVE  r.icon.by = tabs'[i].space
    OBVIOUS
  <2>1. tabs'[i].id \in StripTabs \ N
    BY <1>0
  <2>2. PICK j \in DOMAIN tabs : SameHome(tabs'[i], tabs[j])
    BY <2>1
  <2>3. runtime[tabs[j].id] \in Runtime /\ runtime[tabs[j].id].icon = r.icon
    BY <2>1, <2>2 DEF SameHome
  <2> QED BY <2>2, <2>3 DEF StripInv, SameHome
<1>3. \A i \in DOMAIN tabs', f \in fetches : tabs'[i].id = f.tab => tabs'[i].space = f.space
  <2> SUFFICES ASSUME NEW i \in DOMAIN tabs', NEW f \in fetches, tabs'[i].id = f.tab
               PROVE  tabs'[i].space = f.space
    OBVIOUS
  <2>1. tabs'[i].id \notin N
    BY DEF Fresh
  <2>2. PICK j \in DOMAIN tabs : SameHome(tabs'[i], tabs[j])
    BY <2>1
  <2> QED BY <2>2 DEF StripInv, SameHome
<1>4. OwnEntries(cache')
  BY DEF StripInv, OwnEntries
<1> QED BY <1>1, <1>2, <1>3, <1>4 DEF StripInv, OwnEntries

(* Where no tab is new.                                                    *)
LEMMA StripOnly ==
  ASSUME StripInv, StripTypeOK',
         \A t \in StripTabs, r \in Runtime : r = runtime'[t] /\ r.icon # None =>
           runtime[t] \in Runtime /\ runtime[t].icon = r.icon,
         \A i \in DOMAIN tabs' : \E j \in DOMAIN tabs : SameHome(tabs'[i], tabs[j]),
         fetches' = fetches, cache' = cache \/ OwnEntries(cache'), kept' = kept, marked' = marked
  PROVE  StripInv'
<1>1. {} \in SUBSET StripTabs /\ StripTabs \ {} = StripTabs
  OBVIOUS
<1> QED BY <1>1, StripKeeps

-----------------------------------------------------------------------------
(* A tab is added.                                                         *)

LEMMA AddedTab ==
  ASSUME StripTypeOK, NEW t \in StripTabs, NEW s \in AccountSpaces, NEW h \in Hosts \cup {None},
         tabs' = Append(tabs, [id |-> t, space |-> s, host |-> h])
  PROVE  /\ tabs' \in Seq(StripTab)
         /\ Ids' = Ids \cup {t}
         /\ \A i \in DOMAIN tabs' : \/ tabs'[i].id = t /\ tabs'[i].space = s
                                    \/ \E j \in DOMAIN tabs : SameHome(tabs'[i], tabs[j])
<1> DEFINE x == [id |-> t, space |-> s, host |-> h]
<1>1. x \in StripTab
  BY DEF StripTab
<1>2. tabs \in Seq(StripTab) /\ Len(tabs) \in Nat /\ DOMAIN tabs = 1..Len(tabs)
  BY DEF StripTypeOK
<1>3. tabs' \in Seq(StripTab) /\ DOMAIN tabs' = 1..(Len(tabs) + 1)
  BY <1>1, <1>2
<1>4. \A i \in 1..Len(tabs) : tabs'[i] = tabs[i]
  BY <1>1, <1>2
<1>5. tabs'[Len(tabs) + 1] = x
  BY <1>1, <1>2
<1>6. \A i \in DOMAIN tabs' : i \in DOMAIN tabs \/ i = Len(tabs) + 1
  BY <1>2, <1>3
<1>7. Len(tabs) + 1 \in DOMAIN tabs' /\ DOMAIN tabs \subseteq DOMAIN tabs'
  BY <1>2, <1>3
<1>8. Ids' = Ids \cup {t}
  <2>1. \A i \in DOMAIN tabs' : tabs'[i].id \in Ids \cup {t}
    BY <1>2, <1>4, <1>5, <1>6 DEF Ids
  <2>2. t \in Ids'
    BY <1>5, <1>7 DEF Ids
  <2>3. \A i \in DOMAIN tabs : tabs[i].id \in Ids'
    BY <1>2, <1>4, <1>7 DEF Ids
  <2> QED BY <2>1, <2>2, <2>3 DEF Ids
<1> QED BY <1>2, <1>3, <1>4, <1>5, <1>6, <1>8 DEF SameHome

LEMMA NewRuntimes ==
  ASSUME NEW v \in BOOLEAN
  PROVE  /\ NewRuntime \in Runtime /\ NewRuntime.icon = None
         /\ [NewRuntime EXCEPT !.view = v] \in Runtime /\ [NewRuntime EXCEPT !.view = v].icon = None
  BY DEF NewRuntime, Runtime

LEMMA OpensTab ==
  ASSUME StripInv, NEW t \in StripTabs, NEW s \in AccountSpaces, NEW h \in Hosts \cup {None},
         OpenTab(t, s, h) \/ OpenBehind(t, s, h),
         closed' \in [AccountSpaces -> Seq(Hosts)], popups' \subseteq StripTabs,
         recent' \in [StripTabs -> 0..MaxPopups], UNCHANGED <<cache, fetches, marked, kept>>
  PROVE  StripInv'
<1>1. tabs' = Append(tabs, [id |-> t, space |-> s, host |-> h]) /\ Fresh(t)
  BY DEF OpenTab, OpenBehind
<1>2. StripTypeOK BY DEF StripInv
<1>3. PICK r \in Runtime : r.icon = None /\ runtime' = [runtime EXCEPT ![t] = r]
  BY NewRuntimes DEF OpenTab, OpenBehind
<1>4. frontTab' \in {t, frontTab}
  BY DEF OpenTab, OpenBehind
<1>5. StripTypeOK'
  BY <1>1, <1>2, <1>3, <1>4, AddedTab DEF StripTypeOK
<1>6. runtime'[t] = r /\ \A u \in StripTabs \ {t} : runtime'[u] = runtime[u]
  BY <1>2, <1>3 DEF StripTypeOK
<1>7. \A u \in StripTabs \ {t}, q \in Runtime : q = runtime'[u] /\ q.icon # None =>
        runtime[u] \in Runtime /\ runtime[u].icon = q.icon
  BY <1>6
<1>8. \A u \in {t} : Fresh(u) /\ \A q \in Runtime : q = runtime'[u] => q.icon = None
  BY <1>1, <1>3, <1>6
<1>9. \A i \in DOMAIN tabs' : \/ tabs'[i].id \in {t} /\ tabs'[i].space = s
                              \/ \E j \in DOMAIN tabs : SameHome(tabs'[i], tabs[j])
  BY <1>1, <1>2, AddedTab
<1>10. {t} \in SUBSET StripTabs OBVIOUS
<1> QED BY <1>5, <1>7, <1>8, <1>9, <1>10, StripKeeps

LEMMA NewTabKeeps ==
  ASSUME StripInv, NEW t \in StripTabs, NEW h \in Hosts \cup {None}, NewTab(t, h) PROVE StripInv'
<1>1. StripTypeOK BY DEF StripInv
<1> QED BY <1>1, FrontThere, OpensTab DEF NewTab, StripTypeOK

LEMMA ReopenKeeps ==
  ASSUME StripInv, NEW t \in StripTabs, ReopenTab(t) PROVE StripInv'
<1>1. StripTypeOK BY DEF StripInv
<1> DEFINE s == TabOf(frontTab).space
<1>2. s \in AccountSpaces BY <1>1, FrontThere
<1>3. closed[s] \in Seq(Hosts) /\ closed[s] # << >>
  BY <1>1, <1>2 DEF ReopenTab, StripTypeOK
<1>4. Last(closed[s]) \in Hosts
  BY <1>3 DEF Last
<1>5. Front(closed[s]) \in Seq(Hosts)
  BY <1>3, SubSeqProperties DEF Front
<1>6. closed' \in [AccountSpaces -> Seq(Hosts)]
  BY <1>1, <1>2, <1>5 DEF ReopenTab, StripTypeOK
<1> QED BY <1>1, <1>2, <1>4, <1>6, OpensTab DEF ReopenTab, StripTypeOK

LEMMA PageOpensKeeps ==
  ASSUME StripInv, NEW t \in Ids, NEW new \in StripTabs, NEW h \in Hosts, NEW focused \in BOOLEAN,
         NEW asPopup \in BOOLEAN, PageOpens(t, new, h, focused, asPopup)
  PROVE  StripInv'
<1>1. StripTypeOK BY DEF StripInv
<1>2. t \in StripTabs /\ TabOf(t).space \in AccountSpaces
  BY <1>1, TabThere DEF StripTab
<1>3. recent' \in [StripTabs -> 0..MaxPopups]
  <2>1. recent[t] \in 0..MaxPopups /\ recent[t] < MaxPopups
    BY <1>1, <1>2 DEF PageOpens, StripTypeOK
  <2>2. recent[t] + 1 \in 0..MaxPopups
    BY <2>1, StripAssumption
  <2> QED BY <1>1, <2>2 DEF PageOpens, StripTypeOK
<1>4. UNCHANGED <<closed, cache, fetches, marked, kept>>
  BY DEF PageOpens
<1>5. popups' \subseteq StripTabs /\ closed' \in [AccountSpaces -> Seq(Hosts)]
  BY <1>1, <1>2, <1>4 DEF PageOpens, StripTypeOK
<1>6. CASE UNCHANGED <<tabs, frontTab, runtime>>
  <2>1. StripTypeOK'
    BY <1>1, <1>3, <1>4, <1>5, <1>6 DEF StripTypeOK, Ids
  <2> QED BY <2>1, <1>4, <1>6 DEF StripInv
<1>7. CASE OpenTab(new, TabOf(t).space, h) \/ OpenBehind(new, TabOf(t).space, h)
  BY <1>2, <1>3, <1>4, <1>5, <1>7, OpensTab
<1> QED BY <1>6, <1>7 DEF PageOpens

-----------------------------------------------------------------------------
(* Tabs stay, or go.                                                       *)

LEMMA SameTabs ==
  ASSUME tabs' = tabs
  PROVE  Ids' = Ids /\ \A i \in DOMAIN tabs' : \E j \in DOMAIN tabs : SameHome(tabs'[i], tabs[j])
  BY DEF Ids, SameHome

LEMMA PopupsForgottenKeeps ==
  ASSUME StripInv, NEW t \in Ids, PopupsForgotten(t) PROVE StripInv'
<1>1. StripTypeOK BY DEF StripInv
<1>2. t \in StripTabs BY <1>1, TabThere
<1>3. recent[t] \in 0..MaxPopups /\ recent[t] > 0
  BY <1>1, <1>2 DEF PopupsForgotten, StripTypeOK
<1>4. recent[t] - 1 \in 0..MaxPopups BY <1>3, StripAssumption
<1>5. StripTypeOK'
  BY <1>1, <1>4 DEF PopupsForgotten, StripTypeOK, Ids, iconVars
<1> QED BY <1>5 DEF StripInv, PopupsForgotten, iconVars

LEMMA NoIconKeeps ==
  ASSUME StripInv, NEW t \in Ids, NoIcon(t) PROVE StripInv'
<1>1. StripTypeOK BY DEF StripInv
<1>2. t \in StripTabs BY <1>1, TabThere
<1>3. runtime[t] \in Runtime
  BY <1>1, <1>2 DEF NoIcon, StripTypeOK
<1> DEFINE r == [runtime[t] EXCEPT !.icon = None]
<1>4. r \in Runtime /\ r.icon = None
  BY <1>3 DEF Runtime
<1>5. runtime' = [runtime EXCEPT ![t] = r]
  BY DEF NoIcon, Show
<1> HIDE DEF r
<1>6. runtime' \in [StripTabs -> Runtime \cup {None}]
  BY <1>1, <1>4, <1>5 DEF StripTypeOK
<1>7. UNCHANGED <<tabs, frontTab, closed, popups, recent, cache, fetches, marked, kept>>
  BY DEF NoIcon, tabVars
<1>8. StripTypeOK'
  BY <1>1, <1>6, <1>7 DEF StripTypeOK, Ids
<1>9. \A u \in StripTabs, q \in Runtime : q = runtime'[u] /\ q.icon # None =>
        runtime[u] \in Runtime /\ runtime[u].icon = q.icon
  BY <1>1, <1>4, <1>5 DEF StripTypeOK
<1> QED BY <1>7, <1>8, <1>9, SameTabs, StripOnly

(* A view is built, and the tab keeps what icon it shows.                  *)
LEMMA ViewBuilt ==
  ASSUME StripTypeOK, NEW t \in StripTabs,
         runtime' = [runtime EXCEPT ![t] = [view |-> TRUE, icon |-> IF @ = None THEN None ELSE @.icon]]
  PROVE  /\ runtime' \in [StripTabs -> Runtime \cup {None}]
         /\ \A u \in StripTabs, q \in Runtime : q = runtime'[u] /\ q.icon # None =>
              runtime[u] \in Runtime /\ runtime[u].icon = q.icon
<1>1. runtime \in [StripTabs -> Runtime \cup {None}] /\ runtime[t] \in Runtime \cup {None}
  BY DEF StripTypeOK
<1>2. PICK i : i = IF runtime[t] = None THEN None ELSE runtime[t].icon
  OBVIOUS
<1>3. runtime' = [runtime EXCEPT ![t] = [view |-> TRUE, icon |-> i]]
  BY <1>1, <1>2
<1>4. i \in Icon \cup {None} /\ (i # None => runtime[t] \in Runtime /\ runtime[t].icon = i)
  BY <1>1, <1>2 DEF Runtime
<1>5. [view |-> TRUE, icon |-> i] \in Runtime
  BY <1>4 DEF Runtime
<1> DEFINE v == [view |-> TRUE, icon |-> i]
<1>6. v.icon = i
  OBVIOUS
<1>7. runtime' = [runtime EXCEPT ![t] = v] /\ v \in Runtime
  BY <1>3, <1>5
<1> HIDE DEF v
<1>8. runtime' \in [StripTabs -> Runtime \cup {None}]
  BY <1>1, <1>7
<1>9. runtime'[t] = v /\ \A u \in StripTabs \ {t} : runtime'[u] = runtime[u]
  BY <1>1, <1>7
<1> QED BY <1>4, <1>6, <1>8, <1>9

LEMMA ActivateKeeps ==
  ASSUME StripInv, NEW t \in Ids, ActivateTab(t) PROVE StripInv'
<1>1. StripTypeOK BY DEF StripInv
<1>2. t \in StripTabs BY <1>1, TabThere
<1>3. /\ runtime' \in [StripTabs -> Runtime \cup {None}]
      /\ \A u \in StripTabs, q \in Runtime : q = runtime'[u] /\ q.icon # None =>
           runtime[u] \in Runtime /\ runtime[u].icon = q.icon
  <2>1. CASE runtime' = runtime
    BY <1>1, <2>1 DEF StripTypeOK
  <2>2. CASE runtime' # runtime
    BY <1>1, <1>2, <2>2, ViewBuilt DEF ActivateTab
  <2> QED BY <2>1, <2>2
<1>4. UNCHANGED <<tabs, closed, popups, recent, cache, fetches, marked, kept>> /\ frontTab' = t
  BY DEF ActivateTab
<1>5. StripTypeOK'
  BY <1>1, <1>3, <1>4 DEF StripTypeOK, Ids
<1> QED BY <1>3, <1>4, <1>5, SameTabs, StripOnly

(* A tab goes to another page.                                             *)
LEMMA HostChanges ==
  ASSUME StripTypeOK, NEW i \in DOMAIN tabs, NEW h \in Hosts \cup {None}, tabs' = [tabs EXCEPT ![i].host = h]
  PROVE  /\ tabs' \in Seq(StripTab) /\ Ids' = Ids
         /\ \A k \in DOMAIN tabs' : \E j \in DOMAIN tabs : SameHome(tabs'[k], tabs[j])
<1>1. tabs \in Seq(StripTab) /\ tabs[i] \in StripTab
  BY DEF StripTypeOK
<1> DEFINE x == [tabs[i] EXCEPT !.host = h]
<1>2. x \in StripTab /\ x.id = tabs[i].id /\ x.space = tabs[i].space
  BY <1>1 DEF StripTab
<1>3. tabs' = [tabs EXCEPT ![i] = x]
  OBVIOUS
<1> HIDE DEF x
<1>4. tabs' \in Seq(StripTab) /\ DOMAIN tabs' = DOMAIN tabs
  BY <1>1, <1>2, <1>3
<1>5. \A k \in DOMAIN tabs : tabs'[k].id = tabs[k].id /\ tabs'[k].space = tabs[k].space
  BY <1>2, <1>3
<1> QED BY <1>4, <1>5 DEF Ids, SameHome

LEMMA TakeToKeeps ==
  ASSUME StripInv, NEW t \in Ids, NEW h \in Hosts, TakeTo(t, h) PROVE StripInv'
<1>1. StripTypeOK BY DEF StripInv
<1>2. t \in StripTabs /\ At(t) \in DOMAIN tabs BY <1>1, TabThere
<1>3. tabs' \in Seq(StripTab) /\ Ids' = Ids /\ \A k \in DOMAIN tabs' : \E j \in DOMAIN tabs : SameHome(tabs'[k], tabs[j])
  BY <1>1, <1>2, HostChanges DEF TakeTo
<1>4. /\ runtime' \in [StripTabs -> Runtime \cup {None}]
      /\ \A u \in StripTabs, q \in Runtime : q = runtime'[u] /\ q.icon # None =>
           runtime[u] \in Runtime /\ runtime[u].icon = q.icon
  BY <1>1, <1>2, ViewBuilt DEF TakeTo
<1>5. UNCHANGED <<frontTab, closed, popups, recent, cache, fetches, marked, kept>>
  BY DEF TakeTo
<1>6. StripTypeOK'
  BY <1>1, <1>3, <1>4, <1>5 DEF StripTypeOK
<1> QED BY <1>3, <1>4, <1>5, <1>6, StripOnly

LEMMA TakeHomeKeeps ==
  ASSUME StripInv, TakeHome PROVE StripInv'
<1>1. StripTypeOK BY DEF StripInv
<1>2. At(frontTab) \in DOMAIN tabs BY <1>1, FrontThere, TabThere
<1>3. tabs' \in Seq(StripTab) /\ Ids' = Ids /\ \A k \in DOMAIN tabs' : \E j \in DOMAIN tabs : SameHome(tabs'[k], tabs[j])
  BY <1>1, <1>2, HostChanges DEF TakeHome
<1>4. UNCHANGED <<frontTab, runtime, closed, popups, recent, cache, fetches, marked, kept>>
  BY DEF TakeHome, iconVars
<1>5. StripTypeOK'
  BY <1>1, <1>3, <1>4 DEF StripTypeOK
<1> QED BY <1>3, <1>4, <1>5, StripOnly

LEMMA OrderedOwn ==
  ASSUME NEW icons, OwnEntries(icons)
  PROVE  OwnEntries(InOrder(icons))
<1> SUFFICES ASSUME NEW x \in InOrder(icons)
             PROVE  x.key \in AccountSpaces \X Hosts /\ x.icon \in Icon /\ x.key[1] = x.icon.by
  BY DEF OwnEntries
<1> DEFINE turn(e) == Cardinality({d \in icons : d.turn < e.turn})
<1>1. PICK e \in icons : x = [key |-> e.key, icon |-> e.icon, turn |-> turn(e)]
  BY DEF InOrder
<1> HIDE DEF turn
<1>2. x.key = e.key /\ x.icon = e.icon
  BY <1>1
<1> QED BY <1>2 DEF OwnEntries

LEMMA ClearSpaceKeeps ==
  ASSUME StripInv, NEW s \in AccountSpaces, ClearSpace(s) PROVE StripInv'
<1>1. StripTypeOK BY DEF StripInv
<1>2. tabs \in Seq(StripTab) /\ \A i \in DOMAIN tabs : tabs[i] \in StripTab
  BY <1>1 DEF StripTypeOK
<1>3. tabs' = [i \in DOMAIN tabs |-> IF tabs[i].space = s THEN [tabs[i] EXCEPT !.host = None] ELSE tabs[i]]
  BY DEF ClearSpace
<1>4. \A i \in DOMAIN tabs : tabs'[i] \in StripTab /\ tabs'[i].id = tabs[i].id /\ tabs'[i].space = tabs[i].space
  BY <1>2, <1>3 DEF StripTab
<1>5. tabs' \in Seq(StripTab) /\ DOMAIN tabs' = DOMAIN tabs
  <2>1. tabs' \in [1..Len(tabs) -> StripTab] /\ Len(tabs) \in Nat
    BY <1>2, <1>3, <1>4
  <2> QED BY <2>1, IsASeq
<1>6. Ids' = Ids /\ \A k \in DOMAIN tabs' : \E j \in DOMAIN tabs : SameHome(tabs'[k], tabs[j])
  BY <1>4, <1>5 DEF Ids, SameHome
<1>7. \A t \in StripTabs : runtime'[t] \in {None, runtime[t]} /\ recent'[t] \in {0, recent[t]}
  BY DEF ClearSpace
<1>8. /\ runtime' \in [StripTabs -> Runtime \cup {None}] /\ recent' \in [StripTabs -> 0..MaxPopups]
      /\ closed' \in [AccountSpaces -> Seq(Hosts)]
  <2>1. runtime' \in [StripTabs -> Runtime \cup {None}]
    BY <1>1, <1>7 DEF ClearSpace, StripTypeOK
  <2>2. recent' \in [StripTabs -> 0..MaxPopups]
    BY <1>1, <1>7, StripAssumption DEF ClearSpace, StripTypeOK
  <2>3. << >> \in Seq(Hosts) OBVIOUS
  <2>4. closed' \in [AccountSpaces -> Seq(Hosts)]
    BY <1>1, <2>3 DEF ClearSpace, StripTypeOK
  <2> QED BY <2>1, <2>2, <2>4
<1>9. popups' \subseteq popups /\ UNCHANGED <<frontTab, fetches, marked, kept>>
  BY DEF ClearSpace
<1>12. OwnEntries(cache')
  <2>1. cache' = InOrder({e \in cache : e.key[1] # s})
    BY DEF ClearSpace
  <2>2. OwnEntries({e \in cache : e.key[1] # s})
    BY DEF StripInv, OwnEntries
  <2> QED BY <2>1, <2>2, OrderedOwn
<1>10. StripTypeOK'
  BY <1>1, <1>5, <1>6, <1>8, <1>9, <1>12 DEF StripTypeOK, OwnEntries
<1>11. \A u \in StripTabs, q \in Runtime : q = runtime'[u] /\ q.icon # None =>
        runtime[u] \in Runtime /\ runtime[u].icon = q.icon
  BY <1>7, StripAssumption
<1> QED BY <1>6, <1>9, <1>10, <1>11, <1>12, StripOnly

(* A tab leaves the strip, and all others stay.                            *)
LEMMA RemovedTab ==
  ASSUME NEW S, NEW q \in Seq(S), NEW p \in DOMAIN q
  PROVE  /\ RemoveAt(q, p) \in Seq(S)
         /\ \A i \in DOMAIN RemoveAt(q, p) : \E j \in DOMAIN q : RemoveAt(q, p)[i] = q[j]
         /\ \A j \in DOMAIN q : j # p => \E i \in DOMAIN RemoveAt(q, p) : RemoveAt(q, p)[i] = q[j]
<1> DEFINE a == SubSeq(q, 1, p - 1)
           b == SubSeq(q, p + 1, Len(q))
<1>1. Len(q) \in Nat /\ DOMAIN q = 1..Len(q) /\ p \in 1..Len(q)
  OBVIOUS
<1>2. /\ a \in Seq(S) /\ Len(a) = p - 1
      /\ \A i \in 1..(p - 1) : a[i] = q[i]
  BY <1>1, SubSeqProperties
<1>3. /\ b \in Seq(S) /\ Len(b) = Len(q) - p
      /\ \A i \in 1..(Len(q) - p) : b[i] = q[p + i]
  BY <1>1, SubSeqProperties
<1>4. RemoveAt(q, p) = a \o b
  BY DEF RemoveAt
<1> HIDE DEF a, b
<1>5. /\ a \o b \in Seq(S) /\ Len(a \o b) = Len(q) - 1 /\ DOMAIN (a \o b) = 1..(Len(q) - 1)
      /\ \A i \in 1..(Len(q) - 1) : (a \o b)[i] = IF i < p THEN q[i] ELSE q[i + 1]
  <2>1. a \o b \in Seq(S) /\ Len(a \o b) = Len(a) + Len(b)
    BY <1>2, <1>3, ConcatProperties
  <2>2. Len(a \o b) = Len(q) - 1
    BY <1>1, <1>2, <1>3, <2>1
  <2>3. ASSUME NEW i \in 1..(Len(q) - 1) PROVE (a \o b)[i] = IF i < p THEN q[i] ELSE q[i + 1]
    <3>1. (a \o b)[i] = IF i <= Len(a) THEN a[i] ELSE b[i - Len(a)]
      BY <1>1, <1>2, <1>3, <2>1, <2>2, ConcatProperties
    <3>2. CASE i < p
      BY <1>1, <1>2, <3>1, <3>2
    <3>3. CASE ~ (i < p)
      <4>1. i - (p - 1) \in 1..(Len(q) - p) /\ p + (i - (p - 1)) = i + 1
        BY <1>1, <3>3
      <4>2. b[i - (p - 1)] = q[i + 1]
        BY <1>3, <4>1
      <4>3. (a \o b)[i] = b[i - (p - 1)]
        BY <1>1, <1>2, <3>1, <3>3
      <4> QED BY <3>3, <4>2, <4>3
    <3> QED BY <3>2, <3>3
  <2>4. DOMAIN (a \o b) = 1..(Len(q) - 1)
    BY <2>1, <2>2
  <2> QED BY <2>1, <2>2, <2>3, <2>4
<1>6. \A i \in 1..(Len(q) - 1) : i \in DOMAIN q /\ i + 1 \in DOMAIN q
  BY <1>1
<1>7. ASSUME NEW j \in DOMAIN q, j # p PROVE \E i \in 1..(Len(q) - 1) : (a \o b)[i] = q[j]
  <2>1. CASE j < p
    <3>1. j \in 1..(Len(q) - 1) BY <1>1, <2>1
    <3> QED BY <1>5, <2>1, <3>1
  <2>2. CASE ~ (j < p)
    <3>1. j - 1 \in 1..(Len(q) - 1) /\ ~ (j - 1 < p) /\ (j - 1) + 1 = j BY <1>1, <1>7, <2>2
    <3> QED BY <1>5, <3>1
  <2> QED BY <2>1, <2>2
<1> QED BY <1>4, <1>5, <1>6, <1>7

(* The neighbour of a tab.                                                 *)
LEMMA Neighbour ==
  ASSUME StripTypeOK, NEW i \in DOMAIN tabs, NEW s
  PROVE  /\ After(i, s) # {} => /\ Min(After(i, s)) \in After(i, s)
                                /\ \A j \in After(i, s) : Min(After(i, s)) <= j
         /\ Before(i, s) # {} => /\ Max(Before(i, s)) \in Before(i, s)
                                 /\ \A j \in Before(i, s) : j <= Max(Before(i, s))
<1>1. DOMAIN tabs = 1..Len(tabs) /\ Len(tabs) \in Nat
  BY DEF StripTypeOK
<1>2. After(i, s) \subseteq Nat /\ Before(i, s) \subseteq 0..Len(tabs)
  BY <1>1 DEF After, Before, Places
<1>3. After(i, s) # {} => /\ Min(After(i, s)) \in After(i, s)
                          /\ \A j \in After(i, s) : Min(After(i, s)) <= j
  BY <1>2, LeastOf
<1>4. Before(i, s) # {} => /\ Max(Before(i, s)) \in Before(i, s)
                           /\ \A j \in Before(i, s) : Max(Before(i, s)) >= j
  BY <1>1, <1>2, GreatestOf
<1>5. \A j \in Before(i, s) : j \in Int
  BY <1>2
<1> QED BY <1>3, <1>4, <1>5

LEMMA RememberedHosts ==
  ASSUME StripTypeOK, NEW s \in AccountSpaces, NEW h \in Hosts \cup {None}
  PROVE  Remembered(s, h) \in [AccountSpaces -> Seq(Hosts)]
<1>1. closed \in [AccountSpaces -> Seq(Hosts)] /\ closed[s] \in Seq(Hosts)
  BY DEF StripTypeOK
<1>2. CASE h = None
  BY <1>1, <1>2 DEF Remembered
<1>3. CASE h # None
  <2> DEFINE all == Append(closed[s], h)
             n == Min({Len(all), MaxClosed})
  <2>1. h \in Hosts BY <1>3
  <2>2. all \in Seq(Hosts) /\ Len(all) \in Nat BY <1>1, <2>1
  <2> HIDE DEF all
  <2>3. n \in {Len(all), MaxClosed} /\ n <= Len(all) /\ n \in Nat
    BY <2>2, LeastOf, StripAssumption
  <2>4. SubSeq(all, Len(all) - n + 1, Len(all)) \in Seq(Hosts)
    <3> DEFINE m == Len(all) - n + 1
    <3>1. m \in Int /\ m \in 1..(Len(all) + 1)
      BY <2>2, <2>3
    <3> HIDE DEF m
    <3>2. \A i \in m..Len(all) : all[i] \in Hosts
      BY <2>2, <3>1
    <3>3. SubSeq(all, m, Len(all)) \in Seq(Hosts)
      BY <2>2, <3>1, <3>2, SubSeqProperties
    <3> QED BY <3>3 DEF m
  <2>5. Remembered(s, h) = [closed EXCEPT ![s] = SubSeq(all, Len(all) - n + 1, Len(all))]
    BY <1>3 DEF Remembered, all
  <2> QED BY <1>1, <2>4, <2>5
<1> QED BY <1>2, <1>3

LEMMA CloseKeeps ==
  ASSUME StripInv, NEW t \in Ids, NEW new \in StripTabs, CloseTab(t, new) PROVE StripInv'
<1> DEFINE s == TabOf(t).space
           next == After(At(t), s)
           previous == Before(At(t), s)
           rest == RemoveAt(tabs, At(t))
<1>1. StripTypeOK BY DEF StripInv
<1>2. /\ t \in StripTabs /\ At(t) \in DOMAIN tabs /\ TabOf(t) \in StripTab
      /\ tabs[At(t)].id = t
  BY <1>1, TabThere
<1>3. s \in AccountSpaces /\ TabOf(t).host \in Hosts \cup {None}
  BY <1>2 DEF StripTab
<1>4. closed' \in [AccountSpaces -> Seq(Hosts)]
  BY <1>1, <1>3, RememberedHosts DEF CloseTab
<1>5. /\ popups' \subseteq StripTabs /\ recent' \in [StripTabs -> 0..MaxPopups]
      /\ UNCHANGED <<cache, fetches, marked, kept>>
  <2>1. /\ popups' = popups \ {t} /\ recent' = [recent EXCEPT ![t] = 0]
        /\ UNCHANGED <<cache, fetches, marked, kept>>
    BY DEF CloseTab
  <2>2. 0 \in 0..MaxPopups BY StripAssumption
  <2> QED BY <1>1, <2>1, <2>2 DEF StripTypeOK
<1>6. tabs \in Seq(StripTab)
  BY <1>1 DEF StripTypeOK
<1>7. /\ rest \in Seq(StripTab)
      /\ \A i \in DOMAIN rest : \E j \in DOMAIN tabs : rest[i] = tabs[j]
      /\ \A j \in DOMAIN tabs : j # At(t) => \E i \in DOMAIN rest : rest[i] = tabs[j]
  BY <1>2, <1>6, RemovedTab
<1>8. CASE next \cup previous = {}
  <2> DEFINE x == [id |-> new, space |-> s, host |-> None]
  <2>1. /\ Fresh(new) /\ frontTab' = new
        /\ tabs' = Append(rest, x)
        /\ runtime' = [runtime EXCEPT ![t] = None, ![new] = NewRuntime]
    BY <1>8 DEF CloseTab
  <2>2. x \in StripTab BY <1>3 DEF StripTab
  <2> HIDE DEF rest
  <2>3. /\ tabs' \in Seq(StripTab) /\ DOMAIN tabs' = 1..(Len(rest) + 1) /\ Len(rest) \in Nat
        /\ tabs'[Len(rest) + 1] = x /\ \A i \in 1..Len(rest) : tabs'[i] = rest[i]
    BY <1>7, <2>1, <2>2
  <2> HIDE DEF x
  <2>4. \A i \in DOMAIN tabs' : \/ i = Len(rest) + 1 /\ tabs'[i] = x
                                \/ i \in DOMAIN rest /\ tabs'[i] = rest[i]
    BY <1>7, <2>3
  <2>5. \A i \in DOMAIN tabs' : \/ tabs'[i].id \in {new} /\ tabs'[i].space = s
                                \/ \E j \in DOMAIN tabs : SameHome(tabs'[i], tabs[j])
    BY <1>7, <2>4 DEF SameHome, x
  <2>6. frontTab' \in Ids'
    BY <2>1, <2>3 DEF Ids, x
  <2>7. /\ runtime' \in [StripTabs -> Runtime \cup {None}] /\ runtime'[new] = NewRuntime
        /\ \A u \in StripTabs \ {new} : runtime'[u] \in {None, runtime[u]}
    BY <1>1, <1>2, <2>1, NewRuntimes DEF StripTypeOK
  <2>8. StripTypeOK'
    BY <1>1, <1>4, <1>5, <2>3, <2>6, <2>7 DEF StripTypeOK
  <2>9. \A u \in {new} : Fresh(u) /\ \A q \in Runtime : q = runtime'[u] => q.icon = None
    BY <2>1, <2>7, NewRuntimes
  <2>10. \A u \in StripTabs \ {new}, q \in Runtime : q = runtime'[u] /\ q.icon # None =>
           runtime[u] \in Runtime /\ runtime[u].icon = q.icon
    BY <2>7, StripAssumption
  <2>11. {new} \in SUBSET StripTabs OBVIOUS
  <2> HIDE DEF s, next, previous
  <2> QED BY <1>5, <2>5, <2>8, <2>9, <2>10, <2>11, StripKeeps
<1>9. CASE next \cup previous # {}
  <2>1. /\ tabs' = rest /\ runtime' = [runtime EXCEPT ![t] = None]
        /\ frontTab' = IF t # frontTab THEN frontTab
                       ELSE tabs[IF next # {} THEN Min(next) ELSE Max(previous)].id
    BY <1>9 DEF CloseTab
  <2>2. (IF next # {} THEN Min(next) ELSE Max(previous)) \in (DOMAIN tabs) \ {At(t)}
    <3>1. next \cup previous \subseteq (DOMAIN tabs) \ {At(t)}
      <4>1. DOMAIN tabs \subseteq Int BY <1>6
      <4> QED BY <1>2, <4>1 DEF After, Before, Places
    <3>2. next # {} => Min(next) \in next
      BY <1>1, <1>2, Neighbour
    <3>3. previous # {} => Max(previous) \in previous
      BY <1>1, <1>2, Neighbour
    <3> QED BY <1>9, <3>1, <3>2, <3>3
  <2>3. \E j \in DOMAIN tabs : j # At(t) /\ tabs[j].id = frontTab'
    <3>1. CASE t # frontTab
      <4>1. PICK j \in DOMAIN tabs : tabs[j].id = frontTab
        BY <1>1 DEF StripTypeOK, Ids
      <4> QED BY <1>2, <2>1, <3>1, <4>1
    <3>2. CASE t = frontTab
      BY <2>1, <2>2, <3>2
    <3> QED BY <3>1, <3>2
  <2>4. frontTab' \in Ids'
    BY <1>7, <2>1, <2>3 DEF Ids
  <2>5. /\ runtime' \in [StripTabs -> Runtime \cup {None}]
        /\ \A u \in StripTabs : runtime'[u] \in {None, runtime[u]}
    BY <1>1, <1>2, <2>1 DEF StripTypeOK
  <2>6. StripTypeOK'
    BY <1>1, <1>4, <1>5, <1>7, <2>1, <2>4, <2>5 DEF StripTypeOK
  <2>7. \A i \in DOMAIN tabs' : \E j \in DOMAIN tabs : SameHome(tabs'[i], tabs[j])
    BY <1>7, <2>1 DEF SameHome
  <2>8. \A u \in StripTabs, q \in Runtime : q = runtime'[u] /\ q.icon # None =>
           runtime[u] \in Runtime /\ runtime[u].icon = q.icon
    BY <2>5, StripAssumption
  <2> QED BY <1>5, <2>6, <2>7, <2>8, StripOnly
<1> QED BY <1>8, <1>9

(* A tab moves among the tabs of its account.                              *)
LEMMA MoveKeeps ==
  ASSUME StripInv, NEW t \in Ids, NEW place \in Places(TabOf(frontTab).space), MoveTab(t, place)
  PROVE  StripInv'
<1> DEFINE s == TabOf(frontTab).space
           from == At(t)
<1>1. StripTypeOK BY DEF StripInv
<1>2. /\ t \in StripTabs /\ from \in DOMAIN tabs /\ TabOf(t) = tabs[from]
      /\ tabs[from].space = s
  BY <1>1, TabThere DEF MoveTab
<1>3. tabs \in Seq(StripTab) /\ DOMAIN tabs = 1..Len(tabs) /\ Len(tabs) \in Nat
  BY <1>1 DEF StripTypeOK
<1>4. place \in DOMAIN tabs /\ from \in Places(s)
  BY <1>2 DEF Places
<1> DEFINE Later(i) == i \in Places(s) /\ from <= i /\ i < place
           Sooner(i) == i \in Places(s) /\ place < i /\ i <= from
<1>5. tabs' = [i \in DOMAIN tabs |->
        CASE i = place -> tabs[from]
          [] Later(i) -> tabs[Min(After(i, s))]
          [] Sooner(i) -> tabs[Max(Before(i, s))]
          [] OTHER -> tabs[i]]
  BY <1>2 DEF MoveTab
<1>6. UNCHANGED <<frontTab, closed, popups, recent, runtime, cache, fetches, marked, kept>>
  BY DEF MoveTab, iconVars
<1>7. \A i \in DOMAIN tabs : i \in Nat
  BY <1>3
\* what comes to each place
<1>8. ASSUME NEW i \in DOMAIN tabs
      PROVE  /\ i = place => tabs'[i] = tabs[from]
             /\ Later(i) => tabs'[i] = tabs[Min(After(i, s))]
             /\ Sooner(i) => tabs'[i] = tabs[Max(Before(i, s))]
             /\ i # place /\ ~Later(i) /\ ~Sooner(i) => tabs'[i] = tabs[i]
  <2>1. from \in Nat /\ place \in Nat /\ i \in Nat
    BY <1>2, <1>4, <1>7
  <2>2. ~ (Later(i) /\ Sooner(i)) /\ ~ (i = place /\ Later(i)) /\ ~ (i = place /\ Sooner(i))
    BY <2>1
  <2> HIDE DEF Later, Sooner, s, from
  <2> QED BY <1>5, <2>2
<1>9. ASSUME NEW i \in DOMAIN tabs, Later(i)
      PROVE  /\ Min(After(i, s)) \in Places(s) /\ Min(After(i, s)) > i
             /\ \A j \in Places(s) : j > i => Min(After(i, s)) <= j
  <2>1. place \in After(i, s) BY <1>9 DEF After
  <2> HIDE DEF Later, s
  <2>2. /\ Min(After(i, s)) \in After(i, s)
        /\ \A j \in After(i, s) : Min(After(i, s)) <= j
    BY <1>1, <2>1, Neighbour
  <2> QED BY <2>2 DEF After
<1>10. ASSUME NEW i \in DOMAIN tabs, Sooner(i)
      PROVE  /\ Max(Before(i, s)) \in Places(s) /\ Max(Before(i, s)) < i
             /\ \A j \in Places(s) : j < i => j <= Max(Before(i, s))
  <2>1. place \in Before(i, s) BY <1>10 DEF Before
  <2> HIDE DEF Sooner, s
  <2>2. /\ Max(Before(i, s)) \in Before(i, s)
        /\ \A j \in Before(i, s) : j <= Max(Before(i, s))
    BY <1>1, <2>1, Neighbour
  <2> QED BY <2>2 DEF Before
<1> HIDE DEF Later, Sooner
<1>11. \A j \in Places(s) : j \in DOMAIN tabs
  BY DEF Places
<1>12. \A i \in DOMAIN tabs : \E j \in DOMAIN tabs : tabs'[i] = tabs[j]
  BY <1>2, <1>8, <1>9, <1>10, <1>11
\* no tab is lost
<1>13. ASSUME NEW j \in DOMAIN tabs PROVE \E i \in DOMAIN tabs : tabs'[i] = tabs[j]
  <2>0. from \in Nat /\ place \in Nat /\ j \in Nat
    BY <1>2, <1>4, <1>7
  <2>1. CASE j = from
    BY <1>4, <1>8, <2>1
  <2>2. CASE j \in Places(s) /\ from < j /\ j <= place
    <3>1. from \in Before(j, s)
      BY <1>4, <2>2 DEF Before
    <3>2. PICK i : i = Max(Before(j, s))
      OBVIOUS
    <3>3. i \in Places(s) /\ i < j /\ \A k \in Places(s) : k < j => k <= i
      <4>1. i \in Before(j, s) /\ \A k \in Before(j, s) : k <= i
        BY <1>1, <3>1, <3>2, Neighbour
      <4> QED BY <4>1 DEF Before
    <3>4. i \in DOMAIN tabs /\ i \in Nat
      BY <3>3, <1>7, <1>11
    <3>5. from <= i
      BY <1>4, <2>2, <3>3
    <3>6. Later(i)
      BY <2>0, <2>2, <3>3, <3>4, <3>5 DEF Later
    <3>7. PICK n : n = Min(After(i, s))
      OBVIOUS
    <3>8. n \in Places(s) /\ n > i /\ n <= j /\ n \in Nat
      BY <1>7, <1>9, <1>11, <2>2, <3>3, <3>4, <3>6, <3>7
    <3>9. n = j
      BY <2>0, <3>3, <3>4, <3>8
    <3> QED BY <1>8, <3>4, <3>6, <3>7, <3>9
  <2>3. CASE j \in Places(s) /\ j < from /\ place <= j
    <3>1. from \in After(j, s)
      BY <1>4, <2>3 DEF After
    <3>2. PICK i : i = Min(After(j, s))
      OBVIOUS
    <3>3. i \in Places(s) /\ i > j /\ \A k \in Places(s) : k > j => i <= k
      <4>1. i \in After(j, s) /\ \A k \in After(j, s) : i <= k
        BY <1>1, <3>1, <3>2, Neighbour
      <4> QED BY <4>1 DEF After
    <3>4. i \in DOMAIN tabs /\ i \in Nat
      BY <3>3, <1>7, <1>11
    <3>5. i <= from
      BY <1>4, <2>0, <2>3, <3>3
    <3>6. Sooner(i)
      BY <2>0, <2>3, <3>3, <3>4, <3>5 DEF Sooner
    <3>7. PICK n : n = Max(Before(i, s))
      OBVIOUS
    <3>8. n \in Places(s) /\ n < i /\ j <= n /\ n \in Nat
      BY <1>7, <1>10, <1>11, <2>3, <3>3, <3>4, <3>6, <3>7
    <3>9. n = j
      BY <2>0, <3>3, <3>4, <3>8
    <3> QED BY <1>8, <3>4, <3>6, <3>7, <3>9
  <2>4. CASE j # from /\ ~ (j \in Places(s) /\ from < j /\ j <= place) /\ ~ (j \in Places(s) /\ j < from /\ place <= j)
    <3>1. j # place /\ ~Later(j) /\ ~Sooner(j)
      BY <2>0, <2>4 DEF Later, Sooner
    <3> QED BY <1>8, <3>1
  <2> HIDE DEF s, from
  <2> QED BY <2>1, <2>2, <2>3, <2>4
<1>14. DOMAIN tabs' = DOMAIN tabs
  BY <1>5
<1>15. tabs' \in Seq(StripTab)
  <2>1. \A i \in 1..Len(tabs) : tabs'[i] \in StripTab
    BY <1>3, <1>12
  <2>2. tabs' \in [1..Len(tabs) -> StripTab]
    BY <1>3, <1>5, <2>1
  <2> QED BY <1>3, <2>2, IsASeq
<1>16. Ids' = Ids
  <2>1. Ids' = {tabs'[i].id : i \in DOMAIN tabs}
    BY <1>14 DEF Ids
  <2>2. ASSUME NEW x \in Ids' PROVE x \in Ids
    <3>1. PICK i \in DOMAIN tabs : x = tabs'[i].id BY <2>1
    <3>2. PICK j \in DOMAIN tabs : tabs'[i] = tabs[j] BY <1>12
    <3> QED BY <3>1, <3>2 DEF Ids
  <2>3. ASSUME NEW x \in Ids PROVE x \in Ids'
    <3>1. PICK j \in DOMAIN tabs : x = tabs[j].id BY DEF Ids
    <3>2. PICK i \in DOMAIN tabs : tabs'[i] = tabs[j] BY <1>13
    <3> QED BY <2>1, <3>1, <3>2
  <2> QED BY <2>2, <2>3
<1>17. StripTypeOK'
  BY <1>1, <1>6, <1>15, <1>16 DEF StripTypeOK
<1>18. \A i \in DOMAIN tabs' : \E j \in DOMAIN tabs : SameHome(tabs'[i], tabs[j])
  BY <1>12, <1>14 DEF SameHome
<1> QED BY <1>6, <1>17, <1>18, StripOnly

-----------------------------------------------------------------------------
(* Icons.                                                                  *)

(* What is kept stays in order when an icon of the tab's own account is    *)
(* remembered and what has no bookmark is dropped.                         *)
KeptOwn(icons, marks) ==
  /\ icons \subseteq [space : AccountSpaces, host : Hosts, icon : Icon]
  /\ \A k \in icons : k.icon.by = k.space /\ k.host \in marks[k.space]

LEMMA RememberOwn ==
  ASSUME StripTypeOK, NEW t \in Ids, NEW icon \in Icon, icon.by = TabOf(t).space, NEW icons, NEW marks,
         KeptOwn(icons, marks)
  PROVE  KeptOwn(Remember(icons, marks, t, icon), marks) /\ KeptOwn(Pruned(Remember(icons, marks, t, icon), marks), marks)
<1> DEFINE s == TabOf(t).space
           h == TabOf(t).host
           new == [space |-> s, host |-> h, icon |-> icon]
           next == {k \in icons : <<k.space, k.host>> # <<s, h>>} \cup {new}
<1>1. s \in AccountSpaces /\ h \in Hosts \cup {None}
  BY TabThere DEF StripTab
<1>2. Remember(icons, marks, t, icon) \in {icons, next}
      /\ (Remember(icons, marks, t, icon) # icons => h # None /\ h \in marks[s])
  BY DEF Remember
<1>3. CASE Remember(icons, marks, t, icon) = icons
  BY <1>3 DEF KeptOwn, Pruned
<1>4. CASE Remember(icons, marks, t, icon) # icons
  <2>1. h \in Hosts /\ h \in marks[s]
    BY <1>1, <1>2, <1>4
  <2>2. new \in [space : AccountSpaces, host : Hosts, icon : Icon] /\ new.icon.by = new.space /\ new.host \in marks[new.space]
    BY <1>1, <2>1
  <2> HIDE DEF new
  <2>3. KeptOwn(next, marks)
    BY <2>2 DEF KeptOwn
  <2>4. Remember(icons, marks, t, icon) = next
    BY <1>2, <1>4
  <2> HIDE DEF next
  <2> QED BY <2>3, <2>4 DEF KeptOwn, Pruned
<1> QED BY <1>3, <1>4

LEMMA ToggleKeeps ==
  ASSUME StripInv, ToggleBookmark PROVE StripInv'
<1> DEFINE s == TabOf(frontTab).space
           h == TabOf(frontTab).host
           marks == [marked EXCEPT ![s] = IF h \in @ THEN @ \ {h} ELSE @ \cup {h}]
           icon == IF runtime[frontTab] = None THEN None ELSE runtime[frontTab].icon
<1>1. StripTypeOK BY DEF StripInv
<1>2. /\ frontTab \in Ids /\ frontTab \in StripTabs /\ s \in AccountSpaces
      /\ At(frontTab) \in DOMAIN tabs /\ tabs[At(frontTab)].id = frontTab /\ tabs[At(frontTab)].space = s
      /\ h \in Hosts \cup {None}
  BY <1>1, FrontThere, TabThere DEF StripTab
<1>3. /\ h # None /\ marked' = marks
      /\ kept' = IF icon = None THEN Pruned(kept, marks) ELSE Remember(Pruned(kept, marks), marks, frontTab, icon)
      /\ UNCHANGED <<tabs, frontTab, closed, popups, recent, runtime, cache, fetches>>
  BY DEF ToggleBookmark, tabVars
<1>4. marks \in [AccountSpaces -> SUBSET Hosts]
  <2>1. h \in Hosts BY <1>2, <1>3
  <2>2. marked[s] \in SUBSET Hosts BY <1>1, <1>2 DEF StripTypeOK
  <2>3. (IF h \in marked[s] THEN marked[s] \ {h} ELSE marked[s] \cup {h}) \in SUBSET Hosts
    BY <2>1, <2>2
  <2> QED BY <1>1, <2>3 DEF StripTypeOK
<1>5. KeptOwn(Pruned(kept, marks), marks)
  <2> HIDE DEF marks
  <2>1. \A k \in Pruned(kept, marks) : k \in kept /\ k.host \in marks[k.space]
    BY DEF Pruned
  <2>2. \A k \in kept : k \in [space : AccountSpaces, host : Hosts, icon : Icon] /\ k.icon.by = k.space
    BY <1>1 DEF StripInv, StripTypeOK
  <2> QED BY <2>1, <2>2 DEF KeptOwn
<1>7. icon # None => icon \in Icon /\ icon.by = s
  <2> SUFFICES ASSUME icon # None PROVE icon \in Icon /\ icon.by = s OBVIOUS
  <2>1. runtime[frontTab] \in Runtime /\ icon = runtime[frontTab].icon
    BY <1>1, <1>2 DEF StripTypeOK
  <2>2. icon \in Icon BY <2>1 DEF Runtime
  <2> QED BY <1>2, <2>1, <2>2 DEF StripInv
<1> HIDE DEF marks, icon
<1>8. KeptOwn(kept', marks)
  <2>1. CASE icon # None
    BY <1>1, <1>2, <1>3, <1>5, <1>7, <2>1, RememberOwn
  <2> QED BY <1>3, <1>5, <2>1
<1>9. StripTypeOK'
  BY <1>1, <1>3, <1>4, <1>8 DEF StripTypeOK, KeptOwn, Ids
<1>10. \A k \in kept' : k.icon.by = k.space /\ k.host \in marked'[k.space]
  BY <1>3, <1>8 DEF KeptOwn
<1> QED BY <1>3, <1>9, <1>10 DEF StripInv

(* A tab shows an icon that its own account fetched.                       *)
LEMMA IconShown ==
  ASSUME StripInv, NEW t \in StripTabs, NEW icon \in Icon, Show(t, icon), tabs' = tabs,
         \A i \in DOMAIN tabs : tabs[i].id = t => tabs[i].space = icon.by
  PROVE  /\ runtime' \in [StripTabs -> Runtime \cup {None}]
         /\ \A i \in DOMAIN tabs', r \in Runtime :
              r = runtime'[tabs'[i].id] /\ r.icon # None => r.icon.by = tabs'[i].space
<1>1. runtime \in [StripTabs -> Runtime \cup {None}] /\ tabs \in Seq(StripTab)
  BY DEF StripInv, StripTypeOK
<1>2. \A i \in DOMAIN tabs : tabs[i].id \in StripTabs
  <2>1. \A i \in DOMAIN tabs : tabs[i] \in StripTab BY <1>1
  <2> QED BY <2>1 DEF StripTab
<1>3. CASE runtime[t] = None
  BY <1>1, <1>3 DEF Show, StripInv
<1>4. CASE runtime[t] # None
  <2> DEFINE v == [runtime[t] EXCEPT !.icon = icon]
  <2>1. runtime[t] \in Runtime BY <1>1, <1>4
  <2>2. v \in Runtime /\ v.icon = icon BY <2>1 DEF Runtime
  <2>3. runtime' = [runtime EXCEPT ![t] = v] BY <1>4 DEF Show
  <2> HIDE DEF v
  <2>4. runtime' \in [StripTabs -> Runtime \cup {None}] /\ runtime'[t] = v
        /\ \A u \in StripTabs \ {t} : runtime'[u] = runtime[u]
    BY <1>1, <2>2, <2>3
  <2> SUFFICES ASSUME NEW i \in DOMAIN tabs, NEW r \in Runtime, r = runtime'[tabs[i].id], r.icon # None
               PROVE  r.icon.by = tabs[i].space
    BY <2>4
  <2>5. CASE tabs[i].id = t
    BY <2>2, <2>4, <2>5
  <2>6. CASE tabs[i].id # t
    BY <1>2, <2>4, <2>6 DEF StripInv
  <2> QED BY <2>5, <2>6
<1> QED BY <1>3, <1>4

LEMMA HomesOf ==
  ASSUME StripInv, NEW t \in Ids
  PROVE  /\ t \in StripTabs /\ TabOf(t).space \in AccountSpaces
         /\ \A i \in DOMAIN tabs : tabs[i].id = t => tabs[i].space = TabOf(t).space
<1>1. StripTypeOK BY DEF StripInv
<1>2. At(t) \in DOMAIN tabs /\ TabOf(t) = tabs[At(t)] /\ tabs[At(t)].id = t /\ t \in StripTabs /\ TabOf(t) \in StripTab
  BY <1>1, TabThere
<1> QED BY <1>2 DEF StripInv, StripTab

LEMMA AnnounceKeeps ==
  ASSUME StripInv, NEW t \in Ids, NEW from \in Hosts, Announce(t, from) PROVE StripInv'
<1> DEFINE s == TabOf(t).space
           hits == {e \in cache : e.key = CacheKey(s, from)}
<1>1. StripTypeOK BY DEF StripInv
<1>2. /\ t \in StripTabs /\ s \in AccountSpaces
      /\ \A i \in DOMAIN tabs : tabs[i].id = t => tabs[i].space = s
  BY HomesOf
<1>3. UNCHANGED <<tabs, frontTab, closed, popups, recent, cache, marked>>
  BY DEF Announce, tabVars
<1>4. CASE hits # {}
  <2> DEFINE icon == (CHOOSE e \in hits : TRUE).icon
  <2>1. /\ Show(t, icon) /\ kept' = Pruned(Remember(kept, marked, t, icon), marked)
        /\ UNCHANGED fetches
    BY <1>4 DEF Announce
  <2>2. icon \in Icon /\ icon.by = s
    <3>1. (CHOOSE e \in hits : TRUE) \in hits BY <1>4
    <3>2. PICK e \in cache : e.key = CacheKey(s, from) /\ icon = e.icon
      BY <3>1
    <3>3. e.icon \in Icon /\ e.key[1] = e.icon.by
      BY DEF StripInv, OwnEntries
    <3> QED BY <3>2, <3>3 DEF CacheKey
  <2> HIDE DEF icon, hits
  <2>3. KeptOwn(kept, marked)
    BY <1>1 DEF StripInv, StripTypeOK, KeptOwn
  <2>4. KeptOwn(kept', marked)
    BY <1>1, <2>1, <2>2, <2>3, RememberOwn
  <2>5. /\ runtime' \in [StripTabs -> Runtime \cup {None}]
        /\ \A i \in DOMAIN tabs', r \in Runtime :
             r = runtime'[tabs'[i].id] /\ r.icon # None => r.icon.by = tabs'[i].space
    <3> HIDE DEF s
    <3> QED BY <1>2, <1>3, <2>1, <2>2, IconShown
  <2>6. StripTypeOK'
    BY <1>1, <1>3, <2>1, <2>4, <2>5 DEF StripTypeOK, KeptOwn, Ids
  <2>7. \A k \in kept' : k.icon.by = k.space /\ k.host \in marked'[k.space]
    BY <1>3, <2>4 DEF KeptOwn
  <2> QED BY <1>3, <2>1, <2>5, <2>6, <2>7 DEF StripInv
<1>5. CASE hits = {}
  <2> DEFINE f == [tab |-> t, space |-> s, from |-> from]
  <2>1. fetches' = fetches \cup {f} /\ UNCHANGED <<runtime, kept>>
    BY <1>5 DEF Announce
  <2>2. f \in Fetching BY <1>2 DEF Fetching
  <2>3. f.tab = t /\ f.space = s OBVIOUS
  <2> HIDE DEF f, s
  <2>4. StripTypeOK'
    BY <1>1, <1>3, <2>1, <2>2 DEF StripTypeOK, Ids
  <2>5. \A i \in DOMAIN tabs', g \in fetches' : tabs'[i].id = g.tab => tabs'[i].space = g.space
    BY <1>2, <1>3, <2>1, <2>3 DEF StripInv
  <2> QED BY <1>3, <2>1, <2>4, <2>5 DEF StripInv
<1> QED BY <1>4, <1>5

LEMMA CachedOwn ==
  ASSUME OwnEntries(cache), NEW icon \in Icon, NEW from \in Hosts
  PROVE  OwnEntries(Cached(CacheKey(icon.by, from), icon))
<1> DEFINE key == CacheKey(icon.by, from)
           room == IF Cardinality(cache) >= MaxCache THEN InOrder({e \in cache : e.turn > 0}) ELSE cache
           same == {e \in room : e.key = key}
<1>1. key \in AccountSpaces \X Hosts /\ key[1] = icon.by
  BY DEF CacheKey, Icon
<1>2. OwnEntries(room)
  <2>1. OwnEntries({e \in cache : e.turn > 0})
    BY DEF OwnEntries
  <2> QED BY <2>1, OrderedOwn
<1>3. \A n : LET x == [key |-> key, icon |-> icon, turn |-> n] IN x.key = key /\ x.icon = icon
  OBVIOUS
<1>4. Cached(key, icon) =
        IF same # {} THEN (room \ same) \cup {[key |-> key, icon |-> icon, turn |-> e.turn] : e \in same}
        ELSE room \cup {[key |-> key, icon |-> icon, turn |-> Cardinality(room)]}
  BY DEF Cached
<1> HIDE DEF key, room
<1>5. \A x \in Cached(key, icon) : x \in room \/ (x.key = key /\ x.icon = icon)
  BY <1>3, <1>4
<1>6. OwnEntries(Cached(key, icon))
  BY <1>1, <1>2, <1>5 DEF OwnEntries
<1> QED BY <1>6 DEF key

LEMMA FetchedKeeps ==
  ASSUME StripInv, NEW f \in fetches, NEW ok \in BOOLEAN, Fetched(f, ok) PROVE StripInv'
<1> DEFINE icon == [from |-> f.from, by |-> f.space]
<1>1. StripTypeOK BY DEF StripInv
<1>2. f \in Fetching /\ f.tab \in StripTabs /\ f.space \in AccountSpaces /\ f.from \in Hosts
  BY <1>1 DEF StripTypeOK, Fetching
<1>3. icon \in Icon /\ icon.by = f.space
  BY <1>2 DEF Icon
<1>4. /\ fetches' \subseteq fetches
      /\ UNCHANGED <<tabs, frontTab, closed, popups, recent, marked>>
  BY DEF Fetched, tabVars
<1>5. \A i \in DOMAIN tabs : tabs[i].id = f.tab => tabs[i].space = f.space
  BY DEF StripInv
<1>6. KeptOwn(kept, marked)
  BY <1>1 DEF StripInv, StripTypeOK, KeptOwn
<1>7. CASE ok
  <2>1. /\ cache' = Cached(CacheKey(icon.by, f.from), icon) /\ Show(f.tab, icon)
        /\ kept' = IF f.tab \in Ids THEN Pruned(Remember(kept, marked, f.tab, icon), marked) ELSE kept
    BY <1>7 DEF Fetched
  <2> HIDE DEF icon
  <2>2. OwnEntries(cache')
    <3>1. OwnEntries(cache) BY DEF StripInv
    <3> QED BY <1>2, <1>3, <2>1, <3>1, CachedOwn
  <2>3. KeptOwn(kept', marked)
    <3>1. CASE f.tab \in Ids
      <4>1. TabOf(f.tab).space = f.space
        BY <1>1, <1>5, <3>1, TabThere
      <4>2. icon.by = TabOf(f.tab).space
        BY <1>3, <4>1
      <4> QED BY <1>1, <1>3, <1>6, <2>1, <3>1, <4>2, RememberOwn
    <3> QED BY <1>6, <2>1, <3>1
  <2>4. /\ runtime' \in [StripTabs -> Runtime \cup {None}]
        /\ \A i \in DOMAIN tabs', r \in Runtime :
             r = runtime'[tabs'[i].id] /\ r.icon # None => r.icon.by = tabs'[i].space
    BY <1>2, <1>3, <1>4, <1>5, <2>1, IconShown
  <2>5. StripTypeOK'
    BY <1>1, <1>4, <2>2, <2>3, <2>4 DEF StripTypeOK, KeptOwn, Ids, OwnEntries
  <2>6. \A k \in kept' : k.icon.by = k.space /\ k.host \in marked'[k.space]
    BY <1>4, <2>3 DEF KeptOwn
  <2> QED BY <1>4, <2>2, <2>4, <2>5, <2>6 DEF StripInv
<1>8. CASE ~ok
  <2>1. UNCHANGED <<cache, runtime, kept>>
    BY <1>8 DEF Fetched
  <2>2. StripTypeOK'
    BY <1>1, <1>4, <2>1 DEF StripTypeOK, Ids
  <2>3. OwnEntries(cache') BY <2>1 DEF StripInv
  <2> QED BY <1>4, <2>1, <2>2, <2>3 DEF StripInv
<1> QED BY <1>7, <1>8

-----------------------------------------------------------------------------
LEMMA InitialStrip == StripInit => StripInv
<1> SUFFICES ASSUME StripInit PROVE StripInv OBVIOUS
<1>1. PICK ids \in Injection(AccountSpaces, StripTabs), order \in SetToSeqs(AccountSpaces) :
        /\ tabs = [i \in DOMAIN order |-> [id |-> ids[order[i]], space |-> order[i], host |-> None]]
        /\ frontTab = tabs[1].id
  BY DEF StripInit
<1> DEFINE n == Cardinality(AccountSpaces)
<1>2. n \in Nat \ {0}
  BY FS_CardinalityType, FS_EmptySet, StripAssumption
<1>3. order \in [1..n -> AccountSpaces]
  BY DEF SetToSeqs
<1>4. ids \in [AccountSpaces -> StripTabs] /\ \A s, r \in AccountSpaces : ids[s] = ids[r] => s = r
  BY DEF Injection, IsInjective
<1>5. tabs \in [1..n -> StripTab]
      /\ \A i \in 1..n : tabs[i].id = ids[order[i]] /\ tabs[i].space = order[i]
  BY <1>1, <1>3, <1>4 DEF StripTab
<1> HIDE DEF n
<1>6. tabs \in Seq(StripTab) /\ DOMAIN tabs = 1..n
  BY <1>2, <1>5, IsASeq
<1>7. frontTab \in Ids
  BY <1>1, <1>2, <1>6 DEF Ids
<1>8. /\ \A t \in StripTabs : runtime[t] = None
      /\ runtime \in [StripTabs -> Runtime \cup {None}]
      /\ popups = {} /\ cache = {} /\ fetches = {} /\ kept = {}
      /\ recent \in [StripTabs -> 0..MaxPopups]
      /\ marked \in [AccountSpaces -> SUBSET Hosts]
  BY StripAssumption DEF StripInit
<1>9. closed \in [AccountSpaces -> Seq(Hosts)]
  <2>1. << >> \in Seq(Hosts) OBVIOUS
  <2> QED BY <2>1 DEF StripInit
<1>10. StripTypeOK
  BY <1>6, <1>7, <1>8, <1>9 DEF StripTypeOK
<1>11. \A i, j \in DOMAIN tabs : tabs[i].id = tabs[j].id => tabs[i].space = tabs[j].space
  BY <1>3, <1>4, <1>5, <1>6
<1>12. \A i \in DOMAIN tabs : runtime[tabs[i].id] = None
  BY <1>5, <1>6, <1>8 DEF StripTab
<1>13. None \notin Runtime BY StripAssumption
<1>14. \A i \in DOMAIN tabs, r \in Runtime :
         r = runtime[tabs[i].id] /\ r.icon # None => r.icon.by = tabs[i].space
  BY <1>12, <1>13
<1> QED BY <1>8, <1>10, <1>11, <1>14 DEF StripInv, OwnEntries

LEMMA NextStrip == StripInv /\ [StripNext]_stripVars => StripInv'
<1> SUFFICES ASSUME StripInv, [StripNext]_stripVars PROVE StripInv' OBVIOUS
<1>1. CASE TabActs
  <2>1. CASE \E t \in StripTabs : ReopenTab(t) \/ \E h \in Hosts \cup {None} : NewTab(t, h)
    BY <2>1, ReopenKeeps, NewTabKeeps
  <2>2. CASE TakeHome \/ ToggleBookmark
    BY <2>2, TakeHomeKeeps, ToggleKeeps
  <2>3. CASE \E s \in AccountSpaces : ClearSpace(s)
    BY <2>3, ClearSpaceKeeps
  <2>4. CASE \E t \in Ids : ActivateTab(t) \/ (\E new \in StripTabs : CloseTab(t, new)) \/ (\E h \in Hosts : TakeTo(t, h))
    BY <2>4, ActivateKeeps, CloseKeeps, TakeToKeeps
  <2>5. CASE \E t \in Ids, new \in StripTabs, h \in Hosts, focused, asPopup \in BOOLEAN :
               PageOpens(t, new, h, focused, asPopup)
    BY <2>5, PageOpensKeeps
  <2>6. CASE \E t \in Ids, place \in Places(TabOf(frontTab).space) : MoveTab(t, place)
    BY <2>6, MoveKeeps
  <2> QED BY <1>1, <2>1, <2>2, <2>3, <2>4, <2>5, <2>6 DEF TabActs
<1>2. CASE \E f \in fetches, ok \in BOOLEAN : Fetched(f, ok)
  BY <1>2, FetchedKeeps
<1>3. CASE \E t \in Ids : PopupsForgotten(t) \/ NoIcon(t) \/ \E h \in Hosts : Announce(t, h)
  BY <1>3, PopupsForgottenKeeps, NoIconKeeps, AnnounceKeeps
<1>4. CASE UNCHANGED stripVars
  <2>1. UNCHANGED <<tabs, frontTab, closed, popups, recent, runtime, cache, fetches, marked, kept>>
    BY <1>4 DEF stripVars, tabVars, iconVars
  <2>2. StripTypeOK' BY <2>1 DEF StripInv, StripTypeOK, Ids
  <2>3. OwnEntries(cache') BY <2>1 DEF StripInv
  <2> QED BY <2>1, <2>2, <2>3 DEF StripInv
<1> QED BY <1>1, <1>2, <1>3, <1>4 DEF StripNext

(* An icon is shown and kept only in the account whose cookies fetched it, *)
(* whatever tabs are opened, moved, closed and cleared while it is fetched *)
(* (updateFavicon(), rememberBookmarkIcon(), pruneBookmarkIcons()).        *)
THEOREM IconsStay == StripSpec => []IconsStayInAccount
<1>1. StripInv => IconsStayInAccount
  <2> SUFFICES ASSUME StripInv PROVE IconsStayInAccount OBVIOUS
  <2>1. ASSUME NEW t \in Ids, runtime[t] # None, runtime[t].icon # None
        PROVE  runtime[t].icon.by = TabOf(t).space
    <3>1. At(t) \in DOMAIN tabs /\ TabOf(t) = tabs[At(t)] /\ tabs[At(t)].id = t /\ t \in StripTabs
      BY TabThere DEF StripInv
    <3>2. runtime[t] \in Runtime
      BY <2>1, <3>1 DEF StripInv, StripTypeOK
    <3> QED BY <2>1, <3>1, <3>2 DEF StripInv
  <2>2. \A k \in kept : k.icon.by = k.space /\ k.host \in marked[k.space]
    BY DEF StripInv
  <2> QED BY <2>1, <2>2 DEF IconsStayInAccount
<1> HIDE DEF StripInv, IconsStayInAccount
<1> QED BY <1>1, InitialStrip, NextStrip, PTL DEF StripSpec

-----------------------------------------------------------------------------
(* Bookmarks. A recursion over folders is a function of which its equation *)
(* is all there is: it has a solution where the arguments get less by some *)
(* rank, and what is true of the arguments is true of the result.          *)

(* What is true of every element as soon as it is true of those of lower rank. *)
LEMMA RankInduction ==
  ASSUME NEW S, NEW Good, NEW rank \in [S -> Nat],
         \A x \in S : (\A y \in S : rank[y] < rank[x] => y \in Good) => x \in Good
  PROVE  S \subseteq Good
<1> SUFFICES ASSUME NEW z \in S, z \notin Good
             PROVE FALSE
  OBVIOUS
<1> DEFINE Bad == {rank[x] : x \in S \ Good}
<1>1. Bad \subseteq Nat /\ Bad # {}
  OBVIOUS
<1>2. Min(Bad) \in Bad /\ \A y \in Bad : Min(Bad) <= y
  BY <1>1, LeastOf
<1>3. PICK x \in S \ Good : rank[x] = Min(Bad)
  BY <1>2
<1>4. \A y \in S : rank[y] < rank[x] => y \in Good
  <2> SUFFICES ASSUME NEW y \in S, rank[y] < rank[x], y \notin Good
               PROVE FALSE
    OBVIOUS
  <2>1. rank[y] \in Bad
    OBVIOUS
  <2>2. rank[x] <= rank[y]
    BY <2>1, <1>2, <1>3
  <2>3. rank[x] \in Nat /\ rank[y] \in Nat
    OBVIOUS
  <2> QED BY <2>2, <2>3
<1> QED BY <1>3, <1>4

(* A recursion whose value depends on those of lower rank has a solution.  *)
Descends(step, rank, S, V) ==
  \A f, g \in [S -> V] : \A x \in S :
    (\A y \in S : rank[y] < rank[x] => f[y] = g[y]) => step[f][x] = step[g][x]

Solvable(step, S, V) == \E f \in [S -> V] : step[f] = f

LEMMA RankRecursion ==
  ASSUME NEW S, NEW V, NEW bound \in Nat, NEW rank \in [S -> 0..bound],
         NEW step \in [[S -> V] -> [S -> V]], NEW start \in [S -> V],
         Descends(step, rank, S, V)
  PROVE  Solvable(step, S, V)
<1> DEFINE Upto(k) == \E f \in [S -> V] : \A x \in S : rank[x] < k => step[f][x] = f[x]
           Ks == {k \in Nat : Upto(k)}
           same == [k \in Nat |-> k]
<1>1. \A k \in Nat : (\A y \in Nat : same[y] < same[k] => y \in Ks) => k \in Ks
  <2> SUFFICES ASSUME NEW k \in Nat, \A y \in Nat : same[y] < same[k] => y \in Ks
               PROVE Upto(k)
    OBVIOUS
  <2>1. CASE k = 0
    <3>1. \A x \in S : rank[x] \in 0..bound
      OBVIOUS
    <3>2. \A x \in S : ~(rank[x] < k)
      BY <3>1, <2>1
    <3> QED BY <3>2
  <2>2. CASE k # 0
    <3>1. k - 1 \in Nat /\ k - 1 < k
      BY <2>2
    <3>2. PICK f \in [S -> V] : \A x \in S : rank[x] < k - 1 => step[f][x] = f[x]
      BY <3>1
    <3>3. step[f] \in [S -> V]
      OBVIOUS
    <3>4. ASSUME NEW x \in S, rank[x] < k
          PROVE  step[step[f]][x] = step[f][x]
      <4>1. \A y \in S : rank[y] < rank[x] => step[f][y] = f[y]
        <5> SUFFICES ASSUME NEW y \in S, rank[y] < rank[x]
                     PROVE step[f][y] = f[y]
          OBVIOUS
        <5>1. rank[x] \in 0..bound /\ rank[y] \in 0..bound
          OBVIOUS
        <5>2. rank[y] < k - 1
          BY <5>1, <3>4
        <5> QED BY <5>2, <3>2
      <4> QED BY <4>1, <3>3 DEF Descends
    <3> QED BY <3>3, <3>4
  <2> QED BY <2>1, <2>2
<1>2. same \in [Nat -> Nat]
  OBVIOUS
<1>3. Nat \subseteq Ks
  <2> HIDE DEF Ks, same
  <2> QED BY <1>1, <1>2, RankInduction
<1>4. bound + 1 \in Nat
  OBVIOUS
<1>5. Upto(bound + 1)
  BY <1>3, <1>4
<1>6. PICK f \in [S -> V] : \A x \in S : rank[x] < bound + 1 => step[f][x] = f[x]
  BY <1>5
<1>7. \A x \in S : step[f][x] = f[x]
  <2> SUFFICES ASSUME NEW x \in S PROVE step[f][x] = f[x]
    OBVIOUS
  <2>1. rank[x] \in 0..bound
    OBVIOUS
  <2>2. rank[x] < bound + 1
    BY <2>1
  <2> QED BY <2>2, <1>6
<1>8. step[f] \in [S -> V]
  OBVIOUS
<1> QED BY <1>7, <1>8 DEF Solvable

-----------------------------------------------------------------------------
(* Sequences that name every element of a set once.                        *)

Lists(s, S) ==
  /\ s \in Seq(S)
  /\ \A x \in S : \E i \in DOMAIN s : s[i] = x
  /\ \A i, j \in DOMAIN s : s[i] = s[j] => i = j

LEMMA SameLength ==
  ASSUME NEW s, NEW S, Lists(s, S)
  PROVE  IsFiniteSet(S) /\ Len(s) = Cardinality(S)
<1>1. s \in [1..Len(s) -> S] /\ Len(s) \in Nat /\ DOMAIN s = 1..Len(s)
  BY LenProperties DEF Lists
<1>2. s \in Bijection(1..Len(s), S)
  BY <1>1 DEF Lists, Bijection, Injection, Surjection, IsInjective
<1>3. ExistsBijection(1..Len(s), S)
  BY <1>2 DEF ExistsBijection
<1> QED BY <1>1, <1>3, FS_NatBijection, FS_CountingElements

LEMMA OrderedLists ==
  ASSUME NEW S, IsFiniteSet(S), NEW before,
         \A x \in S : before[x] \subseteq S /\ x \notin before[x],
         \A x, y \in S : y \in before[x] => before[y] \subseteq before[x],
         \A x, y \in S : x # y => x \in before[y] \/ y \in before[x]
  PROVE  Lists(Ordered(S, before), S) /\ DOMAIN Ordered(S, before) = 1..Cardinality(S)
<1> DEFINE N == Cardinality(S)
           c == [x \in S |-> Cardinality(before[x])]
           o == Ordered(S, before)
<1>1. N \in Nat
  BY FS_CardinalityType
<1>2. \A x \in S : IsFiniteSet(before[x]) /\ c[x] \in 0..(N - 1)
  <2> SUFFICES ASSUME NEW x \in S
               PROVE  IsFiniteSet(before[x]) /\ c[x] \in 0..(N - 1)
    OBVIOUS
  <2>1. IsFiniteSet(before[x]) /\ Cardinality(before[x]) <= N
    BY FS_Subset
  <2>2. Cardinality(before[x]) # N
    BY FS_Subset
  <2>3. Cardinality(before[x]) \in Nat
    BY <2>1, FS_CardinalityType
  <2> QED BY <2>1, <2>2, <2>3, <1>1
<1>3. \A x, y \in S : y \in before[x] => c[y] < c[x]
  <2> SUFFICES ASSUME NEW x \in S, NEW y \in S, y \in before[x]
               PROVE  c[y] < c[x]
    OBVIOUS
  <2>1. before[y] \in SUBSET before[x] /\ before[y] # before[x]
    OBVIOUS
  <2>2. Cardinality(before[y]) <= Cardinality(before[x]) /\ Cardinality(before[y]) # Cardinality(before[x])
    BY <1>2, <2>1, FS_Subset
  <2>3. c[x] \in Int /\ c[y] \in Int
    BY <1>2, <1>1
  <2> QED BY <2>2, <2>3
<1>4. c \in Injection(S, 0..(N - 1))
  <2>1. c \in [S -> 0..(N - 1)]
    BY <1>2
  <2>2. \A x, y \in S : c[x] = c[y] => x = y
    <3> SUFFICES ASSUME NEW x \in S, NEW y \in S, c[x] = c[y], x # y
                 PROVE FALSE
      OBVIOUS
    <3>1. c[x] < c[y] \/ c[y] < c[x]
      BY <1>3
    <3>2. c[x] \in Int /\ c[y] \in Int
      BY <1>2, <1>1
    <3> QED BY <3>1, <3>2
  <2> QED BY <2>1, <2>2 DEF Injection, IsInjective
<1>5. IsFiniteSet(0..(N - 1)) /\ Cardinality(0..(N - 1)) = N
  <2>1. 0 \in Int /\ N - 1 \in Int
    BY <1>1
  <2> QED BY <2>1, <1>1, FS_Interval
<1>6. c \in Surjection(S, 0..(N - 1))
  BY <1>4, <1>5, FS_Injection
<1>7. \A n \in 1..N : \E x \in S : c[x] = n - 1
  <2> SUFFICES ASSUME NEW n \in 1..N PROVE \E x \in S : c[x] = n - 1
    OBVIOUS
  <2>1. n - 1 \in 0..(N - 1)
    BY <1>1
  <2> QED BY <2>1, <1>6 DEF Surjection
<1>8. DOMAIN o = 1..N /\ \A n \in 1..N : o[n] \in S /\ c[o[n]] = n - 1
  BY <1>7 DEF Ordered
<1>9. o = [n \in 1..N |-> o[n]]
  BY DEF Ordered
<1> HIDE DEF o, c
<1>10. o \in Seq(S)
  <2>1. [n \in 1..N |-> o[n]] \in Seq(S)
    BY <1>1, <1>8, IsASeq
  <2> QED BY <2>1, <1>9
<1>11. \A i, j \in 1..N : o[i] = o[j] => i = j
  <2> SUFFICES ASSUME NEW i \in 1..N, NEW j \in 1..N, o[i] = o[j]
               PROVE i = j
    OBVIOUS
  <2>1. i - 1 = j - 1
    BY <1>8
  <2> QED BY <2>1, <1>1
<1>12. \A x \in S : \E i \in 1..N : o[i] = x
  <2> SUFFICES ASSUME NEW x \in S PROVE \E i \in 1..N : o[i] = x
    OBVIOUS
  <2>1. c[x] + 1 \in 1..N /\ c[x] = (c[x] + 1) - 1
    BY <1>2, <1>1
  <2>2. c[o[c[x] + 1]] = c[x] /\ o[c[x] + 1] \in S
    BY <2>1, <1>8
  <2>3. o[c[x] + 1] = x
    BY <2>2, <1>4 DEF Injection, IsInjective
  <2> QED BY <2>1, <2>3
<1> QED BY <1>8, <1>10, <1>11, <1>12 DEF Lists, o

LEMMA AmongPlaces ==
  ASSUME NEW n \in Nat, NEW places \in SUBSET (1..n)
  PROVE  \E at : /\ Lists(at, places)
                 /\ \A s : Among(s, places) = [k \in 1..Cardinality(places) |-> s[at[k]]]
                 /\ DOMAIN at = 1..Cardinality(places)
                 /\ Cardinality(places) \in Nat /\ Cardinality(places) <= n
<1> DEFINE before == [i \in places |-> {j \in places : j < i}]
           at == Ordered(places, before)
<1>1. IsFiniteSet(places) /\ Cardinality(places) \in Nat /\ Cardinality(places) <= n
  <2>1. IsFiniteSet(1..n) /\ Cardinality(1..n) = n
    BY FS_Interval
  <2> QED BY <2>1, FS_Subset, FS_CardinalityType
<1>2. \A x \in places : before[x] \subseteq places /\ x \notin before[x]
  OBVIOUS
<1>3. \A x, y \in places : y \in before[x] => before[y] \subseteq before[x]
  <2>1. ASSUME NEW x \in places, NEW y \in places, NEW z \in places, y < x, z < y
        PROVE  z < x
    <3>1. x \in Nat /\ y \in Nat /\ z \in Nat
      OBVIOUS
    <3> QED BY <2>1, <3>1
  <2> QED BY <2>1
<1>4. \A x, y \in places : x # y => x \in before[y] \/ y \in before[x]
  OBVIOUS
<1>5. Lists(at, places) /\ DOMAIN at = 1..Cardinality(places)
  <2> HIDE DEF before
  <2> QED BY <1>1, <1>2, <1>3, <1>4, OrderedLists
<1>6. \A s : Among(s, places) = [k \in 1..Cardinality(places) |-> s[at[k]]]
  BY <1>5 DEF Among
<1> QED BY <1>1, <1>5, <1>6

LEMMA AmongFacts ==
  ASSUME NEW T, NEW s \in Seq(T), NEW places \in SUBSET DOMAIN s
  PROVE  /\ Among(s, places) \in Seq(T)
         /\ Len(Among(s, places)) = Cardinality(places)
         /\ Len(Among(s, places)) <= Len(s)
         /\ \A k \in DOMAIN Among(s, places) : \E i \in places : Among(s, places)[k] = s[i]
         /\ \A i \in places : \E k \in DOMAIN Among(s, places) : Among(s, places)[k] = s[i]
<1> DEFINE A == Among(s, places)
           M == Cardinality(places)
<1>1. Len(s) \in Nat /\ DOMAIN s = 1..Len(s) /\ \A i \in 1..Len(s) : s[i] \in T
  BY LenProperties, ElementOfSeq
<1>2. PICK at : /\ Lists(at, places)
                /\ A = [k \in 1..M |-> s[at[k]]]
                /\ DOMAIN at = 1..M
                /\ M \in Nat /\ M <= Len(s)
  <2>1. places \in SUBSET (1..Len(s))
    BY <1>1
  <2> QED BY <1>1, <2>1, AmongPlaces
<1>3. \A k \in 1..M : at[k] \in places
  <2>1. at \in Seq(places)
    BY <1>2 DEF Lists
  <2>2. \A k \in DOMAIN at : at[k] \in places
    BY <2>1, LenProperties, ElementOfSeq
  <2> QED BY <1>2, <2>2
<1>4. \A k \in 1..M : s[at[k]] \in T
  BY <1>1, <1>3
<1>5. [k \in 1..M |-> s[at[k]]] \in Seq(T)
  BY <1>2, <1>4, IsASeq
<1>6. A \in Seq(T) /\ DOMAIN A = 1..M
  BY <1>2, <1>5
<1>7. Len(A) = M
  <2>1. Len(A) \in Nat /\ DOMAIN A = 1..Len(A)
    BY <1>6, LenProperties
  <2> QED BY <2>1, <1>6, <1>2
<1>8. \A i \in places : \E k \in DOMAIN at : at[k] = i
  BY <1>2 DEF Lists
<1>9. \A k \in 1..M : A[k] = s[at[k]]
  BY <1>2
<1> HIDE DEF A, M
<1>10. \A k \in DOMAIN A : \E i \in places : A[k] = s[i]
  BY <1>3, <1>6, <1>9
<1>11. \A i \in places : \E k \in DOMAIN A : A[k] = s[i]
  BY <1>8, <1>9, <1>2, <1>6
<1> QED BY <1>2, <1>6, <1>7, <1>10, <1>11 DEF A, M

LEMMA ConcatLists ==
  ASSUME NEW S, NEW R, S \cap R = {}, NEW s, NEW r, Lists(s, S), Lists(r, R)
  PROVE  Lists(s \o r, S \cup R)
<1> DEFINE T == S \cup R
           c == s \o r
<1>1. s \in Seq(S) /\ r \in Seq(R) /\ s \in Seq(T) /\ r \in Seq(T)
  BY SeqMonotonic DEF Lists
<1>2. /\ Len(s) \in Nat /\ Len(r) \in Nat
      /\ DOMAIN s = 1..Len(s) /\ DOMAIN r = 1..Len(r)
      /\ \A i \in 1..Len(s) : s[i] \in S
      /\ \A i \in 1..Len(r) : r[i] \in R
  BY <1>1, LenProperties, ElementOfSeq
<1>3. /\ c \in Seq(T) /\ Len(c) = Len(s) + Len(r)
      /\ \A i \in 1..(Len(s) + Len(r)) : c[i] = IF i <= Len(s) THEN s[i] ELSE r[i - Len(s)]
  BY <1>1, ConcatProperties
<1>4. DOMAIN c = 1..(Len(s) + Len(r))
  BY <1>3, LenProperties
<1> HIDE DEF c
<1>5. \A i \in DOMAIN c : \/ i \in 1..Len(s) /\ c[i] = s[i]
                          \/ i - Len(s) \in 1..Len(r) /\ c[i] = r[i - Len(s)] /\ i \notin 1..Len(s)
  BY <1>2, <1>3, <1>4
<1>6. \A i \in 1..Len(s) : i \in DOMAIN c /\ c[i] = s[i]
  BY <1>2, <1>3, <1>4
<1>7. \A i \in 1..Len(r) : i + Len(s) \in DOMAIN c /\ c[i + Len(s)] = r[i]
  <2> SUFFICES ASSUME NEW i \in 1..Len(r)
               PROVE  i + Len(s) \in DOMAIN c /\ c[i + Len(s)] = r[i]
    OBVIOUS
  <2>1. i + Len(s) \in 1..(Len(s) + Len(r)) /\ ~(i + Len(s) <= Len(s)) /\ (i + Len(s)) - Len(s) = i
    BY <1>2
  <2> QED BY <2>1, <1>3, <1>4
<1>8. \A x \in T : \E i \in DOMAIN c : c[i] = x
  <2> SUFFICES ASSUME NEW x \in T PROVE \E i \in DOMAIN c : c[i] = x
    OBVIOUS
  <2>1. CASE x \in S
    <3>1. PICK i \in 1..Len(s) : s[i] = x
      BY <2>1, <1>2 DEF Lists
    <3> QED BY <3>1, <1>6
  <2>2. CASE x \in R
    <3>1. PICK i \in 1..Len(r) : r[i] = x
      BY <2>2, <1>2 DEF Lists
    <3> QED BY <3>1, <1>7
  <2> QED BY <2>1, <2>2
<1>9. \A i, j \in DOMAIN c : c[i] = c[j] => i = j
  <2> SUFFICES ASSUME NEW i \in DOMAIN c, NEW j \in DOMAIN c, c[i] = c[j]
               PROVE  i = j
    OBVIOUS
  <2>1. i \in Nat /\ j \in Nat
    BY <1>4
  <2>2. CASE i \in 1..Len(s) /\ j \in 1..Len(s)
    BY <2>2, <1>6, <1>2 DEF Lists
  <2>3. CASE i \notin 1..Len(s) /\ j \notin 1..Len(s)
    <3>1. r[i - Len(s)] = r[j - Len(s)] /\ i - Len(s) \in 1..Len(r) /\ j - Len(s) \in 1..Len(r)
      BY <2>3, <1>5
    <3>2. i - Len(s) = j - Len(s)
      BY <3>1, <1>2 DEF Lists
    <3> QED BY <3>2, <2>1, <1>2
  <2>4. CASE i \in 1..Len(s) /\ j \notin 1..Len(s)
    BY <2>4, <1>5, <1>2
  <2>5. CASE i \notin 1..Len(s) /\ j \in 1..Len(s)
    BY <2>5, <1>5, <1>2
  <2> QED BY <2>2, <2>3, <2>4, <2>5
<1> QED BY <1>3, <1>8, <1>9 DEF Lists, c

(* FlattenSeq puts the sequences one after another.                        *)
LEMMA FlattenRecursion ==
  ASSUME NEW T, NEW ss \in Seq(Seq(T)), Len(ss) # 0
  PROVE  \E h : /\ Seqs!FlattenSeq(ss) = h[Len(ss)]
               /\ h[1] = ss[1]
               /\ \A i \in 2..Len(ss) : h[i] = h[i - 1] \o ss[i]
<1> DEFINE n == Len(ss)
           S == 1..n
           V == Seq(T)
           next(f) == [i \in S |-> IF i = 1 THEN ss[i] ELSE f[i - 1] \o ss[i]]
           step == [f \in [S -> V] |-> next(f)]
           rank == [i \in S |-> i]
           h == CHOOSE f : f = next(f)
<1>1. n \in Nat /\ DOMAIN ss = S /\ ss \in [S -> V] /\ \A i \in S : ss[i] \in V
  BY LenProperties, ElementOfSeq
<1>2. step \in [[S -> V] -> [S -> V]]
  <2> SUFFICES ASSUME NEW f \in [S -> V], NEW i \in S
               PROVE  (IF i = 1 THEN ss[i] ELSE f[i - 1] \o ss[i]) \in V
    OBVIOUS
  <2>1. CASE i = 1
    BY <2>1, <1>1
  <2>2. CASE i # 1
    <3>1. i - 1 \in S
      BY <1>1, <2>2
    <3>2. f[i - 1] \in V /\ ss[i] \in V
      BY <3>1, <1>1
    <3> QED BY <2>2, <3>2, ConcatProperties
  <2> QED BY <2>1, <2>2
<1>3. rank \in [S -> 0..n]
  BY <1>1
<1>4. ASSUME NEW f \in [S -> V], NEW g \in [S -> V], NEW x \in S,
             \A y \in S : rank[y] < rank[x] => f[y] = g[y]
      PROVE  step[f][x] = step[g][x]
  <2>1. CASE x = 1
    BY <2>1
  <2>2. CASE x # 1
    <3>1. x - 1 \in S /\ x - 1 < x
      BY <1>1, <2>2
    <3> QED BY <3>1, <1>4
  <2> QED BY <2>1, <2>2
<1>5. Solvable(step, S, V)
  <2>1. Descends(step, rank, S, V)
    BY <1>4, Zenon DEF Descends
  <2>2. n \in Nat /\ ss \in [S -> V]
    BY <1>1
  <2> HIDE DEF step, rank, S, V, n
  <2> QED BY <2>2, <1>2, <1>3, <2>1, RankRecursion
<1>6. \E f : f = next(f)
  BY <1>5, Zenon DEF Solvable
<1>7. h = next(h)
  BY <1>6, Zenon
<1>8. Seqs!FlattenSeq(ss) = h[Len(ss)]
  BY Zenon DEF Seqs!FlattenSeq
<1> HIDE DEF h
<1>9. \A i \in S : h[i] = IF i = 1 THEN ss[i] ELSE h[i - 1] \o ss[i]
  BY <1>7
<1>10. 1 \in S /\ \A i \in 2..n : i \in S /\ i # 1
  BY <1>1
<1> QED BY <1>8, <1>9, <1>10

LEMMA FlattenType ==
  ASSUME NEW T, NEW ss \in Seq(Seq(T))
  PROVE  Seqs!FlattenSeq(ss) \in Seq(T)
<1>1. CASE Len(ss) = 0
  <2>1. ss = << >>
    BY <1>1, EmptySeq
  <2> QED BY <2>1, <1>1, EmptySeq DEF Seqs!FlattenSeq
<1>2. CASE Len(ss) # 0
  <2>1. PICK h : /\ Seqs!FlattenSeq(ss) = h[Len(ss)]
                 /\ h[1] = ss[1]
                 /\ \A i \in 2..Len(ss) : h[i] = h[i - 1] \o ss[i]
    BY <1>2, FlattenRecursion
  <2> DEFINE S == 1..Len(ss)
             Good == {i \in S : h[i] \in Seq(T)}
             rank == [i \in S |-> i]
  <2>2. Len(ss) \in Nat /\ \A i \in S : ss[i] \in Seq(T)
    BY LenProperties, ElementOfSeq
  <2>3. ASSUME NEW x \in S, \A y \in S : rank[y] < rank[x] => y \in Good
        PROVE  x \in Good
    <3>1. CASE x = 1
      BY <3>1, <2>1, <2>2
    <3>2. CASE x # 1
      <4>1. x - 1 \in S /\ x - 1 < x /\ x \in 2..Len(ss)
        BY <2>2, <3>2
      <4>2. h[x - 1] \in Seq(T) /\ ss[x] \in Seq(T)
        BY <4>1, <2>2, <2>3
      <4>3. h[x] = h[x - 1] \o ss[x]
        BY <4>1, <2>1
      <4> QED BY <4>2, <4>3, ConcatProperties
    <3> QED BY <3>1, <3>2
  <2>4. rank \in [S -> Nat]
    BY <2>2
  <2>5. S \subseteq Good
    <3> HIDE DEF Good, rank, S
    <3> QED BY <2>3, <2>4, RankInduction
  <2>6. Len(ss) \in S
    BY <2>2, <1>2
  <2> QED BY <2>5, <2>6, <2>1
<1> QED BY <1>1, <1>2

LEMMA FlattenLists ==
  ASSUME NEW T, NEW ss \in Seq(Seq(T)), NEW part \in [DOMAIN ss -> SUBSET T],
         \A k \in DOMAIN ss : Lists(ss[k], part[k]),
         \A k, j \in DOMAIN ss : k # j => part[k] \cap part[j] = {}
  PROVE  Lists(Seqs!FlattenSeq(ss), UNION {part[k] : k \in DOMAIN ss})
<1> DEFINE S == 1..Len(ss)
<1>0. Len(ss) \in Nat /\ DOMAIN ss = S
  BY LenProperties
<1>1. CASE Len(ss) = 0
  <2>1. ss = << >> /\ Seqs!FlattenSeq(ss) = << >>
    BY <1>1, EmptySeq DEF Seqs!FlattenSeq
  <2>2. UNION {part[k] : k \in DOMAIN ss} = {}
    BY <1>0, <1>1
  <2>3. << >> \in Seq({}) /\ DOMAIN << >> = {}
    BY EmptySeq
  <2> QED BY <2>1, <2>2, <2>3 DEF Lists
<1>2. CASE Len(ss) # 0
  <2>1. PICK h : /\ Seqs!FlattenSeq(ss) = h[Len(ss)]
                 /\ h[1] = ss[1]
                 /\ \A i \in 2..Len(ss) : h[i] = h[i - 1] \o ss[i]
    BY <1>2, FlattenRecursion
  <2> DEFINE upto(i) == UNION {part[k] : k \in 1..i}
             Good == {i \in S : Lists(h[i], upto(i))}
             rank == [i \in S |-> i]
  <2>3. ASSUME NEW x \in S, \A y \in S : rank[y] < rank[x] => y \in Good
        PROVE  x \in Good
    <3>1. CASE x = 1
      <4>1. upto(1) = part[1]
        <5>1. 1..1 = {1}
          OBVIOUS
        <5> QED BY <5>1
      <4>2. Lists(h[1], part[1])
        BY <3>1, <2>1, <1>0
      <4> QED BY <4>1, <4>2, <3>1
    <3>2. CASE x # 1
      <4>1. x - 1 \in S /\ x - 1 < x /\ x \in 2..Len(ss)
        BY <1>0, <3>2
      <4>2. Lists(h[x - 1], upto(x - 1)) /\ Lists(ss[x], part[x])
        BY <4>1, <1>0, <2>3
      <4>3. h[x] = h[x - 1] \o ss[x]
        BY <4>1, <2>1
      <4>4. upto(x - 1) \cap part[x] = {}
        <5>1. \A k \in 1..(x - 1) : k \in S /\ k # x
          BY <1>0
        <5>2. \A k \in 1..(x - 1) : part[k] \cap part[x] = {}
          BY <5>1, <1>0
        <5> QED BY <5>2
      <4>5. upto(x) = upto(x - 1) \cup part[x]
        <5>1. 1..x = (1..(x - 1)) \cup {x}
          BY <1>0
        <5> QED BY <5>1
      <4>6. Lists(h[x], upto(x - 1) \cup part[x])
        <5> SUFFICES ASSUME NEW before, before = upto(x - 1)
                     PROVE  Lists(h[x], before \cup part[x])
          OBVIOUS
        <5>1. Lists(h[x - 1], before) /\ before \cap part[x] = {}
          BY <4>2, <4>4
        <5> QED BY <5>1, <4>2, <4>3, ConcatLists
      <4> QED BY <4>5, <4>6
    <3> QED BY <3>1, <3>2
  <2>4. rank \in [S -> Nat]
    BY <1>0
  <2>5. S \subseteq Good
    <3> HIDE DEF Good, rank, S
    <3> QED BY <2>3, <2>4, RankInduction
  <2>6. Len(ss) \in S
    BY <1>0, <1>2
  <2>7. Lists(h[Len(ss)], upto(Len(ss)))
    BY <2>5, <2>6
  <2> QED BY <2>7, <2>1, <1>0
<1> QED BY <1>1, <1>2

-----------------------------------------------------------------------------
(* Paths, and the entries of a level of the tree.                          *)

IdsApart(items) == \A i, j \in DOMAIN items : items[i].id = items[j].id => i = j

LEMMA AmongApart ==
  ASSUME NEW T, NEW s \in Seq(T), NEW places \in SUBSET DOMAIN s, IdsApart(s)
  PROVE  IdsApart(Among(s, places))
<1>1. Len(s) \in Nat /\ DOMAIN s = 1..Len(s)
  BY LenProperties
<1>2. PICK at : /\ Lists(at, places)
                /\ Among(s, places) = [k \in 1..Cardinality(places) |-> s[at[k]]]
                /\ DOMAIN at = 1..Cardinality(places)
                /\ Cardinality(places) \in Nat /\ Cardinality(places) <= Len(s)
  <2>1. places \in SUBSET (1..Len(s))
    BY <1>1
  <2> QED BY <1>1, <2>1, AmongPlaces
<1> DEFINE A == Among(s, places)
<1>3. \A k \in DOMAIN at : at[k] \in DOMAIN s
  <2>1. at \in Seq(places)
    BY <1>2 DEF Lists
  <2>2. \A k \in DOMAIN at : at[k] \in places
    BY <2>1, LenProperties, ElementOfSeq
  <2> QED BY <2>2
<1>4. DOMAIN A = DOMAIN at /\ \A k \in DOMAIN at : A[k] = s[at[k]]
  BY <1>2
<1>5. \A i, j \in DOMAIN at : at[i] = at[j] => i = j
  BY <1>2 DEF Lists
<1> HIDE DEF A
<1>6. \A i, j \in DOMAIN A : A[i].id = A[j].id => i = j
  <2> SUFFICES ASSUME NEW i \in DOMAIN A, NEW j \in DOMAIN A, A[i].id = A[j].id
               PROVE i = j
    OBVIOUS
  <2>1. s[at[i]].id = s[at[j]].id
    BY <1>4
  <2>2. at[i] = at[j]
    BY <2>1, <1>3, <1>4 DEF IdsApart
  <2> QED BY <2>2, <1>4, <1>5
<1> QED BY <1>6 DEF IdsApart, A

(* A path leads to another one when its names begin it.                    *)
LEMMA PrefixMeans ==
  ASSUME NEW T, NEW p \in Seq(T), NEW q \in Seq(T)
  PROVE  Seqs!IsPrefix(p, q) <=> Len(p) <= Len(q) /\ \A i \in 1..Len(p) : p[i] = q[i]
<1>1. /\ Len(p) \in Nat /\ Len(q) \in Nat
      /\ \A i \in 1..Len(p) : p[i] \in T
      /\ \A i \in 1..Len(q) : q[i] \in T
  BY LenProperties, ElementOfSeq
<1> SUFFICES ASSUME Len(p) <= Len(q)
             PROVE  SubSeq(p, 1, Len(p)) = SubSeq(q, 1, Len(p)) <=> \A i \in 1..Len(p) : p[i] = q[i]
  BY DEF Seqs!IsPrefix
<1>2. \A i \in 1..Len(p) : q[i] \in T
  BY <1>1
<1>3. SubSeq(p, 1, Len(p)) = p
  BY SubSeqFull
<1>4. 1 \in Int /\ Len(p) \in Int
  BY <1>1
<1> DEFINE r == SubSeq(q, 1, Len(p))
<1>5. /\ r \in Seq(T)
      /\ Len(r) = IF 1 <= Len(p) THEN Len(p) - 1 + 1 ELSE 0
      /\ \A i \in 1..(Len(p) - 1 + 1) : r[i] = q[1 + i - 1]
  BY <1>2, <1>4, SubSeqProperties
<1>6. Len(r) = Len(p) /\ \A i \in 1..Len(p) : r[i] = q[i]
  BY <1>1, <1>5
<1> HIDE DEF r
<1>7. p = r <=> \A i \in 1..Len(p) : p[i] = r[i]
  BY <1>5, <1>6, SeqEqual
<1> QED BY <1>3, <1>6, <1>7 DEF r

Paths == Seq(FolderNames)

LEMMA InPathMeans ==
  ASSUME NEW item, item.folderPath \in Paths, NEW p \in Paths
  PROVE  inPath(item, p) <=>
           Len(p) <= Len(item.folderPath) /\ \A i \in 1..Len(p) : p[i] = item.folderPath[i]
BY PrefixMeans DEF inPath, Paths

LEMMA Appended ==
  ASSUME NEW T, NEW p \in Seq(T), NEW e \in T
  PROVE  /\ Append(p, e) \in Seq(T) /\ Len(Append(p, e)) = Len(p) + 1
         /\ \A i \in 1..Len(p) : Append(p, e)[i] = p[i]
         /\ Append(p, e)[Len(p) + 1] = e
  OBVIOUS

(* The key under which a bookmark stands.                                  *)
LEMMA KeyHere ==
  ASSUME NEW item, NEW p, item.folderPath = p
  PROVE  KeyAt(item, p).id = item.id
<1> DEFINE unnamed == ""
<1>1. KeyAt(item, p) = [id |-> item.id, name |-> unnamed]
  BY DEF KeyAt
<1> HIDE DEF unnamed
<1> QED BY <1>1

LEMMA KeyBelow ==
  ASSUME NEW item, item.folderPath \in Paths, NEW p \in Paths, inPath(item, p), item.folderPath # p
  PROVE  /\ Len(p) < Len(item.folderPath)
         /\ item.folderPath[Len(p) + 1] \in FolderNames
         /\ KeyAt(item, p) = [id |-> 0, name |-> item.folderPath[Len(p) + 1]]
<1> DEFINE q == item.folderPath
<1>1. Len(p) \in Nat /\ Len(q) \in Nat /\ p \in Seq(FolderNames) /\ q \in Seq(FolderNames)
  BY LenProperties DEF Paths
<1>2. Len(p) <= Len(q) /\ \A i \in 1..Len(p) : p[i] = q[i]
  BY InPathMeans
<1>3. Len(p) # Len(q)
  BY <1>1, <1>2, SeqEqual
<1>4. Len(p) + 1 \in 1..Len(q) /\ Len(p) < Len(q)
  BY <1>1, <1>2, <1>3
<1>5. q[Len(p) + 1] \in FolderNames
  BY <1>1, <1>4, ElementOfSeq
<1> QED BY <1>4, <1>5 DEF KeyAt

LEMMA UnderFolder ==
  ASSUME NEW item, item.folderPath \in Paths, NEW p \in Paths, NEW name \in FolderNames
  PROVE  inPath(item, Append(p, name)) <=>
           inPath(item, p) /\ item.folderPath # p /\ item.folderPath[Len(p) + 1] = name
<1> DEFINE q == item.folderPath
           a == Append(p, name)
<1>1. Len(p) \in Nat /\ Len(q) \in Nat /\ p \in Seq(FolderNames)
  BY LenProperties DEF Paths
<1>2. /\ a \in Seq(FolderNames) /\ Len(a) = Len(p) + 1
      /\ \A i \in 1..Len(p) : a[i] = p[i]
      /\ a[Len(p) + 1] = name
  BY <1>1, Appended
<1>3. inPath(item, a) <=> Len(a) <= Len(q) /\ \A i \in 1..Len(a) : a[i] = q[i]
  BY <1>2, InPathMeans DEF Paths
<1>4. inPath(item, p) <=> Len(p) <= Len(q) /\ \A i \in 1..Len(p) : p[i] = q[i]
  BY InPathMeans
<1> HIDE DEF a
<1>5. ASSUME inPath(item, a)
      PROVE  inPath(item, p) /\ q # p /\ q[Len(p) + 1] = name
  <2>1. Len(p) + 1 <= Len(q) /\ \A i \in 1..(Len(p) + 1) : a[i] = q[i]
    BY <1>5, <1>3, <1>2
  <2>2. Len(p) <= Len(q) /\ Len(p) # Len(q)
    BY <2>1, <1>1
  <2>3. Len(p) + 1 \in 1..(Len(p) + 1) /\ \A i \in 1..Len(p) : i \in 1..(Len(p) + 1)
    BY <1>1
  <2>4. \A i \in 1..Len(p) : p[i] = q[i]
    BY <2>1, <2>3, <1>2
  <2>5. q[Len(p) + 1] = name
    BY <2>1, <2>3, <1>2
  <2> QED BY <2>2, <2>4, <2>5, <1>4
<1>6. ASSUME inPath(item, p), q # p, q[Len(p) + 1] = name
      PROVE  inPath(item, a)
  <2>1. Len(p) < Len(q)
    BY <1>6, KeyBelow
  <2>2. \A i \in 1..Len(p) : p[i] = q[i]
    BY <1>6, <1>4
  <2>3. \A i \in 1..(Len(p) + 1) : i \in 1..Len(p) \/ i = Len(p) + 1
    BY <1>1
  <2>4. \A i \in 1..(Len(p) + 1) : a[i] = q[i]
    BY <2>2, <2>3, <1>2, <1>6
  <2>5. Len(p) + 1 <= Len(q)
    BY <2>1, <1>1
  <2> QED BY <2>4, <2>5, <1>2, <1>3
<1> QED BY <1>5, <1>6 DEF a

-----------------------------------------------------------------------------
(* The entries of a level.                                                 *)

Triples == Nat \X Nat \X Nat

LEMMA EarlierOrders ==
  /\ \A a \in Triples : ~Earlier(a, a)
  /\ \A a, b, c \in Triples : Earlier(a, b) /\ Earlier(b, c) => Earlier(a, c)
  /\ \A a, b \in Triples : a[3] # b[3] => Earlier(a, b) \/ Earlier(b, a)
<1>0. \A a \in Triples : a[1] \in Nat /\ a[2] \in Nat /\ a[3] \in Nat
  BY DEF Triples
<1>1. \A a \in Triples : ~Earlier(a, a)
  BY <1>0 DEF Earlier
<1>2. ASSUME NEW a \in Triples, NEW b \in Triples, NEW c \in Triples, Earlier(a, b), Earlier(b, c)
      PROVE  Earlier(a, c)
  BY <1>0, <1>2 DEF Earlier
<1>3. ASSUME NEW a \in Triples, NEW b \in Triples, a[3] # b[3]
      PROVE  Earlier(a, b) \/ Earlier(b, a)
  BY <1>0, <1>3 DEF Earlier
<1> QED BY <1>1, <1>2, <1>3

Within(items, path) == {i \in DOMAIN items : inPath(items[i], path)}

KeysAt(items, path) == {KeyAt(items[i], path) : i \in Within(items, path)}

LEMMA OrderTypes ==
  ASSUME NEW item \in Bookmark, NEW depth \in Nat
  PROVE  bookmarkOrder(item, depth) \in Nat
<1>1. item.order \in Nat /\ item.orderPath \in Seq(Nat)
  BY DEF Bookmark
<1>2. Len(item.orderPath) \in Nat /\ \A i \in 1..Len(item.orderPath) : item.orderPath[i] \in Nat
  BY <1>1, LenProperties, ElementOfSeq
<1>3. depth < Len(item.orderPath) => depth + 1 \in 1..Len(item.orderPath)
  BY <1>2
<1> QED BY <1>1, <1>2, <1>3 DEF bookmarkOrder

LEMMA EntriesLists ==
  ASSUME NEW items \in Seq(Bookmark), NEW path \in Paths
  PROVE  Lists(bookmarkEntries(items, path), KeysAt(items, path))
<1> DEFINE within == Within(items, path)
           keys == KeysAt(items, path)
           members(k) == {i \in within : KeyAt(items[i], path) = k}
           orders(k) == {bookmarkOrder(items[i], Len(path)) : i \in members(k)}
           rank == [k \in keys |-> <<Min(orders(k)), IF k.id = 0 THEN 1 ELSE 0, Min(members(k))>>]
           before == [k \in keys |-> {j \in keys : Earlier(rank[j], rank[k])}]
<1>1. Len(items) \in Nat /\ DOMAIN items = 1..Len(items) /\ \A i \in 1..Len(items) : items[i] \in Bookmark
  BY LenProperties, ElementOfSeq
<1>2. Len(path) \in Nat
  BY LenProperties DEF Paths
<1>3. within \subseteq Nat /\ within \subseteq 1..Len(items)
  BY <1>1 DEF Within
<1>4. IsFiniteSet(keys)
  <2>1. IsFiniteSet(1..Len(items))
    BY <1>1, FS_Interval
  <2>2. IsFiniteSet(within)
    BY <2>1, <1>3, FS_Subset
  <2> DEFINE key == [i \in within |-> KeyAt(items[i], path)]
  <2>3. key \in Surjection(within, keys)
    BY DEF Surjection, KeysAt
  <2> HIDE DEF within, keys, key
  <2> QED BY <2>2, <2>3, FS_Surjection
<1>5. \A k \in keys : members(k) # {} /\ members(k) \subseteq Nat
  BY <1>3 DEF KeysAt
<1>6. \A k \in keys : Min(members(k)) \in members(k)
  <2> SUFFICES ASSUME NEW k \in keys PROVE Min(members(k)) \in members(k)
    OBVIOUS
  <2> QED BY <1>5, LeastOf
<1>7. \A k \in keys : orders(k) # {} /\ orders(k) \subseteq Nat
  <2> SUFFICES ASSUME NEW k \in keys PROVE orders(k) # {} /\ orders(k) \subseteq Nat
    OBVIOUS
  <2>1. \A i \in members(k) : items[i] \in Bookmark
    BY <1>1, <1>3
  <2>2. \A i \in members(k) : bookmarkOrder(items[i], Len(path)) \in Nat
    BY <2>1, <1>2, OrderTypes
  <2> QED BY <2>2, <1>5
<1>8. \A k \in keys : Min(orders(k)) \in Nat
  <2> SUFFICES ASSUME NEW k \in keys PROVE Min(orders(k)) \in Nat
    OBVIOUS
  <2>1. Min(orders(k)) \in orders(k)
    BY <1>7, LeastOf
  <2> QED BY <2>1, <1>7
<1>9. \A k \in keys : rank[k] \in Triples /\ rank[k][3] \in members(k)
  <2> HIDE DEF keys, members, orders
  <2> QED BY <1>5, <1>6, <1>8 DEF Triples
<1>10. \A j, k \in keys : j # k => rank[j][3] # rank[k][3]
  <2>1. \A j, k \in keys : \A i : i \in members(j) /\ i \in members(k) => j = k
    OBVIOUS
  <2> QED BY <2>1, <1>9
<1>11. bookmarkEntries(items, path) = Ordered(keys, before)
  BY DEF bookmarkEntries, Within, KeysAt
<1> HIDE DEF rank, keys
<1>12. \A x \in keys : before[x] \subseteq keys /\ x \notin before[x]
  BY <1>9, EarlierOrders
<1>13. \A x, y \in keys : y \in before[x] => before[y] \subseteq before[x]
  BY <1>9, EarlierOrders
<1>14. \A x, y \in keys : x # y => x \in before[y] \/ y \in before[x]
  BY <1>9, <1>10, EarlierOrders
<1>15. Lists(Ordered(keys, before), keys)
  <2> HIDE DEF before
  <2> QED BY <1>4, <1>12, <1>13, <1>14, OrderedLists
<1> QED BY <1>11, <1>15 DEF keys

-----------------------------------------------------------------------------
(* The export of a level: its bookmarks, and those of its folders.         *)

LEMMA Typed ==
  ASSUME NEW items \in Seq(Bookmark), NEW i \in DOMAIN items
  PROVE  /\ items[i] \in Bookmark
         /\ items[i].id \in Nat /\ items[i].id # 0
         /\ items[i].folderPath \in Paths
         /\ items[i].location \in Locations
         /\ items[i].space \in AccountSpaces
<1>1. items[i] \in Bookmark
  BY LenProperties, ElementOfSeq
<1>2. items[i].id \in 1..(MaxItems + 1)
  BY <1>1 DEF Bookmark
<1>3. items[i].id \in Nat /\ items[i].id # 0
  BY <1>2, BoundsAssumption
<1> QED BY <1>1, <1>3 DEF Bookmark, Paths

\* The identifiers of what a level and the levels below it hold.
Under(items, path) == {items[i].id : i \in Within(items, path)}

LEMMA DeepestPath ==
  ASSUME NEW items \in Seq(Bookmark)
  PROVE  \E deepest \in Nat : \A i \in DOMAIN items : Len(items[i].folderPath) <= deepest
<1> DEFINE S == 0..Len(items)
           Good == {k \in S : \E d \in Nat : \A i \in 1..k : Len(items[i].folderPath) <= d}
           rank == [k \in S |-> k]
<1>1. Len(items) \in Nat /\ DOMAIN items = 1..Len(items)
  BY LenProperties
<1>2. \A i \in 1..Len(items) : Len(items[i].folderPath) \in Nat
  BY <1>1, Typed, LenProperties DEF Paths
<1>3. ASSUME NEW x \in S, \A y \in S : rank[y] < rank[x] => y \in Good
      PROVE  x \in Good
  <2>1. CASE x = 0
    <3>1. \A i \in 1..0 : Len(items[i].folderPath) <= 0
      OBVIOUS
    <3> QED BY <2>1, <3>1
  <2>2. CASE x # 0
    <3>1. x - 1 \in S /\ x - 1 < x /\ x \in 1..Len(items)
      BY <1>1, <2>2
    <3>2. PICK d \in Nat : \A i \in 1..(x - 1) : Len(items[i].folderPath) <= d
      BY <3>1, <1>3
    <3> DEFINE l == Len(items[x].folderPath)
    <3>3. l \in Nat /\ d + l \in Nat
      BY <3>1, <1>2
    <3>4. ASSUME NEW i \in 1..x
          PROVE  Len(items[i].folderPath) <= d + l
      <4>1. i \in 1..(x - 1) \/ i = x
        BY <3>1
      <4>2. i \in 1..Len(items)
        BY <3>1
      <4>3. Len(items[i].folderPath) <= d \/ Len(items[i].folderPath) = l
        BY <4>1, <3>2
      <4>4. Len(items[i].folderPath) \in Nat
        BY <4>2, <1>2
      <4> HIDE DEF l
      <4> QED BY <3>3, <4>3, <4>4
    <3> QED BY <3>3, <3>4
  <2> QED BY <2>1, <2>2
<1>4. rank \in [S -> Nat]
  BY <1>1
<1>5. S \subseteq Good
  <2> HIDE DEF Good, rank, S
  <2> QED BY <1>3, <1>4, RankInduction
<1>6. Len(items) \in S
  BY <1>1
<1> QED BY <1>1, <1>5, <1>6

\* What the export writes for one level, given what it writes for the levels below.
Pieces(items, path, below) ==
  LET entries == bookmarkEntries(items, path)
  IN [n \in DOMAIN entries |->
        IF entries[n].id # 0 THEN <<entries[n].id>>
        ELSE below[Append(path, entries[n].name)]]

\* The key of a folder of a level, and what it stands for.
LEMMA EntryOf ==
  ASSUME NEW items \in Seq(Bookmark), NEW path \in Paths, NEW i \in Within(items, path)
  PROVE  LET k == KeyAt(items[i], path) IN
         /\ k.id \in Nat
         /\ k.id # 0 => k.id = items[i].id
         /\ k.id = 0 => /\ k.name \in FolderNames
                        /\ Append(path, k.name) \in Paths
                        /\ Len(Append(path, k.name)) = Len(path) + 1
                        /\ Len(path) < Len(items[i].folderPath)
                        /\ inPath(items[i], Append(path, k.name))
<1>1. i \in DOMAIN items /\ inPath(items[i], path)
  BY DEF Within
<1>2. items[i].folderPath \in Paths /\ items[i].id \in Nat /\ items[i].id # 0
  BY <1>1, Typed
<1>3. CASE items[i].folderPath = path
  <2>1. KeyAt(items[i], path).id = items[i].id
    BY <1>3, KeyHere
  <2> QED BY <2>1, <1>2
<1>4. CASE items[i].folderPath # path
  <2>1. /\ Len(path) < Len(items[i].folderPath)
        /\ items[i].folderPath[Len(path) + 1] \in FolderNames
        /\ KeyAt(items[i], path) = [id |-> 0, name |-> items[i].folderPath[Len(path) + 1]]
    BY <1>1, <1>2, <1>4, KeyBelow
  <2> DEFINE name == items[i].folderPath[Len(path) + 1]
  <2>2. inPath(items[i], Append(path, name))
    BY <1>1, <1>2, <1>4, <2>1, UnderFolder
  <2>3. Append(path, name) \in Paths /\ Len(Append(path, name)) = Len(path) + 1
    BY <2>1, Appended DEF Paths
  <2> HIDE DEF name
  <2>4. KeyAt(items[i], path) = [id |-> 0, name |-> name]
    BY <2>1 DEF name
  <2>5. name \in FolderNames
    BY <2>1 DEF name
  <2> QED BY <2>1, <2>2, <2>3, <2>4, <2>5
<1> QED BY <1>3, <1>4

LEMMA EntryAt ==
  ASSUME NEW items \in Seq(Bookmark), NEW path \in Paths,
         NEW n \in DOMAIN bookmarkEntries(items, path)
  PROVE  \E i \in Within(items, path) : bookmarkEntries(items, path)[n] = KeyAt(items[i], path)
<1> DEFINE e == bookmarkEntries(items, path)
<1>1. e \in Seq(KeysAt(items, path))
  BY EntriesLists DEF Lists
<1>2. e[n] \in KeysAt(items, path)
  <2> HIDE DEF e
  <2>1. DOMAIN e = 1..Len(e)
    BY <1>1, LenProperties
  <2>2. n \in 1..Len(e)
    BY <2>1 DEF e
  <2> QED BY <1>1, <2>2, ElementOfSeq
<1> QED BY <1>2 DEF KeysAt

LEMMA PiecesType ==
  ASSUME NEW items \in Seq(Bookmark), NEW path \in Paths, NEW below,
         \A n \in DOMAIN bookmarkEntries(items, path) :
           bookmarkEntries(items, path)[n].id = 0 =>
             below[Append(path, bookmarkEntries(items, path)[n].name)] \in Seq(Nat)
  PROVE  /\ Pieces(items, path, below) \in Seq(Seq(Nat))
         /\ DOMAIN Pieces(items, path, below) = DOMAIN bookmarkEntries(items, path)
<1> DEFINE e == bookmarkEntries(items, path)
           piece(n) == IF e[n].id # 0 THEN <<e[n].id>> ELSE below[Append(path, e[n].name)]
<1>1. e \in Seq(KeysAt(items, path))
  BY EntriesLists DEF Lists
<1>2. Len(e) \in Nat /\ DOMAIN e = 1..Len(e)
  BY <1>1, LenProperties
<1>3. ASSUME NEW n \in DOMAIN e
      PROVE  piece(n) \in Seq(Nat)
  <2>1. PICK i \in Within(items, path) : e[n] = KeyAt(items[i], path)
    BY EntryAt
  <2>2. e[n].id \in Nat
    BY <2>1, EntryOf
  <2> QED BY <2>2
<1>4. Pieces(items, path, below) = [n \in 1..Len(e) |-> piece(n)]
  BY <1>2 DEF Pieces
<1>5. [n \in 1..Len(e) |-> piece(n)] \in Seq(Seq(Nat))
  <2> HIDE DEF e, piece
  <2> QED BY <1>2, <1>3, IsASeq
<1> QED BY <1>2, <1>4, <1>5

LEMMA LevelRecursion ==
  ASSUME NEW items \in Seq(Bookmark), NEW deepest \in Nat,
         \A i \in DOMAIN items : Len(items[i].folderPath) <= deepest
  PROVE  \E level : /\ exportLevel(items) = level[<< >>]
                    /\ \A path \in Paths : level[path] = Seqs!FlattenSeq(Pieces(items, path, level))
<1> DEFINE V == Seq(Nat)
           next(f) == [path \in Paths |-> Seqs!FlattenSeq(Pieces(items, path, f))]
           step == [f \in [Paths -> V] |-> next(f)]
           rank == [path \in Paths |-> IF Len(path) <= deepest THEN deepest + 1 - Len(path) ELSE 0]
           start == [path \in Paths |-> << >>]
           level == CHOOSE f : f = next(f)
<1>1. \A path \in Paths : Len(path) \in Nat
  BY LenProperties DEF Paths
<1>2. step \in [[Paths -> V] -> [Paths -> V]]
  <2> SUFFICES ASSUME NEW f \in [Paths -> V], NEW path \in Paths
               PROVE  Seqs!FlattenSeq(Pieces(items, path, f)) \in V
    OBVIOUS
  <2>1. ASSUME NEW n \in DOMAIN bookmarkEntries(items, path), bookmarkEntries(items, path)[n].id = 0
        PROVE  Append(path, bookmarkEntries(items, path)[n].name) \in Paths
    BY <2>1, EntryAt, EntryOf
  <2>2. Pieces(items, path, f) \in Seq(Seq(Nat))
    BY <2>1, PiecesType
  <2> QED BY <2>2, FlattenType
<1>3. rank \in [Paths -> 0..(deepest + 1)]
  BY <1>1
<1>4. ASSUME NEW path \in Paths, NEW n \in DOMAIN bookmarkEntries(items, path),
             bookmarkEntries(items, path)[n].id = 0
      PROVE  LET q == Append(path, bookmarkEntries(items, path)[n].name)
             IN q \in Paths /\ rank[q] < rank[path]
  <2> DEFINE q == Append(path, bookmarkEntries(items, path)[n].name)
  <2>1. PICK i \in Within(items, path) :
          /\ q \in Paths /\ Len(q) = Len(path) + 1
          /\ Len(path) < Len(items[i].folderPath)
    BY <1>4, EntryAt, EntryOf
  <2>2. Len(items[i].folderPath) <= deepest /\ Len(items[i].folderPath) \in Nat
    BY Typed, <1>1 DEF Within
  <2>3. Len(path) \in Nat /\ Len(path) < deepest
    BY <1>1, <2>1, <2>2
  <2> HIDE DEF q
  <2>4. rank[q] < rank[path]
    BY <2>1, <2>3
  <2> QED BY <2>1, <2>4 DEF q
<1>5. ASSUME NEW f \in [Paths -> V], NEW g \in [Paths -> V], NEW path \in Paths,
             \A y \in Paths : rank[y] < rank[path] => f[y] = g[y]
      PROVE  step[f][path] = step[g][path]
  <2>1. Pieces(items, path, f) = Pieces(items, path, g)
    <3> HIDE DEF rank
    <3> QED BY <1>4, <1>5 DEF Pieces
  <2> QED BY <2>1
<1>6. Solvable(step, Paths, V)
  <2>1. Descends(step, rank, Paths, V)
    BY <1>5, Zenon DEF Descends
  <2>2. deepest + 1 \in Nat /\ start \in [Paths -> V]
    OBVIOUS
  <2> HIDE DEF step, rank, V, start
  <2> QED BY <2>2, <1>2, <1>3, <2>1, RankRecursion
<1>7. \E f : f = next(f)
  BY <1>6, Zenon DEF Solvable
<1>8. level = next(level)
  BY <1>7, Zenon
<1>9. exportLevel(items) = level[<< >>]
  BY Zenon DEF exportLevel, Pieces, Paths
<1> HIDE DEF level
<1>10. \A path \in Paths : level[path] = Seqs!FlattenSeq(Pieces(items, path, level))
  BY <1>8
<1> QED BY <1>9, <1>10

LEMMA LevelLists ==
  ASSUME NEW items \in Seq(Bookmark), IdsApart(items), NEW level, NEW path \in Paths,
         level[path] = Seqs!FlattenSeq(Pieces(items, path, level)),
         \A n \in DOMAIN bookmarkEntries(items, path) :
           LET q == Append(path, bookmarkEntries(items, path)[n].name)
           IN bookmarkEntries(items, path)[n].id = 0 => Lists(level[q], Under(items, q))
  PROVE  Lists(level[path], Under(items, path))
<1> DEFINE e == bookmarkEntries(items, path)
           folder(n) == Append(path, e[n].name)
           ss == Pieces(items, path, level)
           part == [n \in DOMAIN e |-> IF e[n].id # 0 THEN {e[n].id} ELSE Under(items, folder(n))]
<1>1. \A q : Under(items, q) \subseteq Nat
  BY Typed DEF Under, Within
<1>2. ss \in Seq(Seq(Nat)) /\ DOMAIN ss = DOMAIN e
  <2>1. ASSUME NEW n \in DOMAIN e, e[n].id = 0
        PROVE  level[folder(n)] \in Seq(Nat)
    <3>1. level[folder(n)] \in Seq(Under(items, folder(n)))
      BY <2>1 DEF Lists
    <3> QED BY <3>1, <1>1, SeqMonotonic
  <2> QED BY <2>1, PiecesType
<1>3. \A n \in DOMAIN e : \E i \in Within(items, path) : e[n] = KeyAt(items[i], path)
  BY EntryAt
<1>4. part \in [DOMAIN ss -> SUBSET Nat]
  <2>1. \A n \in DOMAIN e : e[n].id \in Nat
    BY <1>3, EntryOf
  <2> QED BY <1>1, <1>2, <2>1
<1>5. ASSUME NEW n \in DOMAIN e, NEW i \in Within(items, path)
      PROVE  items[i].id \in part[n] <=> KeyAt(items[i], path) = e[n]
  <2>1. i \in DOMAIN items /\ inPath(items[i], path)
    BY DEF Within
  <2>2. items[i].folderPath \in Paths /\ items[i].id \in Nat /\ items[i].id # 0
    BY <2>1, Typed
  <2>3. PICK j \in Within(items, path) : e[n] = KeyAt(items[j], path)
    BY <1>3
  <2>4. j \in DOMAIN items /\ items[j].folderPath \in Paths /\ items[j].id \in Nat /\ items[j].id # 0
        /\ inPath(items[j], path)
    BY Typed DEF Within
  <2>5. CASE items[j].folderPath = path
    <3>1. e[n].id = items[j].id
      BY <2>3, <2>5, KeyHere
    <3>2. part[n] = {items[j].id}
      BY <3>1, <2>4
    <3>3. ASSUME items[i].id = items[j].id
          PROVE  KeyAt(items[i], path) = e[n]
      BY <2>1, <2>3, <2>4, <3>3 DEF IdsApart
    <3>4. ASSUME KeyAt(items[i], path) = e[n]
          PROVE  items[i].id = items[j].id
      <4>1. KeyAt(items[i], path).id # 0
        BY <3>4, <3>1, <2>4
      <4>2. KeyAt(items[i], path).id = items[i].id
        BY <4>1, EntryOf
      <4> QED BY <4>2, <3>4, <3>1
    <3> HIDE DEF e, part
    <3> QED BY <3>2, <3>3, <3>4
  <2>6. CASE items[j].folderPath # path
    <3> DEFINE name == items[j].folderPath[Len(path) + 1]
    <3>1. e[n] = [id |-> 0, name |-> name] /\ name \in FolderNames
      BY <2>3, <2>4, <2>6, KeyBelow
    <3> HIDE DEF name
    <3>2. part[n] = Under(items, Append(path, name))
      BY <3>1
    <3>3. items[i].id \in Under(items, Append(path, name)) <=> inPath(items[i], Append(path, name))
      BY <2>1 DEF Under, Within, IdsApart
    <3>4. inPath(items[i], Append(path, name)) <=>
            items[i].folderPath # path /\ items[i].folderPath[Len(path) + 1] = name
      BY <2>1, <2>2, <3>1, UnderFolder
    <3>5. CASE items[i].folderPath = path
      <4>1. KeyAt(items[i], path).id # 0
        BY <3>5, <2>2, KeyHere
      <4> HIDE DEF e, part
      <4> QED BY <4>1, <3>1, <3>2, <3>3, <3>4, <3>5
    <3>6. CASE items[i].folderPath # path
      <4>1. KeyAt(items[i], path) = [id |-> 0, name |-> items[i].folderPath[Len(path) + 1]]
        BY <3>6, <2>1, <2>2, KeyBelow
      <4> HIDE DEF e, part
      <4> QED BY <4>1, <3>1, <3>2, <3>3, <3>4, <3>6
    <3> QED BY <3>5, <3>6
  <2> QED BY <2>5, <2>6
<1>6. ASSUME NEW n \in DOMAIN e
      PROVE  part[n] \subseteq Under(items, path)
  <2>1. PICK j \in Within(items, path) : e[n] = KeyAt(items[j], path)
    BY <1>3
  <2>2. CASE e[n].id # 0
    <3>1. e[n].id = items[j].id
      BY <2>1, <2>2, EntryOf
    <3> QED BY <2>2, <3>1 DEF Under
  <2>3. CASE e[n].id = 0
    <3>1. e[n].name \in FolderNames
      BY <2>1, <2>3, EntryOf
    <3>2. \A i \in DOMAIN items : inPath(items[i], folder(n)) => inPath(items[i], path)
      BY <3>1, Typed, UnderFolder
    <3>3. Under(items, folder(n)) \subseteq Under(items, path)
      BY <3>2 DEF Under, Within
    <3> QED BY <2>3, <3>3
  <2> QED BY <2>2, <2>3
<1>7. ASSUME NEW k \in DOMAIN e, NEW j \in DOMAIN e, k # j
      PROVE  part[k] \cap part[j] = {}
  <2> SUFFICES ASSUME NEW x \in part[k], x \in part[j]
               PROVE  FALSE
    OBVIOUS
  <2>1. PICK i \in Within(items, path) : x = items[i].id
    BY <1>6 DEF Under
  <2>2. KeyAt(items[i], path) = e[k] /\ KeyAt(items[i], path) = e[j]
    <3> HIDE DEF part, e
    <3> QED BY <1>5, <2>1
  <2>3. k = j
    <3> HIDE DEF e
    <3> QED BY <2>2, EntriesLists DEF Lists, e
  <2> QED BY <2>3, <1>7
<1>8. UNION {part[k] : k \in DOMAIN ss} = Under(items, path)
  <2>1. ASSUME NEW x \in Under(items, path)
        PROVE  \E k \in DOMAIN e : x \in part[k]
    <3>1. PICK i \in Within(items, path) : x = items[i].id
      BY <2>1 DEF Under
    <3>2. KeyAt(items[i], path) \in KeysAt(items, path)
      BY DEF KeysAt
    <3>3. PICK k \in DOMAIN e : e[k] = KeyAt(items[i], path)
      <4> HIDE DEF e
      <4> QED BY <3>2, EntriesLists DEF Lists, e
    <3> HIDE DEF part, e
    <3> QED BY <3>1, <3>3, <1>5
  <2> HIDE DEF part, e, ss
  <2> QED BY <2>1, <1>2, <1>6
<1>9. \A k \in DOMAIN ss : Lists(ss[k], part[k])
  <2> SUFFICES ASSUME NEW k \in DOMAIN e PROVE Lists(ss[k], part[k])
    BY <1>2
  <2>1. CASE e[k].id # 0
    <3>1. ss[k] = <<e[k].id>> /\ part[k] = {e[k].id}
      BY <2>1 DEF Pieces
    <3> HIDE DEF e, ss, part
    <3> QED BY <3>1 DEF Lists
  <2>2. CASE e[k].id = 0
    <3>1. ss[k] = level[folder(k)] /\ part[k] = Under(items, folder(k))
      BY <2>2 DEF Pieces
    <3> QED BY <3>1, <2>2
  <2> QED BY <2>1, <2>2
<1>10. Lists(Seqs!FlattenSeq(ss), UNION {part[k] : k \in DOMAIN ss})
  <2>1. \A k, j \in DOMAIN ss : k # j => part[k] \cap part[j] = {}
    BY <1>2, <1>7
  <2> HIDE DEF ss, part
  <2> QED BY <1>2, <1>4, <1>9, <2>1, FlattenLists
<1> QED BY <1>8, <1>10

-----------------------------------------------------------------------------
(* The exported file names every bookmark once.                            *)

IdsOf(items) == {items[i].id : i \in DOMAIN items}

LEMMA ExportLevelLists ==
  ASSUME NEW items \in Seq(Bookmark), IdsApart(items)
  PROVE  Lists(exportLevel(items), IdsOf(items))
<1>1. PICK deepest \in Nat : \A i \in DOMAIN items : Len(items[i].folderPath) <= deepest
  BY DeepestPath
<1>2. PICK level : /\ exportLevel(items) = level[<< >>]
                   /\ \A path \in Paths : level[path] = Seqs!FlattenSeq(Pieces(items, path, level))
  BY <1>1, LevelRecursion
<1> DEFINE Good == {path \in Paths : Lists(level[path], Under(items, path))}
           rank == [path \in Paths |-> IF Len(path) <= deepest THEN deepest + 1 - Len(path) ELSE 0]
<1>3. \A path \in Paths : Len(path) \in Nat
  BY LenProperties DEF Paths
<1>4. rank \in [Paths -> Nat]
  BY <1>3
<1>5. ASSUME NEW path \in Paths, \A y \in Paths : rank[y] < rank[path] => y \in Good
      PROVE  path \in Good
  <2>1. ASSUME NEW n \in DOMAIN bookmarkEntries(items, path), bookmarkEntries(items, path)[n].id = 0
        PROVE  LET q == Append(path, bookmarkEntries(items, path)[n].name)
               IN Lists(level[q], Under(items, q))
    <3> DEFINE q == Append(path, bookmarkEntries(items, path)[n].name)
    <3>1. PICK i \in Within(items, path) :
            /\ q \in Paths /\ Len(q) = Len(path) + 1
            /\ Len(path) < Len(items[i].folderPath)
      BY <2>1, EntryAt, EntryOf
    <3>2. Len(items[i].folderPath) <= deepest /\ Len(items[i].folderPath) \in Nat
      BY Typed, <1>1, <1>3 DEF Within
    <3>3. Len(path) \in Nat /\ Len(path) < deepest
      BY <1>3, <3>1, <3>2
    <3> HIDE DEF q
    <3>4. rank[q] < rank[path]
      BY <3>1, <3>3
    <3>5. q \in Good
      BY <3>1, <3>4, <1>5
    <3> QED BY <3>5 DEF q
  <2>2. Lists(level[path], Under(items, path))
    BY <2>1, <1>2, LevelLists
  <2> QED BY <2>2
<1>6. Paths \subseteq Good
  <2> HIDE DEF Good, rank
  <2> QED BY <1>4, <1>5, RankInduction
<1>7. << >> \in Paths
  BY EmptySeq DEF Paths
<1>8. Under(items, << >>) = IdsOf(items)
  <2>1. \A i \in DOMAIN items : inPath(items[i], << >>)
    <3> SUFFICES ASSUME NEW i \in DOMAIN items PROVE inPath(items[i], << >>)
      OBVIOUS
    <3>1. items[i].folderPath \in Paths
      BY Typed
    <3>2. Len(items[i].folderPath) \in Nat
      BY <3>1, <1>3
    <3>3. Len(<< >>) = 0 /\ \A n \in 1..0 : FALSE
      BY EmptySeq
    <3> QED BY <1>7, <3>1, <3>2, <3>3, InPathMeans
  <2> QED BY <2>1 DEF Under, Within, IdsOf
<1> QED BY <1>2, <1>6, <1>7, <1>8

LEMMA LocatedFacts ==
  ASSUME NEW items \in Seq(Bookmark), IdsApart(items), NEW l
  PROVE  /\ Located(items, l) \in Seq(Bookmark)
         /\ IdsApart(Located(items, l))
         /\ IdsOf(Located(items, l)) = {items[i].id : i \in {j \in DOMAIN items : items[j].location = l}}
<1> DEFINE places == {j \in DOMAIN items : items[j].location = l}
           L == Among(items, places)
<1>1. places \in SUBSET DOMAIN items /\ Located(items, l) = L
  BY DEF Located
<1>2. /\ L \in Seq(Bookmark)
      /\ \A k \in DOMAIN L : \E i \in places : L[k] = items[i]
      /\ \A i \in places : \E k \in DOMAIN L : L[k] = items[i]
  <2> HIDE DEF places
  <2> QED BY <1>1, AmongFacts
<1>3. IdsApart(L)
  <2> HIDE DEF places
  <2> QED BY <1>1, AmongApart
<1>4. IdsOf(L) = {items[i].id : i \in places}
  <2> HIDE DEF L, places
  <2> QED BY <1>2 DEF IdsOf
<1> QED BY <1>1, <1>2, <1>3, <1>4

LEMMA FileLists ==
  ASSUME NEW items \in Seq(Bookmark), IdsApart(items)
  PROVE  Lists(exportBookmarksHtml(items), IdsOf(items))
<1> DEFINE B == Located(items, "bar")
           O == Located(items, "other")
           at(l) == {j \in DOMAIN items : items[j].location = l}
<1>1. Lists(exportLevel(B), IdsOf(B)) /\ Lists(exportLevel(O), IdsOf(O))
  BY LocatedFacts, ExportLevelLists
<1>2. IdsOf(B) = {items[i].id : i \in at("bar")} /\ IdsOf(O) = {items[i].id : i \in at("other")}
  BY LocatedFacts
<1>3. IdsOf(B) \cap IdsOf(O) = {}
  <2>1. \A i, j \in DOMAIN items : items[i].location = "bar" /\ items[j].location = "other"
                                     => items[i].id # items[j].id
    BY DEF IdsApart
  <2> QED BY <1>2, <2>1
<1>4. IdsOf(B) \cup IdsOf(O) = IdsOf(items)
  <2>1. \A i \in DOMAIN items : items[i].location = "bar" \/ items[i].location = "other"
    BY Typed DEF Locations
  <2>2. \A i \in DOMAIN items : i \in at("bar") \/ i \in at("other")
    BY <2>1
  <2>3. at("bar") \subseteq DOMAIN items /\ at("other") \subseteq DOMAIN items
    OBVIOUS
  <2> HIDE DEF at
  <2> QED BY <1>2, <2>2, <2>3 DEF IdsOf
<1>5. Lists(exportLevel(B) \o exportLevel(O), IdsOf(B) \cup IdsOf(O))
  <2> HIDE DEF B, O
  <2> QED BY <1>1, <1>3, ConcatLists
<1> QED BY <1>4, <1>5 DEF exportBookmarksHtml

LEMMA FilesNameOnce ==
  ASSUME bookmarks \in Seq(Bookmark), IdsApart(bookmarks)
  PROVE  ExportsEachOnce
<1> SUFFICES ASSUME NEW s \in AccountSpaces
             PROVE  LET mine == Among(bookmarks, {i \in DOMAIN bookmarks : bookmarks[i].space = s})
                        file == exportBookmarksHtml(mine)
                    IN /\ Len(file) = Len(mine)
                       /\ Seqs!ToSet(file) = {mine[i].id : i \in DOMAIN mine}
  BY DEF ExportsEachOnce
<1> DEFINE places == {i \in DOMAIN bookmarks : bookmarks[i].space = s}
           mine == Among(bookmarks, places)
           file == exportBookmarksHtml(mine)
           named == [i \in DOMAIN mine |-> mine[i].id]
<1>1. mine \in Seq(Bookmark) /\ IdsApart(mine)
  <2>1. places \in SUBSET DOMAIN bookmarks
    OBVIOUS
  <2> HIDE DEF places
  <2> QED BY <2>1, AmongFacts, AmongApart
<1> HIDE DEF mine
<1>2. Lists(file, IdsOf(mine))
  BY <1>1, FileLists
<1>3. Len(mine) \in Nat /\ DOMAIN mine = 1..Len(mine)
  BY <1>1, LenProperties
<1>4. named \in Seq(IdsOf(mine)) /\ DOMAIN named = DOMAIN mine /\ Len(named) = Len(mine)
  <2>1. \A i \in 1..Len(mine) : mine[i].id \in IdsOf(mine)
    BY <1>3 DEF IdsOf
  <2>2. [i \in 1..Len(mine) |-> mine[i].id] \in Seq(IdsOf(mine))
    BY <1>3, <2>1, IsASeq
  <2>3. named = [i \in 1..Len(mine) |-> mine[i].id]
    BY <1>3
  <2>4. Len(named) \in Nat /\ DOMAIN named = 1..Len(named)
    <3> HIDE DEF named
    <3> QED BY <2>2, <2>3, LenProperties
  <2>5. DOMAIN named = 1..Len(mine)
    BY <1>3
  <2> HIDE DEF named
  <2> QED BY <2>2, <2>3, <2>4, <2>5, <1>3
<1>5. Lists(named, IdsOf(mine))
  BY <1>1, <1>4 DEF Lists, IdsOf, IdsApart
<1>6. Len(file) = Len(mine)
  <2> HIDE DEF file, named
  <2> QED BY <1>2, <1>4, <1>5, SameLength
<1>7. Seqs!ToSet(file) = IdsOf(mine)
  <2> HIDE DEF file
  <2>1. file \in Seq(IdsOf(mine))
    BY <1>2 DEF Lists
  <2>2. \A i \in DOMAIN file : file[i] \in IdsOf(mine)
    BY <2>1, LenProperties, ElementOfSeq
  <2>3. \A x \in IdsOf(mine) : \E i \in DOMAIN file : file[i] = x
    BY <1>2 DEF Lists
  <2> QED BY <2>2, <2>3 DEF Seqs!ToSet
<1> QED BY <1>6, <1>7 DEF mine, IdsOf

-----------------------------------------------------------------------------
(* The commands on bookmarks keep them apart.                              *)

\* The lists of bookmarks the commands may leave.
Kept(items) ==
  /\ items \in Seq(Bookmark)
  /\ Len(items) <= MaxItems + 1
  /\ IdsApart(items)

LEMMA KeptAmong ==
  ASSUME NEW items, Kept(items), NEW places \in SUBSET DOMAIN items
  PROVE  Kept(Among(items, places))
<1>1. items \in Seq(Bookmark) /\ IdsApart(items) /\ Len(items) <= MaxItems + 1
  BY DEF Kept
<1>2. /\ Among(items, places) \in Seq(Bookmark)
      /\ Len(Among(items, places)) <= Len(items)
  BY <1>1, AmongFacts
<1>3. IdsApart(Among(items, places))
  BY <1>1, AmongApart
<1>4. Len(Among(items, places)) \in Nat /\ Len(items) \in Nat
  BY <1>1, <1>2, LenProperties
<1> QED BY <1>1, <1>2, <1>3, <1>4, BoundsAssumption DEF Kept

LEMMA KeptChanged ==
  ASSUME NEW items, Kept(items), NEW changed,
         changed = [i \in DOMAIN items |-> changed[i]],
         \A i \in DOMAIN items : changed[i] \in Bookmark /\ changed[i].id = items[i].id
  PROVE  Kept(changed)
<1>1. items \in Seq(Bookmark) /\ IdsApart(items) /\ Len(items) <= MaxItems + 1
  BY DEF Kept
<1>2. Len(items) \in Nat /\ DOMAIN items = 1..Len(items)
  BY <1>1, LenProperties
<1>3. [i \in 1..Len(items) |-> changed[i]] \in Seq(Bookmark)
  BY <1>2, IsASeq
<1>4. changed \in Seq(Bookmark)
  BY <1>2, <1>3
<1>5. Len(changed) \in Nat /\ DOMAIN changed = 1..Len(changed) /\ DOMAIN changed = 1..Len(items)
  BY <1>2, <1>4, LenProperties
<1>6. Len(changed) = Len(items)
  BY <1>2, <1>5
<1>7. IdsApart(changed)
  BY <1>1, <1>5, <1>2 DEF IdsApart
<1> QED BY <1>1, <1>4, <1>6, <1>7 DEF Kept

LEMMA FreshIdIsFree ==
  ASSUME NEW items \in Seq(Bookmark), Len(items) <= MaxItems
  PROVE  /\ FreshId(items) \in 1..(MaxItems + 1)
         /\ \A i \in DOMAIN items : items[i].id # FreshId(items)
<1>1. Len(items) \in Nat /\ DOMAIN items = 1..Len(items)
  BY LenProperties
<1>2. \E n \in 1..(MaxItems + 1) : \A i \in DOMAIN items : items[i].id # n
  <2> SUFFICES ASSUME \A n \in 1..(MaxItems + 1) : \E i \in DOMAIN items : items[i].id = n
               PROVE  FALSE
    OBVIOUS
  <2> DEFINE S == 1..(MaxItems + 1)
             T == 1..Len(items)
             f == [n \in S |-> CHOOSE i \in T : items[i].id = n]
  <2>1. \A n \in S : f[n] \in T /\ items[f[n]].id = n
    BY <1>1
  <2>2. f \in [S -> T]
    BY <2>1
  <2>3. IsFiniteSet(S) /\ IsFiniteSet(T) /\ Cardinality(S) = MaxItems + 1 /\ Cardinality(T) = Len(items)
    <3>1. ASSUME NEW n \in Nat PROVE IsFiniteSet(1..n) /\ Cardinality(1..n) = n
      BY FS_Interval
    <3>2. MaxItems + 1 \in Nat /\ Len(items) \in Nat
      BY <1>1, BoundsAssumption
    <3> QED BY <3>1, <3>2
  <2>4. Cardinality(T) < Cardinality(S)
    BY <2>3, <1>1, BoundsAssumption
  <2>5. PICK x, y \in S : x # y /\ f[x] = f[y]
    <3> HIDE DEF f, S, T
    <3> QED BY <2>2, <2>3, <2>4, FS_PigeonHole
  <2> QED BY <2>1, <2>5
<1> QED BY <1>2 DEF FreshId

LEMMA KeptAppend ==
  ASSUME NEW items, Kept(items), Len(items) <= MaxItems, NEW b \in Bookmark,
         \A i \in DOMAIN items : items[i].id # b.id
  PROVE  Kept(Append(items, b)) /\ Kept(<<b>> \o items)
<1>1. items \in Seq(Bookmark) /\ IdsApart(items)
  BY DEF Kept
<1>2. Len(items) \in Nat /\ DOMAIN items = 1..Len(items)
  BY <1>1, LenProperties
<1>3. Kept(Append(items, b))
  <2> DEFINE a == Append(items, b)
  <2>1. /\ a \in Seq(Bookmark) /\ Len(a) = Len(items) + 1
        /\ \A i \in 1..Len(items) : a[i] = items[i]
        /\ a[Len(items) + 1] = b
    BY <1>1, Appended
  <2> HIDE DEF a
  <2>2. DOMAIN a = 1..(Len(items) + 1)
    BY <2>1, LenProperties
  <2>3. \A i \in DOMAIN a : i \in 1..Len(items) \/ i = Len(items) + 1
    BY <2>2, <1>2
  <2>4. IdsApart(a)
    BY <2>1, <2>3, <1>1, <1>2 DEF IdsApart
  <2>5. Len(a) <= MaxItems + 1
    BY <2>1, <1>2, BoundsAssumption
  <2> QED BY <2>1, <2>4, <2>5 DEF Kept, a
<1>4. Kept(<<b>> \o items)
  <2> DEFINE a == <<b>> \o items
  <2>1. <<b>> \in Seq(Bookmark) /\ Len(<<b>>) = 1 /\ <<b>>[1] = b
    OBVIOUS
  <2>2. /\ a \in Seq(Bookmark) /\ Len(a) = 1 + Len(items)
        /\ \A i \in 1..(1 + Len(items)) : a[i] = IF i <= 1 THEN <<b>>[i] ELSE items[i - 1]
    BY <1>1, <2>1, ConcatProperties
  <2> HIDE DEF a
  <2>3. DOMAIN a = 1..(1 + Len(items))
    BY <2>2, LenProperties
  <2>4. \A i \in DOMAIN a : \/ i = 1 /\ a[i] = b
                            \/ i # 1 /\ i - 1 \in DOMAIN items /\ a[i] = items[i - 1]
    BY <2>1, <2>2, <2>3, <1>2
  <2>5. \A i, j \in DOMAIN a : a[i].id = a[j].id => i = j
    <3> SUFFICES ASSUME NEW i \in DOMAIN a, NEW j \in DOMAIN a, a[i].id = a[j].id
                 PROVE  i = j
      OBVIOUS
    <3>1. CASE i = 1 \/ j = 1
      BY <3>1, <2>4
    <3>2. CASE i # 1 /\ j # 1
      <4>1. i - 1 = j - 1
        BY <3>2, <2>4, <1>1 DEF IdsApart
      <4>2. i \in Nat /\ j \in Nat
        BY <2>3
      <4> QED BY <4>1, <4>2
    <3> QED BY <3>1, <3>2
  <2>6. Len(a) <= MaxItems + 1
    BY <2>2, <1>2, BoundsAssumption
  <2> QED BY <2>2, <2>5, <2>6 DEF Kept, IdsApart, a
<1> QED BY <1>3, <1>4

-----------------------------------------------------------------------------
(* The commands of the user.                                               *)

LEMMA ScopedFacts ==
  ASSUME NEW items \in Seq(Bookmark), NEW s, NEW l
  PROVE  /\ ScopedTo(items, s, l) \in Seq(Bookmark)
         /\ Len(ScopedTo(items, s, l)) \in Nat
         /\ \A i \in DOMAIN items : items[i].space = s /\ items[i].location = l =>
              \E k \in DOMAIN ScopedTo(items, s, l) : ScopedTo(items, s, l)[k] = items[i]
<1> DEFINE places == {i \in DOMAIN items : items[i].space = s /\ items[i].location = l}
           A == Among(items, places)
<1>1. places \in SUBSET DOMAIN items /\ ScopedTo(items, s, l) = A
  BY DEF ScopedTo
<1>2. /\ A \in Seq(Bookmark)
      /\ \A i \in places : \E k \in DOMAIN A : A[k] = items[i]
  <2> HIDE DEF places
  <2> QED BY <1>1, AmongFacts
<1>3. Len(A) \in Nat
  <2> HIDE DEF A
  <2> QED BY <1>2, LenProperties
<1> HIDE DEF A
<1> QED BY <1>1, <1>2, <1>3

LEMMA ToggledKeeps ==
  ASSUME Kept(bookmarks), reader \in AccountSpaces,
         NEW url \in PageUrls, NEW title \in Titles, Toggle(url, title)
  PROVE  Kept(bookmarks') /\ reader' = reader
<1> DEFINE mine == {i \in DOMAIN bookmarks : bookmarks[i].url = url /\ bookmarks[i].space = reader}
           order == Len(ScopedTo(bookmarks, reader, "bar"))
           b == [id |-> FreshId(bookmarks), title |-> title, url |-> url,
                 space |-> reader, location |-> "bar", folderPath |-> << >>,
                 order |-> order, orderPath |-> <<order>>]
<1>1. CASE mine # {}
  <2>1. bookmarks' = Among(bookmarks, DOMAIN bookmarks \ {Min(mine)})
    BY <1>1 DEF Toggle
  <2>2. DOMAIN bookmarks \ {Min(mine)} \in SUBSET DOMAIN bookmarks
    OBVIOUS
  <2> QED BY <2>1, <2>2, KeptAmong DEF Toggle
<1>2. CASE mine = {}
  <2>1. Len(bookmarks) <= MaxItems /\ bookmarks' = <<b>> \o bookmarks
    BY <1>2 DEF Toggle
  <2>2. bookmarks \in Seq(Bookmark)
    BY DEF Kept
  <2>3. /\ FreshId(bookmarks) \in 1..(MaxItems + 1)
        /\ \A i \in DOMAIN bookmarks : bookmarks[i].id # FreshId(bookmarks)
    BY <2>1, <2>2, FreshIdIsFree
  <2>4. order \in Nat
    BY <2>2, ScopedFacts
  <2>5. b \in Bookmark
    <3> HIDE DEF order
    <3>1. << >> \in Seq(FolderNames) /\ <<order>> \in Seq(Nat)
      BY <2>4
    <3> QED BY <2>3, <2>4, <3>1 DEF Bookmark, Locations
  <2>6. b.id = FreshId(bookmarks)
    OBVIOUS
  <2> HIDE DEF b
  <2> QED BY <2>1, <2>3, <2>5, <2>6, KeptAppend DEF Toggle
<1> QED BY <1>1, <1>2

LEMMA OrderAtTypes ==
  ASSUME NEW item \in Bookmark, NEW depth \in Nat, NEW order \in Nat
  PROVE  withOrderAt(item, depth, order) \in Bookmark /\ withOrderAt(item, depth, order).id = item.id
<1> DEFINE held == item.orderPath
           zeros == [n \in 1..(depth - Len(held)) |->
                       IF n = 1 /\ held = << >> THEN item.order ELSE 0]
           padded == held \o zeros
           path == IF Len(padded) > depth THEN [padded EXCEPT ![depth + 1] = order]
                   ELSE Append(padded, order)
<1>1. held \in Seq(Nat) /\ item.order \in Nat
  BY DEF Bookmark
<1>2. Len(held) \in Nat
  BY <1>1, LenProperties
<1>3. zeros \in Seq(Nat)
  <2>1. CASE depth - Len(held) \in Nat
    <3> DEFINE n == depth - Len(held)
    <3>1. [k \in 1..n |-> IF k = 1 /\ held = << >> THEN item.order ELSE 0] \in Seq(Nat)
      <4> HIDE DEF n
      <4>1. n \in Nat
        BY <2>1 DEF n
      <4>2. \A k \in 1..n : (IF k = 1 /\ held = << >> THEN item.order ELSE 0) \in Nat
        BY <1>1
      <4> HIDE DEF held
      <4> QED BY <4>1, <4>2, IsASeq
    <3> QED BY <3>1
  <2>2. CASE depth - Len(held) \notin Nat
    <3>1. 1..(depth - Len(held)) = {}
      BY <2>2, <1>2
    <3>2. zeros = << >>
      BY <3>1
    <3> QED BY <3>2, EmptySeq
  <2> QED BY <2>1, <2>2
<1> HIDE DEF zeros
<1>4. padded \in Seq(Nat)
  BY <1>1, <1>3, ConcatProperties
<1> HIDE DEF padded
<1>5. path \in Seq(Nat)
  <2>1. Len(padded) \in Nat
    BY <1>4, LenProperties
  <2>2. CASE Len(padded) > depth
    <3>1. depth + 1 \in 1..Len(padded)
      BY <2>1, <2>2
    <3> QED BY <2>2, <3>1, <1>4, ExceptSeq
  <2>3. CASE ~(Len(padded) > depth)
    BY <2>3, <1>4, Appended
  <2> QED BY <2>2, <2>3
<1>6. withOrderAt(item, depth, order) =
        [item EXCEPT !.orderPath = path, !.order = IF depth = 0 THEN order ELSE @]
  BY DEF withOrderAt, padded, zeros
<1> HIDE DEF path
<1>7. (IF depth = 0 THEN order ELSE item.order) \in Nat
  BY <1>1
<1> QED BY <1>5, <1>6, <1>7 DEF Bookmark

-----------------------------------------------------------------------------
(* Entries moved within their level.                                       *)

LEMMA LevelFacts ==
  ASSUME NEW items \in Seq(Bookmark), NEW level \in LevelsOf(items)
  PROVE  /\ level.path \in Paths /\ Len(level.path) \in Nat
         /\ level = [location |-> level.location, path |-> level.path]
<1>0. PICK i \in DOMAIN items : \E d \in 0..Len(items[i].folderPath) :
        level = [location |-> items[i].location, path |-> SubSeq(items[i].folderPath, 1, d)]
  BY DEF LevelsOf
<1>1. PICK d \in 0..Len(items[i].folderPath) :
        level = [location |-> items[i].location, path |-> SubSeq(items[i].folderPath, 1, d)]
  BY <1>0
<1> DEFINE p == items[i].folderPath
<1>2. p \in Seq(FolderNames)
  BY Typed DEF Paths
<1>3. Len(p) \in Nat /\ \A n \in 1..Len(p) : p[n] \in FolderNames
  BY <1>2, LenProperties, ElementOfSeq
<1>4. d \in Int /\ 1 \in Int /\ \A n \in 1..d : p[n] \in FolderNames
  BY <1>3
<1>5. SubSeq(p, 1, d) \in Seq(FolderNames)
  BY <1>4, SubSeqProperties
<1>6. level.path \in Paths
  BY <1>1, <1>5 DEF Paths
<1> QED BY <1>1, <1>6, LenProperties DEF Paths

\* Where an element is put in, all others stay and the new one is there.
LEMMA InsertedFacts ==
  ASSUME NEW T, NEW s \in Seq(T), NEW at \in 1..(Len(s) + 1), NEW e \in T
  PROVE  LET a == Seqs!InsertAt(s, at, e) IN
         /\ a \in Seq(T) /\ DOMAIN a = 1..(Len(s) + 1)
         /\ a[at] = e
         /\ \A n \in 1..(at - 1) : a[n] = s[n]
         /\ \A n \in at..Len(s) : a[n + 1] = s[n]
<1> DEFINE left == SubSeq(s, 1, at - 1)
           right == SubSeq(s, at, Len(s))
           first == left \o <<e>>
           a == first \o right
<1>1. Len(s) \in Nat /\ DOMAIN s = 1..Len(s) /\ \A n \in 1..Len(s) : s[n] \in T
  BY LenProperties, ElementOfSeq
<1>2. at \in Nat /\ at >= 1 /\ at <= Len(s) + 1 /\ 1 \in Int /\ at - 1 \in Int /\ at \in Int /\ Len(s) \in Int
  BY <1>1
<1>3. /\ left \in Seq(T) /\ Len(left) = at - 1
      /\ \A n \in 1..(at - 1) : left[n] = s[n]
  <2>1. \A n \in 1..(at - 1) : s[n] \in T
    BY <1>1, <1>2
  <2>2. /\ left \in Seq(T)
        /\ Len(left) = IF 1 <= at - 1 THEN at - 1 - 1 + 1 ELSE 0
        /\ \A n \in 1..(at - 1 - 1 + 1) : left[n] = s[1 + n - 1]
    BY <2>1, <1>2, SubSeqProperties
  <2> HIDE DEF left
  <2> QED BY <2>2, <1>2
<1>4. /\ right \in Seq(T) /\ Len(right) = Len(s) - at + 1
      /\ \A n \in 1..(Len(s) - at + 1) : right[n] = s[at + n - 1]
  <2>1. \A n \in at..Len(s) : s[n] \in T
    BY <1>1, <1>2
  <2>2. /\ right \in Seq(T)
        /\ Len(right) = IF at <= Len(s) THEN Len(s) - at + 1 ELSE 0
        /\ \A n \in 1..(Len(s) - at + 1) : right[n] = s[at + n - 1]
    BY <2>1, <1>2, SubSeqProperties
  <2> HIDE DEF right
  <2> QED BY <2>2, <1>1, <1>2
<1> HIDE DEF left, right
<1>5. /\ first \in Seq(T) /\ Len(first) = at
      /\ \A n \in 1..(at - 1) : first[n] = s[n]
      /\ first[at] = e
  <2>1. first = Append(left, e)
    BY <1>3
  <2>2. /\ Append(left, e) \in Seq(T) /\ Len(Append(left, e)) = Len(left) + 1
        /\ \A n \in 1..Len(left) : Append(left, e)[n] = left[n]
        /\ Append(left, e)[Len(left) + 1] = e
    BY <1>3, Appended
  <2> HIDE DEF first
  <2> QED BY <2>1, <2>2, <1>2, <1>3
<1> HIDE DEF first
<1>6. /\ a \in Seq(T) /\ Len(a) = at + (Len(s) - at + 1)
      /\ \A n \in 1..(at + (Len(s) - at + 1)) : a[n] = IF n <= at THEN first[n] ELSE right[n - at]
  BY <1>4, <1>5, ConcatProperties
<1> HIDE DEF a
<1>7. DOMAIN a = 1..(Len(s) + 1) /\ Len(s) + 1 = at + (Len(s) - at + 1)
  BY <1>6, <1>1, <1>2, LenProperties
<1>8. a[at] = e /\ \A n \in 1..(at - 1) : a[n] = s[n]
  <2>1. ASSUME NEW n \in 1..at
        PROVE  a[n] = first[n]
    <3>1. n \in 1..(at + (Len(s) - at + 1)) /\ n <= at
      BY <1>1, <1>2
    <3> QED BY <3>1, <1>6
  <2>2. at \in 1..at /\ \A n \in 1..(at - 1) : n \in 1..at
    BY <1>2
  <2> QED BY <2>1, <2>2, <1>5
<1>9. ASSUME NEW k \in at..Len(s)
      PROVE  a[k + 1] = s[k]
  <2> DEFINE n == k + 1
  <2>1. n \in DOMAIN a /\ ~(n <= at) /\ n - at \in 1..(Len(s) - at + 1) /\ at + (n - at) - 1 = k
    BY <1>1, <1>2, <1>7
  <2> HIDE DEF n
  <2>2. a[n] = right[n - at] /\ right[n - at] = s[k]
    BY <2>1, <1>4, <1>6, <1>7
  <2> QED BY <2>2 DEF n
<1>10. Seqs!InsertAt(s, at, e) = a
  BY DEF Seqs!InsertAt, a, first, left, right
<1> QED BY <1>6, <1>7, <1>8, <1>9, <1>10

LEMMA InsertedLists ==
  ASSUME NEW S, NEW s, Lists(s, S), NEW at \in 1..(Len(s) + 1), NEW e, e \notin S
  PROVE  Lists(Seqs!InsertAt(s, at, e), S \cup {e})
<1> DEFINE T == S \cup {e}
           a == Seqs!InsertAt(s, at, e)
<1>1. s \in Seq(S) /\ s \in Seq(T) /\ Len(s) \in Nat /\ DOMAIN s = 1..Len(s)
      /\ \A n \in 1..Len(s) : s[n] \in S
  BY SeqMonotonic, LenProperties, ElementOfSeq DEF Lists
<1>2. /\ a \in Seq(T) /\ DOMAIN a = 1..(Len(s) + 1)
      /\ a[at] = e
      /\ \A n \in 1..(at - 1) : a[n] = s[n]
      /\ \A n \in at..Len(s) : a[n + 1] = s[n]
  <2>1. s \in Seq(T) /\ e \in T
    BY <1>1
  <2> HIDE DEF T
  <2> QED BY <2>1, InsertedFacts
<1> HIDE DEF a
<1>3. ASSUME NEW n \in DOMAIN a
      PROVE  \/ n = at /\ a[n] = e
             \/ n < at /\ n \in DOMAIN s /\ a[n] = s[n]
             \/ n > at /\ n - 1 \in DOMAIN s /\ a[n] = s[n - 1]
  <2>1. CASE n = at
    BY <2>1, <1>2
  <2>2. CASE n < at
    <3>1. n \in 1..(at - 1) /\ n \in DOMAIN s
      BY <2>2, <1>1, <1>2
    <3> QED BY <2>2, <3>1, <1>2
  <2>3. CASE n > at
    <3>1. n - 1 \in at..Len(s) /\ n - 1 \in DOMAIN s /\ (n - 1) + 1 = n
      BY <2>3, <1>1, <1>2
    <3>2. a[(n - 1) + 1] = s[n - 1]
      BY <3>1, <1>2
    <3> QED BY <2>3, <3>1, <3>2
  <2>4. n \in Nat /\ at \in Nat
    BY <1>1, <1>2
  <2> QED BY <2>1, <2>2, <2>3, <2>4
<1>4. \A x \in T : \E n \in DOMAIN a : a[n] = x
  <2> SUFFICES ASSUME NEW x \in T PROVE \E n \in DOMAIN a : a[n] = x
    OBVIOUS
  <2>1. CASE x = e
    <3>1. at \in DOMAIN a
      BY <1>2
    <3> QED BY <2>1, <3>1, <1>2
  <2>2. CASE x \in S
    <3>1. PICK k \in DOMAIN s : s[k] = x
      BY <2>2 DEF Lists
    <3>2. CASE k < at
      <4>1. k \in 1..(at - 1) /\ k \in DOMAIN a
        BY <3>1, <3>2, <1>1, <1>2
      <4> QED BY <4>1, <3>1, <1>2
    <3>3. CASE ~(k < at)
      <4>1. k \in at..Len(s) /\ k + 1 \in DOMAIN a
        BY <3>1, <3>3, <1>1, <1>2
      <4> QED BY <4>1, <3>1, <1>2
    <3> QED BY <3>2, <3>3
  <2> QED BY <2>1, <2>2
<1>5. ASSUME NEW i \in DOMAIN a, NEW j \in DOMAIN a, a[i] = a[j]
      PROVE  i = j
  <2>1. i \in Nat /\ j \in Nat /\ at \in Nat
    BY <1>1, <1>2
  <2>2. \A n \in DOMAIN s : s[n] # e
    BY <1>1
  <2>3. \A m, n \in DOMAIN s : s[m] = s[n] => m = n
    BY DEF Lists
  <2>4. CASE a[i] = e
    BY <2>2, <2>4, <1>3, <1>5
  <2>5. CASE a[i] # e
    <3> DEFINE m == IF i < at THEN i ELSE i - 1
               n == IF j < at THEN j ELSE j - 1
    <3>1. i # at /\ m \in DOMAIN s /\ a[i] = s[m]
      BY <2>1, <2>5, <1>3
    <3>2. j # at /\ n \in DOMAIN s /\ a[j] = s[n]
      BY <2>1, <2>5, <1>3, <1>5
    <3>3. m = n
      <4> HIDE DEF m, n
      <4> QED BY <3>1, <3>2, <2>3, <1>5
    <3> QED BY <2>1, <3>1, <3>2, <3>3
  <2> QED BY <2>4, <2>5
<1> QED BY <1>2, <1>4, <1>5 DEF Lists, a

LEMMA WithoutLists ==
  ASSUME NEW S, NEW s, Lists(s, S), NEW key \in S
  PROVE  Lists(OtherEntries(s, key), S \ {key})
<1> DEFINE others == {n \in DOMAIN s : s[n] # key}
           A == Among(s, others)
<1>1. s \in Seq(S) /\ DOMAIN s = 1..Len(s) /\ Len(s) \in Nat /\ \A n \in 1..Len(s) : s[n] \in S
  BY LenProperties, ElementOfSeq DEF Lists
<1>2. PICK at : /\ Lists(at, others)
                /\ A = [k \in 1..Cardinality(others) |-> s[at[k]]]
                /\ DOMAIN at = 1..Cardinality(others)
                /\ Cardinality(others) \in Nat
  <2>1. others \in SUBSET (1..Len(s))
    BY <1>1
  <2> HIDE DEF others
  <2>2. PICK at : /\ Lists(at, others)
                  /\ \A t : Among(t, others) = [k \in 1..Cardinality(others) |-> t[at[k]]]
                  /\ DOMAIN at = 1..Cardinality(others)
                  /\ Cardinality(others) \in Nat /\ Cardinality(others) <= Len(s)
    BY <1>1, <2>1, AmongPlaces
  <2> QED BY <2>2
<1> HIDE DEF A
<1>3. \A k \in DOMAIN at : at[k] \in others
  <2>1. at \in Seq(others)
    BY <1>2 DEF Lists
  <2> HIDE DEF others
  <2> QED BY <2>1, LenProperties, ElementOfSeq
<1>4. DOMAIN A = DOMAIN at /\ \A k \in DOMAIN at : A[k] = s[at[k]]
  BY <1>2
<1>5. A \in Seq(S \ {key})
  <2>1. \A k \in 1..Cardinality(others) : s[at[k]] \in S \ {key}
    BY <1>1, <1>2, <1>3
  <2>2. [k \in 1..Cardinality(others) |-> s[at[k]]] \in Seq(S \ {key})
    <3> HIDE DEF others
    <3> QED BY <1>2, <2>1, IsASeq
  <2> QED BY <1>2, <2>2
<1>6. \A x \in S \ {key} : \E k \in DOMAIN A : A[k] = x
  <2> SUFFICES ASSUME NEW x \in S, x # key PROVE \E k \in DOMAIN A : A[k] = x
    OBVIOUS
  <2>1. PICK n \in DOMAIN s : s[n] = x
    BY DEF Lists
  <2>2. n \in others
    BY <2>1
  <2>3. PICK k \in DOMAIN at : at[k] = n
    <3> HIDE DEF others
    <3> QED BY <2>2, <1>2 DEF Lists
  <2> QED BY <2>1, <2>3, <1>4
<1>7. \A i, j \in DOMAIN A : A[i] = A[j] => i = j
  <2> SUFFICES ASSUME NEW i \in DOMAIN at, NEW j \in DOMAIN at, s[at[i]] = s[at[j]] PROVE i = j
    BY <1>4
  <2>1. at[i] = at[j]
    BY <1>3 DEF Lists
  <2> HIDE DEF others
  <2> QED BY <2>1, <1>2 DEF Lists
<1>8. OtherEntries(s, key) = A
  BY DEF OtherEntries, A
<1> QED BY <1>5, <1>6, <1>7, <1>8 DEF Lists

LEMMA ClampedIsLess ==
  ASSUME NEW n \in Nat, NEW high \in Nat
  PROVE  Clamped(n, 0, high) = Min({n, high}) /\ Clamped(n, 0, high) \in 0..high
<1>1. Min({n, high}) \in 0..high
  <2>1. Min({n, high}) \in {n, high} /\ \A y \in {n, high} : Min({n, high}) <= y
    BY LeastOf
  <2> QED BY <2>1
<1>2. \A m \in Nat : Max({0, m}) = m
  <2> SUFFICES ASSUME NEW m \in Nat PROVE Max({0, m}) = m
    OBVIOUS
  <2>1. m \in {0, m} /\ \A y \in {0, m} : m >= y
    OBVIOUS
  <2>2. \A x \in {0, m} : (\A y \in {0, m} : x >= y) => x = m
    OBVIOUS
  <2> QED BY <2>1, <2>2 DEF Max
<1> QED BY <1>1, <1>2 DEF Clamped

\* Where the entries of a level stand once one of them is dropped.
Arranged(items, s, level, key, toIndex) ==
  LET rest == OtherEntries(Shown(items, s, level), key)
  IN Seqs!InsertAt(rest, Clamped(toIndex, 0, Len(rest)) + 1, key)

\* A bookmark under one of the entries of a level.
Sibling(item, s, level) ==
  item.space = s /\ item.location = level.location /\ inPath(item, level.path)

LEMMA ScopedKeys ==
  ASSUME NEW items \in Seq(Bookmark), NEW s, NEW level, level.path \in Paths,
         NEW i \in DOMAIN items, Sibling(items[i], s, level)
  PROVE  KeyAt(items[i], level.path) \in KeysAt(ScopedTo(items, s, level.location), level.path)
<1> DEFINE scoped == ScopedTo(items, s, level.location)
<1>1. PICK k \in DOMAIN scoped : scoped[k] = items[i]
  <2>1. items[i].space = s /\ items[i].location = level.location
    BY DEF Sibling
  <2> QED BY <2>1, ScopedFacts
<1>2. k \in Within(scoped, level.path)
  BY <1>1 DEF Within, Sibling
<1> HIDE DEF scoped
<1> QED BY <1>1, <1>2 DEF KeysAt, scoped

LEMMA ArrangedLists ==
  ASSUME NEW items \in Seq(Bookmark), NEW s, NEW level, level.path \in Paths,
         NEW key \in Seqs!ToSet(Shown(items, s, level)), NEW toIndex \in Nat
  PROVE  Lists(Arranged(items, s, level, key, toIndex),
               KeysAt(ScopedTo(items, s, level.location), level.path))
<1> DEFINE shown == Shown(items, s, level)
           rest == OtherEntries(shown, key)
           target == Clamped(toIndex, 0, Len(rest)) + 1
           scoped == ScopedTo(items, s, level.location)
           keys == KeysAt(scoped, level.path)
<1>1. scoped \in Seq(Bookmark)
  BY ScopedFacts
<1>2. Lists(shown, keys)
  BY <1>1, EntriesLists DEF Shown
<1>3. key \in keys
  <2>1. PICK n \in DOMAIN shown : key = shown[n]
    BY DEF Seqs!ToSet
  <2> HIDE DEF shown, keys
  <2>2. shown \in Seq(keys)
    BY <1>2 DEF Lists
  <2> QED BY <2>1, <2>2, LenProperties, ElementOfSeq
<1> HIDE DEF shown, keys
<1>4. Lists(rest, keys \ {key})
  BY <1>2, <1>3, WithoutLists
<1> HIDE DEF rest
<1>5. Len(rest) \in Nat
  BY <1>4, LenProperties DEF Lists
<1>6. target \in 1..(Len(rest) + 1)
  <2>1. Clamped(toIndex, 0, Len(rest)) \in 0..Len(rest)
    BY <1>5, ClampedIsLess
  <2> QED BY <2>1, <1>5
<1> HIDE DEF target
<1>7. Lists(Seqs!InsertAt(rest, target, key), (keys \ {key}) \cup {key})
  BY <1>4, <1>6, InsertedLists
<1>8. (keys \ {key}) \cup {key} = keys
  BY <1>3
<1> QED BY <1>7, <1>8 DEF Arranged, target, rest, shown, keys

LEMMA ReorderMeans ==
  ASSUME NEW items \in Seq(Bookmark), NEW s, NEW level, level.path \in Paths,
         NEW key \in Seqs!ToSet(Shown(items, s, level)), NEW toIndex \in Nat
  PROVE  LET after == reorder(items, s, level, key, toIndex)
             arranged == Arranged(items, s, level, key, toIndex) IN
         /\ after = [i \in DOMAIN items |-> after[i]]
         /\ \A i \in DOMAIN items : ~Sibling(items[i], s, level) => after[i] = items[i]
         /\ \A i \in DOMAIN items : Sibling(items[i], s, level) =>
              \E n \in DOMAIN arranged :
                /\ arranged[n] = KeyAt(items[i], level.path)
                /\ n - 1 \in Nat
                /\ after[i] = withOrderAt(items[i], Len(level.path), n - 1)
<1> DEFINE arranged == Arranged(items, s, level, key, toIndex)
           place(item) == CHOOSE n \in DOMAIN arranged : arranged[n] = KeyAt(item, level.path)
           after == reorder(items, s, level, key, toIndex)
           keys == KeysAt(ScopedTo(items, s, level.location), level.path)
<1>1. Lists(arranged, keys)
  BY ArrangedLists
<1> HIDE DEF keys
<1>2. after = [i \in DOMAIN items |->
                 IF Sibling(items[i], s, level)
                   THEN withOrderAt(items[i], Len(level.path), place(items[i]) - 1)
                   ELSE items[i]]
  BY DEF reorder, Arranged, Sibling
<1> HIDE DEF arranged, after
<1>3. DOMAIN arranged = 1..Len(arranged) /\ Len(arranged) \in Nat
  BY <1>1, LenProperties DEF Lists
<1>4. ASSUME NEW i \in DOMAIN items, Sibling(items[i], s, level)
      PROVE  \E n \in DOMAIN arranged :
                /\ arranged[n] = KeyAt(items[i], level.path)
                /\ n - 1 \in Nat
                /\ after[i] = withOrderAt(items[i], Len(level.path), n - 1)
  <2>1. KeyAt(items[i], level.path) \in keys
    BY <1>4, ScopedKeys DEF keys
  <2>2. \E n \in DOMAIN arranged : arranged[n] = KeyAt(items[i], level.path)
    BY <1>1, <2>1 DEF Lists
  <2>3. place(items[i]) \in DOMAIN arranged /\ arranged[place(items[i])] = KeyAt(items[i], level.path)
    BY <2>2
  <2>4. after[i] = withOrderAt(items[i], Len(level.path), place(items[i]) - 1)
    BY <1>2, <1>4
  <2> HIDE DEF place
  <2>5. place(items[i]) - 1 \in Nat
    BY <2>3, <1>3
  <2> QED BY <2>3, <2>4, <2>5
<1>5. \A i \in DOMAIN items : ~Sibling(items[i], s, level) => after[i] = items[i]
  BY <1>2
<1>6. after = [i \in DOMAIN items |-> after[i]]
  BY <1>2
<1> QED BY <1>4, <1>5, <1>6 DEF after, arranged

LEMMA ReorderKeeps ==
  ASSUME NEW items, Kept(items), NEW s, NEW level \in LevelsOf(items),
         NEW key \in Seqs!ToSet(Shown(items, s, level)), NEW toIndex \in Nat
  PROVE  Kept(reorder(items, s, level, key, toIndex))
<1> DEFINE after == reorder(items, s, level, key, toIndex)
<1>1. items \in Seq(Bookmark) /\ level.path \in Paths /\ Len(level.path) \in Nat
  BY LevelFacts DEF Kept
<1>2. /\ after = [i \in DOMAIN items |-> after[i]]
      /\ \A i \in DOMAIN items : \/ after[i] = items[i]
                                \/ \E order \in Nat : after[i] = withOrderAt(items[i], Len(level.path), order)
  BY <1>1, ReorderMeans
<1> HIDE DEF after
<1>3. ASSUME NEW i \in DOMAIN items
      PROVE  after[i] \in Bookmark /\ after[i].id = items[i].id
  <2>1. items[i] \in Bookmark
    BY <1>1, Typed
  <2>2. \A order \in Nat : /\ withOrderAt(items[i], Len(level.path), order) \in Bookmark
                           /\ withOrderAt(items[i], Len(level.path), order).id = items[i].id
    BY <2>1, <1>1, OrderAtTypes
  <2> QED BY <2>1, <2>2, <1>2
<1>4. Kept(after)
  BY <1>2, <1>3, KeptChanged
<1> QED BY <1>4 DEF after

LEMMA RenameKeeps ==
  ASSUME Kept(bookmarks), NEW i \in DOMAIN bookmarks, NEW title \in Titles, renameBookmark(i, title)
  PROVE  Kept(bookmarks') /\ reader' = reader
<1>1. bookmarks \in Seq(Bookmark) /\ DOMAIN bookmarks = 1..Len(bookmarks)
  BY LenProperties DEF Kept
<1>2. bookmarks' = [bookmarks EXCEPT ![i].title = title]
  BY DEF renameBookmark
<1>3. ASSUME NEW j \in DOMAIN bookmarks
      PROVE  bookmarks'[j] \in Bookmark /\ bookmarks'[j].id = bookmarks[j].id
  <2>1. bookmarks[j] \in Bookmark
    BY <1>1, Typed
  <2>2. CASE j = i
    <3>1. bookmarks'[j] = [bookmarks[j] EXCEPT !.title = title]
      BY <2>2, <1>2
    <3> QED BY <2>1, <3>1 DEF Bookmark
  <2>3. CASE j # i
    BY <2>1, <2>3, <1>2
  <2> QED BY <2>2, <2>3
<1>4. bookmarks \in [DOMAIN bookmarks -> Bookmark]
  BY <1>1, LenProperties
<1>5. bookmarks' = [j \in DOMAIN bookmarks |-> bookmarks'[j]]
  BY <1>2, <1>4
<1>6. Kept(bookmarks')
  BY <1>3, <1>5, KeptChanged
<1> QED BY <1>6 DEF renameBookmark

LEMMA RenameFolderKeeps ==
  ASSUME Kept(bookmarks), NEW level \in LevelsOf(bookmarks), NEW name \in FolderNames,
         NEW next \in FolderNames, renameBookmarkFolder(level, name, next)
  PROVE  Kept(bookmarks') /\ reader' = reader
<1>1. bookmarks \in Seq(Bookmark) /\ DOMAIN bookmarks = 1..Len(bookmarks)
      /\ level.path \in Paths /\ Len(level.path) \in Nat
  BY LenProperties, LevelFacts DEF Kept
<1>2. bookmarks' = [i \in DOMAIN bookmarks |->
                     IF inFolder(bookmarks[i], reader, level, name)
                       THEN [bookmarks[i] EXCEPT !.folderPath[Len(level.path) + 1] = next]
                       ELSE bookmarks[i]]
  BY DEF renameBookmarkFolder
<1>3. ASSUME NEW i \in DOMAIN bookmarks
      PROVE  bookmarks'[i] \in Bookmark /\ bookmarks'[i].id = bookmarks[i].id
  <2> DEFINE b == bookmarks[i]
             path == [b.folderPath EXCEPT ![Len(level.path) + 1] = next]
  <2>1. b \in Bookmark /\ b.folderPath \in Paths
    BY <1>1, Typed
  <2>2. CASE inFolder(b, reader, level, name)
    <3>1. inPath(b, level.path) /\ b.folderPath # level.path
      BY <2>1, <2>2, <1>1, UnderFolder DEF inFolder
    <3>2. Len(level.path) < Len(b.folderPath)
      BY <2>1, <3>1, <1>1, KeyBelow
    <3>3. Len(b.folderPath) \in Nat /\ b.folderPath \in Seq(FolderNames)
      BY <2>1, LenProperties DEF Paths
    <3>4. Len(level.path) + 1 \in 1..Len(b.folderPath)
      BY <3>2, <3>3, <1>1
    <3>5. path \in Seq(FolderNames)
      BY <3>3, <3>4, ExceptSeq
    <3>6. bookmarks'[i] = [b EXCEPT !.folderPath = path]
      BY <1>2, <2>2
    <3> HIDE DEF path
    <3> QED BY <2>1, <3>5, <3>6 DEF Bookmark
  <2>3. CASE ~inFolder(b, reader, level, name)
    BY <2>1, <2>3, <1>2
  <2> QED BY <2>2, <2>3
<1>4. bookmarks' = [i \in DOMAIN bookmarks |-> bookmarks'[i]]
  BY <1>2
<1>5. Kept(bookmarks')
  BY <1>3, <1>4, KeptChanged
<1> QED BY <1>5 DEF renameBookmarkFolder

-----------------------------------------------------------------------------
(* What a Chrome profile brings in.                                        *)

Found == [title : Titles, url : PageUrls, space : AccountSpaces, location : Locations,
          folderPath : Seq(FolderNames), order : Nat, orderPath : Seq(Nat)]

OrderPaths == Seq(Nat) \ {<< >>}

Visits == Nodes \X Seq(FolderNames) \X OrderPaths

\* What a visit yields, given what the visits of the children yield.
Visited(v, s, location, visit) ==
  LET node == v[1]  folderPath == v[2]  orderPath == v[3]
      nextPath == IF node.name = "" THEN folderPath ELSE Append(folderPath, node.name)
  IN IF Len(orderPath) > MaxDepth \/ node.url \in OtherUrls THEN << >>
     ELSE IF node.url \in PageUrls
       THEN <<[title |-> node.name, url |-> node.url, space |-> s, location |-> location,
               folderPath |-> folderPath, order |-> Seqs!Last(orderPath), orderPath |-> orderPath]>>
       ELSE Seqs!FlattenSeq([n \in DOMAIN node.children |->
              visit[<<node.children[n], nextPath, Append(orderPath, n - 1)>>]])

LEMMA VisitParts ==
  ASSUME NEW v \in Visits
  PROVE  /\ v[1] \in Nodes /\ v[2] \in Seq(FolderNames) /\ v[3] \in Seq(Nat)
         /\ Len(v[3]) \in Nat \ {0}
         /\ v[1].children \in Seq(Nodes)
         /\ Len(v[1].children) \in Nat /\ DOMAIN v[1].children = 1..Len(v[1].children)
         /\ Seqs!Last(v[3]) \in Nat
<1>1. v[1] \in Nodes /\ v[2] \in Seq(FolderNames) /\ v[3] \in Seq(Nat) /\ v[3] # << >>
  BY DEF Visits, OrderPaths
<1>2. Len(v[3]) \in Nat \ {0}
  BY <1>1, EmptySeq
<1>3. v[1].children \in Seq(Nodes)
  BY <1>1, NodesAssumption
<1>4. v[3][Len(v[3])] \in Nat
  <2>1. Len(v[3]) \in 1..Len(v[3])
    BY <1>2
  <2> QED BY <1>1, <2>1, ElementOfSeq
<1> QED BY <1>1, <1>2, <1>3, <1>4, LenProperties DEF Seqs!Last

\* A visit of a child is one of a longer order path.
LEMMA ChildVisit ==
  ASSUME NEW v \in Visits, v[1].url \notin PageUrls, v[1].url \notin OtherUrls,
         NEW n \in DOMAIN v[1].children
  PROVE  LET nextPath == IF v[1].name = "" THEN v[2] ELSE Append(v[2], v[1].name)
             c == <<v[1].children[n], nextPath, Append(v[3], n - 1)>>
         IN c \in Visits /\ Len(c[3]) = Len(v[3]) + 1
<1> DEFINE unnamed == ""
           nextPath == IF v[1].name = unnamed THEN v[2] ELSE Append(v[2], v[1].name)
           longer == Append(v[3], n - 1)
<1>1. v[1].name \in FolderNames \cup {unnamed}
  BY VisitParts, NodesAssumption
<1> HIDE DEF unnamed
<1>2. v[2] \in Seq(FolderNames) /\ v[3] \in Seq(Nat) /\ v[1].children \in Seq(Nodes)
  BY VisitParts
<1>3. nextPath \in Seq(FolderNames)
  <2>1. CASE v[1].name = unnamed
    BY <2>1, <1>2
  <2>2. CASE v[1].name # unnamed
    BY <2>2, <1>1, <1>2, Appended
  <2> QED BY <2>1, <2>2
<1>4. n \in 1..Len(v[1].children) /\ n - 1 \in Nat
  BY VisitParts
<1>5. v[1].children[n] \in Nodes
  BY <1>2, <1>4, ElementOfSeq
<1>6. longer \in Seq(Nat) /\ Len(longer) = Len(v[3]) + 1
  BY <1>2, <1>4, Appended
<1>7. longer # << >>
  BY <1>6, VisitParts, EmptySeq
<1> HIDE DEF nextPath, longer
<1>8. LET c == <<v[1].children[n], nextPath, longer>> IN c \in Visits /\ Len(c[3]) = Len(v[3]) + 1
  BY <1>3, <1>5, <1>6, <1>7 DEF Visits, OrderPaths
<1> QED BY <1>8 DEF nextPath, longer, unnamed

LEMMA VisitedType ==
  ASSUME NEW s \in AccountSpaces, NEW location \in Locations, NEW v \in Visits, NEW visit,
         \A c \in Visits : Len(v[3]) <= MaxDepth /\ Len(c[3]) = Len(v[3]) + 1 => visit[c] \in Seq(Found)
  PROVE  Visited(v, s, location, visit) \in Seq(Found)
<1> DEFINE nextPath == IF v[1].name = "" THEN v[2] ELSE Append(v[2], v[1].name)
           child(n) == <<v[1].children[n], nextPath, Append(v[3], n - 1)>>
           ss == [n \in DOMAIN v[1].children |-> visit[child(n)]]
           page == [title |-> v[1].name, url |-> v[1].url, space |-> s, location |-> location,
                    folderPath |-> v[2], order |-> Seqs!Last(v[3]), orderPath |-> v[3]]
<1>0. Len(v[3]) \in Nat
  BY VisitParts
<1>1. CASE Len(v[3]) > MaxDepth \/ v[1].url \in OtherUrls
  BY <1>1, EmptySeq DEF Visited
<1>2. CASE ~(Len(v[3]) > MaxDepth \/ v[1].url \in OtherUrls) /\ v[1].url \in PageUrls
  <2>1. v[1].name \in Titles
    BY <1>2, VisitParts, NodesAssumption
  <2>2. page \in Found
    BY <1>2, <2>1, VisitParts DEF Found
  <2>3. Visited(v, s, location, visit) = <<page>>
    BY <1>2 DEF Visited
  <2> HIDE DEF page
  <2> QED BY <2>2, <2>3
<1>3. CASE ~(Len(v[3]) > MaxDepth \/ v[1].url \in OtherUrls) /\ v[1].url \notin PageUrls
  <2>1. \A n \in DOMAIN v[1].children : child(n) \in Visits /\ Len(child(n)[3]) = Len(v[3]) + 1
    BY <1>3, ChildVisit
  <2>2. Len(v[3]) <= MaxDepth
    BY <1>3, <1>0, BoundsAssumption
  <2>3. \A n \in DOMAIN v[1].children : visit[child(n)] \in Seq(Found)
    <3> HIDE DEF child
    <3> QED BY <2>1, <2>2
  <2>4. Len(v[1].children) \in Nat /\ DOMAIN v[1].children = 1..Len(v[1].children)
    BY VisitParts
  <2>5. [n \in 1..Len(v[1].children) |-> visit[child(n)]] \in Seq(Seq(Found))
    <3> HIDE DEF child
    <3> QED BY <2>3, <2>4, IsASeq
  <2>6. Seqs!FlattenSeq(ss) \in Seq(Found)
    BY <2>4, <2>5, FlattenType
  <2>7. Visited(v, s, location, visit) = Seqs!FlattenSeq(ss)
    BY <1>3, Zenon DEF Visited
  <2> QED BY <2>6, <2>7
<1> QED BY <1>1, <1>2, <1>3

\* How much deeper a visit may go.
Depth(l) == IF l <= MaxDepth THEN MaxDepth + 1 - l ELSE 0

LEMMA DepthFalls ==
  ASSUME NEW l \in Nat
  PROVE  Depth(l) \in 0..(MaxDepth + 1) /\ (l <= MaxDepth => Depth(l + 1) < Depth(l))
<1>1. MaxDepth \in Nat
  BY BoundsAssumption
<1> QED BY <1>1 DEF Depth

LEMMA VisitRecursion ==
  ASSUME NEW s \in AccountSpaces, NEW location \in Locations
  PROVE  \A v \in Visits : visitNode(s, location)[v] = Visited(v, s, location, visitNode(s, location))
<1> DEFINE V == Seq(Found)
           next(f) == [v \in Visits |-> Visited(v, s, location, f)]
           step == [f \in [Visits -> V] |-> next(f)]
           rank == [v \in Visits |-> Depth(Len(v[3]))]
           start == [v \in Visits |-> << >>]
           visit == CHOOSE f : f = next(f)
<1>1. \A v \in Visits : Len(v[3]) \in Nat
  BY VisitParts
<1>2. step \in [[Visits -> V] -> [Visits -> V]]
  <2> SUFFICES ASSUME NEW f \in [Visits -> V], NEW v \in Visits
               PROVE  Visited(v, s, location, f) \in V
    OBVIOUS
  <2>1. \A c \in Visits : f[c] \in Seq(Found)
    OBVIOUS
  <2> QED BY <2>1, VisitedType
<1>3. rank \in [Visits -> 0..(MaxDepth + 1)]
  BY <1>1, DepthFalls
<1>4. ASSUME NEW f \in [Visits -> V], NEW g \in [Visits -> V], NEW v \in Visits,
             \A y \in Visits : rank[y] < rank[v] => f[y] = g[y]
      PROVE  step[f][v] = step[g][v]
  <2> DEFINE nextPath == IF v[1].name = "" THEN v[2] ELSE Append(v[2], v[1].name)
             child(n) == <<v[1].children[n], nextPath, Append(v[3], n - 1)>>
  <2>1. CASE Len(v[3]) > MaxDepth \/ v[1].url \in OtherUrls \/ v[1].url \in PageUrls
    <3>1. Visited(v, s, location, f) = Visited(v, s, location, g)
      BY <2>1, Zenon DEF Visited
    <3> QED BY <3>1
  <2>2. CASE ~(Len(v[3]) > MaxDepth \/ v[1].url \in OtherUrls \/ v[1].url \in PageUrls)
    <3>1. \A n \in DOMAIN v[1].children : child(n) \in Visits /\ Len(child(n)[3]) = Len(v[3]) + 1
      BY <2>2, ChildVisit
    <3>2. ASSUME NEW n \in DOMAIN v[1].children
          PROVE  f[child(n)] = g[child(n)]
      <4> DEFINE c == child(n)
      <4>1. c \in Visits /\ Len(c[3]) = Len(v[3]) + 1
        BY <3>1
      <4> HIDE DEF c
      <4>2. Len(v[3]) \in Nat /\ Len(v[3]) <= MaxDepth
        BY <2>2, <1>1, BoundsAssumption
      <4>3. rank[c] < rank[v]
        BY <4>1, <4>2, DepthFalls
      <4>4. f[c] = g[c]
        BY <4>1, <4>3, <1>4
      <4> QED BY <4>4 DEF c
    <3>3. [n \in DOMAIN v[1].children |-> f[child(n)]] = [n \in DOMAIN v[1].children |-> g[child(n)]]
      <4> HIDE DEF child
      <4> QED BY <3>2
    <3>4. Visited(v, s, location, f) = Visited(v, s, location, g)
      BY <2>2, <3>3, Zenon DEF Visited
    <3> QED BY <3>4
  <2> QED BY <2>1, <2>2
<1>5. Solvable(step, Visits, V)
  <2>1. Descends(step, rank, Visits, V)
    BY <1>4, Zenon DEF Descends
  <2>2. MaxDepth + 1 \in Nat /\ start \in [Visits -> V]
    BY BoundsAssumption, EmptySeq
  <2> HIDE DEF step, rank, V, start
  <2> QED BY <2>2, <1>2, <1>3, <2>1, RankRecursion
<1>6. \E f : f = next(f)
  BY <1>5, Zenon DEF Solvable
<1>7. visit = next(visit)
  BY <1>6, Zenon
<1>8. visitNode(s, location) = visit
  BY Zenon DEF visitNode, Visited, Visits, OrderPaths
<1> HIDE DEF visit
<1>9. \A v \in Visits : visit[v] = Visited(v, s, location, visit)
  BY <1>7
<1> QED BY <1>8, <1>9

LEMMA VisitType ==
  ASSUME NEW s \in AccountSpaces, NEW location \in Locations
  PROVE  \A v \in Visits : visitNode(s, location)[v] \in Seq(Found)
<1> DEFINE visit == visitNode(s, location)
           Good == {v \in Visits : visit[v] \in Seq(Found)}
           rank == [v \in Visits |-> Depth(Len(v[3]))]
<1>1. \A v \in Visits : Len(v[3]) \in Nat
  BY VisitParts
<1>2. rank \in [Visits -> Nat]
  <2>1. \A v \in Visits : Depth(Len(v[3])) \in 0..(MaxDepth + 1)
    BY <1>1, DepthFalls
  <2> QED BY <2>1
<1>3. ASSUME NEW v \in Visits, \A y \in Visits : rank[y] < rank[v] => y \in Good
      PROVE  v \in Good
  <2>1. ASSUME NEW c \in Visits, Len(v[3]) <= MaxDepth, Len(c[3]) = Len(v[3]) + 1
        PROVE  visit[c] \in Seq(Found)
    <3>1. rank[c] < rank[v]
      BY <2>1, <1>1, DepthFalls
    <3>2. c \in Good
      BY <3>1, <1>3
    <3> QED BY <3>2
  <2>2. visit[v] = Visited(v, s, location, visit)
    BY VisitRecursion
  <2>3. Visited(v, s, location, visit) \in Seq(Found)
    <3> HIDE DEF visit
    <3> QED BY <2>1, VisitedType
  <2> QED BY <2>2, <2>3
<1>4. Visits \subseteq Good
  <2> HIDE DEF Good, rank
  <2> QED BY <1>2, <1>3, RankInduction
<1> QED BY <1>4

LEMMA RootType ==
  ASSUME NEW root \in Root, NEW s \in AccountSpaces
  PROVE  parseRoot(root, s) \in Seq(Found)
<1> DEFINE location == IF root.root = "bookmark_bar" THEN "bar" ELSE "other"
           visit == visitNode(s, location)
           path == IF root.root = "synced" THEN <<root.name>> ELSE << >>
           at(n) == <<root.children[n], path, <<n - 1>>>>
<1>1. location \in Locations
  BY DEF Locations
<1>2. root.children \in Seq(Nodes) /\ root.name \in FolderNames
  BY DEF Root
<1>3. Len(root.children) \in Nat /\ DOMAIN root.children = 1..Len(root.children)
  BY <1>2, LenProperties
<1>4. path \in Seq(FolderNames)
  BY <1>2, EmptySeq
<1> HIDE DEF location, path
<1>5. ASSUME NEW n \in 1..Len(root.children)
      PROVE  visit[at(n)] \in Seq(Found)
  <2>1. root.children[n] \in Nodes
    BY <1>2, ElementOfSeq
  <2>2. n - 1 \in Nat
    BY <1>3
  <2>3. <<n - 1>> \in Seq(Nat) /\ <<n - 1>> # << >>
    BY <2>2
  <2>4. at(n) \in Visits
    BY <2>1, <2>3, <1>4 DEF Visits, OrderPaths
  <2> HIDE DEF at
  <2> QED BY <2>4, <1>1, VisitType
<1>6. [n \in 1..Len(root.children) |-> visit[at(n)]] \in Seq(Seq(Found))
  <2> HIDE DEF visit, at
  <2> QED BY <1>3, <1>5, IsASeq
<1>7. Seqs!FlattenSeq([n \in DOMAIN root.children |-> visit[at(n)]]) \in Seq(Found)
  BY <1>3, <1>6, FlattenType
<1> QED BY <1>7, Zenon DEF parseRoot, location, path

LEMMA ChromeType ==
  ASSUME NEW roots \in Seq(Root), NEW s \in AccountSpaces
  PROVE  parseChromeBookmarks(roots, s) \in Seq(Found)
<1> DEFINE found == Seqs!FlattenSeq([r \in DOMAIN roots |-> parseRoot(roots[r], s)])
           taken == Min({Len(found), MaxItems})
<1>1. Len(roots) \in Nat /\ DOMAIN roots = 1..Len(roots) /\ \A r \in 1..Len(roots) : roots[r] \in Root
  BY LenProperties, ElementOfSeq
<1>2. \A r \in 1..Len(roots) : parseRoot(roots[r], s) \in Seq(Found)
  BY <1>1, RootType
<1>3. [r \in 1..Len(roots) |-> parseRoot(roots[r], s)] \in Seq(Seq(Found))
  BY <1>1, <1>2, IsASeq
<1>4. found \in Seq(Found)
  BY <1>1, <1>3, FlattenType
<1> HIDE DEF found
<1>5. Len(found) \in Nat /\ \A n \in 1..Len(found) : found[n] \in Found
  BY <1>4, LenProperties, ElementOfSeq
<1>6. taken \in Nat /\ taken <= Len(found)
  <2>1. Min({Len(found), MaxItems}) \in {Len(found), MaxItems}
        /\ \A y \in {Len(found), MaxItems} : Min({Len(found), MaxItems}) <= y
    BY <1>5, BoundsAssumption, LeastOf
  <2> QED BY <2>1, <1>5, BoundsAssumption
<1> HIDE DEF taken
<1>7. 1 \in Int /\ taken \in Int /\ \A n \in 1..taken : found[n] \in Found
  BY <1>5, <1>6
<1>8. SubSeq(found, 1, taken) \in Seq(Found)
  BY <1>7, SubSeqProperties
<1> QED BY <1>8 DEF parseChromeBookmarks, found, taken

LEMMA BookmarkAddKeeps ==
  ASSUME NEW items, Kept(items), NEW found \in Found
  PROVE  Kept(AddBookmark(items, found))
<1> DEFINE b == [id |-> FreshId(items), title |-> found.title, url |-> found.url,
                 space |-> found.space, location |-> found.location,
                 folderPath |-> found.folderPath, order |-> found.order,
                 orderPath |-> found.orderPath]
<1>1. items \in Seq(Bookmark) /\ Len(items) \in Nat
  BY LenProperties DEF Kept
<1>2. CASE Len(items) >= MaxItems \/ \E i \in DOMAIN items : ImportKey(items[i]) = ImportKey(found)
  BY <1>2 DEF AddBookmark
<1>3. CASE ~(Len(items) >= MaxItems \/ \E i \in DOMAIN items : ImportKey(items[i]) = ImportKey(found))
  <2>1. Len(items) <= MaxItems
    BY <1>1, <1>3, BoundsAssumption
  <2>2. /\ FreshId(items) \in 1..(MaxItems + 1)
        /\ \A i \in DOMAIN items : items[i].id # FreshId(items)
    BY <1>1, <2>1, FreshIdIsFree
  <2>3. b \in Bookmark
    BY <2>2 DEF Bookmark, Found
  <2>4. b.id = FreshId(items)
    OBVIOUS
  <2>5. AddBookmark(items, found) = Append(items, b)
    BY <1>3 DEF AddBookmark
  <2> HIDE DEF b
  <2> QED BY <2>1, <2>2, <2>3, <2>4, <2>5, KeptAppend
<1> QED BY <1>2, <1>3

LEMMA AddedKeeps ==
  ASSUME NEW items, Kept(items), NEW found \in Seq(Found)
  PROVE  Kept(Added(items, found))
<1> DEFINE N == Len(found)
           S == 0..N
           V == {taken \in Seq(Bookmark) : Kept(taken)}
           next(f) == [n \in S |-> IF n = 0 THEN items ELSE AddBookmark(f[n - 1], found[n])]
           step == [f \in [S -> V] |-> next(f)]
           rank == [n \in S |-> n]
           start == [n \in S |-> items]
           added == CHOOSE f : f = next(f)
           Good == {n \in S : Kept(added[n])}
<1>1. N \in Nat /\ \A n \in 1..N : found[n] \in Found
  BY LenProperties, ElementOfSeq
<1>2. \A taken : Kept(taken) <=> taken \in V
  BY DEF Kept
<1>3. ASSUME NEW x \in V, NEW n \in 1..N
      PROVE  AddBookmark(x, found[n]) \in V
  <2>1. Kept(AddBookmark(x, found[n]))
    BY <1>1, <1>2, BookmarkAddKeeps
  <2> QED BY <2>1, <1>2
<1>4. items \in V
  BY <1>2
<1> HIDE DEF V
<1>5. step \in [[S -> V] -> [S -> V]]
  <2> SUFFICES ASSUME NEW f \in [S -> V], NEW n \in S
               PROVE  (IF n = 0 THEN items ELSE AddBookmark(f[n - 1], found[n])) \in V
    OBVIOUS
  <2>1. CASE n = 0
    BY <2>1, <1>4
  <2>2. CASE n # 0
    <3>1. n - 1 \in S /\ n \in 1..N
      BY <1>1, <2>2
    <3>2. f[n - 1] \in V
      BY <3>1
    <3> QED BY <2>2, <3>1, <3>2, <1>3
  <2> QED BY <2>1, <2>2
<1>6. rank \in [S -> 0..N] /\ rank \in [S -> Nat]
  BY <1>1
<1>7. ASSUME NEW f \in [S -> V], NEW g \in [S -> V], NEW n \in S,
             \A y \in S : rank[y] < rank[n] => f[y] = g[y]
      PROVE  step[f][n] = step[g][n]
  <2>1. CASE n = 0
    BY <2>1
  <2>2. CASE n # 0
    <3>1. n - 1 \in S /\ n - 1 < n
      BY <1>1, <2>2
    <3> QED BY <3>1, <1>7
  <2> QED BY <2>1, <2>2
<1>8. Solvable(step, S, V)
  <2>1. Descends(step, rank, S, V)
    BY <1>7, Zenon DEF Descends
  <2>2. N \in Nat /\ start \in [S -> V]
    BY <1>1, <1>4
  <2> HIDE DEF step, rank, S, N, start
  <2> QED BY <2>2, <1>5, <1>6, <2>1, RankRecursion
<1>9. \E f : f = next(f)
  BY <1>8, Zenon DEF Solvable
<1>10. added = next(added)
  BY <1>9, Zenon
<1>11. Added(items, found) = added[Len(found)]
  BY Zenon DEF Added
<1> HIDE DEF added
<1>12. \A n \in S : added[n] = IF n = 0 THEN items ELSE AddBookmark(added[n - 1], found[n])
  BY <1>10
<1>13. ASSUME NEW n \in S, \A y \in S : rank[y] < rank[n] => y \in Good
       PROVE  n \in Good
  <2>1. CASE n = 0
    BY <2>1, <1>12
  <2>2. CASE n # 0
    <3>1. n - 1 \in S /\ n - 1 < n /\ n \in 1..N
      BY <1>1, <2>2
    <3>2. Kept(added[n - 1])
      BY <3>1, <1>13
    <3>3. Kept(AddBookmark(added[n - 1], found[n]))
      BY <3>1, <3>2, <1>1, BookmarkAddKeeps
    <3> QED BY <2>2, <3>3, <1>12
  <2> QED BY <2>1, <2>2
<1>14. S \subseteq Good
  <2> HIDE DEF Good, rank, S
  <2> QED BY <1>6, <1>13, RankInduction
<1>15. Len(found) \in S
  BY <1>1
<1> QED BY <1>11, <1>14, <1>15

LEMMA ImportKeeps ==
  ASSUME Kept(bookmarks), NEW p \in Profiles, NEW s \in AccountSpaces, NEW chosen, NEW readable,
         importChrome(p, s, chosen, readable)
  PROVE  Kept(bookmarks') /\ reader' = reader
<1> DEFINE found == readBookmarks(p, s, chosen \cap readable)
<1>1. bookmarks' = Added(bookmarks, found)
  BY DEF importChrome, readChromeProfile
<1>2. p.roots \in Seq(Root)
  BY NodesAssumption
<1>3. found \in Seq(Found)
  BY <1>2, ChromeType, EmptySeq DEF readBookmarks
<1> HIDE DEF found
<1>4. Kept(bookmarks')
  BY <1>1, <1>3, AddedKeeps
<1> QED BY <1>4 DEF importChrome

-----------------------------------------------------------------------------

LibraryInv == Kept(bookmarks) /\ reader \in AccountSpaces

LEMMA LibraryInductive == LibraryInv /\ [LibraryNext]_libraryVars => LibraryInv'
<1> SUFFICES ASSUME LibraryInv, [LibraryNext]_libraryVars
             PROVE  LibraryInv'
  OBVIOUS
<1>1. Kept(bookmarks) /\ reader \in AccountSpaces /\ bookmarks \in Seq(Bookmark)
  BY DEF LibraryInv, Kept
<1>2. ASSUME NEW url \in PageUrls, NEW title \in Titles, Toggle(url, title)
      PROVE  LibraryInv'
  <2>1. Kept(bookmarks') /\ reader' = reader
    BY <1>1, <1>2, ToggledKeeps
  <2> QED BY <1>1, <2>1 DEF LibraryInv
<1>3. ASSUME NEW level \in LevelsOf(bookmarks), NEW n \in 0..MaxItems,
             NEW key \in Seqs!ToSet(Shown(bookmarks, reader, level)), moveBookmark(level, key, n)
      PROVE  LibraryInv'
  <2>1. n \in Nat
    BY BoundsAssumption
  <2>2. Kept(reorder(bookmarks, reader, level, key, n))
    BY <1>1, <2>1, ReorderKeeps
  <2> QED BY <1>1, <1>3, <2>2 DEF moveBookmark, LibraryInv
<1>4. ASSUME NEW i \in DOMAIN bookmarks, NEW title \in Titles, renameBookmark(i, title)
      PROVE  LibraryInv'
  <2>1. Kept(bookmarks') /\ reader' = reader
    BY <1>1, <1>4, RenameKeeps
  <2> QED BY <1>1, <2>1 DEF LibraryInv
<1>5. ASSUME NEW i \in DOMAIN bookmarks, removeBookmark(i)
      PROVE  LibraryInv'
  <2>1. DOMAIN bookmarks \ {i} \in SUBSET DOMAIN bookmarks
    OBVIOUS
  <2>2. Kept(Among(bookmarks, DOMAIN bookmarks \ {i}))
    BY <1>1, <2>1, KeptAmong
  <2> QED BY <1>1, <1>5, <2>2 DEF removeBookmark, LibraryInv
<1>6. ASSUME NEW level \in LevelsOf(bookmarks), NEW name \in FolderNames, NEW next \in FolderNames,
             renameBookmarkFolder(level, name, next)
      PROVE  LibraryInv'
  <2>1. Kept(bookmarks') /\ reader' = reader
    BY <1>1, <1>6, RenameFolderKeeps
  <2> QED BY <1>1, <2>1 DEF LibraryInv
<1>7. ASSUME NEW level \in LevelsOf(bookmarks), NEW name \in FolderNames,
             removeBookmarkFolder(level, name)
      PROVE  LibraryInv'
  <2> DEFINE left == {i \in DOMAIN bookmarks : ~inFolder(bookmarks[i], reader, level, name)}
  <2>1. left \in SUBSET DOMAIN bookmarks
    OBVIOUS
  <2>2. bookmarks' = Among(bookmarks, left) /\ reader' = reader
    BY <1>7 DEF removeBookmarkFolder
  <2> HIDE DEF left
  <2>3. Kept(bookmarks')
    BY <1>1, <2>1, <2>2, KeptAmong
  <2> QED BY <1>1, <2>2, <2>3 DEF LibraryInv
<1>8. ASSUME NEW p \in Profiles, NEW s \in AccountSpaces, NEW chosen, NEW readable,
             importChrome(p, s, chosen, readable)
      PROVE  LibraryInv'
  <2>1. Kept(bookmarks') /\ reader' = reader
    BY <1>1, <1>8, ImportKeeps
  <2> QED BY <1>1, <2>1 DEF LibraryInv
<1>9. ASSUME NEW url \in PageUrls, addHistory(url)
      PROVE  LibraryInv'
  BY <1>1, <1>9 DEF addHistory, LibraryInv
<1>10. ASSUME NEW s \in AccountSpaces, clearHistory(s)
       PROVE  LibraryInv'
  BY <1>1, <1>10 DEF clearHistory, LibraryInv
<1>11. ASSUME NEW s \in AccountSpaces, switchReader(s)
       PROVE  LibraryInv'
  BY <1>1, <1>11 DEF switchReader, LibraryInv
<1>12. CASE UNCHANGED libraryVars
  BY <1>1, <1>12 DEF libraryVars, LibraryInv
<1> QED BY <1>2, <1>3, <1>4, <1>5, <1>6, <1>7, <1>8, <1>9, <1>10, <1>11, <1>12 DEF LibraryNext

LEMMA LibraryStarts == LibraryInit => LibraryInv
<1>1. << >> \in Seq(Bookmark) /\ Len(<< >>) = 0 /\ DOMAIN << >> = {}
  BY EmptySeq
<1>2. Kept(<< >>)
  BY <1>1, BoundsAssumption DEF Kept, IdsApart
<1> QED BY <1>2 DEF LibraryInit, LibraryInv

(* Whatever is moved, renamed, removed and imported, for any number of     *)
(* folders and bookmarks and however deep, the file exportBookmarksHtml    *)
(* writes names every bookmark of the account once, and nothing else.      *)
THEOREM EachExportedOnce == LibrarySpec => []ExportsEachOnce
<1>2. LibraryInv => ExportsEachOnce
  BY FilesNameOnce DEF LibraryInv, Kept
<1> QED BY <1>2, LibraryStarts, LibraryInductive, PTL DEF LibrarySpec

-----------------------------------------------------------------------------
(* A move changes the place of one entry.                                  *)

LEMMA OrderedIs ==
  ASSUME NEW S, NEW listed, Lists(listed, S), NEW before,
         \A x \in S : before[x] \subseteq S,
         \A m, n \in DOMAIN listed : listed[m] \in before[listed[n]] <=> m < n
  PROVE  Ordered(S, before) = listed
<1>1. /\ Len(listed) \in Nat /\ DOMAIN listed = 1..Len(listed) /\ Len(listed) = Cardinality(S)
      /\ \A n \in 1..Len(listed) : listed[n] \in S
  BY SameLength, LenProperties, ElementOfSeq DEF Lists
<1>2. \A x \in S : \E n \in DOMAIN listed : listed[n] = x
  BY DEF Lists
<1>3. \A i, j \in DOMAIN listed : listed[i] = listed[j] => i = j
  BY DEF Lists
<1>4. ASSUME NEW n \in DOMAIN listed
      PROVE  Cardinality(before[listed[n]]) = n - 1
  <2> DEFINE B == before[listed[n]]
             f == [m \in 1..(n - 1) |-> listed[m]]
  <2>1. n \in Nat /\ n - 1 \in Nat /\ \A m \in 1..(n - 1) : m \in DOMAIN listed /\ m < n
    BY <1>1
  <2>2. \A m \in 1..(n - 1) : f[m] \in B
    BY <2>1
  <2>3. B \subseteq S
    BY <1>1
  <2>4. ASSUME NEW x \in B PROVE \E m \in 1..(n - 1) : f[m] = x
    <3>1. PICK m \in DOMAIN listed : listed[m] = x
      BY <1>2, <2>3
    <3>2. m < n
      BY <3>1
    <3>3. m \in 1..(n - 1)
      BY <3>2, <1>1
    <3> QED BY <3>1, <3>3
  <2>5. \A i, j \in 1..(n - 1) : f[i] = f[j] => i = j
    BY <2>1, <1>3
  <2>6. f \in Bijection(1..(n - 1), B)
    <3> HIDE DEF B
    <3>1. f \in [1..(n - 1) -> B]
      BY <2>2
    <3>2. DOMAIN f = 1..(n - 1)
      OBVIOUS
    <3> HIDE DEF f
    <3> QED BY <3>1, <3>2, <2>4, <2>5 DEF Bijection, Injection, Surjection, IsInjective
  <2>7. ExistsBijection(1..(n - 1), B)
    <3> HIDE DEF f, B
    <3> QED BY <2>6 DEF ExistsBijection
  <2> HIDE DEF B
  <2>8. Cardinality(B) = n - 1
    BY <2>1, <2>7, FS_CountingElements
  <2> QED BY <2>8 DEF B
<1>5. ASSUME NEW n \in DOMAIN listed
      PROVE  (CHOOSE x \in S : Cardinality(before[x]) = n - 1) = listed[n]
  <2>1. listed[n] \in S /\ Cardinality(before[listed[n]]) = n - 1
    BY <1>1, <1>4
  <2>2. ASSUME NEW x \in S, Cardinality(before[x]) = n - 1
        PROVE  x = listed[n]
    <3>1. PICK m \in DOMAIN listed : listed[m] = x
      BY <1>2
    <3>2. m - 1 = n - 1
      BY <3>1, <2>2, <1>4
    <3>3. m = n
      BY <3>2, <1>1
    <3> QED BY <3>1, <3>3
  <2> QED BY <2>1, <2>2
<1>6. Ordered(S, before) = [n \in DOMAIN listed |-> listed[n]]
  BY <1>1, <1>5 DEF Ordered
<1>7. listed = [n \in DOMAIN listed |-> listed[n]]
  BY <1>1, LenProperties DEF Lists
<1> QED BY <1>6, <1>7

LEMMA LeastOfOne ==
  ASSUME NEW n
  PROVE  n \in Nat => Min({n}) = n
BY LeastOf

\* Entries that are numbered as they are listed are shown as they are listed.
LEMMA EntriesFollow ==
  ASSUME NEW items \in Seq(Bookmark), NEW path \in Paths,
         NEW listed, Lists(listed, KeysAt(items, path)),
         \A n \in DOMAIN listed, i \in Within(items, path) :
           KeyAt(items[i], path) = listed[n] => bookmarkOrder(items[i], Len(path)) = n - 1
  PROVE  bookmarkEntries(items, path) = listed
<1> DEFINE within == Within(items, path)
           keys == KeysAt(items, path)
           members(k) == {i \in within : KeyAt(items[i], path) = k}
           orders(k) == {bookmarkOrder(items[i], Len(path)) : i \in members(k)}
           rank == [k \in keys |-> <<Min(orders(k)), IF k.id = 0 THEN 1 ELSE 0, Min(members(k))>>]
           before == [k \in keys |-> {j \in keys : Earlier(rank[j], rank[k])}]
<1>1. /\ Len(listed) \in Nat /\ DOMAIN listed = 1..Len(listed)
      /\ \A n \in 1..Len(listed) : listed[n] \in keys
  BY LenProperties, ElementOfSeq DEF Lists
<1>2. ASSUME NEW n \in DOMAIN listed
      PROVE  rank[listed[n]][1] = n - 1 /\ n - 1 \in Nat
  <2> DEFINE k == listed[n]
  <2>1. k \in keys /\ n - 1 \in Nat
    BY <1>1
  <2>2. members(k) # {}
    BY <2>1 DEF KeysAt
  <2>3. \A i \in members(k) : bookmarkOrder(items[i], Len(path)) = n - 1
    OBVIOUS
  <2>4. orders(k) = {n - 1}
    <3> HIDE DEF members
    <3> QED BY <2>2, <2>3
  <2>5. Min(orders(k)) = n - 1
    BY <2>1, <2>4, LeastOfOne
  <2> HIDE DEF k, orders, members, keys
  <2>6. rank[k][1] = n - 1
    BY <2>1, <2>5
  <2> QED BY <2>1, <2>6 DEF k
<1>3. ASSUME NEW m \in DOMAIN listed, NEW n \in DOMAIN listed
      PROVE  Earlier(rank[listed[m]], rank[listed[n]]) <=> m < n
  <2> DEFINE a == rank[listed[m]]
             b == rank[listed[n]]
  <2>1. a[1] = m - 1 /\ b[1] = n - 1 /\ m \in Nat /\ n \in Nat
    <3> HIDE DEF rank
    <3> QED BY <1>1, <1>2
  <2>2. CASE m = n
    <3>1. a = b
      BY <2>2
    <3>2. b \in Triples
      <4>1. listed[n] \in keys
        BY <1>1
      <4>2. b[3] = Min(members(listed[n])) /\ b = <<b[1], b[2], b[3]>> /\ b[2] \in {0, 1}
        <5> HIDE DEF members, orders, keys
        <5> QED BY <4>1
      <4>3. members(listed[n]) # {} /\ members(listed[n]) \subseteq Nat
        <5>1. DOMAIN items \subseteq Nat
          BY LenProperties
        <5> QED BY <4>1, <5>1 DEF KeysAt, Within
      <4>4. Min(members(listed[n])) \in Nat
        <5> HIDE DEF members
        <5> QED BY <4>3, LeastOf
      <4>5. b[1] \in Nat
        BY <1>2, <2>1
      <4> HIDE DEF b, members
      <4> QED BY <4>2, <4>4, <4>5 DEF Triples
    <3>3. ~Earlier(a, b)
      <4> HIDE DEF a, b
      <4> QED BY <3>1, <3>2, EarlierOrders
    <3> QED BY <3>3, <2>2, <2>1
  <2>3. CASE m # n
    <3>1. a[1] # b[1] /\ (a[1] < b[1] <=> m < n)
      BY <2>1, <2>3
    <3>2. Earlier(a, b) <=> m < n
      <4> HIDE DEF a, b
      <4> QED BY <3>1 DEF Earlier
    <3> QED BY <3>2
  <2> QED BY <2>2, <2>3
<1>4. bookmarkEntries(items, path) = Ordered(keys, before)
  BY DEF bookmarkEntries, Within, KeysAt
<1> HIDE DEF rank, keys
<1>5. \A x \in keys : before[x] \subseteq keys
  OBVIOUS
<1>6. \A m, n \in DOMAIN listed : listed[m] \in before[listed[n]] <=> m < n
  BY <1>1, <1>3
<1>7. Lists(listed, keys)
  BY DEF keys
<1>8. Ordered(keys, before) = listed
  <2> HIDE DEF before
  <2> QED BY <1>5, <1>6, <1>7, OrderedIs
<1> QED BY <1>4, <1>8

\* Two lists with the same bookmarks in the same places.
SamePlaces(a, b) ==
  /\ DOMAIN a = DOMAIN b
  /\ \A i \in DOMAIN a : /\ a[i].id = b[i].id /\ a[i].folderPath = b[i].folderPath
                         /\ a[i].space = b[i].space /\ a[i].location = b[i].location

\* A level whose bookmarks keep their numbers is shown as before.
LEMMA SameEntries ==
  ASSUME NEW a, NEW b, NEW path, SamePlaces(a, b),
         \A i \in DOMAIN a : inPath(a[i], path) =>
           bookmarkOrder(a[i], Len(path)) = bookmarkOrder(b[i], Len(path))
  PROVE  bookmarkEntries(a, path) = bookmarkEntries(b, path) /\ KeysAt(a, path) = KeysAt(b, path)
<1> DEFINE within == Within(a, path)
           keys == KeysAt(a, path)
           members(k) == {i \in within : KeyAt(a[i], path) = k}
           membersB(k) == {i \in within : KeyAt(b[i], path) = k}
           ranks(k) == <<Min({bookmarkOrder(a[i], Len(path)) : i \in members(k)}),
                         IF k.id = 0 THEN 1 ELSE 0, Min(members(k))>>
           ranksB(k) == <<Min({bookmarkOrder(b[i], Len(path)) : i \in membersB(k)}),
                          IF k.id = 0 THEN 1 ELSE 0, Min(membersB(k))>>
           rank == [k \in keys |-> ranks(k)]
           rankB == [k \in keys |-> ranksB(k)]
<1>1. \A i \in DOMAIN a : inPath(a[i], path) <=> inPath(b[i], path)
  BY DEF SamePlaces, inPath
<1>2. within = Within(b, path)
  BY <1>1 DEF SamePlaces, Within
<1>3. \A i \in within : KeyAt(a[i], path) = KeyAt(b[i], path)
  BY Zenon DEF SamePlaces, Within, KeyAt
<1>4. keys = KeysAt(b, path)
  BY <1>2, <1>3 DEF KeysAt
<1>5. \A k : members(k) = membersB(k)
  BY <1>3
<1>6. \A k : {bookmarkOrder(a[i], Len(path)) : i \in members(k)}
               = {bookmarkOrder(b[i], Len(path)) : i \in membersB(k)}
  <2>1. \A k : \A i \in members(k) : bookmarkOrder(a[i], Len(path)) = bookmarkOrder(b[i], Len(path))
    BY DEF Within
  <2> HIDE DEF members, membersB
  <2> QED BY <1>5, <2>1
<1>7. \A k : ranks(k) = ranksB(k)
  <2> HIDE DEF members, membersB
  <2> QED BY <1>5, <1>6
<1>8. rank = rankB
  <2> HIDE DEF ranks, ranksB
  <2> QED BY <1>7
<1>9. bookmarkEntries(a, path) = Ordered(keys, [k \in keys |-> {j \in keys : Earlier(rank[j], rank[k])}])
  BY DEF bookmarkEntries, Within, KeysAt
<1>10. bookmarkEntries(b, path) = Ordered(keys, [k \in keys |-> {j \in keys : Earlier(rankB[j], rankB[k])}])
  <2>1. bookmarkEntries(b, path) =
          LET within2 == Within(b, path)
              keys2 == KeysAt(b, path)
              members2(k) == {i \in within2 : KeyAt(b[i], path) = k}
              rank2 == [k \in keys2 |->
                 <<Min({bookmarkOrder(b[i], Len(path)) : i \in members2(k)}),
                   IF k.id = 0 THEN 1 ELSE 0, Min(members2(k))>>]
          IN Ordered(keys2, [k \in keys2 |-> {j \in keys2 : Earlier(rank2[j], rank2[k])}])
    BY DEF bookmarkEntries, Within, KeysAt
  <2> QED BY <2>1, <1>2, <1>4
<1> HIDE DEF rank, rankB
<1> QED BY <1>4, <1>8, <1>9, <1>10

-----------------------------------------------------------------------------
(* The numbers a move gives, and those it leaves.                          *)

LEMMA Padding ==
  ASSUME NEW h \in Nat, NEW d \in Nat
  PROVE  /\ d - h \in Nat => d - h = IF h < d THEN d - h ELSE 0
         /\ h + (IF h < d THEN d - h ELSE 0) = IF h < d THEN d ELSE h
OBVIOUS

\* What numbering a bookmark at one depth does to the numbers at each depth.
LEMMA OrderAtMeans ==
  ASSUME NEW item \in Bookmark, NEW depth \in Nat, NEW order \in Nat
  PROVE  LET w == withOrderAt(item, depth, order) IN
         /\ w.id = item.id /\ w.folderPath = item.folderPath
         /\ w.space = item.space /\ w.location = item.location
         /\ bookmarkOrder(w, depth) = order
         /\ \A d \in Nat : d # depth /\ d < Len(item.orderPath) =>
              bookmarkOrder(w, d) = bookmarkOrder(item, d)
<1> DEFINE held == item.orderPath
           zeros == [n \in 1..(depth - Len(held)) |->
                       IF n = 1 /\ held = << >> THEN item.order ELSE 0]
           padded == held \o zeros
           path == IF Len(padded) > depth THEN [padded EXCEPT ![depth + 1] = order]
                   ELSE Append(padded, order)
           w == withOrderAt(item, depth, order)
<1>1. held \in Seq(Nat) /\ item.order \in Nat
  BY DEF Bookmark
<1>2. Len(held) \in Nat
  BY <1>1, LenProperties
<1>3. zeros \in Seq(Nat) /\ Len(zeros) = IF Len(held) < depth THEN depth - Len(held) ELSE 0
  <2>1. CASE depth - Len(held) \in Nat
    <3> DEFINE n == depth - Len(held)
               z == [k \in 1..n |-> IF k = 1 /\ held = << >> THEN item.order ELSE 0]
    <3>1. z \in Seq(Nat) /\ Len(z) = n
      <4> HIDE DEF n
      <4>1. n \in Nat
        BY <2>1 DEF n
      <4>2. \A k \in 1..n : (IF k = 1 /\ held = << >> THEN item.order ELSE 0) \in Nat
        BY <1>1
      <4> HIDE DEF held
      <4>3. z \in Seq(Nat)
        BY <4>1, <4>2, IsASeq
      <4>4. DOMAIN z = 1..n
        OBVIOUS
      <4> HIDE DEF z
      <4>5. DOMAIN z = 1..Len(z) /\ Len(z) \in Nat
        BY <4>3, LenProperties
      <4> QED BY <4>1, <4>3, <4>4, <4>5
    <3>2. n = IF Len(held) < depth THEN depth - Len(held) ELSE 0
      <4> HIDE DEF held
      <4> QED BY <2>1, <1>2, Padding
    <3> QED BY <3>1, <3>2
  <2>2. CASE depth - Len(held) \notin Nat
    <3>1. 1..(depth - Len(held)) = {} /\ ~(Len(held) < depth)
      BY <2>2, <1>2
    <3>2. zeros = << >>
      BY <3>1
    <3> QED BY <3>1, <3>2, EmptySeq
  <2> QED BY <2>1, <2>2
<1> HIDE DEF zeros
<1>4. /\ padded \in Seq(Nat) /\ Len(padded) = IF Len(held) < depth THEN depth ELSE Len(held)
      /\ \A n \in 1..Len(held) : padded[n] = held[n]
  <2>1. /\ padded \in Seq(Nat) /\ Len(padded) = Len(held) + Len(zeros)
        /\ \A i \in 1..(Len(held) + Len(zeros)) : padded[i] = IF i <= Len(held) THEN held[i] ELSE zeros[i - Len(held)]
    BY <1>1, <1>3, ConcatProperties
  <2> HIDE DEF padded
  <2>2. Len(zeros) \in Nat
    BY <1>3, <1>2
  <2>3. \A n \in 1..Len(held) : n \in 1..(Len(held) + Len(zeros)) /\ n <= Len(held)
    BY <2>2, <1>2
  <2>4. Len(padded) = IF Len(held) < depth THEN depth ELSE Len(held)
    <3> HIDE DEF held
    <3> QED BY <2>1, <1>2, <1>3, Padding
  <2> QED BY <2>1, <2>3, <2>4
<1> HIDE DEF padded
<1>5. /\ Len(path) > depth /\ path[depth + 1] = order
      /\ Len(path) >= Len(held) /\ Len(path) \in Nat
      /\ \A d \in Nat : d # depth /\ d < Len(held) => path[d + 1] = held[d + 1]
  <2>1. CASE Len(held) > depth
    <3>1. Len(padded) = Len(held) /\ depth + 1 \in 1..Len(padded)
      BY <2>1, <1>2, <1>4
    <3>2. path = [padded EXCEPT ![depth + 1] = order]
      BY <2>1, <3>1
    <3>3. Len(path) = Len(padded) /\ \A j \in 1..Len(padded) : path[j] = IF j = depth + 1 THEN order ELSE padded[j]
      BY <3>1, <3>2, <1>4, ExceptSeq
    <3> HIDE DEF path
    <3>4. ASSUME NEW d \in Nat, d # depth, d < Len(held)
          PROVE  path[d + 1] = held[d + 1]
      <4>1. d + 1 \in 1..Len(held) /\ d + 1 # depth + 1
        BY <3>4, <1>2
      <4> QED BY <4>1, <3>1, <3>3, <1>4
    <3> QED BY <2>1, <3>1, <3>3, <3>4, <1>2
  <2>2. CASE ~(Len(held) > depth)
    <3>1. Len(padded) = depth
      BY <2>2, <1>2, <1>4
    <3>2. path = Append(padded, order)
      BY <3>1
    <3>3. /\ path \in Seq(Nat) /\ Len(path) = Len(padded) + 1
          /\ \A i \in 1..Len(padded) : path[i] = padded[i]
          /\ path[Len(padded) + 1] = order
      BY <3>2, <1>4, Appended
    <3> HIDE DEF path
    <3>4. ASSUME NEW d \in Nat, d # depth, d < Len(held)
          PROVE  path[d + 1] = held[d + 1]
      <4>1. d + 1 \in 1..Len(held) /\ d + 1 \in 1..Len(padded)
        BY <2>2, <3>1, <3>4, <1>2
      <4> QED BY <4>1, <3>3, <1>4
    <3> QED BY <2>2, <3>1, <3>3, <3>4, <1>2
  <2> QED BY <2>1, <2>2
<1>6. w = [item EXCEPT !.orderPath = path, !.order = IF depth = 0 THEN order ELSE @]
  BY DEF withOrderAt, padded, zeros
<1> HIDE DEF path
<1>7. /\ w.id = item.id /\ w.folderPath = item.folderPath
      /\ w.space = item.space /\ w.location = item.location
      /\ w.orderPath = path
  BY <1>6 DEF Bookmark
<1> HIDE DEF w
<1>8. bookmarkOrder(w, depth) = order
  BY <1>5, <1>7 DEF bookmarkOrder
<1>9. ASSUME NEW d \in Nat, d # depth, d < Len(held)
      PROVE  bookmarkOrder(w, d) = bookmarkOrder(item, d)
  <2>1. d < Len(path) /\ path[d + 1] = held[d + 1]
    BY <1>5, <1>9, <1>2
  <2> QED BY <2>1, <1>7, <1>9 DEF bookmarkOrder
<1> QED BY <1>7, <1>8, <1>9 DEF w

\* What is in scope stands at the same places of both lists.
ScopesMatch(a, b, s, l) ==
  \A k \in DOMAIN ScopedTo(a, s, l) : \E i \in DOMAIN a :
    /\ a[i].space = s /\ a[i].location = l
    /\ ScopedTo(a, s, l)[k] = a[i] /\ ScopedTo(b, s, l)[k] = b[i]

\* A scope of two lists with the same bookmarks in the same places.
LEMMA SameScope ==
  ASSUME NEW a \in Seq(Bookmark), NEW b, SamePlaces(a, b), b = [i \in DOMAIN a |-> b[i]], NEW s, NEW l
  PROVE  /\ SamePlaces(ScopedTo(a, s, l), ScopedTo(b, s, l))
         /\ ScopesMatch(a, b, s, l)
<1> DEFINE places == {i \in DOMAIN a : a[i].space = s /\ a[i].location = l}
<1>1. ScopedTo(a, s, l) = Among(a, places)
  BY DEF ScopedTo
<1>2. ScopedTo(b, s, l) = Among(b, places)
  <2>1. places = {i \in DOMAIN b : b[i].space = s /\ b[i].location = l}
    BY DEF SamePlaces
  <2> QED BY <2>1 DEF ScopedTo
<1>3. Len(a) \in Nat /\ DOMAIN a = 1..Len(a)
  BY LenProperties
<1>4. places \in SUBSET (1..Len(a))
  BY <1>3
<1>5. PICK at : /\ Lists(at, places)
                /\ \A t : Among(t, places) = [k \in 1..Cardinality(places) |-> t[at[k]]]
                /\ DOMAIN at = 1..Cardinality(places)
                /\ Cardinality(places) \in Nat /\ Cardinality(places) <= Len(a)
  <2> HIDE DEF places
  <2> QED BY <1>3, <1>4, AmongPlaces
<1>6. \A k \in DOMAIN at : at[k] \in places
  <2>1. at \in Seq(places)
    BY <1>5 DEF Lists
  <2> HIDE DEF places
  <2> QED BY <2>1, LenProperties, ElementOfSeq
<1> DEFINE A == Among(a, places)
           B == Among(b, places)
<1>7. DOMAIN A = DOMAIN at /\ DOMAIN B = DOMAIN at /\ \A k \in DOMAIN at : A[k] = a[at[k]] /\ B[k] = b[at[k]]
  <2>1. A = [k \in 1..Cardinality(places) |-> a[at[k]]] /\ B = [k \in 1..Cardinality(places) |-> b[at[k]]]
    <3> HIDE DEF places
    <3> QED BY <1>5, Zenon
  <2> HIDE DEF A, B, places
  <2> QED BY <2>1, <1>5
<1>8. \A k \in DOMAIN at : at[k] \in DOMAIN a /\ a[at[k]].space = s /\ a[at[k]].location = l
  BY <1>6
<1> HIDE DEF A, B
<1>9. SamePlaces(A, B)
  <2>1. ASSUME NEW k \in DOMAIN A
        PROVE  /\ A[k].id = B[k].id /\ A[k].folderPath = B[k].folderPath
               /\ A[k].space = B[k].space /\ A[k].location = B[k].location
    <3> DEFINE i == at[k]
    <3>1. i \in DOMAIN a /\ A[k] = a[i] /\ B[k] = b[i]
      BY <1>7, <1>8
    <3> HIDE DEF i
    <3> QED BY <3>1 DEF SamePlaces
  <2> QED BY <2>1, <1>7 DEF SamePlaces
<1>10. \A k \in DOMAIN A : \E i \in DOMAIN a :
         a[i].space = s /\ a[i].location = l /\ A[k] = a[i] /\ B[k] = b[i]
  BY <1>7, <1>8
<1> QED BY <1>1, <1>2, <1>9, <1>10 DEF A, B, ScopesMatch

LEMMA ReorderSame ==
  ASSUME NEW items \in Seq(Bookmark), NEW s, NEW level, level.path \in Paths,
         NEW key \in Seqs!ToSet(Shown(items, s, level)), NEW toIndex \in Nat
  PROVE  SamePlaces(items, reorder(items, s, level, key, toIndex))
<1> DEFINE after == reorder(items, s, level, key, toIndex)
<1>1. /\ after = [i \in DOMAIN items |-> after[i]]
      /\ \A i \in DOMAIN items : \/ after[i] = items[i]
                                \/ \E order \in Nat : after[i] = withOrderAt(items[i], Len(level.path), order)
  BY ReorderMeans
<1>2. Len(level.path) \in Nat
  BY LenProperties DEF Paths
<1> HIDE DEF after
<1>3. ASSUME NEW i \in DOMAIN items
      PROVE  /\ items[i].id = after[i].id /\ items[i].folderPath = after[i].folderPath
             /\ items[i].space = after[i].space /\ items[i].location = after[i].location
  <2>1. items[i] \in Bookmark
    BY Typed
  <2>2. CASE after[i] = items[i]
    BY <2>2
  <2>3. CASE \E order \in Nat : after[i] = withOrderAt(items[i], Len(level.path), order)
    BY <2>1, <2>3, <1>2, OrderAtMeans
  <2> QED BY <2>2, <2>3, <1>1
<1>4. DOMAIN after = DOMAIN items
  BY <1>1
<1> QED BY <1>3, <1>4 DEF SamePlaces, after

\* The level itself is shown as it was arranged.
LEMMA MovedLevel ==
  ASSUME NEW items \in Seq(Bookmark), NEW s, NEW level, level.path \in Paths,
         NEW key \in Seqs!ToSet(Shown(items, s, level)), NEW toIndex \in Nat,
         reorder(items, s, level, key, toIndex) \in Seq(Bookmark)
  PROVE  Shown(reorder(items, s, level, key, toIndex), s, level)
           = Arranged(items, s, level, key, toIndex)
<1> DEFINE after == reorder(items, s, level, key, toIndex)
           arranged == Arranged(items, s, level, key, toIndex)
           path == level.path
           a == ScopedTo(items, s, level.location)
           b == ScopedTo(after, s, level.location)
<1>1. Lists(arranged, KeysAt(a, path))
  BY ArrangedLists
<1>2. after = [i \in DOMAIN items |-> after[i]]
  BY ReorderMeans
<1>3. SamePlaces(items, after)
  BY ReorderSame
<1>4. /\ SamePlaces(a, b)
      /\ \A k \in DOMAIN a : \E i \in DOMAIN items :
           /\ items[i].space = s /\ items[i].location = level.location
           /\ a[k] = items[i] /\ b[k] = after[i]
  <2> HIDE DEF after
  <2>1. SamePlaces(a, b) /\ ScopesMatch(items, after, s, level.location)
    BY <1>2, <1>3, SameScope
  <2> QED BY <2>1 DEF ScopesMatch
<1>5. b \in Seq(Bookmark)
  BY ScopedFacts
<1>6. KeysAt(b, path) = KeysAt(a, path)
  <2>1. Within(a, path) = Within(b, path)
    <3> HIDE DEF a, b
    <3> QED BY <1>4 DEF SamePlaces, Within, inPath
  <2>2. \A i \in Within(a, path) : KeyAt(a[i], path) = KeyAt(b[i], path)
    <3> HIDE DEF a, b
    <3> QED BY <1>4, Zenon DEF SamePlaces, Within, KeyAt
  <2> HIDE DEF a, b
  <2> QED BY <2>1, <2>2 DEF KeysAt
<1>7. ASSUME NEW n \in DOMAIN arranged, NEW k \in Within(b, path), KeyAt(b[k], path) = arranged[n]
      PROVE  bookmarkOrder(b[k], Len(path)) = n - 1
  <2>1. k \in DOMAIN a /\ inPath(b[k], path)
    <3> HIDE DEF a, b
    <3> QED BY <1>4 DEF SamePlaces, Within
  <2>2. PICK i \in DOMAIN items :
           /\ items[i].space = s /\ items[i].location = level.location
           /\ a[k] = items[i] /\ b[k] = after[i]
    <3> HIDE DEF a, b, after
    <3> QED BY <2>1, <1>4
  <2>3. after[i].folderPath = items[i].folderPath /\ after[i].id = items[i].id
    <3> HIDE DEF after
    <3> QED BY <1>3 DEF SamePlaces
  <2> HIDE DEF a, b
  <2>4. Sibling(items[i], s, level) /\ KeyAt(items[i], path) = arranged[n]
    <3>1. inPath(items[i], path) /\ KeyAt(items[i], path) = KeyAt(after[i], path)
      <4> HIDE DEF after
      <4> QED BY <2>1, <2>2, <2>3, Zenon DEF inPath, KeyAt
    <3> HIDE DEF after, arranged
    <3> QED BY <3>1, <2>2, <1>7 DEF Sibling
  <2>5. PICK m \in DOMAIN arranged :
          /\ arranged[m] = KeyAt(items[i], path)
          /\ m - 1 \in Nat
          /\ after[i] = withOrderAt(items[i], Len(path), m - 1)
    BY <2>4, ReorderMeans
  <2>6. m = n
    <3> HIDE DEF arranged
    <3> QED BY <2>4, <2>5, <1>1 DEF Lists
  <2>7. items[i] \in Bookmark /\ Len(path) \in Nat
    BY Typed, LenProperties DEF Paths
  <2>8. bookmarkOrder(withOrderAt(items[i], Len(path), m - 1), Len(path)) = m - 1
    BY <2>5, <2>7, OrderAtMeans
  <2> HIDE DEF after
  <2> QED BY <2>2, <2>5, <2>6, <2>8
<1>8. bookmarkEntries(b, path) = arranged
  <2> HIDE DEF a, b, arranged
  <2> QED BY <1>1, <1>5, <1>6, <1>7, EntriesFollow
<1> QED BY <1>8 DEF Shown

\* No other level is shown in another order.
LEMMA OtherLevels ==
  ASSUME NEW items \in Seq(Bookmark), NEW s, NEW level \in LevelsOf(items),
         NEW key \in Seqs!ToSet(Shown(items, s, level)), NEW toIndex \in Nat,
         NEW r, NEW m \in LevelsOf(items), <<r, m>> # <<s, level>>, InFullPaths(items, m)
  PROVE  Shown(reorder(items, s, level, key, toIndex), r, m) = Shown(items, r, m)
<1> DEFINE after == reorder(items, s, level, key, toIndex)
           a == ScopedTo(items, r, m.location)
           b == ScopedTo(after, r, m.location)
<1>1. /\ level.path \in Paths /\ Len(level.path) \in Nat
      /\ m.path \in Paths /\ Len(m.path) \in Nat
      /\ level = [location |-> level.location, path |-> level.path]
      /\ m = [location |-> m.location, path |-> m.path]
  BY LevelFacts
<1>2. /\ after = [i \in DOMAIN items |-> after[i]]
      /\ \A i \in DOMAIN items : ~Sibling(items[i], s, level) => after[i] = items[i]
      /\ \A i \in DOMAIN items : Sibling(items[i], s, level) =>
           \E order \in Nat : after[i] = withOrderAt(items[i], Len(level.path), order)
  BY <1>1, ReorderMeans
<1>3. SamePlaces(items, after)
  BY <1>1, ReorderSame
<1> HIDE DEF after
<1>4. /\ SamePlaces(a, b)
      /\ \A k \in DOMAIN a : \E i \in DOMAIN items :
           /\ items[i].space = r /\ items[i].location = m.location
           /\ a[k] = items[i] /\ b[k] = after[i]
  <2>1. SamePlaces(a, b) /\ ScopesMatch(items, after, r, m.location)
    BY <1>2, <1>3, SameScope
  <2> QED BY <2>1 DEF ScopesMatch
<1> HIDE DEF a, b
<1>5. ASSUME NEW k \in DOMAIN a, inPath(a[k], m.path)
      PROVE  bookmarkOrder(a[k], Len(m.path)) = bookmarkOrder(b[k], Len(m.path))
  <2>1. PICK i \in DOMAIN items :
           /\ items[i].space = r /\ items[i].location = m.location
           /\ a[k] = items[i] /\ b[k] = after[i]
    BY <1>4
  <2>2. items[i] \in Bookmark /\ items[i].folderPath \in Paths
    BY Typed
  <2>3. CASE ~Sibling(items[i], s, level)
    BY <2>1, <2>3, <1>2
  <2>4. CASE Sibling(items[i], s, level)
    <3> DEFINE q == items[i].folderPath
    <3>1. r = s /\ m.location = level.location /\ inPath(items[i], level.path) /\ inPath(items[i], m.path)
      BY <2>1, <2>4, <1>5 DEF Sibling
    <3>2. m.path # level.path
      BY <3>1, <1>1
    <3>3. /\ Len(level.path) <= Len(q) /\ \A n \in 1..Len(level.path) : level.path[n] = q[n]
          /\ Len(m.path) <= Len(q) /\ \A n \in 1..Len(m.path) : m.path[n] = q[n]
      BY <2>2, <3>1, <1>1, InPathMeans
    <3>4. Len(m.path) # Len(level.path)
      <4> SUFFICES ASSUME Len(m.path) = Len(level.path) PROVE FALSE
        OBVIOUS
      <4>1. \A n \in 1..Len(m.path) : m.path[n] = level.path[n]
        BY <3>3
      <4>2. m.path = level.path
        BY <4>1, <1>1, SeqEqual DEF Paths
      <4> QED BY <4>2, <3>2
    <3>5. Len(q) \in Nat /\ Len(items[i].orderPath) > Len(q) /\ Len(items[i].orderPath) \in Nat
      <4>1. items[i].orderPath \in Seq(Nat)
        BY <2>2 DEF Bookmark
      <4> QED BY <2>1, <2>2, <3>1, <4>1, LenProperties DEF InFullPaths, Paths
    <3>6. Len(m.path) < Len(items[i].orderPath)
      BY <3>3, <3>5, <1>1
    <3>7. PICK order \in Nat : after[i] = withOrderAt(items[i], Len(level.path), order)
      BY <2>4, <1>2
    <3>8. bookmarkOrder(withOrderAt(items[i], Len(level.path), order), Len(m.path))
            = bookmarkOrder(items[i], Len(m.path))
      BY <2>2, <3>4, <3>6, <1>1, OrderAtMeans
    <3> QED BY <2>1, <3>7, <3>8
  <2> QED BY <2>3, <2>4
<1>6. bookmarkEntries(a, m.path) = bookmarkEntries(b, m.path)
  BY <1>4, <1>5, SameEntries
<1> QED BY <1>6 DEF Shown, a, b, after

LEMMA MoveMovesOne ==
  ASSUME Kept(bookmarks), NEW level \in LevelsOf(bookmarks), NEW n \in 0..MaxItems,
         NEW key \in Seqs!ToSet(Shown(bookmarks, reader, level)), moveBookmark(level, key, n)
  PROVE  LET rest == OtherEntries(Shown(bookmarks, reader, level), key) IN
         /\ Shown(bookmarks', reader, level) =
              Seqs!InsertAt(rest, Min({n, Len(rest)}) + 1, key)
         /\ \A s \in AccountSpaces, m \in LevelsOf(bookmarks) :
              (<<s, m>> # <<reader, level>> /\ InFullPaths(bookmarks, m)) =>
                Shown(bookmarks', s, m) = Shown(bookmarks, s, m)
<1> DEFINE rest == OtherEntries(Shown(bookmarks, reader, level), key)
           after == reorder(bookmarks, reader, level, key, n)
<1>1. bookmarks \in Seq(Bookmark) /\ level.path \in Paths /\ n \in Nat
  BY LevelFacts, BoundsAssumption DEF Kept
<1>2. bookmarks' = after
  BY DEF moveBookmark
<1>3. after \in Seq(Bookmark)
  BY <1>1, ReorderKeeps DEF Kept
<1>4. Shown(after, reader, level) = Arranged(bookmarks, reader, level, key, n)
  BY <1>1, <1>3, MovedLevel
<1>5. Len(rest) \in Nat
  <2>1. Lists(Shown(bookmarks, reader, level), KeysAt(ScopedTo(bookmarks, reader, level.location), level.path))
    BY <1>1, ScopedFacts, EntriesLists DEF Shown
  <2> DEFINE shown == Shown(bookmarks, reader, level)
             keys == KeysAt(ScopedTo(bookmarks, reader, level.location), level.path)
             others == {k \in DOMAIN shown : shown[k] # key}
  <2>2. shown \in Seq(keys) /\ others \in SUBSET DOMAIN shown
    BY <2>1 DEF Lists
  <2>3. Among(shown, others) \in Seq(keys)
    <3> HIDE DEF shown, keys, others
    <3> QED BY <2>2, AmongFacts
  <2>4. Len(Among(shown, others)) \in Nat
    <3> HIDE DEF shown, keys, others
    <3> QED BY <2>3, LenProperties
  <2> QED BY <2>4 DEF OtherEntries
<1> HIDE DEF rest
<1>6. Clamped(n, 0, Len(rest)) = Min({n, Len(rest)})
  BY <1>1, <1>5, ClampedIsLess
<1>7. Arranged(bookmarks, reader, level, key, n) = Seqs!InsertAt(rest, Min({n, Len(rest)}) + 1, key)
  BY <1>6 DEF Arranged, rest
<1>8. ASSUME NEW s \in AccountSpaces, NEW m \in LevelsOf(bookmarks),
             <<s, m>> # <<reader, level>>, InFullPaths(bookmarks, m)
      PROVE  Shown(after, s, m) = Shown(bookmarks, s, m)
  BY <1>1, <1>8, OtherLevels
<1> HIDE DEF after
<1> QED BY <1>2, <1>4, <1>7, <1>8 DEF rest

(* reorderBookmarkEntry puts an entry where the user drops it and leaves    *)
(* its siblings in their order; no other level changes its order, in no    *)
(* Account Space, save those whose bookmarks an import numbered one short. *)
THEOREM MovingMovesOneEntry == LibrarySpec => MovesOneEntry
<1> DEFINE Moves ==
      \A level \in LevelsOf(bookmarks), n \in 0..MaxItems :
       \A key \in Seqs!ToSet(Shown(bookmarks, reader, level)) :
         moveBookmark(level, key, n) =>
           LET rest == OtherEntries(Shown(bookmarks, reader, level), key) IN
           /\ Shown(bookmarks', reader, level) =
                Seqs!InsertAt(rest, Min({n, Len(rest)}) + 1, key)
           /\ \A s \in AccountSpaces, m \in LevelsOf(bookmarks) :
                (<<s, m>> # <<reader, level>> /\ InFullPaths(bookmarks, m)) =>
                  Shown(bookmarks', s, m) = Shown(bookmarks, s, m)
<1>1. LibraryInv => Moves
  BY MoveMovesOne DEF LibraryInv
<1>2. LibrarySpec => []LibraryInv
  BY LibraryStarts, LibraryInductive, PTL DEF LibrarySpec
<1> QED BY <1>1, <1>2, PTL DEF MovesOneEntry
=============================================================================
