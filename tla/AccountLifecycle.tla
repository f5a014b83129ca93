-------------------------- MODULE AccountLifecycle --------------------------
(***************************************************************************)
(* The Account Spaces of a window and the handlers of BrowserController    *)
(* (electron/main.ts) that switch to them, lock, clear and delete them.  A *)
(* handler is cut where it waits: for connections to close, for a grant to *)
(* be revoked, for site data to be erased.  What it does to the pages and  *)
(* to Google access is added by the modules that extend this one.          *)
(*                                                                         *)
(* A handler that is called twice for an account while it waits is one.    *)
(***************************************************************************)
EXTENDS FiniteSets, Naturals, Absent

CONSTANTS
  Accounts,    \* identifiers of Account Spaces, never used twice
  Workspaces,
  HomeOf(_),   \* the workspace of an Account Space
  MaxWaiting   \* bound: handlers that wait at a time

ASSUME LifecycleAssumption ==
  /\ \A a \in Accounts : HomeOf(a) \in Workspaces
  /\ MaxWaiting \in Nat
  /\ None \notin Accounts

VARIABLES
  accounts,  \* the Account Spaces there are
  removed,   \* history: the ones there were
  locked,
  active,    \* activeAccountSpaceByWorkspace
  front,     \* activeWorkspaceId
  pending    \* handlers that wait, with their Account Space

lifecycleVars == <<accounts, removed, locked, active, front, pending>>

Waits == {"lock", "clear", "signout", "revoke", "erase", "restore"}

LifecycleInit ==
  /\ accounts \in {s \in SUBSET Accounts : \A w \in Workspaces : \E a \in s : HomeOf(a) = w}
  /\ removed = {}
  /\ locked = {}
  /\ active \in [Workspaces -> accounts]
  /\ \A w \in Workspaces : HomeOf(active[w]) = w
  /\ front \in Workspaces
  /\ pending = {}

-----------------------------------------------------------------------------
\* requireAccountMembership()
Member(a) == a \in accounts /\ HomeOf(a) = front

Others(a) == {b \in accounts : HomeOf(b) = HomeOf(a) /\ b # a}

IsPending(kind, a) == <<kind, a>> \in pending

Begins(kind, a) ==
  /\ Cardinality(pending) < MaxWaiting
  /\ pending' = pending \cup {<<kind, a>>}

Ends(kind, a) == IsPending(kind, a) /\ pending' = pending \ {<<kind, a>>}

GoTo(a) == active' = [active EXCEPT ![HomeOf(a)] = a]

(* setAccountSpaceLocked(): off the account first, then close and wait.    *)
LockBegins(a) ==
  /\ Member(a)
  /\ IF active[front] = a THEN \E b \in Others(a) \ locked : GoTo(b) ELSE UNCHANGED active
  /\ Begins("lock", a)
  /\ UNCHANGED <<accounts, removed, locked, front>>

\* AccountStore.update(), which fails for an account that is gone; a variant of it does not
Unchecked(a) == {a}
Updated(a) == {a} \cap accounts

LockEnds(a) ==
  /\ Ends("lock", a)
  /\ locked' = locked \cup Updated(a)
  /\ UNCHANGED <<accounts, removed, active, front>>

Unlock(a) ==
  /\ Member(a)
  /\ locked' = locked \ {a}
  /\ UNCHANGED <<accounts, removed, active, front, pending>>

ClearBegins(a) ==
  /\ Member(a)
  /\ Begins("clear", a)
  /\ UNCHANGED <<accounts, removed, locked, active, front>>

\* clearAndVerifyAccountSession() returns, or throws
ClearEnds(a) ==
  /\ Ends("clear", a)
  /\ UNCHANGED <<accounts, removed, locked, active, front>>

(* deleteAccountSpace(): revoke a grant, erase the site data, remove.      *)
DeleteBegins(a, wait) ==
  /\ Member(a) /\ Others(a) # {}
  /\ Begins(wait, a)
  /\ UNCHANGED <<accounts, removed, locked, active, front>>

RevokeEnds(a, revoked) ==
  /\ IsPending("revoke", a)
  /\ pending' = (pending \ {<<"revoke", a>>}) \cup (IF revoked THEN {<<"erase", a>>} ELSE {})
  /\ UNCHANGED <<accounts, removed, locked, active, front>>

\* removeAccount() of the runtime store takes the first of the others, a locked one too
DeleteEnds(a) ==
  /\ a \in accounts /\ Others(a) # {}
  /\ Ends("erase", a)
  /\ accounts' = accounts \ {a}
  /\ removed' = removed \cup {a}
  /\ locked' = locked \ {a}
  /\ IF active[HomeOf(a)] = a THEN \E b \in Others(a) : GoTo(b) ELSE UNCHANGED active
  /\ UNCHANGED front

\* the data cannot be erased, or the account is gone or is the only one by now
DeleteFails(a) ==
  /\ Ends("erase", a)
  /\ UNCHANGED <<accounts, removed, locked, active, front>>

SwitchTo(a) ==
  /\ Member(a) /\ a \notin locked
  /\ GoTo(a)
  /\ UNCHANGED <<accounts, removed, locked, front, pending>>

SwitchWorkspace(w) ==
  /\ front' = w
  /\ UNCHANGED <<accounts, removed, locked, active, pending>>

Add(a) ==
  /\ a \notin accounts \cup removed
  /\ accounts' = accounts \cup {a}
  /\ GoTo(a)
  /\ front' = HomeOf(a)
  /\ UNCHANGED <<removed, locked, pending>>

-----------------------------------------------------------------------------
LifecycleTypeOK ==
  /\ accounts \subseteq Accounts
  /\ removed \subseteq Accounts \ accounts
  /\ locked \subseteq accounts
  /\ active \in [Workspaces -> accounts]
  /\ front \in Workspaces
  /\ pending \subseteq Waits \X Accounts
=============================================================================
