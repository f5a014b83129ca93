-------------------------- MODULE LifecycleProofs --------------------------
(***************************************************************************)
(* What every handler that works on Account Spaces keeps, for any number   *)
(* of accounts and workspaces: lemmas for the proofs about what is modelled *)
(* over AccountLifecycle.                                                  *)
(***************************************************************************)
EXTENDS AccountLifecycle, TLAPS

(* Every workspace shows an account of its own.                            *)
ActiveAtHome == \A w \in Workspaces : HomeOf(active[w]) = w

LifecycleInv == LifecycleTypeOK /\ ActiveAtHome

(* A handler waits for something, or it is over, and that is all.          *)
CallsOf(a) ==
  /\ \E kind \in Waits : Begins(kind, a) \/ Ends(kind, a)
  /\ UNCHANGED <<accounts, removed, locked, active, front>>

(* The steps of the handlers.                                              *)
HandlerStep(a) ==
  \/ CallsOf(a)
  \/ LockBegins(a) \/ LockEnds(a) \/ Unlock(a)
  \/ \E revoked \in BOOLEAN : RevokeEnds(a, revoked)
  \/ DeleteEnds(a)
  \/ SwitchTo(a) \/ Add(a)

-----------------------------------------------------------------------------
LEMMA LifecycleInitially == LifecycleInit => LifecycleInv
  BY DEF LifecycleInit, LifecycleInv, LifecycleTypeOK, ActiveAtHome

(* An account that takes the front is the active one of its workspace.     *)
LEMMA GoToKeeps ==
  ASSUME LifecycleInv, NEW S, accounts \subseteq S, NEW a \in S, HomeOf(a) \in Workspaces, GoTo(a)
  PROVE  active' \in [Workspaces -> S] /\ ActiveAtHome'
  BY DEF LifecycleInv, LifecycleTypeOK, ActiveAtHome, GoTo

(* What waits changes by handlers only.                                    *)
LEMMA WaitsTyped ==
  ASSUME LifecycleInv, NEW a \in Accounts, NEW kind \in Waits, Begins(kind, a) \/ Ends(kind, a)
  PROVE  pending' \subseteq Waits \X Accounts
  BY DEF LifecycleInv, LifecycleTypeOK, Begins, Ends

LEMMA LockBeginsKeeps ==
  ASSUME LifecycleInv, NEW a \in Accounts, LockBegins(a) PROVE LifecycleInv'
<1>1. pending' \subseteq Waits \X Accounts
  BY WaitsTyped DEF LockBegins, Waits
<1>2. active' \in [Workspaces -> accounts] /\ ActiveAtHome'
  <2>1. CASE \E b \in Others(a) \ locked : GoTo(b)
    BY <2>1, GoToKeeps, LifecycleAssumption DEF Others, LifecycleInv, LifecycleTypeOK
  <2>2. CASE UNCHANGED active
    BY <2>2 DEF LifecycleInv, LifecycleTypeOK, ActiveAtHome
  <2> QED BY <2>1, <2>2 DEF LockBegins
<1> QED BY <1>1, <1>2 DEF LockBegins, LifecycleInv, LifecycleTypeOK

LEMMA DeleteEndsKeeps ==
  ASSUME LifecycleInv, NEW a \in Accounts, DeleteEnds(a) PROVE LifecycleInv'
<1>1. pending' \subseteq Waits \X Accounts
  BY WaitsTyped DEF DeleteEnds, Waits
<1>2. \A b \in Others(a) : b \in accounts \ {a} /\ b \in Accounts /\ HomeOf(b) = HomeOf(a)
  BY DEF Others, LifecycleInv, LifecycleTypeOK
<1>3. active' \in [Workspaces -> accounts \ {a}] /\ ActiveAtHome'
  <2>1. CASE active[HomeOf(a)] = a
    <3>0. PICK b \in Others(a) : GoTo(b)
      BY <2>1 DEF DeleteEnds
    <3>1. active' = [active EXCEPT ![HomeOf(a)] = b]
      BY <1>2, <3>0 DEF GoTo
    <3>2. \A w \in Workspaces : active'[w] \in accounts \ {a} /\ HomeOf(active'[w]) = w
      BY <1>2, <3>1 DEF LifecycleInv, LifecycleTypeOK, ActiveAtHome
    <3> QED BY <3>1, <3>2 DEF LifecycleInv, LifecycleTypeOK, ActiveAtHome
  <2>2. CASE active[HomeOf(a)] # a
    <3>1. active' = active
      BY <2>2 DEF DeleteEnds
    <3>2. \A w \in Workspaces : active[w] \in accounts \ {a}
      BY <2>2 DEF LifecycleInv, LifecycleTypeOK, ActiveAtHome
    <3> QED BY <3>1, <3>2 DEF LifecycleInv, LifecycleTypeOK, ActiveAtHome
  <2> QED BY <2>1, <2>2
<1> QED BY <1>1, <1>3 DEF DeleteEnds, LifecycleInv, LifecycleTypeOK

LEMMA AddKeeps ==
  ASSUME LifecycleInv, NEW a \in Accounts, Add(a) PROVE LifecycleInv'
<1>1. active' \in [Workspaces -> accounts \cup {a}] /\ ActiveAtHome'
  BY GoToKeeps, LifecycleAssumption DEF Add
<1> QED BY <1>1, LifecycleAssumption DEF Add, LifecycleInv, LifecycleTypeOK

(* An account that is there takes the front, with its workspace.           *)
LEMMA ComesToFront ==
  ASSUME LifecycleInv, NEW a \in accounts, GoTo(a), front' = HomeOf(a),
         UNCHANGED <<accounts, removed, locked, pending>>
  PROVE  LifecycleInv'
<1>1. a \in Accounts /\ HomeOf(a) \in Workspaces
  BY LifecycleAssumption DEF LifecycleInv, LifecycleTypeOK
<1>2. active' \in [Workspaces -> accounts] /\ ActiveAtHome'
  BY <1>1, GoToKeeps
<1> QED BY <1>1, <1>2 DEF LifecycleInv, LifecycleTypeOK

LEMMA WorkspaceKeeps ==
  ASSUME LifecycleInv, NEW w \in Workspaces, SwitchWorkspace(w) PROVE LifecycleInv'
  BY DEF SwitchWorkspace, LifecycleInv, LifecycleTypeOK, ActiveAtHome

(* A call that waits and changes nothing else.                             *)
LEMMA WaitKeeps ==
  ASSUME LifecycleInv, pending' \subseteq Waits \X Accounts,
         UNCHANGED <<accounts, removed, active, front>>, locked' \subseteq accounts
  PROVE  LifecycleInv'
  BY DEF LifecycleInv, LifecycleTypeOK, ActiveAtHome

(* Every step of a handler keeps the accounts and what waits well formed.  *)
LEMMA HandlerKeeps ==
  ASSUME LifecycleInv, NEW a \in Accounts, HandlerStep(a) PROVE LifecycleInv'
<1>1. CASE LockBegins(a) BY <1>1, LockBeginsKeeps
<1>2. CASE LockEnds(a)
  BY <1>2, WaitKeeps, WaitsTyped DEF LockEnds, Updated, Waits, LifecycleInv, LifecycleTypeOK
<1>3. CASE Unlock(a)
  BY <1>3, WaitKeeps DEF Unlock, LifecycleInv, LifecycleTypeOK
<1>4. CASE CallsOf(a)
  BY <1>4, WaitKeeps, WaitsTyped DEF CallsOf, LifecycleInv, LifecycleTypeOK
<1>5. CASE \E revoked \in BOOLEAN : RevokeEnds(a, revoked)
  BY <1>5, WaitKeeps DEF RevokeEnds, Waits, LifecycleInv, LifecycleTypeOK
<1>6. CASE DeleteEnds(a) BY <1>6, DeleteEndsKeeps
<1>7. CASE SwitchTo(a)
  BY <1>7, ComesToFront DEF SwitchTo, Member
<1>8. CASE Add(a) BY <1>8, AddKeeps
<1> QED BY <1>1, <1>2, <1>3, <1>4, <1>5, <1>6, <1>7, <1>8 DEF HandlerStep

LEMMA LifecycleStutters ==
  ASSUME LifecycleInv, UNCHANGED lifecycleVars PROVE LifecycleInv'
  BY DEF LifecycleInv, LifecycleTypeOK, ActiveAtHome, lifecycleVars
=============================================================================
