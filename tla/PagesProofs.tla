---------------------------- MODULE PagesProofs ----------------------------
(***************************************************************************)
(* The tabs and page views of any number of Account Spaces, workspaces and *)
(* tabs, what asks and acts for their pages, and where they lie.           *)
(***************************************************************************)
EXTENDS PageViews, LifecycleProofs, PageFills, DeveloperTools, PageCover, AiConsent,
        PermissionPrompts, WindowLayout

(* A tab belongs to an account that is there, and every account that is    *)
(* there has an active tab of its own.                                     *)
TabsInv ==
  /\ tab \in [Tabs -> Tab \cup {None}]
  /\ chosen \in [Accounts -> Tabs \cup {None}]
  /\ \A t \in Tabs : tab[t] # None => tab[t].account \in accounts
  /\ \A a \in accounts : chosen[a] \in TabsOf(a)

(* What the handlers do to the accounts is a step of a handler, or nothing. *)
LEMMA StepOfHandler ==
  ASSUME LifecycleInv, TabsInv, Next PROVE LifecycleInv'
<1>1. CASE TabSteps
  <2>1. CASE \E web \in BOOLEAN : Navigate(web)
    BY <2>1, LifecycleStutters DEF Navigate
  <2>2. CASE \E t \in Tabs, a \in Accounts : (\E web \in BOOLEAN : OpenTab(t, a, web)) \/ OpenBehind(t, a)
    BY <2>2, LifecycleStutters, ComesToFront DEF OpenTab, OpenBehind
  <2>3. CASE \E t \in Tabs : ActivateTab(t) \/ CloseTab(t)
    <3>1. PICK t \in Tabs : ActivateTab(t) \/ CloseTab(t) BY <2>3
    <3>2. tab[t].account \in accounts
      BY <3>1 DEF ActivateTab, CloseTab, TabsInv
    <3>3. CASE UNCHANGED <<active, front>>
      BY <3>1, <3>3, LifecycleStutters DEF ActivateTab, CloseTab, lifecycleVars
    <3>4. CASE front' = HomeOf(tab[t].account) /\ GoTo(tab[t].account)
      BY <3>1, <3>2, <3>4, ComesToFront DEF ActivateTab, CloseTab
    <3> QED BY <3>1, <3>3, <3>4 DEF ActivateTab, CloseTab
  <2> QED BY <1>1, <2>1, <2>2, <2>3 DEF TabSteps
<1>2. CASE AccountSteps
  <2>1. CASE \E a \in Accounts : RestoreBegins(a) \/ RestoreEnds(a) \/ RestoreFails(a)
    BY <2>1, HandlerKeeps DEF RestoreBegins, RestoreEnds, RestoreFails, HandlerStep, CallsOf, Waits
  <2>2. CASE \E a \in Accounts : Switch(a) \/ (\E t \in Tabs : AddAccount(a, t))
    BY <2>2, HandlerKeeps DEF Switch, AddAccount, HandlerStep
  <2>3. CASE \E w \in Workspaces : ShowWorkspace(w)
    BY <2>3, WorkspaceKeeps DEF ShowWorkspace
  <2>4. CASE \E a \in Accounts : Lock(a) \/ Locked(a) \/ Open(a)
    BY <2>4, HandlerKeeps DEF Lock, Locked, Open, HandlerStep
  <2>5. CASE \E a \in Accounts : Clear(a) \/ Cleared(a) \/ NotDeleted(a)
    BY <2>5, HandlerKeeps DEF Clear, Cleared, NotDeleted, ClearBegins, ClearEnds, DeleteFails, HandlerStep, CallsOf, Waits
  <2>6. CASE \E a \in Accounts : Delete(a)
    BY <2>6, HandlerKeeps DEF Delete, DeleteBegins, HandlerStep, CallsOf, Waits
  <2>7. CASE \E a \in Accounts : Revoked(a) \/ Deleted(a)
    BY <2>7, HandlerKeeps DEF Revoked, Deleted, HandlerStep
  <2> QED BY <1>2, <2>1, <2>2, <2>3, <2>4, <2>5, <2>6, <2>7 DEF AccountSteps
<1> QED BY <1>1, <1>2 DEF Next

-----------------------------------------------------------------------------
(* Tabs.                                                                   *)

LEMMA TabsOfHandlers ==
  ASSUME TabsInv, UNCHANGED <<tab, chosen, accounts>> PROVE TabsInv'
  BY DEF TabsInv, TabsOf

LEMMA NavigateKeepsTabs ==
  ASSUME LifecycleInv, TabsInv, NEW web \in BOOLEAN, Navigate(web) PROVE TabsInv'
<1>1. Front \in Tabs /\ tab[Front] \in Tab
  BY DEF Front, LifecycleInv, LifecycleTypeOK, TabsInv, TabsOf
<1>2. UNCHANGED <<chosen, accounts>> /\ tab' = [tab EXCEPT ![Front].page = web]
  BY DEF Navigate, lifecycleVars
<1>3. tab'[Front] \in Tab /\ tab'[Front].account = tab[Front].account
  BY <1>1, <1>2 DEF Tab, TabsInv
<1> QED BY <1>1, <1>2, <1>3, TabsAssumption DEF TabsInv, TabsOf

LEMMA OpenTabKeepsTabs ==
  ASSUME LifecycleInv, TabsInv, NEW t \in Tabs, NEW a \in Accounts, NEW web \in BOOLEAN,
         t \in Fresh, UNCHANGED accounts \/ accounts' = accounts \cup {a}, a \in accounts',
         tab' = [tab EXCEPT ![t] = NewTab(a, web)], chosen' = [chosen EXCEPT ![a] = t]
  PROVE  TabsInv'
<1>1. NewTab(a, web) \in Tab /\ NewTab(a, web).account = a
  BY DEF NewTab, Tab
<1>2. \A b \in accounts \ {a} : chosen'[b] \in TabsOf(b)'
  BY DEF TabsInv, TabsOf, Fresh, LifecycleInv, LifecycleTypeOK
<1> QED BY <1>1, <1>2, TabsAssumption DEF TabsInv, TabsOf

LEMMA OpenBehindKeepsTabs ==
  ASSUME LifecycleInv, TabsInv, NEW t \in Tabs, NEW a \in Accounts, OpenBehind(t, a) PROVE TabsInv'
<1>1. NewTab(a, TRUE) \in Tab /\ NewTab(a, TRUE).account = a
  BY DEF NewTab, Tab
<1> QED BY <1>1, TabsAssumption DEF OpenBehind, lifecycleVars, TabsInv, TabsOf, Fresh

LEMMA ActivateKeepsTabs ==
  ASSUME LifecycleInv, TabsInv, NEW t \in Tabs, ActivateTab(t) PROVE TabsInv'
  BY DEF ActivateTab, TabsInv, TabsOf, LifecycleInv, LifecycleTypeOK

LEMMA CloseKeepsTabs ==
  ASSUME LifecycleInv, TabsInv, NEW t \in Tabs, CloseTab(t) PROVE TabsInv'
<1> DEFINE a == tab[t].account
<1> DEFINE others == TabsOf(a) \ {t}
<1>0. a \in accounts /\ a \in Accounts /\ UNCHANGED accounts /\ tab[t] # None
  BY DEF CloseTab, TabsInv, LifecycleInv, LifecycleTypeOK
<1>1. CASE others = {}
  <2>1. PICK added, n \in Fresh \cup {t} :
          /\ tab' = [tab EXCEPT ![t] = None, ![added] = NewTab(a, FALSE), ![n] = NewTab(a, FALSE)]
          /\ chosen' = [chosen EXCEPT ![a] = n]
    BY <1>1 DEF CloseTab
  <2>2. NewTab(a, FALSE) \in Tab /\ NewTab(a, FALSE).account = a
    BY <1>0 DEF NewTab, Tab
  <2>3. added \in Tabs /\ n \in Tabs
    BY DEF Fresh
  <2>4. \A b \in accounts \ {a} : chosen[b] \notin {t, added, n} /\ chosen'[b] = chosen[b]
    BY <1>0, <2>1 DEF TabsInv, TabsOf, Fresh, LifecycleInv, LifecycleTypeOK
  <2>5. \A u \in Tabs : tab'[u] = IF u \in {added, n} THEN NewTab(a, FALSE) ELSE IF u = t THEN None ELSE tab[u]
    BY <2>1, <2>3 DEF TabsInv
  <2>6. tab' \in [Tabs -> Tab \cup {None}]
    BY <2>1, <2>2, <2>3, <2>5 DEF TabsInv
  <2>7. chosen' \in [Accounts -> Tabs \cup {None}] /\ chosen'[a] = n
    BY <1>0, <2>1, <2>3 DEF TabsInv
  <2>8. \A u \in Tabs : tab'[u] # None => tab'[u].account \in accounts
    BY <1>0, <2>2, <2>5 DEF TabsInv
  <2>9. \A b \in accounts : b = a => chosen'[b] \in TabsOf(b)'
    BY <2>2, <2>3, <2>5, <2>7, TabsAssumption DEF TabsOf
  <2>10. \A b \in accounts \ {a} : chosen'[b] \in TabsOf(b)'
    BY <2>4, <2>5 DEF TabsInv, TabsOf
  <2> QED BY <1>0, <2>6, <2>7, <2>8, <2>9, <2>10 DEF TabsInv
<1>2. CASE others # {} /\ chosen[a] = t
  <2>1. PICK n \in others : chosen' = [chosen EXCEPT ![a] = n]
    BY <1>2 DEF CloseTab
  <2>2. tab' = [tab EXCEPT ![t] = None]
    BY <1>2 DEF CloseTab
  <2> QED BY <1>0, <2>1, <2>2 DEF TabsInv, TabsOf, LifecycleInv, LifecycleTypeOK
<1>3. CASE others # {} /\ chosen[a] # t
  <2>1. tab' = [tab EXCEPT ![t] = None] /\ UNCHANGED chosen
    BY <1>3 DEF CloseTab
  <2> QED BY <1>0, <1>3, <2>1 DEF TabsInv, TabsOf, LifecycleInv, LifecycleTypeOK
<1> QED BY <1>1, <1>2, <1>3 DEF CloseTab

(* The tabs of a restored account are its own again.                       *)
LEMMA RestoreKeepsTabs ==
  ASSUME LifecycleInv, TabsInv, NEW a \in Accounts, RestoreEnds(a) PROVE TabsInv'
<1>1. CASE UNCHANGED <<tab, chosen>>
  BY <1>1 DEF RestoreEnds, TabsInv, TabsOf
<1>2. CASE ~UNCHANGED <<tab, chosen>>
  <2>1. PICK new \in (SUBSET Tabs) \ {{}} : \E pages \in SUBSET Kept(a, new), n \in Tabs :
          /\ IF Kept(a, new) # {} THEN n \in Kept(a, new) ELSE n \in Fresh \cup TabsOf(a)
          /\ tab' = [t \in Tabs |-> IF t \in Kept(a, new) \cup {n} THEN NewTab(a, t \in pages)
                                    ELSE IF t \in TabsOf(a) THEN None ELSE tab[t]]
          /\ chosen' = [chosen EXCEPT ![a] = n]
    BY <1>2 DEF RestoreEnds
  <2>2. PICK pages \in SUBSET Kept(a, new), n \in Tabs :
          /\ IF Kept(a, new) # {} THEN n \in Kept(a, new) ELSE n \in Fresh \cup TabsOf(a)
          /\ tab' = [t \in Tabs |-> IF t \in Kept(a, new) \cup {n} THEN NewTab(a, t \in pages)
                                    ELSE IF t \in TabsOf(a) THEN None ELSE tab[t]]
          /\ chosen' = [chosen EXCEPT ![a] = n]
    BY <2>1
  <2>3. a \in accounts /\ UNCHANGED accounts
    BY <1>2 DEF RestoreEnds
  <2>4. \A t \in Tabs : NewTab(a, t \in pages) \in Tab /\ NewTab(a, t \in pages).account = a
    BY DEF NewTab, Tab
  <2>5. \A t \in Kept(a, new) \cup {n} : t \in Tabs /\ (tab[t] = None \/ tab[t].account = a)
    BY <2>2 DEF Kept, TabsOf, Fresh
  <2>6. \A b \in accounts \ {a} : chosen'[b] = chosen[b] /\ tab'[chosen[b]] = tab[chosen[b]]
    BY <2>2, <2>5 DEF TabsInv, TabsOf, LifecycleInv, LifecycleTypeOK
  <2>7. tab' \in [Tabs -> Tab \cup {None}]
    BY <2>2, <2>4 DEF TabsInv
  <2>8. chosen'[a] = n /\ tab'[n] \in Tab /\ tab'[n].account = a
    BY <2>2, <2>4 DEF TabsInv
  <2>9. \A t \in Tabs : tab'[t] # None => tab'[t].account \in accounts
    BY <2>2, <2>3, <2>4 DEF TabsInv
  <2> QED BY <2>2, <2>3, <2>6, <2>7, <2>8, <2>9, TabsAssumption DEF TabsInv, TabsOf
<1> QED BY <1>1, <1>2

LEMMA ClearedKeepsTabs ==
  ASSUME LifecycleInv, TabsInv, NEW a \in Accounts, Cleared(a) PROVE TabsInv'
<1>1. UNCHANGED <<accounts, chosen>>
  BY DEF Cleared, ClearEnds
<1>2. NewTab(a, FALSE) \in Tab /\ NewTab(a, FALSE).account = a
  BY DEF NewTab, Tab
<1>3. CASE UNCHANGED tab
  BY <1>1, <1>3, TabsOfHandlers
<1>4. CASE tab' = [t \in Tabs |-> IF t \in TabsOf(a) THEN NewTab(a, FALSE) ELSE tab[t]]
  <2>1. \A t \in Tabs : /\ tab'[t] \in Tab \cup {None}
                        /\ tab'[t] = None <=> tab[t] = None
                        /\ tab[t] # None => tab'[t].account = tab[t].account
    BY <1>2, <1>4, TabsAssumption DEF TabsInv, TabsOf
  <2> QED BY <1>1, <1>4, <2>1 DEF TabsInv, TabsOf
<1> QED BY <1>3, <1>4 DEF Cleared

LEMMA DeletedKeepsTabs ==
  ASSUME LifecycleInv, TabsInv, NEW a \in Accounts, Deleted(a) PROVE TabsInv'
  BY DEF Deleted, DeleteEnds, TabsInv, TabsOf, LifecycleInv, LifecycleTypeOK

LEMMA TabsKept ==
  ASSUME LifecycleInv, TabsInv, Next PROVE TabsInv'
<1>1. CASE \E web \in BOOLEAN : Navigate(web)
  BY <1>1, NavigateKeepsTabs
<1>2. CASE \E t \in Tabs, a \in Accounts, web \in BOOLEAN : OpenTab(t, a, web)
  BY <1>2, OpenTabKeepsTabs DEF OpenTab
<1>3. CASE \E t \in Tabs, a \in Accounts : OpenBehind(t, a)
  BY <1>3, OpenBehindKeepsTabs
<1>4. CASE \E t \in Tabs : ActivateTab(t) \/ CloseTab(t)
  BY <1>4, ActivateKeepsTabs, CloseKeepsTabs
<1>5. CASE \E a \in Accounts : RestoreEnds(a) \/ Cleared(a) \/ Deleted(a)
  BY <1>5, RestoreKeepsTabs, ClearedKeepsTabs, DeletedKeepsTabs
<1>6. CASE \E t \in Tabs, a \in Accounts : AddAccount(a, t)
  BY <1>6, OpenTabKeepsTabs DEF AddAccount, Add
<1>7. CASE \E w \in Workspaces : ShowWorkspace(w)
  BY <1>7, TabsOfHandlers DEF ShowWorkspace, SwitchWorkspace
<1>8. CASE \E a \in Accounts : RestoreBegins(a) \/ RestoreFails(a) \/ Switch(a) \/ Revoked(a) \/ NotDeleted(a)
  BY <1>8, TabsOfHandlers DEF RestoreBegins, RestoreFails, Switch, SwitchTo, Revoked, RevokeEnds, NotDeleted, DeleteFails,
                              PagesStay
<1>9. CASE \E a \in Accounts : Lock(a) \/ Locked(a) \/ Open(a) \/ Clear(a) \/ Delete(a)
  BY <1>9, TabsOfHandlers DEF Lock, LockBegins, Locked, LockEnds, Open, Unlock, Clear, ClearBegins, Delete, DeleteBegins
<1> QED BY <1>1, <1>2, <1>3, <1>4, <1>5, <1>6, <1>7, <1>8, <1>9 DEF Next, TabSteps, AccountSteps

-----------------------------------------------------------------------------
(* Views.                                                                  *)

Views == [Tabs -> View \cup {None}]

(* An account that a handler switches off has no view.                     *)
WaitersViewless == \A a \in Accounts \ raced : Waited(a) => ~HasView(a)

ViewInv == view \in Views /\ ViewsBelong /\ SeesFront /\ WaitersViewless

(* What a step leaves of a view that belongs to its tab still does, and is *)
(* in front if the user sees it.                                           *)
Carries(views) ==
  \A t \in Tabs : views[t] # None =>
    /\ view[t] # None /\ views[t].account = view[t].account /\ (views[t].shown => view[t].shown)
    /\ (/\ tab[t] # None /\ tab[t].account = view[t].account
        /\ view[t].account \in accounts \ locked /\ ~Waited(view[t].account))
       => /\ tab'[t] # None /\ tab'[t].account = view[t].account
          /\ view[t].account \in accounts' \ locked'
          /\ (views[t].shown /\ t = Front /\ tab[t].page) => (t = Front' /\ tab'[t].page)

(* What is left stays as it is, but for the tab in front, that is shown.   *)
Shows(views) ==
  \A t \in Tabs :
    \/ view'[t] = views[t]
    \/ /\ t = Front' /\ tab'[t].page /\ view'[t] \in View
       /\ views[t] = None => (view[t] = None /\ Viewable(t)' /\ view'[t].account = active'[front'])
       /\ views[t] # None => view'[t].account = views[t].account

(* Who is switched off from now on is left without views.                  *)
Closes ==
  \A a \in Accounts : Waited(a)' /\ ~Waited(a) =>
    \A t \in Tabs : view[t] = None \/ t \in TabsOf(a) => view'[t] = None

(* What every step does to the views.                                      *)
ViewsStep ==
  ViewInv' /\ \A t \in Tabs : view[t] = None /\ view'[t] # None => view'[t].account \notin locked'

LEMMA ViewsKept ==
  ASSUME LifecycleInv', TabsInv', ViewInv, Note, NEW views \in Views,
         view' \in Views, Carries(views), Shows(views), Closes
  PROVE  ViewsStep
<1>1. \A t \in Tabs : view'[t] # None => view'[t].account \in Accounts
  BY DEF Views, View
<1>2. \A t \in Tabs : view'[t] # None /\ view'[t].account \notin raced' => view'[t].account \notin raced
  BY <1>1 DEF Note, HasView
<1>3. Front' \in Tabs /\ tab'[Front'].account = active'[front'] /\ tab'[Front'] # None /\ active'[front'] \in accounts'
  BY DEF LifecycleInv, LifecycleTypeOK, TabsInv, TabsOf, Front
<1>4. \A t \in Tabs : views[t] # None /\ view[t].account \notin raced =>
        /\ tab'[t] # None /\ tab'[t].account = view[t].account
        /\ view[t].account \in accounts' \ locked'
        /\ views[t].shown => (t = Front' /\ tab'[t].page)
  <2> SUFFICES ASSUME NEW t \in Tabs, views[t] # None, view[t].account \notin raced
               PROVE  /\ tab'[t] # None /\ tab'[t].account = view[t].account
                      /\ view[t].account \in accounts' \ locked'
                      /\ views[t].shown => (t = Front' /\ tab'[t].page)
    OBVIOUS
  <2>1. view[t] # None /\ view[t].account \in Accounts
    BY DEF Carries, ViewInv, Views, View
  <2>2. /\ tab[t] # None /\ tab[t].account = view[t].account /\ view[t].account \in accounts \ locked
        /\ view[t].shown => t = Front /\ tab[t].page
    BY <2>1 DEF ViewInv, ViewsBelong, SeesFront
  <2>3. ~Waited(view[t].account)
    BY <2>1 DEF ViewInv, WaitersViewless, HasView
  <2> QED BY <2>1, <2>2, <2>3 DEF Carries
<1>5. ViewsBelong'
  BY <1>2, <1>3, <1>4 DEF ViewsBelong, Shows, Carries, Viewable
<1>6. SeesFront'
  BY <1>2, <1>3, <1>4 DEF SeesFront, Shows, Carries
<1>7. WaitersViewless'
  <2> SUFFICES ASSUME NEW a \in Accounts, a \notin raced', Waited(a)', HasView(a)' PROVE FALSE
    BY DEF WaitersViewless
  <2>1. PICK t \in Tabs : view'[t] # None /\ view'[t].account = a
    BY DEF HasView
  <2>2. a \notin raced /\ ~(Waited(a) /\ BuildsView(a))
    BY DEF Note
  <2>3. view[t] # None => view[t].account = a
    BY <2>1 DEF Shows, Carries
  <2>4. CASE Waited(a)
    BY <2>1, <2>2, <2>3, <2>4 DEF BuildsView, HasView, ViewInv, WaitersViewless
  <2>5. CASE ~Waited(a)
    <3>1. t \notin TabsOf(a) /\ view[t] # None
      BY <2>1, <2>5 DEF Closes
    <3> QED BY <2>2, <2>3, <3>1 DEF ViewInv, ViewsBelong, TabsOf
  <2> QED BY <2>4, <2>5
<1>8. \A t \in Tabs : view[t] = None /\ view'[t] # None => view'[t].account \notin locked'
  BY <1>3 DEF Shows, Carries, Viewable
<1> QED BY <1>5, <1>6, <1>7, <1>8 DEF ViewInv, ViewsStep

LEMMA HiddenViews ==
  ASSUME NEW views \in Views
  PROVE  /\ Hidden(views) \in Views
         /\ \A t \in Tabs : views[t] = None => Hidden(views)[t] = None
         /\ \A t \in Tabs : views[t] # None => /\ Hidden(views)[t] # None
                                              /\ Hidden(views)[t].account = views[t].account
                                              /\ ~Hidden(views)[t].shown
<1>1. \A v \in View : [v EXCEPT !.shown = FALSE] \in View
  BY DEF View
<1>2. \A v \in View : [v EXCEPT !.shown = FALSE].account = v.account /\ ~[v EXCEPT !.shown = FALSE].shown
  BY DEF View
<1> QED BY <1>1, <1>2, TabsAssumption DEF Hidden, Views

LEMMA ClosedViews ==
  ASSUME NEW views \in Views, NEW a
  PROVE  /\ Closed(views, a) \in Views
         /\ \A t \in Tabs : Closed(views, a)[t] = IF t \in TabsOf(a) THEN None ELSE views[t]
  BY DEF Closed, Views

LEMMA ShownView ==
  ASSUME NEW views \in Views, NEW t \in Tabs, NEW a \in Accounts
  PROVE  /\ Show(views, t, a) \in Views
         /\ \A u \in Tabs \ {t} : Show(views, t, a)[u] = views[u]
         /\ Show(views, t, a)[t] \in View
         /\ Show(views, t, a)[t].account = IF views[t] = None THEN a ELSE views[t].account
<1>1. [account |-> IF views[t] = None THEN a ELSE views[t].account, shown |-> TRUE] \in View
  BY DEF Views, View
<1> QED BY <1>1 DEF Show, Views

LEMMA ShowActiveShows ==
  ASSUME LifecycleInv', TabsInv', NEW views \in Views, ShowActive(views),
         \A t \in Tabs : view[t] # None /\ views[t] = None => ~(t = Front' /\ tab'[t].page)
  PROVE  view' \in Views /\ Shows(views)
<1>1. Front' \in Tabs /\ active'[front'] \in Accounts
  BY DEF LifecycleInv, LifecycleTypeOK, TabsInv, TabsOf, Front
<1>2. PICK t \in Tabs, a \in Accounts : t = Front' /\ a = active'[front']
  BY <1>1
<1>3. CASE Viewable(Front)'
  BY <1>2, <1>3, ShownView DEF ShowActive, Shows, Viewable
<1>4. CASE ~Viewable(Front)'
  BY <1>4 DEF ShowActive, Shows
<1> QED BY <1>3, <1>4

(* A step that shows the active tab of the account in front after hiding   *)
(* everything.                                                             *)
LEMMA ShowsAfterHiding ==
  ASSUME LifecycleInv', TabsInv', ViewInv, Note, UNCHANGED pending, NEW views \in Views,
         ShowActive(Hidden(views)), \A t \in Tabs : views[t] \in {None, view[t]},
         \A t \in Tabs : view[t] # None /\ views[t] = None => ~(t = Front' /\ tab'[t].page),
         \A t \in Tabs : views[t] # None /\ tab[t] # None => tab'[t] # None /\ tab'[t].account = tab[t].account,
         accounts \ locked \subseteq accounts' \ locked'
  PROVE  ViewsStep
<1>1. PICK h \in Views : h = Hidden(views)
  BY HiddenViews
<1>2. /\ \A t \in Tabs : views[t] = None => h[t] = None
      /\ \A t \in Tabs : views[t] # None => h[t] # None /\ h[t].account = views[t].account /\ ~h[t].shown
  BY <1>1, HiddenViews
<1>3. view' \in Views /\ Shows(h)
  BY <1>1, <1>2, ShowActiveShows
<1>4. Carries(h)
  BY <1>2 DEF Carries
<1>5. Closes
  BY DEF Closes, Waited, IsPending
<1> QED BY <1>3, <1>4, <1>5, ViewsKept

(* A step that shows the active tab again and hides nothing.               *)
LEMMA ShowsAgain ==
  ASSUME LifecycleInv', TabsInv', ViewInv, Note, ShowActive(view), Carries(view), pending' \subseteq pending
  PROVE  ViewsStep
<1>1. PICK views \in Views : views = view
  BY DEF ViewInv
<1>2. view' \in Views /\ Shows(views)
  BY <1>1, ShowActiveShows
<1>3. Carries(views)
  BY <1>1
<1>4. Closes
  BY DEF Closes, Waited, IsPending
<1> QED BY <1>2, <1>3, <1>4, ViewsKept

(* A step that shows nothing.                                              *)
LEMMA ShowsNothing ==
  ASSUME LifecycleInv', TabsInv', ViewInv, Note, view' \in Views, Closes,
         \A t \in Tabs : view'[t] # None =>
           /\ view[t] # None /\ view'[t].account = view[t].account /\ (view'[t].shown => view[t].shown)
           /\ (/\ tab[t] # None /\ tab[t].account = view[t].account
               /\ view[t].account \in accounts \ locked /\ ~Waited(view[t].account))
              => /\ tab'[t] # None /\ tab'[t].account = view[t].account
                 /\ view[t].account \in accounts' \ locked'
                 /\ (view'[t].shown /\ t = Front /\ tab[t].page) => (t = Front' /\ tab'[t].page)
  PROVE  ViewsStep
<1>1. PICK views \in Views : views = view'
  OBVIOUS
<1>2. Carries(views) /\ Shows(views)
  BY <1>1 DEF Carries, Shows
<1> QED BY <1>2, ViewsKept

LEMMA NavigateShows ==
  ASSUME LifecycleInv, LifecycleInv', TabsInv, TabsInv', ViewInv, NEW web \in BOOLEAN, Navigate(web)
  PROVE  ViewsStep
<1>1. /\ Note /\ UNCHANGED <<accounts, locked, pending, active, front, chosen>>
      /\ tab' = [tab EXCEPT ![Front].page = web]
  BY DEF Navigate, lifecycleVars
<1>2. /\ Front \in Tabs /\ Front' = Front /\ tab[Front].account = active[front]
      /\ tab[Front].account \in Accounts
  BY <1>1 DEF LifecycleInv, LifecycleTypeOK, TabsInv, TabsOf, Front
<1>3. \A t \in Tabs : /\ tab[t] # None => tab'[t] # None /\ tab'[t].account = tab[t].account
                      /\ t # Front => tab'[t] = tab[t]
                      /\ t = Front => tab'[t].page = web
  <2>1. tab[Front] \in Tab
    BY <1>2 DEF TabsInv, TabsOf, LifecycleInv, LifecycleTypeOK, Front
  <2>2. tab'[Front] \in Tab /\ tab'[Front].account = tab[Front].account /\ tab'[Front].page = web
    BY <1>1, <1>2, <2>1 DEF TabsInv, Tab
  <2> QED BY <1>1, <1>2, <2>2, TabsAssumption DEF TabsInv
<1>4. Closes
  BY <1>1 DEF Closes, Waited, IsPending
<1>5. CASE web = FALSE
  <2>1. view' = [view EXCEPT ![Front] = Hidden(view)[Front]]
    BY <1>5 DEF Navigate
  <2>2. view' \in Views
    BY <1>2, <2>1, HiddenViews DEF ViewInv, Views
  <2>3. \A t \in Tabs \ {Front} : view'[t] = view[t]
    BY <2>1 DEF ViewInv, Views
  <2>4. view'[Front] # None =>
          view[Front] # None /\ view'[Front].account = view[Front].account /\ ~view'[Front].shown
    BY <1>2, <2>1, HiddenViews DEF ViewInv, Views
  <2> QED BY <1>1, <1>2, <1>3, <1>4, <2>2, <2>3, <2>4, ShowsNothing
<1>6. CASE web = TRUE /\ (view[Front] # None \/ tab[Front].account \notin locked)
  <2>1. PICK views \in Views : views = view
    BY DEF ViewInv
  <2>2. PICK f \in Tabs, a \in Accounts : f = Front /\ a = tab[Front].account
    BY <1>2
  <2>3. view' \in Views /\ Shows(views)
    <3>1. view' = Show(views, f, a)
      BY <1>6, <2>1, <2>2 DEF Navigate
    <3>2. /\ view' \in Views
          /\ \A u \in Tabs \ {f} : view'[u] = views[u]
          /\ view'[f] \in View /\ view'[f].account = IF views[f] = None THEN a ELSE views[f].account
      BY <3>1, ShownView
    <3>3. f = Front' /\ tab'[f].page /\ tab'[f].account = a /\ a = active'[front']
      BY <1>1, <1>2, <1>3, <1>6, <2>2 DEF TabsInv, TabsOf, LifecycleInv, LifecycleTypeOK, Front
    <3>4. views[f] = None => view[f] = None /\ Viewable(f)'
      BY <1>1, <1>6, <2>1, <2>2, <3>3 DEF Viewable
    <3> QED BY <3>2, <3>3, <3>4 DEF Shows
  <2>4. Carries(views)
    BY <1>1, <1>2, <1>3, <1>6, <2>1 DEF Carries
  <2> QED BY <1>1, <1>4, <2>3, <2>4, ViewsKept
<1>7. CASE web = TRUE /\ ~(view[Front] # None \/ tab[Front].account \notin locked)
  <2>1. view' = view
    BY <1>7 DEF Navigate
  <2> QED BY <1>1, <1>2, <1>3, <1>4, <1>7, <2>1, ShowsNothing DEF ViewInv
<1> QED BY <1>5, <1>6, <1>7

LEMMA TabStepsShow ==
  ASSUME LifecycleInv, LifecycleInv', TabsInv, TabsInv', ViewInv, TabSteps PROVE ViewsStep
<1>0. PICK views \in Views : views = view
  BY DEF ViewInv
<1>1. CASE \E web \in BOOLEAN : Navigate(web)
  BY <1>1, NavigateShows
<1>2. CASE \E t \in Tabs, a \in Accounts, web \in BOOLEAN : OpenTab(t, a, web)
  BY <1>0, <1>2, ShowsAfterHiding DEF OpenTab, Fresh, TabsInv
<1>3. CASE \E t \in Tabs, a \in Accounts : OpenBehind(t, a)
  <2>1. PICK t \in Tabs, a \in Accounts : OpenBehind(t, a) BY <1>3
  <2>2. /\ UNCHANGED <<accounts, locked, active, front, pending, chosen, view>> /\ Note
        /\ t \in Fresh /\ tab' = [tab EXCEPT ![t] = NewTab(a, TRUE)]
    BY <2>1 DEF OpenBehind, lifecycleVars
  <2>3. Closes /\ Front' = Front
    BY <2>2 DEF Closes, Waited, IsPending, Front
  <2> QED BY <2>2, <2>3, ShowsNothing DEF Fresh, TabsInv, ViewInv
<1>4. CASE \E t \in Tabs : ActivateTab(t)
  BY <1>0, <1>4, ShowsAfterHiding DEF ActivateTab
<1>5. CASE \E t \in Tabs : CloseTab(t)
  <2>1. PICK t \in Tabs : CloseTab(t) BY <1>5
  <2> DEFINE a == tab[t].account
  <2> DEFINE others == TabsOf(a) \ {t}
  <2>2. PICK left \in Views : left = [view EXCEPT ![t] = None]
    BY DEF ViewInv, Views
  <2>3. \A u \in Tabs : left[u] = IF u = t THEN None ELSE view[u]
    BY <2>2 DEF ViewInv, Views
  <2>4. Note /\ UNCHANGED <<accounts, locked, pending>>
    BY <2>1 DEF CloseTab
  <2>5. CASE others = {}
    <3>1. PICK added, n \in Fresh \cup {t} :
            /\ tab' = [tab EXCEPT ![t] = None, ![added] = NewTab(a, FALSE), ![n] = NewTab(a, FALSE)]
            /\ chosen' = [chosen EXCEPT ![a] = n]
      BY <2>1, <2>5 DEF CloseTab
    <3>2. front' = HomeOf(a) /\ GoTo(a) /\ ShowActive(Hidden(left))
      BY <2>1, <2>2, <2>5 DEF CloseTab
    <3>3. added \in Tabs /\ n \in Tabs /\ ~NewTab(a, FALSE).page
      BY DEF Fresh, NewTab
    <3>4. \A u \in Tabs : tab'[u] = IF u \in {added, n} THEN NewTab(a, FALSE) ELSE IF u = t THEN None ELSE tab[u]
      BY <3>1, <3>3 DEF TabsInv
    <3>5. \A u \in Tabs : view[u] # None /\ left[u] = None => ~(u = Front' /\ tab'[u].page)
      <4>1. Front' = n
        BY <3>1, <3>2 DEF TabsInv, LifecycleInv, LifecycleTypeOK, GoTo, Front
      <4> QED BY <3>3, <3>4, <4>1
    <3>6. \A u \in Tabs : left[u] # None /\ tab[u] # None => tab'[u] # None /\ tab'[u].account = tab[u].account
      BY <2>3, <3>4 DEF Fresh
    <3> QED BY <2>3, <2>4, <3>2, <3>5, <3>6, ShowsAfterHiding
  <2>6. CASE others # {} /\ chosen[a] = t
    <3>1. PICK n \in others : chosen' = [chosen EXCEPT ![a] = n]
      BY <2>1, <2>6 DEF CloseTab
    <3>2. /\ front' = HomeOf(a) /\ GoTo(a) /\ ShowActive(Hidden(left))
          /\ tab' = [tab EXCEPT ![t] = None]
      BY <2>1, <2>2, <2>6 DEF CloseTab
    <3>3. t # Front'
      BY <3>2, TabsAssumption DEF TabsInv, TabsOf, LifecycleInv, LifecycleTypeOK, Front
    <3> QED BY <2>3, <2>4, <3>2, <3>3, ShowsAfterHiding DEF TabsInv
  <2>7. CASE others # {} /\ chosen[a] # t
    <3>1. view' = left /\ tab' = [tab EXCEPT ![t] = None] /\ UNCHANGED <<chosen, front, active>>
      BY <2>1, <2>2, <2>7 DEF CloseTab
    <3>2. Closes /\ Front' = Front
      BY <2>4, <3>1 DEF Closes, Waited, IsPending, Front
    <3> QED BY <2>3, <2>4, <3>1, <3>2, ShowsNothing DEF TabsInv
  <2> QED BY <2>1, <2>5, <2>6, <2>7 DEF CloseTab
<1> QED BY <1>1, <1>2, <1>3, <1>4, <1>5 DEF TabSteps

(* The closing steps of lock, clear and delete.                            *)
LEMMA ClosingShows ==
  ASSUME LifecycleInv', TabsInv', ViewInv, Note, NEW a \in Accounts, NEW kind \in Waits, Begins(kind, a),
         UNCHANGED <<tab, chosen, accounts, locked>>, NEW views \in Views, view' = Closed(views, a),
         (views = view /\ UNCHANGED <<active, front>>) \/ views = Hidden(view)
  PROVE  ViewsStep
<1>1. /\ view' \in Views
      /\ \A t \in Tabs : view'[t] = IF t \in TabsOf(a) THEN None ELSE views[t]
  BY ClosedViews
<1>2. CASE views = view /\ UNCHANGED <<active, front>>
  <2>1. Closes
    BY <1>1, <1>2 DEF Closes, Waited, IsPending, Begins
  <2> QED BY <1>1, <1>2, <2>1, ShowsNothing DEF Front
<1>3. CASE views = Hidden(view)
  <2>1. \A t \in Tabs : view[t] = None => views[t] = None
    BY <1>3, HiddenViews DEF ViewInv
  <2>2. \A t \in Tabs : views[t] # None =>
          view[t] # None /\ views[t].account = view[t].account /\ ~views[t].shown
    BY <1>3, HiddenViews DEF ViewInv
  <2>3. Closes
    BY <1>1, <2>1 DEF Closes, Waited, IsPending, Begins
  <2> QED BY <1>1, <2>2, <2>3, ShowsNothing
<1> QED BY <1>2, <1>3

LEMMA HandlersClose ==
  ASSUME LifecycleInv, LifecycleInv', TabsInv, TabsInv', ViewInv, NEW a \in Accounts,
         Lock(a) \/ Clear(a) \/ Delete(a)
  PROVE  ViewsStep
<1>0. PICK views \in Views : views = view
  BY DEF ViewInv
<1>1. CASE Lock(a)
  <2>1. PICK h \in Views : h = Hidden(view)
    BY HiddenViews DEF ViewInv
  <2>2. Begins("lock", a) /\ Note /\ UNCHANGED <<tab, chosen, accounts, locked, front>>
    BY <1>1 DEF Lock, LockBegins
  <2>3. CASE active[front] = a
    BY <1>1, <2>1, <2>2, <2>3, ClosingShows DEF Lock, CloseAll, Waits
  <2>4. CASE active[front] # a
    <3>1. UNCHANGED active /\ view' = Closed(views, a)
      BY <1>0, <1>1, <2>4 DEF Lock, LockBegins, CloseAll
    <3> QED BY <1>0, <2>2, <3>1, ClosingShows DEF Waits
  <2> QED BY <2>3, <2>4
<1>2. CASE Clear(a)
  BY <1>0, <1>2, ClosingShows DEF Clear, ClearBegins, CloseAll, Waits
<1>3. CASE Delete(a)
  BY <1>0, <1>3, ClosingShows DEF Delete, DeleteBegins, CloseAll, Waits
<1> QED BY <1>1, <1>2, <1>3

(* The steps of handlers that show nothing.                                *)
LEMMA QuietSteps ==
  ASSUME LifecycleInv, LifecycleInv', TabsInv, TabsInv', ViewInv, NEW a \in Accounts,
         RestoreBegins(a) \/ RestoreFails(a) \/ Revoked(a) \/ NotDeleted(a)
  PROVE  ViewsStep
<1>1. Note /\ UNCHANGED <<tab, chosen, view, accounts, locked, active, front>>
  BY DEF RestoreBegins, RestoreFails, Revoked, RevokeEnds, NotDeleted, DeleteFails, PagesStay
<1>2. \A b \in Accounts : Waited(b)' => Waited(b)
  BY DEF RestoreBegins, RestoreFails, Revoked, RevokeEnds, NotDeleted, DeleteFails, Begins, Ends, Waited, IsPending, Waits
<1>3. Closes /\ Front' = Front
  BY <1>1, <1>2 DEF Closes, Front
<1> QED BY <1>1, <1>3, ShowsNothing DEF ViewInv

LEMMA RestoreShows ==
  ASSUME LifecycleInv, LifecycleInv', TabsInv, TabsInv', ViewInv, NEW a \in Accounts, RestoreEnds(a)
  PROVE  ViewsStep
<1>1. Note /\ UNCHANGED <<accounts, locked, active, front>>
  BY DEF RestoreEnds
<1>2. view' \in Views /\ \A t \in Tabs : view'[t] = IF t \in TabsOf(a) THEN None ELSE view[t]
  BY ClosedViews DEF RestoreEnds, ViewInv
<1>3. Closes
  BY DEF RestoreEnds, Ends, Closes, Waited, IsPending
<1>4. \A t \in Tabs : tab[t] # None /\ t \notin TabsOf(a) => tab'[t] = tab[t]
  BY DEF RestoreEnds, Kept, Fresh
<1>5. \A b \in Accounts \ {a} : chosen'[b] = chosen[b]
  BY DEF RestoreEnds, TabsInv
<1>6. \A t \in Tabs : t = Front /\ t \notin TabsOf(a) => t = Front'
  BY <1>1, <1>5 DEF Front, TabsInv, LifecycleInv, LifecycleTypeOK
<1> QED BY <1>1, <1>2, <1>3, <1>4, <1>6, ShowsNothing

(* The steps of handlers that show the active tab.                         *)
LEMMA HandlersShow ==
  ASSUME LifecycleInv, LifecycleInv', TabsInv, TabsInv', ViewInv, NEW a \in Accounts,
         Switch(a) \/ (\E t \in Tabs : AddAccount(a, t))
  PROVE  ViewsStep
<1>0. PICK views \in Views : views = view
  BY DEF ViewInv
<1>1. CASE Switch(a)
  BY <1>0, <1>1, ShowsAfterHiding DEF Switch, SwitchTo
<1>2. CASE \E t \in Tabs : AddAccount(a, t)
  BY <1>0, <1>2, ShowsAfterHiding DEF AddAccount, Add, Fresh, TabsInv
<1> QED BY <1>1, <1>2

LEMMA WorkspacesShow ==
  ASSUME LifecycleInv', TabsInv', ViewInv, NEW w \in Workspaces, ShowWorkspace(w) PROVE ViewsStep
<1>0. PICK views \in Views : views = view
  BY DEF ViewInv
<1> QED BY <1>0, ShowsAfterHiding DEF ShowWorkspace, SwitchWorkspace

LEMMA HandlersShowAgain ==
  ASSUME LifecycleInv, LifecycleInv', TabsInv, TabsInv', ViewInv, NEW a \in Accounts,
         Locked(a) \/ Open(a) \/ Cleared(a) \/ Deleted(a)
  PROVE  ViewsStep
<1>1. CASE Open(a)
  <2>1. Carries(view)
    BY <1>1 DEF Open, Unlock, Carries, Front
  <2> QED BY <1>1, <2>1, ShowsAgain DEF Open, Unlock
<1>2. CASE Locked(a)
  <2>1. Waited(a)
    BY <1>2 DEF Locked, LockEnds, Ends, Waited, Waits
  <2>2. Carries(view)
    BY <1>2, <2>1 DEF Locked, LockEnds, Updated, Carries, Front
  <2>3. pending' \subseteq pending /\ Note
    BY <1>2 DEF Locked, LockEnds, Ends
  <2>4. CASE a \in accounts
    BY <1>2, <2>2, <2>3, <2>4, ShowsAgain DEF Locked
  <2>5. CASE a \notin accounts
    <3>1. Closes
      BY <2>3 DEF Closes, Waited, IsPending
    <3> QED BY <1>2, <2>2, <2>3, <2>5, <3>1, ShowsNothing DEF Locked, Carries, ViewInv
  <2> QED BY <2>4, <2>5
<1>3. CASE Cleared(a)
  <2>1. Waited(a)
    BY <1>3 DEF Cleared, ClearEnds, Ends, Waited, Waits
  <2>2. pending' \subseteq pending /\ Note /\ UNCHANGED <<accounts, locked, active, front, chosen>>
    BY <1>3 DEF Cleared, ClearEnds, Ends
  <2>3. \A t \in Tabs : tab[t] # None /\ t \notin TabsOf(a) => tab'[t] = tab[t]
    BY <1>3 DEF Cleared, TabsInv
  <2>4. Carries(view) /\ Front' = Front
    BY <2>1, <2>2, <2>3 DEF Carries, TabsOf, Front
  <2>5. CASE UNCHANGED <<tab, view>>
    <3>1. Closes
      BY <2>2 DEF Closes, Waited, IsPending
    <3> QED BY <2>2, <2>4, <2>5, <3>1, ShowsNothing DEF Carries, ViewInv
  <2>6. CASE ShowActive(view)
    BY <2>2, <2>4, <2>6, ShowsAgain
  <2> QED BY <1>3, <2>5, <2>6 DEF Cleared
<1>4. CASE Deleted(a)
  <2>1. Waited(a)
    BY <1>4 DEF Deleted, DeleteEnds, Ends, Waited, Waits
  <2>2. /\ pending' \subseteq pending /\ Note /\ UNCHANGED front /\ ShowActive(view)
        /\ accounts' = accounts \ {a} /\ locked' = locked \ {a}
    BY <1>4 DEF Deleted, DeleteEnds, Ends
  <2>3. \A t \in Tabs : tab[t] # None /\ t \notin TabsOf(a) => tab'[t] = tab[t]
    BY <1>4 DEF Deleted, TabsInv
  <2>4. \A t \in Tabs : t = Front /\ t \notin TabsOf(a) => t = Front'
    <3>1. \A b \in Accounts \ {a} : chosen'[b] = chosen[b]
      BY <1>4 DEF Deleted, TabsInv
    <3>2. active[front] # a => active'[front] = active[front]
      <4>1. CASE active[HomeOf(a)] = a
        <5>1. PICK b \in Others(a) : GoTo(b)
          BY <1>4, <4>1 DEF Deleted, DeleteEnds
        <5> QED BY <4>1, <5>1 DEF Others, GoTo, LifecycleInv, LifecycleTypeOK
      <4>2. CASE active[HomeOf(a)] # a
        BY <1>4, <4>2 DEF Deleted, DeleteEnds
      <4> QED BY <4>1, <4>2
    <3>3. active[front] = a => Front \in TabsOf(a)
      BY DEF Front, TabsInv, LifecycleInv, LifecycleTypeOK
    <3> QED BY <2>2, <3>1, <3>2, <3>3 DEF Front, LifecycleInv, LifecycleTypeOK
  <2>5. Carries(view)
    BY <2>1, <2>2, <2>3, <2>4 DEF Carries, TabsOf
  <2> QED BY <2>2, <2>5, ShowsAgain
<1> QED BY <1>1, <1>2, <1>3, <1>4

-----------------------------------------------------------------------------
(* The inductive invariant.                                                *)

PagesInv == LifecycleInv /\ TabsInv /\ ViewInv /\ raced \subseteq Accounts

LEMMA PagesInvIs == PagesInv => TypeOK /\ SomethingActive /\ ViewsBelong /\ SeesFront
  BY DEF PagesInv, LifecycleInv, ActiveAtHome, TabsInv, ViewInv, Views, TypeOK, SomethingActive

LEMMA InitPages == Init => PagesInv
<1> SUFFICES ASSUME Init PROVE PagesInv OBVIOUS
<1>1. LifecycleInv
  BY LifecycleInitially DEF Init
<1>2. ViewInv
  BY DEF Init, ViewInv, Views, ViewsBelong, SeesFront, WaitersViewless, HasView
<1>3. TabsInv
  <2>1. /\ accounts \subseteq Accounts
        /\ chosen \in [Accounts -> Tabs \cup {None}]
        /\ \A a \in Accounts : chosen[a] = None <=> a \notin accounts
        /\ \A a, b \in accounts : chosen[a] = chosen[b] => a = b
    BY <1>1 DEF Init, LifecycleInv, LifecycleTypeOK
  <2>2. \A t \in Tabs : \/ tab[t] = None /\ \A a \in accounts : chosen[a] # t
                        \/ \E a \in accounts : chosen[a] = t /\ tab[t] = NewTab(a, FALSE)
    BY DEF Init
  <2>3. \A a \in accounts : NewTab(a, FALSE) \in Tab /\ NewTab(a, FALSE).account = a
    BY <2>1 DEF NewTab, Tab
  <2>4. \A t \in Tabs : tab[t] \in Tab \cup {None} /\ (tab[t] # None => tab[t].account \in accounts)
    BY <2>2, <2>3
  <2>5. tab \in [Tabs -> Tab \cup {None}]
    BY <2>4 DEF Init
  <2>6. ASSUME NEW a \in accounts PROVE chosen[a] \in TabsOf(a)
    <3>1. PICK t \in Tabs : t = chosen[a]
      BY <2>1
    <3>2. tab[t] = NewTab(a, FALSE)
      BY <2>1, <2>2, <3>1
    <3>3. tab[t] # None /\ tab[t].account = a
      BY <2>3, <3>2, TabsAssumption
    <3> QED BY <3>1, <3>3 DEF TabsOf
  <2> QED BY <2>1, <2>4, <2>5, <2>6 DEF TabsInv
<1>4. raced \subseteq Accounts
  BY DEF Init
<1> QED BY <1>1, <1>2, <1>3, <1>4 DEF PagesInv

LEMMA StepOfPages ==
  ASSUME PagesInv, Next PROVE PagesInv' /\ ViewsStep
<1>1. LifecycleInv' /\ TabsInv'
  BY StepOfHandler, TabsKept DEF PagesInv
<1>2. ViewsStep
  <2>1. CASE TabSteps
    BY <1>1, <2>1, TabStepsShow DEF PagesInv
  <2>2. CASE \E a \in Accounts : RestoreBegins(a) \/ RestoreFails(a) \/ Revoked(a) \/ NotDeleted(a)
    BY <1>1, <2>2, QuietSteps DEF PagesInv
  <2>3. CASE \E a \in Accounts : RestoreEnds(a)
    BY <1>1, <2>3, RestoreShows DEF PagesInv
  <2>4. CASE \E a \in Accounts : Switch(a) \/ (\E t \in Tabs : AddAccount(a, t))
    BY <1>1, <2>4, HandlersShow DEF PagesInv
  <2>5. CASE \E w \in Workspaces : ShowWorkspace(w)
    BY <1>1, <2>5, WorkspacesShow DEF PagesInv
  <2>6. CASE \E a \in Accounts : Lock(a) \/ Clear(a) \/ Delete(a)
    BY <1>1, <2>6, HandlersClose DEF PagesInv
  <2>7. CASE \E a \in Accounts : Locked(a) \/ Open(a) \/ Cleared(a) \/ Deleted(a)
    BY <1>1, <2>7, HandlersShowAgain DEF PagesInv
  <2> QED BY <2>1, <2>2, <2>3, <2>4, <2>5, <2>6, <2>7 DEF Next, AccountSteps
<1>3. raced' \subseteq Accounts
  <2>1. Note
    BY DEF Next, TabSteps, AccountSteps, Navigate, OpenTab, OpenBehind, ActivateTab, CloseTab, RestoreBegins, RestoreEnds,
           RestoreFails, Switch, AddAccount, ShowWorkspace, Lock, Locked, Open, Clear, Cleared, Delete, Revoked,
           Deleted, NotDeleted
  <2> QED BY <2>1 DEF Note
<1> QED BY <1>1, <1>2, <1>3 DEF PagesInv, ViewsStep

LEMMA NextPages == PagesInv /\ [Next]_vars => PagesInv'
<1> SUFFICES ASSUME PagesInv, [Next]_vars PROVE PagesInv' OBVIOUS
<1>1. CASE UNCHANGED vars
  BY <1>1, LifecycleStutters DEF vars, lifecycleVars, PagesInv, TabsInv, TabsOf, ViewInv, Views, ViewsBelong, SeesFront, Front,
                                 WaitersViewless, Waited, IsPending, HasView
<1> QED BY <1>1, StepOfPages

LEMMA AlwaysPages == Spec => []PagesInv
<1> HIDE DEF PagesInv
<1> QED BY InitPages, NextPages, PTL DEF Spec

(* Every variable of tabs and views keeps its type (BrowserController).    *)
THEOREM PagesTypeCorrect == Spec => []TypeOK
<1> HIDE DEF PagesInv, TypeOK, SomethingActive, ViewsBelong, SeesFront
<1> QED BY PagesInvIs, AlwaysPages, PTL

(* The window always has an account and a tab to show: activeTab() never   *)
(* throws.                                                                 *)
THEOREM AlwaysSomethingActive == Spec => []SomethingActive
<1> HIDE DEF PagesInv, TypeOK, SomethingActive, ViewsBelong, SeesFront
<1> QED BY PagesInvIs, AlwaysPages, PTL

(* A view belongs to an open tab of an unlocked account                    *)
(* (closeAccountViews()), unless it was built while a handler waited.      *)
THEOREM ViewsAlwaysBelong == Spec => []ViewsBelong
<1> HIDE DEF PagesInv, TypeOK, SomethingActive, ViewsBelong, SeesFront
<1> QED BY PagesInvIs, AlwaysPages, PTL

(* What the user sees is the page of the tab in front (showActiveTab(),    *)
(* hideAllViews()).                                                        *)
THEOREM OnlyFrontIsSeen == Spec => []SeesFront
<1> HIDE DEF PagesInv, TypeOK, SomethingActive, ViewsBelong, SeesFront
<1> QED BY PagesInvIs, AlwaysPages, PTL

(* No view is built for a locked account (ensureView()).                   *)
THEOREM LockedBuildsNothing == Spec => BuiltUnlocked
<1> DEFINE Built == \A t \in Tabs : view[t] = None /\ view'[t] # None => view'[t].account \notin locked'
<1>1. PagesInv /\ [Next]_vars => [Built]_vars
  BY StepOfPages DEF ViewsStep
<1> HIDE DEF PagesInv, Built
<1>2. Spec => [][Built]_vars
  BY <1>1, AlwaysPages, PTL DEF Spec
<1> QED BY <1>2 DEF BuiltUnlocked, Built
-----------------------------------------------------------------------------
(* The page in front (PageContext): what each step of a navigation changes *)
(* of a tab, whatever the component that looks at it.                      *)

LEMMA ContextStutters ==
  ASSUME ContextTypeOK, UNCHANGED contextVars PROVE ContextTypeOK'
  BY DEF ContextTypeOK, contextVars

(* The fields of the stored tabs, so that a step may name them.            *)
LEMMA TabFields ==
  ASSUME ContextTypeOK, NEW t \in TabIds
  PROVE  /\ page[t] \in TabState
         /\ page[t].url \in Sites /\ page[t].painted \in Sites \cup {None}
         /\ page[t].gen \in Nat /\ page[t].home \in BOOLEAN /\ page[t].cert \in BOOLEAN
         /\ page[t].load \in Load \cup {None}
  BY DEF ContextTypeOK, TabState

LEMMA InitialContext == ContextInit => ContextTypeOK
<1> SUFFICES ASSUME ContextInit PROVE ContextTypeOK OBVIOUS
<1>1. PICK s \in Sites : page = [t \in TabIds |-> [url |-> s, painted |-> None, load |-> None,
                                             gen |-> 0, home |-> TRUE, cert |-> FALSE]]
  BY DEF ContextInit
<1>2. [url |-> s, painted |-> None, load |-> None, gen |-> 0, home |-> TRUE, cert |-> FALSE] \in TabState
  BY DEF TabState
<1>3. page \in [TabIds -> TabState]
  BY <1>1, <1>2
<1>4. inFront \in TabIds /\ loads \in 0 .. MaxLoads
  BY LoadsAssumption DEF ContextInit
<1> QED BY <1>3, <1>4 DEF ContextTypeOK

LEMMA VisitKeepsContext ==
  ASSUME ContextTypeOK, NEW s \in Sites, Visit(s)
  PROVE  /\ ContextTypeOK' /\ inFront' = inFront
         /\ \A u \in TabIds :
              /\ page'[u].painted = page[u].painted /\ page'[u].gen = page[u].gen
              /\ page'[u].cert = page[u].cert
              /\ u # inFront => page'[u] = page[u]
              /\ u = inFront => ~page'[u].home /\ page'[u].url = s
<1> DEFINE v == [page[inFront] EXCEPT !.url = s, !.home = FALSE, !.load = [to |-> s, started |-> FALSE]]
<1>1. page' = [page EXCEPT ![inFront] = v] /\ inFront \in TabIds
  BY DEF Visit, ContextTypeOK
<1>2. [to |-> s, started |-> FALSE] \in Load
  BY DEF Load
<1>3. v \in TabState
  BY <1>1, <1>2, TabFields DEF TabState
<1>4. /\ v.painted = page[inFront].painted /\ v.gen = page[inFront].gen /\ v.cert = page[inFront].cert
      /\ v.home = FALSE /\ v.url = s
  BY <1>1, TabFields DEF TabState
<1>5. loads' \in 0 .. MaxLoads
  BY LoadsAssumption DEF Visit, ContextTypeOK
<1> HIDE DEF v
<1>6. page' \in [TabIds -> TabState]
  BY <1>1, <1>3 DEF ContextTypeOK
<1>7. \A u \in TabIds : page'[u] = IF u = inFront THEN v ELSE page[u]
  BY <1>1 DEF ContextTypeOK
<1> QED BY <1>1, <1>4, <1>5, <1>6, <1>7 DEF Visit, ContextTypeOK

LEMMA PageNavigatesKeepsContext ==
  ASSUME ContextTypeOK, NEW t \in TabIds, NEW s \in Sites, PageNavigates(t, s)
  PROVE  /\ ContextTypeOK' /\ inFront' = inFront
         /\ \A u \in TabIds :
              /\ page'[u].painted = page[u].painted /\ page'[u].gen = page[u].gen
              /\ page'[u].cert = page[u].cert /\ page'[u].home = page[u].home
              /\ page'[u].url = page[u].url
<1> DEFINE v == [page[t] EXCEPT !.load = [to |-> s, started |-> FALSE]]
<1>1. page' = [page EXCEPT ![t] = v]
  BY DEF PageNavigates, ContextTypeOK
<1>2. [to |-> s, started |-> FALSE] \in Load
  BY DEF Load
<1>3. v \in TabState
  BY <1>2, TabFields DEF TabState
<1>4. /\ v.painted = page[t].painted /\ v.gen = page[t].gen /\ v.cert = page[t].cert
      /\ v.home = page[t].home /\ v.url = page[t].url
  BY TabFields DEF TabState
<1>5. loads' \in 0 .. MaxLoads
  BY LoadsAssumption DEF PageNavigates, ContextTypeOK
<1> HIDE DEF v
<1>6. page' \in [TabIds -> TabState]
  BY <1>1, <1>3 DEF ContextTypeOK
<1>7. \A u \in TabIds : page'[u] = IF u = t THEN v ELSE page[u]
  BY <1>1 DEF ContextTypeOK
<1> QED BY <1>4, <1>5, <1>6, <1>7 DEF PageNavigates, ContextTypeOK

LEMMA StartKeepsContext ==
  ASSUME ContextTypeOK, NEW t \in TabIds, StartLoad(t)
  PROVE  /\ ContextTypeOK' /\ inFront' = inFront
         /\ \A u \in TabIds :
              /\ page'[u].painted = page[u].painted /\ page'[u].home = page[u].home
              /\ page'[u].url = page[u].url
              /\ u # t => page'[u] = page[u]
         /\ page'[t].gen = page[t].gen + 1 /\ page'[t].cert = FALSE
<1> DEFINE l == [page[t].load EXCEPT !.started = TRUE]
<1> DEFINE v == [page[t] EXCEPT !.load = l, !.gen = page[t].gen + 1, !.cert = FALSE]
<1>1. page' = [page EXCEPT ![t] = v]
  BY DEF StartLoad, ContextTypeOK
<1>2. page[t].load \in Load
  BY TabFields DEF StartLoad
<1>3. l \in Load
  BY <1>2 DEF Load
<1> HIDE DEF l
<1>4. page[t].gen + 1 \in Nat
  BY TabFields
<1>5. v \in TabState
  BY <1>3, <1>4, TabFields DEF TabState
<1>6. /\ v.painted = page[t].painted /\ v.gen = page[t].gen + 1 /\ v.cert = FALSE
      /\ v.home = page[t].home /\ v.url = page[t].url
  BY TabFields DEF TabState
<1> HIDE DEF v
<1>7. page' \in [TabIds -> TabState]
  BY <1>1, <1>5 DEF ContextTypeOK
<1>8. \A u \in TabIds : page'[u] = IF u = t THEN v ELSE page[u]
  BY <1>1 DEF ContextTypeOK
<1> QED BY <1>6, <1>7, <1>8 DEF StartLoad, ContextTypeOK

LEMMA CommitKeepsContext ==
  ASSUME ContextTypeOK, NEW t \in TabIds, NEW s \in Sites, Commit(t, s)
  PROVE  /\ ContextTypeOK' /\ inFront' = inFront
         /\ \A u \in TabIds :
              /\ page'[u].gen = page[u].gen /\ page'[u].cert = page[u].cert
              /\ page'[u].home = page[u].home
              /\ u # t => page'[u] = page[u]
         /\ page'[t].painted = s
<1> DEFINE w == IF page[t].home THEN page[t].url ELSE s
<1> DEFINE v == [page[t] EXCEPT !.painted = s, !.load = None, !.url = w]
<1>1. page' = [page EXCEPT ![t] = v]
  BY DEF Commit, ContextTypeOK
<1>2. w \in Sites
  BY TabFields
<1> HIDE DEF w
<1>3. v \in TabState
  BY <1>2, TabFields DEF TabState
<1>4. /\ v.painted = s /\ v.gen = page[t].gen /\ v.cert = page[t].cert /\ v.home = page[t].home
  BY TabFields DEF TabState
<1> HIDE DEF v
<1>5. page' \in [TabIds -> TabState]
  BY <1>1, <1>3 DEF ContextTypeOK
<1>6. \A u \in TabIds : page'[u] = IF u = t THEN v ELSE page[u]
  BY <1>1 DEF ContextTypeOK
<1> QED BY <1>4, <1>5, <1>6 DEF Commit, ContextTypeOK

LEMMA AbortKeepsContext ==
  ASSUME ContextTypeOK, NEW t \in TabIds, Abort(t)
  PROVE  /\ ContextTypeOK' /\ inFront' = inFront
         /\ \A u \in TabIds :
              /\ page'[u].painted = page[u].painted /\ page'[u].gen = page[u].gen
              /\ page'[u].cert = page[u].cert /\ page'[u].home = page[u].home
              /\ page'[u].url = page[u].url
<1> DEFINE v == [page[t] EXCEPT !.load = None]
<1>1. page' = [page EXCEPT ![t] = v]
  BY DEF Abort, ContextTypeOK
<1>2. v \in TabState
  BY TabFields DEF TabState
<1>3. /\ v.painted = page[t].painted /\ v.gen = page[t].gen /\ v.cert = page[t].cert
      /\ v.home = page[t].home /\ v.url = page[t].url
  BY TabFields DEF TabState
<1> HIDE DEF v
<1>4. page' \in [TabIds -> TabState]
  BY <1>1, <1>2 DEF ContextTypeOK
<1>5. \A u \in TabIds : page'[u] = IF u = t THEN v ELSE page[u]
  BY <1>1 DEF ContextTypeOK
<1> QED BY <1>3, <1>4, <1>5 DEF Abort, ContextTypeOK

LEMMA GoHomeKeepsContext ==
  ASSUME ContextTypeOK, GoHome
  PROVE  /\ ContextTypeOK' /\ inFront' = inFront
         /\ \A u \in TabIds :
              /\ page'[u].painted = page[u].painted /\ page'[u].gen = page[u].gen
              /\ page'[u].cert = page[u].cert /\ page'[u].url = page[u].url
              /\ u # inFront => page'[u] = page[u]
         /\ page'[inFront].home
<1>1. PICK stopped \in BOOLEAN :
       page' = [page EXCEPT ![inFront].home = TRUE,
                 ![inFront].load = IF stopped \/ @ = None \/ ~@.started THEN None ELSE @]
  BY DEF GoHome
<1> DEFINE old == page[inFront].load
<1> DEFINE l == IF stopped \/ old = None \/ ~old.started THEN None ELSE old
<1> DEFINE v == [page[inFront] EXCEPT !.home = TRUE, !.load = l]
<1>2. page' = [page EXCEPT ![inFront] = v] /\ inFront \in TabIds
  BY <1>1 DEF ContextTypeOK
<1>3. l \in Load \cup {None}
  BY <1>2, TabFields
<1> HIDE DEF l
<1>4. v \in TabState
  BY <1>2, <1>3, TabFields DEF TabState
<1>5. /\ v.painted = page[inFront].painted /\ v.gen = page[inFront].gen /\ v.cert = page[inFront].cert
      /\ v.home = TRUE /\ v.url = page[inFront].url
  BY <1>2, TabFields DEF TabState
<1> HIDE DEF v
<1>6. page' \in [TabIds -> TabState]
  BY <1>2, <1>4 DEF ContextTypeOK
<1>7. \A u \in TabIds : page'[u] = IF u = inFront THEN v ELSE page[u]
  BY <1>2 DEF ContextTypeOK
<1> QED BY <1>2, <1>5, <1>6, <1>7 DEF GoHome, ContextTypeOK

LEMMA CertificateKeepsContext ==
  ASSUME ContextTypeOK, NEW t \in TabIds, CertificateError(t)
  PROVE  /\ ContextTypeOK' /\ inFront' = inFront
         /\ \A u \in TabIds :
              /\ page'[u].painted = page[u].painted /\ page'[u].gen = page[u].gen
              /\ page'[u].home = page[u].home /\ page'[u].url = page[u].url
<1> DEFINE v == [page[t] EXCEPT !.cert = TRUE]
<1>1. page' = [page EXCEPT ![t] = v]
  BY DEF CertificateError, ContextTypeOK
<1>2. v \in TabState
  BY TabFields DEF TabState
<1>3. /\ v.painted = page[t].painted /\ v.gen = page[t].gen /\ v.home = page[t].home
      /\ v.url = page[t].url
  BY TabFields DEF TabState
<1> HIDE DEF v
<1>4. page' \in [TabIds -> TabState]
  BY <1>1, <1>2 DEF ContextTypeOK
<1>5. \A u \in TabIds : page'[u] = IF u = t THEN v ELSE page[u]
  BY <1>1 DEF ContextTypeOK
<1> QED BY <1>3, <1>4, <1>5 DEF CertificateError, ContextTypeOK

LEMMA ActivateKeepsContext ==
  ASSUME ContextTypeOK, NEW t \in TabIds, Activate(t)
  PROVE  /\ ContextTypeOK' /\ inFront' = t
         /\ \A u \in TabIds :
              /\ page'[u].painted = page[u].painted /\ page'[u].gen = page[u].gen
              /\ page'[u].cert = page[u].cert /\ page'[u].home = page[u].home
              /\ page'[u].url = page[u].url
<1>1. CASE UNCHANGED <<page, loads>>
  BY <1>1 DEF Activate, ContextTypeOK
<1>2. CASE ~UNCHANGED <<page, loads>>
  <2> DEFINE v == [page[t] EXCEPT !.load = [to |-> page[t].url, started |-> FALSE]]
  <2>1. page' = [page EXCEPT ![t] = v] /\ loads < MaxLoads /\ loads' = loads + 1
    BY <1>2 DEF Activate, ContextTypeOK
  <2>2. [to |-> page[t].url, started |-> FALSE] \in Load
    BY TabFields DEF Load
  <2>3. v \in TabState
    BY <2>2, TabFields DEF TabState
  <2>4. /\ v.painted = page[t].painted /\ v.gen = page[t].gen /\ v.cert = page[t].cert
        /\ v.home = page[t].home /\ v.url = page[t].url
    BY TabFields DEF TabState
  <2>5. loads' \in 0 .. MaxLoads
    BY <2>1, LoadsAssumption DEF ContextTypeOK
  <2> HIDE DEF v
  <2>6. page' \in [TabIds -> TabState]
    BY <2>1, <2>3 DEF ContextTypeOK
  <2>7. \A u \in TabIds : page'[u] = IF u = t THEN v ELSE page[u]
    BY <2>1 DEF ContextTypeOK
  <2> QED BY <2>4, <2>5, <2>6, <2>7 DEF Activate, ContextTypeOK
<1> QED BY <1>1, <1>2
-----------------------------------------------------------------------------
(* Developer tools (DeveloperTools).                                       *)

(* What a ring may hold.                                                   *)
GoodEntry == {e \in Entry : Protected(e.of) => e.ahead}

(* The tools are open in front only, on a page that was not protected when *)
(* it was there to be judged; a commit is what could change that.          *)
ToolsInv ==
  /\ ContextTypeOK
  /\ workspace \in [TabIds -> {"development", "banking"}]
  /\ tools \in [TabIds -> ToolStates]
  /\ rings \in [TabIds -> [Kinds -> Seq(GoodEntry)]]
  /\ \A t \in TabIds : tools[t] # "closed" =>
       /\ t = inFront /\ workspace[t] = "development" /\ ~page[t].home
       /\ Protected(page[t].painted) => tools[t] = "early"

LEMMA ToolsInvIs == ToolsInv => ProtectedUnseen
<1> SUFFICES ASSUME ToolsInv, NEW t \in TabIds, NEW k \in Kinds, NEW i \in 1 .. Len(rings[t][k])
             PROVE  Protected(rings[t][k][i].of) => rings[t][k][i].ahead
  BY DEF ProtectedUnseen, ToolsInv
<1>1. rings[t][k] \in Seq(GoodEntry)
  BY DEF ToolsInv
<1>2. rings[t][k][i] \in GoodEntry
  BY <1>1
<1> QED BY <1>2 DEF GoodEntry

LEMMA InitialTools == ToolsInit => ToolsInv
<1> SUFFICES ASSUME ToolsInit PROVE ToolsInv OBVIOUS
<1>1. <<>> \in Seq(GoodEntry)
  OBVIOUS
<1>2. rings \in [TabIds -> [Kinds -> Seq(GoodEntry)]]
  BY <1>1 DEF ToolsInit
<1> QED BY <1>2, InitialContext DEF ToolsInit, ToolsInv, ToolStates

(* A step that leaves the tools, and of every tab whether it is Home and   *)
(* what it paints, or that of a tab whose tools are closed.                *)
LEMMA SeenElsewhere ==
  ASSUME ToolsInv, ContextTypeOK', UNCHANGED <<workspace, tools, rings>>, inFront' = inFront,
         \A t \in TabIds : tools[t] # "closed" =>
           (page'[t].home => page[t].home) /\ page'[t].painted = page[t].painted
  PROVE  ToolsInv'
  BY DEF ToolsInv

LEMMA ToggleKeepsTools ==
  ASSUME ToolsInv, ToggleTools PROVE ToolsInv'
<1> DEFINE s == IF tools[inFront] # "closed" THEN "closed"
                ELSE IF page[inFront].painted = page[inFront].url THEN "open" ELSE "early"
<1>1. inFront \in TabIds /\ ContextTypeOK' /\ UNCHANGED <<workspace, rings, inFront, page>>
  BY ContextStutters DEF ToggleTools, ToolsInv, contextVars, ContextTypeOK
<1>2. tools' = [tools EXCEPT ![inFront] = s]
  BY <1>1 DEF ToggleTools, ToolsInv
<1>3. s # "closed" => /\ workspace[inFront] = "development" /\ ~page[inFront].home
                      /\ Protected(page[inFront].painted) => s = "early"
  BY DEF ToggleTools, Target, MayUse
<1>4. s \in ToolStates
  BY DEF ToolStates
<1> HIDE DEF s
<1> QED BY <1>1, <1>2, <1>3, <1>4 DEF ToolsInv

LEMMA RecordKeepsTools ==
  ASSUME ToolsInv, NEW t \in TabIds, NEW k \in Kinds, NEW s \in Sites, Record(t, k, s) PROVE ToolsInv'
<1> DEFINE e == [of |-> page[t].painted, ahead |-> page[t].painted # page[t].url]
<1>1. page[t].painted \in Sites
  BY TabFields DEF Record, Target, ToolsInv
<1>2. e \in GoodEntry
  <2>1. Protected(page[t].painted) => page[t].painted # page[t].url
    BY DEF Record, Target, MayUse
  <2>2. e \in Entry /\ e.of = page[t].painted /\ e.ahead = (page[t].painted # page[t].url)
    BY <1>1 DEF Entry
  <2> QED BY <2>1, <2>2 DEF GoodEntry
<1> HIDE DEF e
<1>3. rings[t] \in [Kinds -> Seq(GoodEntry)] /\ rings[t][k] \in Seq(GoodEntry)
  BY DEF ToolsInv
<1>4. Append(rings[t][k], e) \in Seq(GoodEntry) /\ Append(rings[t][k], e) # <<>>
  BY <1>2, <1>3
<1> DEFINE r == Newest(Append(rings[t][k], e))
<1>5. r \in Seq(GoodEntry)
  BY <1>4 DEF Newest
<1>6. rings' = [rings EXCEPT ![t][k] = r]
  BY DEF Record, e
<1> HIDE DEF r
<1>7. rings' = [rings EXCEPT ![t] = [rings[t] EXCEPT ![k] = r]]
  BY <1>6
<1>8. [rings[t] EXCEPT ![k] = r] \in [Kinds -> Seq(GoodEntry)]
  BY <1>3, <1>5
<1>9. rings' \in [TabIds -> [Kinds -> Seq(GoodEntry)]]
  BY <1>7, <1>8 DEF ToolsInv
<1> QED BY <1>9, ContextStutters DEF Record, ToolsInv, contextVars

LEMMA ClearKeepsTools ==
  ASSUME ToolsInv, ClearDiagnostics PROVE ToolsInv'
<1>1. <<>> \in Seq(GoodEntry)
  OBVIOUS
<1>2. rings' \in [TabIds -> [Kinds -> Seq(GoodEntry)]]
  BY <1>1 DEF ClearDiagnostics, ToolsInv
<1> QED BY <1>2, ContextStutters DEF ClearDiagnostics, ToolsInv, contextVars

LEMMA CommitKeepsTools ==
  ASSUME ToolsInv, NEW t \in TabIds, NEW s \in Sites, CommitPage(t, s) PROVE ToolsInv'
<1>1. /\ ContextTypeOK' /\ inFront' = inFront
      /\ \A u \in TabIds : page'[u].home = page[u].home /\ (u # t => page'[u] = page[u])
      /\ page'[t].painted = s
  BY CommitKeepsContext DEF CommitPage, ToolsInv
<1>2. CASE Protected(s)
  <2>1. tools' = [tools EXCEPT ![t] = "closed"]
    BY <1>2 DEF CommitPage, OnCommit
  <2> QED BY <1>1, <2>1 DEF CommitPage, ToolsInv, ToolStates
<1>3. CASE ~Protected(s)
  <2>1. tools' = tools
    BY <1>3 DEF CommitPage, OnCommit
  <2> QED BY <1>1, <1>3, <2>1 DEF CommitPage, ToolsInv
<1> QED BY <1>2, <1>3

LEMMA HomeKeepsTools ==
  ASSUME ToolsInv, ShowHome PROVE ToolsInv'
<1>1. /\ ContextTypeOK' /\ inFront' = inFront /\ inFront \in TabIds
      /\ \A u \in TabIds : u # inFront => page'[u] = page[u]
  BY GoHomeKeepsContext DEF ShowHome, ToolsInv, ContextTypeOK
<1> QED BY <1>1 DEF ShowHome, ToolsInv, ToolStates

LEMMA TabKeepsTools ==
  ASSUME ToolsInv, NEW t \in TabIds, ShowTab(t) PROVE ToolsInv'
<1>1. ContextTypeOK'
  BY ActivateKeepsContext DEF ShowTab, ToolsInv
<1> QED BY <1>1 DEF ShowTab, ToolsInv, ToolStates

LEMMA NextTools == ToolsInv /\ [ToolsNext]_<<contextVars, toolVars>> => ToolsInv'
<1> SUFFICES ASSUME ToolsInv, [ToolsNext]_<<contextVars, toolVars>> PROVE ToolsInv' OBVIOUS
<1>0. ContextTypeOK
  BY DEF ToolsInv
<1>1. CASE UNCHANGED <<contextVars, toolVars>>
  BY <1>1, ContextStutters DEF toolVars, ToolsInv, contextVars
<1>2. CASE ToggleTools \/ ClearDiagnostics \/ ShowHome
  BY <1>2, ToggleKeepsTools, ClearKeepsTools, HomeKeepsTools
<1>3. CASE PageAnswers \/ StartServer
  BY <1>3, ContextStutters DEF PageAnswers, StartServer, ToolsInv, contextVars
<1>4. CASE ServerRuns
  <2>1. Visit(DevServer) /\ UNCHANGED <<workspace, tools, rings>>
    BY <1>4 DEF ServerRuns
  <2> QED BY <1>0, <2>1, ToolsAssumption, VisitKeepsContext, SeenElsewhere
<1>5. CASE \E call \in {"report", "inspect"} : AskPage(call)
  BY <1>5, ContextStutters DEF AskPage, ToolsInv, contextVars
<1>6. CASE \E p \in Projects : SelectProject(p)
  BY <1>6, ContextStutters DEF SelectProject, ToolsInv, contextVars
<1>7. CASE \E s \in Sites : StoreAddress(s)
  <2>1. PICK s \in Sites : Visit(s) /\ UNCHANGED <<workspace, tools, rings>>
    BY <1>7 DEF StoreAddress, toolVars
  <2> QED BY <1>0, <2>1, VisitKeepsContext, SeenElsewhere
<1>8. CASE \E t \in TabIds : (StartLoad(t) \/ Abort(t)) /\ UNCHANGED toolVars
  BY <1>0, <1>8, StartKeepsContext, AbortKeepsContext, SeenElsewhere DEF toolVars
<1>9. CASE \E t \in TabIds : ShowTab(t)
  BY <1>9, TabKeepsTools
<1>10. CASE \E t \in TabIds, s \in Sites : CommitPage(t, s)
  BY <1>10, CommitKeepsTools
<1>11. CASE \E t \in TabIds, s \in Sites : PageNavigates(t, s) /\ UNCHANGED toolVars
  BY <1>0, <1>11, PageNavigatesKeepsContext, SeenElsewhere DEF toolVars
<1>12. CASE \E t \in TabIds, s \in Sites, k \in Kinds : Record(t, k, s)
  BY <1>12, RecordKeepsTools
<1> QED BY <1>1, <1>2, <1>3, <1>4, <1>5, <1>6, <1>7, <1>8, <1>9, <1>10, <1>11, <1>12 DEF ToolsNext

(* Developer tools are open on, and record, no protected page, but for one *)
(* that is being left (developerTarget(), commitNavigation()).             *)
THEOREM ToolsSpareProtected == ToolsSpec => []ProtectedUnseen
<1> HIDE DEF ToolsInv, ProtectedUnseen
<1> QED BY InitialTools, NextTools, ToolsInvIs, PTL DEF ToolsSpec
-----------------------------------------------------------------------------
(* Filling passwords (PageFills).                                          *)

(* What was read of a page is the origin that was seen when it was asked,  *)
(* also while a dialog about it is open.                                   *)
FillsInv ==
  /\ FillsTypeOK
  /\ reading # None => reading.read = reading.context.origin
  /\ dialog # None => dialog.read = dialog.context.origin
  /\ SecretsWhereSeen

LEMMA CurrentIs ==
  ASSUME ContextTypeOK, Current # None
  PROVE  /\ Current \in Contexts
         /\ Current.tab = inFront /\ Current.gen = page[inFront].gen
         /\ Current.origin = page[inFront].painted /\ ~page[inFront].cert
<1> DEFINE c == [tab |-> inFront, gen |-> page[inFront].gen, origin |-> page[inFront].painted]
<1>1. Current = c /\ ~page[inFront].cert /\ page[inFront].painted # None
  BY DEF Current
<1>2. inFront \in TabIds
  BY DEF ContextTypeOK
<1>3. page[inFront].gen \in Nat /\ page[inFront].painted \in Sites
  BY <1>1, <1>2, TabFields
<1>4. c \in Contexts
  BY <1>2, <1>3 DEF Contexts
<1> QED BY <1>1, <1>4

LEMMA MovedIs ==
  ASSUME ContextTypeOK, Current # None, NEW way \in Ways
  PROVE  /\ Moved(way, Current) \in Secret
         /\ Moved(way, Current).way = way
         /\ Moved(way, Current).seen = Current.origin /\ Moved(way, Current).at = Current.origin
<1>1. Current.origin \in Sites /\ Current.origin = page[inFront].painted
  BY CurrentIs DEF Contexts
<1>2. Moved(way, Current) = [way |-> way, seen |-> Current.origin, at |-> Current.origin]
  BY <1>1 DEF Moved
<1> QED BY <1>1, <1>2 DEF Secret

(* A fill goes where the user saw it go, or nowhere.                       *)
LEMMA FilledWhereSeen ==
  ASSUME FillsInv, NEW way \in Ways \ {"capture"}, NEW c \in Contexts, FillEntryInto(way, c)
  PROVE  /\ secret' \in Secret \cup {None}
         /\ autoDone' \in [TabIds -> Nat \cup {None}]
         /\ secret' # None => /\ secret'.at = secret'.seen
                              /\ secret'.way # "capture" => Fits(secret'.way, secret'.at)
<1>1. CASE UNCHANGED <<secret, autoDone>>
  BY <1>1 DEF FillsInv, FillsTypeOK, SecretsWhereSeen
<1>2. CASE ~UNCHANGED <<secret, autoDone>>
  <2>1. /\ Current # None /\ c = Current /\ Fits(way, Current.origin)
        /\ secret' = Moved(way, Current) /\ autoDone' = [autoDone EXCEPT ![c.tab] = c.gen]
    BY <1>2 DEF FillEntryInto, SameContext
  <2>2. Moved(way, Current) \in Secret /\ Moved(way, Current).way = way
        /\ Moved(way, Current).seen = Current.origin /\ Moved(way, Current).at = Current.origin
    BY <2>1, MovedIs DEF FillsInv, FillsTypeOK
  <2>3. c.gen \in Nat
    BY DEF Contexts
  <2>4. autoDone' \in [TabIds -> Nat \cup {None}]
    BY <2>1, <2>3 DEF FillsInv, FillsTypeOK
  <2> QED BY <2>1, <2>2, <2>4
<1> QED BY <1>1, <1>2

LEMMA InitialFills == FillsInit => FillsInv
  BY InitialContext DEF FillsInit, FillsInv, FillsTypeOK, SecretsWhereSeen

LEMMA FillKeepsFills ==
  ASSUME FillsInv, NEW b \in BOOLEAN, Fill(b) PROVE FillsInv'
<1>1. Current # None /\ Current \in Contexts /\ ContextTypeOK' /\ UNCHANGED contextVars
  BY CurrentIs, ContextStutters DEF Fill, FillsInv, FillsTypeOK
<1>2. CASE b
  <2> DEFINE d == [kind |-> "confirm-fill", context |-> Current, read |-> Current.origin]
  <2>1. Current.origin \in Sites
    BY <1>1 DEF Contexts
  <2>2. d \in Dialog /\ d.read = d.context.origin
    BY <1>1, <2>1 DEF Dialog
  <2>3. dialog' = d /\ UNCHANGED <<secret, autoDone>>
    BY <1>2 DEF Fill
  <2> HIDE DEF d
  <2> QED BY <1>1, <2>2, <2>3 DEF Fill, FillsInv, FillsTypeOK, SecretsWhereSeen, contextVars
<1>3. CASE ~b
  <2>1. FillEntryInto("panel", Current) /\ UNCHANGED dialog
    BY <1>3 DEF Fill
  <2>2. /\ secret' \in Secret \cup {None} /\ autoDone' \in [TabIds -> Nat \cup {None}]
        /\ secret' # None => /\ secret'.at = secret'.seen
                             /\ secret'.way # "capture" => Fits(secret'.way, secret'.at)
    BY <1>1, <2>1, FilledWhereSeen DEF Ways
  <2> QED BY <1>1, <2>1, <2>2 DEF Fill, FillsInv, FillsTypeOK, SecretsWhereSeen, contextVars
<1> QED BY <1>2, <1>3

LEMMA CaptureKeepsFills ==
  ASSUME FillsInv, Capture PROVE FillsInv'
<1> DEFINE r == [context |-> Current, read |-> Current.origin]
<1>1. Current \in Contexts /\ ContextTypeOK'
  BY CurrentIs, ContextStutters DEF Capture, FillsInv, FillsTypeOK
<1>2. Current.origin \in Sites
  BY <1>1 DEF Contexts
<1>3. r \in [context : Contexts, read : Sites] /\ r.read = r.context.origin
  BY <1>1, <1>2
<1>4. reading' = r
  BY DEF Capture
<1> HIDE DEF r
<1> QED BY <1>1, <1>3, <1>4 DEF Capture, FillsInv, FillsTypeOK, SecretsWhereSeen, contextVars

LEMMA CapturedKeepsFills ==
  ASSUME FillsInv, Captured PROVE FillsInv'
<1>1. ContextTypeOK'
  BY ContextStutters DEF Captured, FillsInv, FillsTypeOK
<1>2. /\ reading.context \in Contexts /\ reading.read \in Sites
      /\ reading.read = reading.context.origin
  BY DEF Captured, FillsInv, FillsTypeOK
<1> DEFINE d == [kind |-> "confirm-capture", context |-> reading.context, read |-> reading.read]
<1>3. d \in Dialog /\ d.read = d.context.origin
  BY <1>2 DEF Dialog
<1>4. dialog' \in {d, dialog} /\ reading' = None
  BY DEF Captured
<1> HIDE DEF d
<1> QED BY <1>1, <1>3, <1>4 DEF Captured, FillsInv, FillsTypeOK, SecretsWhereSeen, contextVars

LEMMA AnswerKeepsFills ==
  ASSUME FillsInv, NEW b \in BOOLEAN, AnswerDialog(b) PROVE FillsInv'
<1>1. ContextTypeOK' /\ dialog' = None
  BY ContextStutters DEF AnswerDialog, FillsInv, FillsTypeOK
<1>2. /\ dialog.context \in Contexts /\ dialog.read \in Sites
      /\ dialog.read = dialog.context.origin
  BY DEF AnswerDialog, FillsInv, FillsTypeOK, Dialog
<1>3. /\ secret' \in Secret \cup {None} /\ autoDone' \in [TabIds -> Nat \cup {None}]
      /\ secret' # None => /\ secret'.at = secret'.seen
                           /\ secret'.way # "capture" => Fits(secret'.way, secret'.at)
  <2>1. CASE UNCHANGED <<secret, autoDone>>
    BY <2>1 DEF FillsInv, FillsTypeOK, SecretsWhereSeen
  <2>2. CASE FillEntryInto("panel", dialog.context)
    BY <1>2, <2>2, FilledWhereSeen DEF Ways
  <2>3. CASE UNCHANGED autoDone /\
             secret' = [way |-> "capture", seen |-> dialog.context.origin, at |-> dialog.read]
    <3>1. [way |-> "capture", seen |-> dialog.context.origin, at |-> dialog.read] \in Secret
      BY <1>2 DEF Secret, Ways
    <3> QED BY <1>2, <2>3, <3>1 DEF FillsInv, FillsTypeOK
  <2> QED BY <2>1, <2>2, <2>3 DEF AnswerDialog
<1> QED BY <1>1, <1>3 DEF AnswerDialog, FillsInv, FillsTypeOK, SecretsWhereSeen, contextVars

LEMMA PickerKeepsFills ==
  ASSUME FillsInv,
         OpenFillPicker \/ Choose \/ ClosePicker \/ \E c \in probes, b \in BOOLEAN : Probed(c, b)
  PROVE  FillsInv'
<1>0. ContextTypeOK' /\ UNCHANGED contextVars
  BY ContextStutters DEF OpenFillPicker, Choose, ClosePicker, Probed, FillsInv, FillsTypeOK
<1>1. CASE OpenFillPicker
  <2>1. Current \in Contexts
    BY <1>1, CurrentIs DEF OpenFillPicker, FillsInv, FillsTypeOK
  <2> QED BY <1>0, <1>1, <2>1 DEF OpenFillPicker, FillsInv, FillsTypeOK, SecretsWhereSeen, contextVars
<1>2. CASE Choose
  <2>1. picker \in Contexts /\ FillEntryInto("picker", picker)
    BY <1>2 DEF Choose, FillsInv, FillsTypeOK
  <2>2. /\ secret' \in Secret \cup {None} /\ autoDone' \in [TabIds -> Nat \cup {None}]
        /\ secret' # None => /\ secret'.at = secret'.seen
                             /\ secret'.way # "capture" => Fits(secret'.way, secret'.at)
    BY <2>1, FilledWhereSeen DEF Ways
  <2> QED BY <1>0, <1>2, <2>2 DEF Choose, FillsInv, FillsTypeOK, SecretsWhereSeen, contextVars
<1>3. CASE ClosePicker
  BY <1>0, <1>3 DEF ClosePicker, FillsInv, FillsTypeOK, SecretsWhereSeen, contextVars
<1>4. CASE \E c \in probes, b \in BOOLEAN : Probed(c, b)
  <2>1. PICK c \in probes, b \in BOOLEAN : Probed(c, b)
    BY <1>4
  <2>2. CASE picker' = picker
    BY <1>0, <2>1, <2>2 DEF Probed, FillsInv, FillsTypeOK, SecretsWhereSeen, contextVars
  <2>3. CASE picker' # picker
    <3>1. picker' = c /\ c = Current /\ Current # None
      BY <2>1, <2>3 DEF Probed, SameContext
    <3>2. c \in Contexts /\ c.tab = inFront /\ c.gen = page[inFront].gen /\ ~page[inFront].cert
      BY <3>1, CurrentIs DEF FillsInv, FillsTypeOK
    <3> QED BY <1>0, <2>1, <3>1, <3>2 DEF Probed, FillsInv, FillsTypeOK, SecretsWhereSeen, contextVars
  <2> QED BY <2>2, <2>3
<1> QED BY <1>1, <1>2, <1>3, <1>4

LEMMA AutomaticKeepsFills ==
  ASSUME FillsInv,
         TryAutomaticFill \/ \E c \in autos, b \in BOOLEAN : AutomaticFillEnds(c, b)
  PROVE  FillsInv'
<1>0. ContextTypeOK' /\ UNCHANGED contextVars
  BY ContextStutters DEF TryAutomaticFill, AutomaticFillEnds, FillsInv, FillsTypeOK
<1>1. CASE TryAutomaticFill
  <2>1. Current # None /\ Fits("automatic", Current.origin) /\ inFront \in TabIds
    BY <1>1 DEF TryAutomaticFill, FillsInv, FillsTypeOK, ContextTypeOK
  <2>2. Current \in Contexts
    BY <2>1, CurrentIs DEF FillsInv, FillsTypeOK
  <2>3. /\ Moved("automatic", Current) \in Secret
        /\ Moved("automatic", Current).way = "automatic"
        /\ Moved("automatic", Current).seen = Current.origin
        /\ Moved("automatic", Current).at = Current.origin
    BY <2>1, MovedIs DEF FillsInv, FillsTypeOK, Ways
  <2>4. secret' \in {secret, Moved("automatic", Current)}
    BY <1>1 DEF TryAutomaticFill
  <2>5. /\ secret' \in Secret \cup {None}
        /\ secret' # None => /\ secret'.at = secret'.seen
                             /\ secret'.way # "capture" => Fits(secret'.way, secret'.at)
    BY <2>1, <2>3, <2>4 DEF FillsInv, FillsTypeOK, SecretsWhereSeen
  <2> QED BY <1>0, <1>1, <2>1, <2>2, <2>5 DEF TryAutomaticFill, FillsInv, FillsTypeOK, SecretsWhereSeen, contextVars
<1>2. CASE \E c \in autos, b \in BOOLEAN : AutomaticFillEnds(c, b)
  <2>1. PICK c \in autos, b \in BOOLEAN : AutomaticFillEnds(c, b)
    BY <1>2
  <2>2. c.gen \in Nat
    BY DEF FillsInv, FillsTypeOK, Contexts
  <2>3. autoDone' \in [TabIds -> Nat \cup {None}]
    BY <2>1, <2>2 DEF AutomaticFillEnds, FillsInv, FillsTypeOK
  <2> QED BY <1>0, <2>1, <2>3 DEF AutomaticFillEnds, FillsInv, FillsTypeOK, SecretsWhereSeen, contextVars
<1> QED BY <1>1, <1>2

(* A navigation leaves the list only if it is of another tab, which the    *)
(* list is not.                                                            *)
LEMMA StartKeepsFills ==
  ASSUME FillsInv, NEW t \in TabIds, FillStartLoad(t) PROVE FillsInv'
<1>1. /\ ContextTypeOK' /\ inFront' = inFront
      /\ \A u \in TabIds : u # t => page'[u] = page[u]
  BY StartKeepsContext DEF FillStartLoad, FillsInv, FillsTypeOK
<1>2. inFront \in TabIds
  BY DEF FillsInv, FillsTypeOK, ContextTypeOK
<1>3. autoDone' \in [TabIds -> Nat \cup {None}]
  BY DEF FillStartLoad, FillsInv, FillsTypeOK
<1> QED BY <1>1, <1>2, <1>3 DEF FillStartLoad, PickerAfterStart, FillsInv, FillsTypeOK, SecretsWhereSeen

(* Other steps of a page leave the list as they leave the navigation and   *)
(* the certificate of the tab in front, or close it.                       *)
LEMMA PagesKeepFills ==
  ASSUME FillsInv, ContextTypeOK', UNCHANGED <<unlocked, probes, dialog, reading, autos, fillPending, autoDone, secret>>,
         \/ picker' = None
         \/ /\ picker' = picker /\ inFront' = inFront
            /\ page'[inFront].gen = page[inFront].gen /\ page'[inFront].cert = page[inFront].cert
  PROVE  FillsInv'
  BY DEF FillsInv, FillsTypeOK, SecretsWhereSeen

LEMMA NextFills == FillsInv /\ [FillsNext]_pageFillVars => FillsInv'
<1> SUFFICES ASSUME FillsInv, [FillsNext]_pageFillVars PROVE FillsInv' OBVIOUS
<1>0. ContextTypeOK /\ inFront \in TabIds
  BY DEF FillsInv, FillsTypeOK, ContextTypeOK
<1>1. CASE UNCHANGED pageFillVars
  BY <1>0, <1>1, ContextStutters, PagesKeepFills DEF pageFillVars, fillVars, contextVars
<1>2. CASE \E b \in BOOLEAN : Fill(b) \/ AnswerDialog(b)
  BY <1>2, FillKeepsFills, AnswerKeepsFills
<1>3. CASE Capture \/ Captured
  BY <1>3, CaptureKeepsFills, CapturedKeepsFills
<1>4. CASE OpenFillPicker \/ Choose \/ ClosePicker \/ \E c \in probes, b \in BOOLEAN : Probed(c, b)
  BY <1>4, PickerKeepsFills
<1>5. CASE TryAutomaticFill \/ \E c \in autos, b \in BOOLEAN : AutomaticFillEnds(c, b)
  BY <1>5, AutomaticKeepsFills
<1>6. CASE \E s \in Sites : Visit(s) /\ UNCHANGED fillVars
  BY <1>0, <1>6, VisitKeepsContext, PagesKeepFills DEF fillVars
<1>7. CASE \E t \in TabIds : FillStartLoad(t)
  BY <1>7, StartKeepsFills
<1>8. CASE \E t \in TabIds : Abort(t) /\ UNCHANGED fillVars
  BY <1>0, <1>8, AbortKeepsContext, PagesKeepFills DEF fillVars
<1>9. CASE \E t \in TabIds : ClosesPicker(CertificateError(t)) \/ ClosesPicker(Activate(t))
  BY <1>0, <1>9, CertificateKeepsContext, ActivateKeepsContext, PagesKeepFills DEF ClosesPicker
<1>10. CASE \E t \in TabIds, s \in Sites : PageNavigates(t, s) /\ UNCHANGED fillVars
  BY <1>0, <1>10, PageNavigatesKeepsContext, PagesKeepFills DEF fillVars
<1>11. CASE \E t \in TabIds, s \in Sites : Commit(t, s) /\ UNCHANGED fillVars
  BY <1>0, <1>11, CommitKeepsContext, PagesKeepFills DEF fillVars
<1>12. CASE GoHome /\ UNCHANGED fillVars
  BY <1>0, <1>12, GoHomeKeepsContext, PagesKeepFills DEF fillVars
<1>13. CASE LockVault \/ UnlockVault
  <2>1. ContextTypeOK' /\ UNCHANGED contextVars
    BY <1>0, <1>13, ContextStutters DEF LockVault, UnlockVault
  <2> QED BY <1>13, <2>1 DEF LockVault, UnlockVault, FillsInv, FillsTypeOK, SecretsWhereSeen, contextVars
<1> QED BY <1>1, <1>2, <1>3, <1>4, <1>5, <1>6, <1>7, <1>8, <1>9, <1>10, <1>11, <1>12, <1>13 DEF FillsNext

(* A password goes only into the page the user saw, whatever navigates     *)
(* meanwhile (fillEntryInto(), sameContext()).                             *)
THEOREM FillsReachTheirPage == FillsSpec => []SecretsWhereSeen
<1>1. FillsInv => SecretsWhereSeen
  BY DEF FillsInv
<1> HIDE DEF FillsInv, SecretsWhereSeen
<1> QED BY <1>1, InitialFills, NextFills, PTL DEF FillsSpec
-----------------------------------------------------------------------------
(* Website permissions (PermissionPrompts).                                *)

(* An answer for once is spent, or still held, as often as it was given at *)
(* most.                                                                   *)
OnceBalance == \A a \in AccountSpaces : onceSpent[a] + (IF a \in once THEN 1 ELSE 0) <= onceGiven[a]

PromptsInv == PromptsTypeOK /\ WaitingIsShown /\ OnceBalance

IsShown(r) == prompt # None /\ prompt.request = r

(* What a step grants, it grants to an Account Space in use.               *)
GrantsUsable ==
  \A r \in Queries :
    ask'[r] # None /\ ask'[r].stage = "granted" /\ (ask[r] = None \/ ask[r].stage # "granted")
      => Usable(space[ask'[r].account])

LEMMA InitialPrompts == PromptsInit => PromptsInv
<1> SUFFICES ASSUME PromptsInit PROVE PromptsInv OBVIOUS
<1>1. PromptsTypeOK
  BY DEF PromptsInit, PromptsTypeOK, SpaceStates
<1>2. WaitingIsShown
  BY DEF PromptsInit, WaitingIsShown
<1>3. OnceBalance
  BY DEF PromptsInit, OnceBalance
<1> QED BY <1>1, <1>2, <1>3 DEF PromptsInv

LEMMA PromptsStutter ==
  ASSUME PromptsInv, UNCHANGED promptVars PROVE PromptsInv' /\ GrantsUsable
  BY DEF promptVars, PromptsInv, PromptsTypeOK, WaitingIsShown, OnceBalance, GrantsUsable

LEMMA BalanceKept ==
  ASSUME PromptsInv, UNCHANGED <<once, onceGiven, onceSpent>> PROVE OnceBalance'
  BY DEF PromptsInv, OnceBalance

(* One request moves on, and the prompt is it exactly when it waits.       *)
LEMMA RequestMoves ==
  ASSUME PromptsInv, NEW r \in Queries, NEW v \in Ask, ask' = [ask EXCEPT ![r] = v],
         prompt' \in Prompt \cup {None},
         v.stage = "waiting" <=> IsShown(r)',
         \A q \in Queries \ {r} : IsShown(q)' <=> IsShown(q),
         v.stage = "granted" => Usable(space[v.account])
  PROVE  ask' \in [Queries -> Ask \cup {None}] /\ WaitingIsShown' /\ GrantsUsable
<1>1. ask' \in [Queries -> Ask \cup {None}] /\ v # None
  BY PromptsAssumption DEF PromptsInv, PromptsTypeOK
<1>2. \A q \in Queries : ask'[q] = IF q = r THEN v ELSE ask[q]
  BY DEF PromptsInv, PromptsTypeOK
<1>3. WaitingIsShown'
  BY <1>1, <1>2 DEF PromptsInv, WaitingIsShown, IsShown
<1>4. GrantsUsable
  BY <1>2 DEF GrantsUsable
<1> QED BY <1>1, <1>3, <1>4

LEMMA StageMoves ==
  ASSUME PromptsInv, NEW r \in Queries, ask[r] # None, NEW stage \in AskStages, AskStaged(r, stage)
  PROVE  LET v == [ask[r] EXCEPT !.stage = stage] IN
         v \in Ask /\ ask' = [ask EXCEPT ![r] = v] /\ v.stage = stage /\ v.account = ask[r].account
<1>1. ask[r] \in Ask
  BY DEF PromptsInv, PromptsTypeOK
<1> QED BY <1>1 DEF AskStaged, Ask

LEMMA QueueMoves ==
  ASSUME PromptsInv, NEW r \in Queries, NEW a \in AccountSpaces, NEW c \in Capabilities,
         Queue(r, a, c), ~IsShown(r)
  PROVE  /\ ask' \in [Queries -> Ask \cup {None}] /\ WaitingIsShown' /\ GrantsUsable
         /\ prompt' \in Prompt \cup {None}
<1> DEFINE v == [account |-> a, capability |-> c, page |-> TRUE,
                 stage |-> IF prompt = None THEN "waiting" ELSE "denied"]
<1>1. v \in Ask /\ ask' = [ask EXCEPT ![r] = v]
  BY DEF Queue, Ask, AskStages
<1> DEFINE p == [request |-> r, fresh |-> TRUE]
<1>2. p \in Prompt /\ p # None /\ p.request = r
  <2>1. p \in Prompt /\ p.request = r
    BY DEF Prompt
  <2> QED BY <2>1, PromptsAssumption
<1>3. prompt' \in Prompt \cup {None}
  BY <1>2 DEF Queue, PromptsInv, PromptsTypeOK
<1>4. v.stage = "waiting" <=> IsShown(r)'
  BY <1>2 DEF Queue, IsShown
<1>5. \A q \in Queries \ {r} : IsShown(q)' <=> IsShown(q)
  BY <1>2 DEF Queue, IsShown
<1>6. v.stage # "granted"
  OBVIOUS
<1> HIDE DEF v
<1> QED BY <1>1, <1>3, <1>4, <1>5, <1>6, RequestMoves

LEMMA DecideMoves ==
  ASSUME PromptsInv, NEW r \in Queries, NEW a \in AccountSpaces, NEW c \in Capabilities,
         Decide(r, a, c), ~IsShown(r), UNCHANGED <<space, always, sessionGrants, onceGiven>>
  PROVE  PromptsInv' /\ GrantsUsable
<1>1. CASE Evaluate(a, c) = "prompt"
  <2>1. Queue(r, a, c) /\ UNCHANGED <<once, onceSpent>>
    BY <1>1 DEF Decide
  <2>2. /\ ask' \in [Queries -> Ask \cup {None}] /\ WaitingIsShown' /\ GrantsUsable
        /\ prompt' \in Prompt \cup {None}
    BY <2>1, QueueMoves
  <2> QED BY <2>1, <2>2, BalanceKept DEF PromptsInv, PromptsTypeOK
<1>2. CASE Evaluate(a, c) # "prompt"
  <2> DEFINE e == Evaluate(a, c)
  <2> DEFINE v == [account |-> a, capability |-> c, stage |-> e, page |-> TRUE]
  <2>1. e \in {"granted", "denied"} /\ (e = "granted" => Usable(space[a]))
    BY <1>2 DEF Evaluate
  <2>2. /\ ask' = [ask EXCEPT ![r] = v] /\ prompt' = prompt
        /\ once' = IF e = "granted" THEN Consumed(a, c) ELSE once
        /\ onceSpent' = IF e = "granted" /\ OnceCovers(a, c) THEN [onceSpent EXCEPT ![a] = @ + 1]
                        ELSE onceSpent
    BY <1>2 DEF Decide
  <2> HIDE DEF e
  <2>3. v \in Ask /\ v.stage = e /\ v.account = a
    BY <2>1 DEF Ask, AskStages
  <2>4. prompt' \in Prompt \cup {None} /\ \A q \in Queries : IsShown(q)' <=> IsShown(q)
    BY <2>2 DEF IsShown, PromptsInv, PromptsTypeOK
  <2> HIDE DEF v
  <2>5. ask' \in [Queries -> Ask \cup {None}] /\ WaitingIsShown' /\ GrantsUsable
    BY <2>1, <2>2, <2>3, <2>4, RequestMoves
  <2>6. once' \subseteq AccountSpaces /\ onceSpent' \in [AccountSpaces -> Nat]
    BY <2>2 DEF Consumed, PromptsInv, PromptsTypeOK
  <2>7. OnceBalance'
    <3>1. CASE e = "granted" /\ OnceCovers(a, c)
      <4>1. once' = once \ {a} /\ a \in once /\ onceSpent' = [onceSpent EXCEPT ![a] = @ + 1]
        BY <2>2, <3>1 DEF OnceCovers, Consumed
      <4> QED BY <4>1 DEF PromptsInv, PromptsTypeOK, OnceBalance
    <3>2. CASE ~(e = "granted" /\ OnceCovers(a, c))
      <4>1. once' \subseteq once /\ onceSpent' = onceSpent
        BY <2>2, <3>2 DEF Consumed
      <4> QED BY <4>1 DEF PromptsInv, PromptsTypeOK, OnceBalance
    <3> QED BY <3>1, <3>2
  <2> QED BY <2>2, <2>5, <2>6, <2>7 DEF PromptsInv, PromptsTypeOK
<1> QED BY <1>1, <1>2

LEMMA AsksKeep ==
  ASSUME PromptsInv, NEW r \in Queries, NEW a \in AccountSpaces,
         AskDisplay(r, a) \/ \E c \in Capabilities : AskPermission(r, a, c)
  PROVE  PromptsInv' /\ GrantsUsable
<1>1. ask[r] = None /\ ~IsShown(r)
  BY DEF AskDisplay, AskPermission, PromptsInv, WaitingIsShown, IsShown
<1>2. CASE \E c \in Capabilities : AskPermission(r, a, c)
  BY <1>1, <1>2, DecideMoves DEF AskPermission
<1>3. CASE AskDisplay(r, a)
  <2> DEFINE s == IF Evaluate(a, "display-capture") = "denied" THEN "denied" ELSE "sources"
  <2> DEFINE v == [account |-> a, capability |-> "display-capture", page |-> TRUE, stage |-> s]
  <2>1. ask' = [ask EXCEPT ![r] = v] /\ prompt' = prompt
    BY <1>3 DEF AskDisplay
  <2>2. s \in {"denied", "sources"}
    OBVIOUS
  <2> HIDE DEF s
  <2>3. v \in Ask /\ v.stage = s
    BY <2>2 DEF Ask, AskStages, Capabilities
  <2>4. prompt' \in Prompt \cup {None} /\ \A q \in Queries : IsShown(q)' <=> IsShown(q)
    BY <2>1 DEF IsShown, PromptsInv, PromptsTypeOK
  <2> HIDE DEF v
  <2>5. ask' \in [Queries -> Ask \cup {None}] /\ WaitingIsShown' /\ GrantsUsable
    BY <1>1, <2>1, <2>2, <2>3, <2>4, RequestMoves
  <2> QED BY <1>3, <2>5, BalanceKept DEF AskDisplay, PromptsInv, PromptsTypeOK
<1> QED BY <1>2, <1>3

(* A request that no prompt shows is refused.                              *)
LEMMA RefusalKeeps ==
  ASSUME PromptsInv, NEW r \in Queries, ask[r] # None, ~IsShown(r), AskStaged(r, "denied"),
         UNCHANGED <<space, always, sessionGrants, once, prompt, onceGiven, onceSpent>>
  PROVE  PromptsInv' /\ GrantsUsable
<1> DEFINE v == [ask[r] EXCEPT !.stage = "denied"]
<1>1. v \in Ask /\ ask' = [ask EXCEPT ![r] = v] /\ v.stage = "denied"
  BY StageMoves DEF AskStages
<1>2. prompt' \in Prompt \cup {None} /\ \A q \in Queries : IsShown(q)' <=> IsShown(q)
  BY DEF IsShown, PromptsInv, PromptsTypeOK
<1> HIDE DEF v
<1>3. ask' \in [Queries -> Ask \cup {None}] /\ WaitingIsShown' /\ GrantsUsable
  BY <1>1, <1>2, RequestMoves
<1> QED BY <1>3, BalanceKept DEF PromptsInv, PromptsTypeOK

LEMMA WaitsKeep ==
  ASSUME PromptsInv, NEW r \in Queries, DisplaySources(r) \/ DownloadAgain(r) PROVE PromptsInv' /\ GrantsUsable
<1>1. ask[r] # None /\ ask[r].stage \in {"sources", "again"}
  BY DEF DisplaySources, DownloadAgain
<1>2. ask[r] \in Ask /\ ~IsShown(r)
  BY <1>1 DEF PromptsInv, PromptsTypeOK, WaitingIsShown, IsShown
<1>3. ask[r].account \in AccountSpaces /\ "display-capture" \in Capabilities /\ "download" \in Capabilities
  BY <1>2 DEF Ask, Capabilities
<1>4. CASE DisplaySources(r)
  <2>1. CASE AskStaged(r, "denied") /\ UNCHANGED prompt
    BY <1>1, <1>2, <1>4, <2>1, RefusalKeeps DEF DisplaySources
  <2>2. CASE Queue(r, ask[r].account, "display-capture")
    <3>1. /\ ask' \in [Queries -> Ask \cup {None}] /\ WaitingIsShown' /\ GrantsUsable
          /\ prompt' \in Prompt \cup {None}
      BY <1>2, <1>3, <2>2, QueueMoves
    <3> QED BY <1>4, <3>1, BalanceKept DEF DisplaySources, PromptsInv, PromptsTypeOK
  <2> QED BY <1>4, <2>1, <2>2 DEF DisplaySources
<1>5. CASE DownloadAgain(r)
  <2>1. CASE Decide(r, ask[r].account, "download")
    BY <1>2, <1>3, <1>5, <2>1, DecideMoves DEF DownloadAgain
  <2>2. CASE AskStaged(r, "denied") /\ UNCHANGED <<once, onceSpent, prompt>>
    BY <1>1, <1>2, <1>5, <2>2, RefusalKeeps DEF DownloadAgain
  <2> QED BY <1>5, <2>1, <2>2 DEF DownloadAgain
<1> QED BY <1>4, <1>5

LEMMA PageKeeps ==
  ASSUME PromptsInv, NEW r \in Queries, PageCloses(r) PROVE PromptsInv' /\ GrantsUsable
<1> DEFINE v == [ask[r] EXCEPT !.page = FALSE]
<1>1. ask[r] \in Ask /\ ask' = [ask EXCEPT ![r] = v] /\ ask[r].stage # "granted"
  BY DEF PageCloses, PromptsInv, PromptsTypeOK
<1>2. v \in Ask /\ v.stage = ask[r].stage
  BY <1>1 DEF Ask
<1>3. prompt' \in Prompt \cup {None} /\ \A q \in Queries : IsShown(q)' <=> IsShown(q)
  BY DEF PageCloses, IsShown, PromptsInv, PromptsTypeOK
<1>4. ask[r].stage = "waiting" <=> IsShown(r)
  BY DEF PageCloses, PromptsInv, WaitingIsShown, IsShown
<1> HIDE DEF v
<1>5. ask' \in [Queries -> Ask \cup {None}] /\ WaitingIsShown' /\ GrantsUsable
  BY <1>1, <1>2, <1>3, <1>4, RequestMoves
<1> QED BY <1>5, BalanceKept DEF PageCloses, PromptsInv, PromptsTypeOK

LEMMA ExpiryKeeps ==
  ASSUME PromptsInv, PromptExpires PROVE PromptsInv' /\ GrantsUsable
<1>1. prompt' \in Prompt /\ prompt'.request = prompt.request /\ prompt' # None
  BY PromptsAssumption DEF PromptExpires, PromptsInv, PromptsTypeOK, Prompt
<1>2. WaitingIsShown'
  BY <1>1 DEF PromptExpires, PromptsInv, WaitingIsShown
<1>3. GrantsUsable
  BY DEF PromptExpires, GrantsUsable
<1> QED BY <1>1, <1>2, <1>3, BalanceKept DEF PromptExpires, PromptsInv, PromptsTypeOK

(* An answer: the account is looked at once more, at that moment.          *)
LEMMA AnswerKeepsPrompts ==
  ASSUME PromptsInv, NEW d \in Decisions, NEW listed \in BOOLEAN, RespondToPrompt(d, listed)
  PROVE  PromptsInv' /\ GrantsUsable
<1>1. prompt # None /\ prompt' = None /\ UNCHANGED <<space, onceSpent>>
  BY DEF RespondToPrompt
<1>2. PICK r \in Queries : r = prompt.request /\ ask[r] # None
  BY <1>1 DEF PromptsInv, PromptsTypeOK, Prompt, WaitingIsShown
<1> DEFINE a == ask[r].account
<1> DEFINE c == ask[r].capability
<1> DEFINE ok == MayApply(a, c) /\ d # "deny"
<1> DEFINE given == ok /\ (c = "display-capture" => listed)
<1> DEFINE retained == ok /\ d = "allow-once" /\ c = "download"
<1> DEFINE stage == IF ~given THEN "denied" ELSE IF c # "download" THEN "granted"
                    ELSE IF ask[r].page THEN "again" ELSE "denied"
<1>3. ask[r] \in Ask
  BY <1>2 DEF PromptsInv, PromptsTypeOK
<1>4. a \in AccountSpaces /\ <<a, c>> \in Grants
  BY <1>3 DEF Ask, Grants
<1>5. /\ sessionGrants' = IF ok /\ d = "allow-session" THEN sessionGrants \cup {<<a, c>>} ELSE sessionGrants
      /\ always' = IF ok /\ d = "allow-always" THEN always \cup {<<a, c>>} ELSE always
      /\ once' = IF retained THEN once \cup {a} ELSE once
      /\ onceGiven' = IF retained THEN [onceGiven EXCEPT ![a] = @ + 1] ELSE onceGiven
      /\ AskStaged(r, stage)
  BY <1>2 DEF RespondToPrompt
<1>6. stage \in {"denied", "granted", "again"} /\ (stage = "granted" => Usable(space[a]))
  BY DEF MayApply, Evaluate
<1> DEFINE v == [ask[r] EXCEPT !.stage = stage]
<1> HIDE DEF stage
<1>7. v \in Ask /\ ask' = [ask EXCEPT ![r] = v] /\ v.stage = stage /\ v.account = a
  <2>1. stage \in AskStages /\ AskStaged(r, stage)
    BY <1>5, <1>6 DEF AskStages
  <2> QED BY <1>3, <2>1 DEF AskStaged, Ask
<1>8. \A q \in Queries : q # r => ~IsShown(q) /\ ~IsShown(q)'
  BY <1>1, <1>2 DEF IsShown
<1>9. ~IsShown(r)'
  BY <1>1 DEF IsShown
<1>10. prompt' \in Prompt \cup {None}
  BY <1>1
<1> HIDE DEF v
<1>11. ask' \in [Queries -> Ask \cup {None}] /\ WaitingIsShown' /\ GrantsUsable
  <2> HIDE DEF a
  <2> QED BY <1>2, <1>6, <1>7, <1>8, <1>9, <1>10, RequestMoves
<1>12. OnceBalance' /\ once' \subseteq AccountSpaces /\ onceGiven' \in [AccountSpaces -> Nat]
  <2> HIDE DEF a, ok, retained
  <2> QED BY <1>1, <1>4, <1>5 DEF PromptsInv, PromptsTypeOK, OnceBalance
<1>13. sessionGrants' \subseteq Grants /\ always' \subseteq Grants
  <2> HIDE DEF a, c, ok
  <2> QED BY <1>4, <1>5 DEF PromptsInv, PromptsTypeOK
<1> QED BY <1>1, <1>11, <1>12, <1>13 DEF PromptsInv, PromptsTypeOK

(* The request of the prompt that is taken away waits no longer.           *)
LEMMA CancelKeeps ==
  ASSUME PromptsInv, NEW a \in AccountSpaces, NEW s \in SpaceStates, HandlerBegins(a, s)
  PROVE  PromptsInv' /\ GrantsUsable
<1>1. \A r \in Queries : ask'[r] = Cancelled(a, r)
  BY DEF HandlerBegins, CancelAccount
<1>2. ASSUME NEW r \in Queries
      PROVE  /\ Cancelled(a, r) \in Ask \cup {None}
             /\ Cancelled(a, r) # None <=> ask[r] # None
             /\ Cancelled(a, r) # None =>
                  Cancelled(a, r).stage = IF IsShown(r) /\ ask[r].account = a THEN "denied" ELSE ask[r].stage
  <2>1. ask[r] \in Ask \cup {None}
    BY DEF PromptsInv, PromptsTypeOK
  <2>2. IsShown(r) => ask[r] # None
    BY DEF PromptsInv, WaitingIsShown, IsShown
  <2>3. CASE ask[r] = None
    BY <2>2, <2>3 DEF Cancelled, IsShown
  <2>4. CASE ask[r] \in Ask
    <3> DEFINE u == [ask[r] EXCEPT !.stage = "denied", !.page = FALSE]
    <3> DEFINE w == [ask[r] EXCEPT !.page = FALSE]
    <3>1. u \in Ask /\ u.stage = "denied" /\ w \in Ask /\ w.stage = ask[r].stage
      BY <2>4 DEF Ask, AskStages
    <3>2. u # None /\ w # None /\ ask[r] # None
      BY <2>4, <3>1, PromptsAssumption
    <3>3. Cancelled(a, r) = IF IsShown(r) /\ ask[r].account = a THEN u
                            ELSE IF ask[r].account = a THEN w ELSE ask[r]
      BY <3>2 DEF Cancelled, IsShown
    <3> HIDE DEF u, w
    <3> QED BY <2>4, <3>1, <3>2, <3>3
  <2> QED BY <2>1, <2>3, <2>4
<1>3. prompt' = IF prompt # None /\ ask[prompt.request].account = a THEN None ELSE prompt
  BY DEF HandlerBegins, CancelAccount
<1>4. ask' \in [Queries -> Ask \cup {None}]
  BY <1>2 DEF HandlerBegins, CancelAccount
<1>5. prompt' \in Prompt \cup {None}
  BY <1>3 DEF PromptsInv, PromptsTypeOK
<1>6. WaitingIsShown'
  <2> SUFFICES ASSUME NEW r \in Queries
               PROVE  (ask'[r] # None /\ ask'[r].stage = "waiting") <=> IsShown(r)'
    BY DEF WaitingIsShown, IsShown
  <2>1. (ask[r] # None /\ ask[r].stage = "waiting") <=> IsShown(r)
    BY DEF PromptsInv, WaitingIsShown, IsShown
  <2>2. IsShown(r)' <=> IsShown(r) /\ ask[r].account # a
    BY <1>3 DEF IsShown
  <2> QED BY <1>1, <1>2, <2>1, <2>2
<1>7. GrantsUsable
  BY <1>1, <1>2 DEF GrantsUsable
<1>8. OnceBalance'
  BY DEF HandlerBegins, CancelAccount, PromptsInv, PromptsTypeOK, OnceBalance
<1>9. space' \in [AccountSpaces -> SpaceStates]
  BY DEF HandlerBegins, PromptsInv, PromptsTypeOK
<1>10. sessionGrants' \subseteq Grants /\ once' \subseteq AccountSpaces
  BY DEF HandlerBegins, CancelAccount, PromptsInv, PromptsTypeOK
<1> QED BY <1>4, <1>5, <1>6, <1>7, <1>8, <1>9, <1>10 DEF HandlerBegins, PromptsInv, PromptsTypeOK

LEMMA HandlerEndKeeps ==
  ASSUME PromptsInv, NEW a \in AccountSpaces, NEW s \in SpaceStates, HandlerEnds(a, s)
  PROVE  PromptsInv' /\ GrantsUsable
<1>1. space' \in [AccountSpaces -> SpaceStates] /\ always' \subseteq Grants
  BY DEF HandlerEnds, PromptsInv, PromptsTypeOK
<1>2. UNCHANGED <<sessionGrants, once, prompt, ask, onceGiven, onceSpent>>
  BY DEF HandlerEnds
<1> QED BY <1>1, <1>2 DEF PromptsInv, PromptsTypeOK, WaitingIsShown, OnceBalance, GrantsUsable

LEMMA StepOfPrompts ==
  ASSUME PromptsInv, PromptsNext PROVE PromptsInv' /\ GrantsUsable
<1>1. CASE \E r \in Queries, a \in AccountSpaces :
             AskDisplay(r, a) \/ \E c \in Capabilities : AskPermission(r, a, c)
  BY <1>1, AsksKeep
<1>2. CASE \E r \in Queries : DisplaySources(r) \/ DownloadAgain(r) \/ PageCloses(r)
  BY <1>2, WaitsKeep, PageKeeps
<1>3. CASE PromptExpires
  BY <1>3, ExpiryKeeps
<1>4. CASE \E d \in Decisions, listed \in BOOLEAN : RespondToPrompt(d, listed)
  BY <1>4, AnswerKeepsPrompts
<1>5. CASE \E a \in AccountSpaces, s \in SpaceStates : HandlerBegins(a, s) \/ HandlerEnds(a, s)
  BY <1>5, CancelKeeps, HandlerEndKeeps
<1> QED BY <1>1, <1>2, <1>3, <1>4, <1>5 DEF PromptsNext

(* No page waits without its prompt, an answer for once counts once, and   *)
(* nothing is granted for an Account Space that is locked or gone          *)
(* (queuePermissionPrompt(), applyDecision()).                             *)
THEOREM PromptsAlwaysDecide == PromptsSpec => PromptsDecide
<1> DEFINE Step ==
      /\ (WaitingIsShown /\ OncePerDecision)'
      /\ \A r \in Queries :
           ask'[r] # None /\ ask'[r].stage = "granted" /\ (ask[r] = None \/ ask[r].stage # "granted")
             => Usable(space[ask'[r].account])
<1>1. PromptsInv => WaitingIsShown /\ OncePerDecision
  <2>1. ASSUME PromptsInv, NEW a \in AccountSpaces PROVE onceSpent[a] <= onceGiven[a]
    <3>1. onceSpent[a] \in Nat /\ onceGiven[a] \in Nat
      BY <2>1 DEF PromptsInv, PromptsTypeOK
    <3>2. onceSpent[a] + (IF a \in once THEN 1 ELSE 0) <= onceGiven[a]
      BY <2>1 DEF PromptsInv, OnceBalance
    <3> QED BY <3>1, <3>2
  <2> QED BY <2>1 DEF PromptsInv, OncePerDecision
<1>2. PromptsInv /\ [PromptsNext]_promptVars => PromptsInv'
  BY StepOfPrompts, PromptsStutter
<1>3. PromptsInv /\ [PromptsNext]_promptVars => [Step]_promptVars
  <2> SUFFICES ASSUME PromptsInv, PromptsNext PROVE Step
    OBVIOUS
  <2>1. PromptsInv' /\ GrantsUsable
    BY StepOfPrompts
  <2>2. PromptsInv' => (WaitingIsShown /\ OncePerDecision)'
    BY <1>1, PTL
  <2> QED BY <2>1, <2>2 DEF GrantsUsable
<1>4. PromptsDecide <=> [][Step]_promptVars
  BY DEF PromptsDecide
<1> HIDE DEF PromptsInv, Step, PromptsDecide
<1> QED BY <1>2, <1>3, <1>4, InitialPrompts, PTL DEF PromptsSpec
-----------------------------------------------------------------------------
(* Menus over the page (PageCover).                                        *)

(* What is captured is the page that was there or the one that came in its *)
(* place, while one navigation commits at most; and the last call of the   *)
(* renderer whose menus are closed shows the page again.                   *)
ShotInv ==
  shot # None =>
    /\ ~Protected(shot.before)
    /\ shot.during = 0 => /\ page[shot.tab].painted = shot.before
                          /\ shot.image \in {None, shot.before}
    /\ shot.during <= 1 => shot.image \in {None, shot.before, page[shot.tab].painted}

FrameInv == frame # None /\ MaxDuring <= 1 => ~Protected(frame.site)

LastShows == phase = "closed" /\ asks # << >> => ~asks[Len(asks)]

CoverInv ==
  /\ ContextTypeOK /\ CoverTypeOK
  /\ ShotInv /\ FrameInv /\ LastShows /\ UncoveredShows

LEMMA InitialCover == CoverInit => CoverInv
<1> SUFFICES ASSUME CoverInit PROVE CoverInv OBVIOUS
<1>1. ContextTypeOK /\ inFront \in TabIds /\ page[inFront].home
  <2>1. ContextInit
    BY DEF CoverInit
  <2>2. PICK s \in Sites : page = [t \in TabIds |-> [url |-> s, painted |-> None, load |-> None,
                                             gen |-> 0, home |-> TRUE, cert |-> FALSE]]
    BY <2>1 DEF ContextInit
  <2>3. ContextTypeOK /\ inFront \in TabIds
    BY <2>1, InitialContext DEF ContextInit
  <2> QED BY <2>2, <2>3
<1>2. << >> \in Seq(BOOLEAN) /\ 0 \in 0 .. MaxLayers
  BY CoverAssumption
<1>3. CoverTypeOK
  BY <1>2 DEF CoverInit, CoverTypeOK, Phases
<1> QED BY <1>1, <1>3 DEF CoverInit, CoverInv, ShotInv, FrameInv, LastShows, UncoveredShows, ContextTypeOK

(* Steps that leave the main process's view and page alone.                *)
LEMMA LayersKeep ==
  ASSUME CoverInv, OpenLayer \/ DropFrame PROVE CoverInv'
<1>1. ContextTypeOK' /\ UNCHANGED <<page, inFront, visible, covered, shot, asks>>
  BY ContextStutters DEF OpenLayer, DropFrame, CoverInv, contextVars
<1>2. CoverTypeOK' /\ (phase' = "closed" => phase = "closed") /\ frame' \in {frame, None}
  BY CoverAssumption DEF OpenLayer, DropFrame, CoverInv, CoverTypeOK, Phases
<1> QED BY <1>1, <1>2 DEF CoverInv, ShotInv, FrameInv, LastShows, UncoveredShows

LEMMA LastOfAppended ==
  ASSUME NEW s \in Seq(BOOLEAN), NEW b \in BOOLEAN
  PROVE  /\ Append(s, b) \in Seq(BOOLEAN) /\ Append(s, b) # << >>
         /\ Append(s, b)[Len(Append(s, b))] = b
  OBVIOUS

LEMMA LastOfTail ==
  ASSUME NEW s \in Seq(BOOLEAN), s # << >>
  PROVE  /\ Tail(s) \in Seq(BOOLEAN)
         /\ Tail(s) # << >> => Tail(s)[Len(Tail(s))] = s[Len(s)]
         /\ Tail(s) = << >> => Head(s) = s[Len(s)]
<1>1. Len(s) \in Nat \ {0} /\ Tail(s) \in Seq(BOOLEAN) /\ Len(Tail(s)) = Len(s) - 1 /\ Head(s) = s[1]
  OBVIOUS
<1>2. ASSUME Tail(s) # << >> PROVE Tail(s)[Len(Tail(s))] = s[Len(s)]
  <2>1. Len(s) - 1 \in 1 .. Len(s) - 1
    BY <1>1, <1>2
  <2>2. Tail(s)[Len(s) - 1] = s[Len(s) - 1 + 1]
    BY <1>1, <2>1
  <2>3. Len(s) - 1 + 1 = Len(s)
    BY <1>1
  <2> QED BY <1>1, <2>2, <2>3
<1>3. ASSUME Tail(s) = << >> PROVE Len(s) = 1
  BY <1>1, <1>3
<1> QED BY <1>1, <1>2, <1>3

LEMMA CloseKeeps ==
  ASSUME CoverInv, CloseLayer PROVE CoverInv'
<1>1. ContextTypeOK' /\ UNCHANGED <<page, inFront, visible, covered, frame>>
  BY ContextStutters DEF CloseLayer, CoverInv, contextVars
<1>2. layers' \in 0 .. MaxLayers
  BY CoverAssumption DEF CloseLayer, CoverInv, CoverTypeOK
<1>3. CASE layers = 1
  <2>1. phase' = "closed" /\ shot' = None /\ asks' = Append(asks, FALSE) /\ asks \in Seq(BOOLEAN)
    BY <1>3 DEF CloseLayer, CoverInv, CoverTypeOK
  <2>2. asks' \in Seq(BOOLEAN) /\ asks' # << >> /\ ~asks'[Len(asks')]
    BY <2>1, LastOfAppended
  <2> QED BY <1>1, <1>2, <2>1, <2>2 DEF CoverInv, CoverTypeOK, Phases, ShotInv, FrameInv, LastShows, UncoveredShows
<1>4. CASE layers # 1
  BY <1>1, <1>2, <1>4 DEF CloseLayer, CoverInv, CoverTypeOK, ShotInv, FrameInv, LastShows, UncoveredShows
<1> QED BY <1>3, <1>4

LEMMA AskKeeps ==
  ASSUME CoverInv, AskToHide PROVE CoverInv'
<1>1. ContextTypeOK' /\ UNCHANGED <<page, inFront, visible, covered, frame, shot, layers>>
  BY ContextStutters DEF AskToHide, CoverInv, contextVars
<1>2. phase' = "hiding" /\ asks' = Append(asks, TRUE) /\ asks \in Seq(BOOLEAN)
  BY DEF AskToHide, CoverInv, CoverTypeOK
<1>3. asks' \in Seq(BOOLEAN)
  BY <1>2, LastOfAppended
<1> QED BY <1>1, <1>2, <1>3 DEF CoverInv, CoverTypeOK, Phases, ShotInv, FrameInv, LastShows, UncoveredShows

LEMMA FreezeKeeps ==
  ASSUME CoverInv, FreezeContent PROVE CoverInv'
<1>1. ContextTypeOK' /\ UNCHANGED <<page, inFront, visible, covered, layers, asks>>
  BY ContextStutters DEF FreezeContent, CoverInv, contextVars
<1>2. CASE MayFreeze
  <2> DEFINE z == [tab |-> inFront, before |-> page[inFront].painted, image |-> None, during |-> 0]
  <2>1. shot' = z /\ UNCHANGED <<phase, frame>>
    BY <1>2 DEF FreezeContent
  <2>2. inFront \in TabIds /\ page[inFront].painted \in Sites /\ ~Protected(page[inFront].painted)
    BY <1>2, TabFields DEF MayFreeze, CoverInv, ContextTypeOK
  <2>3. 0 \in 0 .. MaxDuring
    BY CoverAssumption
  <2>4. z \in Shot /\ z.before = page[inFront].painted /\ z.tab = inFront /\ z.image = None /\ z.during = 0
    BY <2>2, <2>3 DEF Shot
  <2> HIDE DEF z
  <2>5. ShotInv'
    BY <1>1, <2>1, <2>2, <2>4 DEF ShotInv
  <2> QED BY <1>1, <2>1, <2>4, <2>5 DEF CoverInv, CoverTypeOK, FrameInv, LastShows, UncoveredShows
<1>3. CASE ~MayFreeze
  <2>1. phase' = "painting" /\ frame' = None /\ UNCHANGED shot
    BY <1>3 DEF FreezeContent
  <2> QED BY <1>1, <2>1 DEF CoverInv, CoverTypeOK, Phases, ShotInv, FrameInv, LastShows, UncoveredShows
<1> QED BY <1>2, <1>3

LEMMA ExposeKeeps ==
  ASSUME CoverInv, Expose PROVE CoverInv'
<1> DEFINE i == page[shot.tab].painted
<1> DEFINE z == [shot EXCEPT !.image = i]
<1>1. ContextTypeOK' /\ UNCHANGED <<page, inFront, visible, covered, layers, phase, frame, asks>>
  BY ContextStutters DEF Expose, CoverInv, contextVars
<1>2. shot' = z /\ shot # None /\ shot \in Shot
  BY DEF Expose, CoverInv, CoverTypeOK
<1>3. i \in Sites \cup {None}
  BY <1>2, TabFields DEF CoverInv, Shot
<1>4. /\ z \in Shot /\ z.image = page[shot.tab].painted
      /\ z.before = shot.before /\ z.tab = shot.tab /\ z.during = shot.during
  BY <1>2, <1>3 DEF Shot
<1> HIDE DEF i, z
<1>5. ShotInv'
  BY <1>1, <1>2, <1>4 DEF CoverInv, ShotInv
<1> QED BY <1>1, <1>2, <1>4, <1>5 DEF CoverInv, CoverTypeOK, FrameInv, LastShows, UncoveredShows

(* An image is drawn only of the page that is still there, which is not a  *)
(* protected one.                                                          *)
LEMMA AnswerKeepsCover ==
  ASSUME CoverInv, AnswerFrame PROVE CoverInv'
<1> DEFINE g == [tab |-> shot.tab, site |-> shot.image]
<1>1. ContextTypeOK' /\ UNCHANGED <<page, inFront, visible, covered, layers, asks>>
  BY ContextStutters DEF AnswerFrame, CoverInv, contextVars
<1>2. shot' = None /\ phase' = "painting" /\ shot # None /\ shot.image # None /\ shot \in Shot
  BY DEF AnswerFrame, CoverInv, CoverTypeOK
<1>3. g \in Image /\ g.site = shot.image
  BY <1>2 DEF Image, Shot
<1>4. CASE frame' = None
  BY <1>1, <1>2, <1>4 DEF CoverInv, CoverTypeOK, Phases, ShotInv, FrameInv, LastShows, UncoveredShows
<1>5. CASE frame' # None
  <2>1. /\ frame' = g /\ page[shot.tab].painted = shot.before
        /\ ~Protected(page[shot.tab].painted)
    BY <1>5 DEF AnswerFrame
  <2>2. MaxDuring <= 1 => shot.during <= 1
    BY <1>2, CoverAssumption DEF Shot
  <2>3. MaxDuring <= 1 => ~Protected(g.site)
    BY <1>2, <1>3, <2>1, <2>2 DEF CoverInv, ShotInv
  <2> HIDE DEF g
  <2> QED BY <1>1, <1>2, <1>3, <2>1, <2>3 DEF CoverInv, CoverTypeOK, Phases, ShotInv, FrameInv, LastShows, UncoveredShows
<1> QED BY <1>4, <1>5

LEMMA HideKeeps ==
  ASSUME CoverInv, Hide PROVE CoverInv'
<1>1. ContextTypeOK' /\ UNCHANGED <<page, inFront, layers, shot, frame>>
  BY ContextStutters DEF Hide, CoverInv, contextVars
<1>2. /\ asks \in Seq(BOOLEAN) /\ asks # << >> /\ Head(asks) /\ asks' = Tail(asks)
      /\ covered' = TRUE /\ visible' = {} /\ phase' \in {phase, "ready"}
  BY DEF Hide, Handled, CoverInv, CoverTypeOK
<1>3. /\ asks' \in Seq(BOOLEAN)
      /\ asks' # << >> => asks'[Len(asks')] = asks[Len(asks)]
      /\ asks' = << >> => asks[Len(asks)]
  BY <1>2, LastOfTail
<1>4. LastShows' /\ ~(phase' = "closed" /\ asks' = << >>)
  BY <1>2, <1>3 DEF CoverInv, LastShows
<1> QED BY <1>1, <1>2, <1>3, <1>4 DEF CoverInv, CoverTypeOK, Phases, ShotInv, FrameInv, UncoveredShows

LEMMA UncoverKeeps ==
  ASSUME CoverInv, Uncover PROVE CoverInv'
<1> DEFINE f == page[inFront]
<1>1. /\ asks \in Seq(BOOLEAN) /\ asks # << >> /\ asks' = Tail(asks) /\ covered' = FALSE
      /\ visible' = IF f.home THEN visible ELSE visible \cup {inFront}
      /\ UNCHANGED <<layers, phase, shot, frame, inFront>> /\ inFront \in TabIds
  BY DEF Uncover, Handled, CoverInv, CoverTypeOK, ContextTypeOK
<1>2. /\ ContextTypeOK'
      /\ \A u \in TabIds : page'[u].painted = page[u].painted /\ page'[u].home = page[u].home
  <2>1. CASE UNCHANGED <<page, loads>>
    BY <1>1, <2>1, ContextStutters DEF CoverInv, contextVars
  <2>2. CASE ~UNCHANGED <<page, loads>>
    <3> DEFINE v == [f EXCEPT !.load = [to |-> f.url, started |-> FALSE]]
    <3>1. loads < MaxLoads /\ loads' = loads + 1 /\ page' = [page EXCEPT ![inFront] = v]
      BY <2>2 DEF Uncover, CoverInv, ContextTypeOK
    <3>2. [to |-> f.url, started |-> FALSE] \in Load
      BY <1>1, TabFields DEF Load, CoverInv
    <3>3. v \in TabState /\ v.painted = f.painted /\ v.home = f.home
      BY <1>1, <3>2, TabFields DEF TabState, CoverInv
    <3>4. loads' \in 0 .. MaxLoads
      BY <3>1, LoadsAssumption DEF CoverInv, ContextTypeOK
    <3> HIDE DEF v
    <3>5. page' \in [TabIds -> TabState]
      BY <3>1, <3>3 DEF CoverInv, ContextTypeOK
    <3>6. \A u \in TabIds : page'[u] = IF u = inFront THEN v ELSE page[u]
      BY <3>1 DEF CoverInv, ContextTypeOK
    <3> QED BY <1>1, <3>3, <3>4, <3>5, <3>6 DEF ContextTypeOK
  <2> QED BY <2>1, <2>2
<1>3. asks' \in Seq(BOOLEAN) /\ (asks' # << >> => asks'[Len(asks')] = asks[Len(asks)])
  BY <1>1, LastOfTail
<1>4. LastShows'
  BY <1>1, <1>3 DEF CoverInv, LastShows
<1>5. CoverTypeOK'
  BY <1>1, <1>3 DEF CoverInv, CoverTypeOK
<1>6. ShotInv'
  BY <1>1, <1>2 DEF CoverInv, CoverTypeOK, ShotInv, Shot
<1>7. UncoveredShows'
  BY <1>1, <1>2 DEF CoverInv, UncoveredShows
<1> QED BY <1>1, <1>2, <1>4, <1>5, <1>6, <1>7 DEF CoverInv, FrameInv

(* Steps of a page that paint nothing new show or hide at most the tab in  *)
(* front.                                                                  *)
LEMMA PagesKeepCover ==
  ASSUME CoverInv, ContextTypeOK', UNCHANGED <<covered, layers, phase, shot, asks>>,
         frame' \in {frame, None},
         \A u \in TabIds : page'[u].painted = page[u].painted,
         visible' \subseteq {inFront'},
         ~page'[inFront'].home => \/ inFront' \in visible'
                                  \/ inFront' = inFront /\ ~page[inFront].home /\ visible' = visible
  PROVE  CoverInv'
<1>1. CoverTypeOK'
  BY DEF CoverInv, CoverTypeOK, ContextTypeOK
<1>2. ShotInv'
  BY DEF CoverInv, CoverTypeOK, ShotInv, Shot
<1> QED BY <1>1, <1>2 DEF CoverInv, FrameInv, LastShows, UncoveredShows

(* A commit paints another page, which a capture under way counts.         *)
LEMMA CommitKeepsCover ==
  ASSUME CoverInv, NEW t \in TabIds, NEW s \in Sites, CommitSeen(t, s) PROVE CoverInv'
<1>1. /\ ContextTypeOK' /\ inFront' = inFront /\ inFront \in TabIds
      /\ \A u \in TabIds : page'[u].home = page[u].home /\ (u # t => page'[u] = page[u])
  BY CommitKeepsContext DEF CommitSeen, CoverInv, ContextTypeOK
<1>2. UNCHANGED <<visible, covered, layers, phase, frame, asks>>
  BY DEF CommitSeen
<1>3. ShotInv' /\ shot' \in Shot \cup {None}
  <2>1. CASE shot # None /\ shot.tab = t
    <3> DEFINE z == [shot EXCEPT !.during = shot.during + 1]
    <3>1. shot' = z /\ shot.during < MaxDuring /\ shot \in Shot
      BY <2>1 DEF CommitSeen, CoverInv, CoverTypeOK
    <3>2. shot.during + 1 \in 0 .. MaxDuring /\ shot.during \in Nat
      BY <3>1, CoverAssumption DEF Shot
    <3>3. z \in Shot /\ z.during = shot.during + 1 /\ z.before = shot.before /\ z.image = shot.image /\ z.tab = t
      BY <2>1, <3>1, <3>2 DEF Shot
    <3> HIDE DEF z
    <3>4. z.during # 0 /\ (z.during <= 1 => shot.during = 0)
      BY <3>2, <3>3
    <3> QED BY <2>1, <3>1, <3>3, <3>4 DEF CoverInv, ShotInv
  <2>2. CASE ~(shot # None /\ shot.tab = t)
    <3>1. shot' = shot
      BY <2>2 DEF CommitSeen
    <3> QED BY <1>1, <2>2, <3>1 DEF CoverInv, CoverTypeOK, ShotInv, Shot
  <2> QED BY <2>1, <2>2
<1>4. CoverTypeOK'
  BY <1>2, <1>3 DEF CoverInv, CoverTypeOK
<1> QED BY <1>1, <1>2, <1>3, <1>4 DEF CoverInv, FrameInv, LastShows, UncoveredShows

LEMMA NextCover == CoverInv /\ [CoverNext]_<<contextVars, coverVars>> => CoverInv'
<1> SUFFICES ASSUME CoverInv, [CoverNext]_<<contextVars, coverVars>> PROVE CoverInv' OBVIOUS
<1>0. ContextTypeOK /\ inFront \in TabIds /\ visible \subseteq {inFront}
  BY DEF CoverInv, ContextTypeOK, UncoveredShows
<1>1. CASE UNCHANGED <<contextVars, coverVars>>
  <2>1. ContextTypeOK' /\ UNCHANGED <<page, inFront>> /\ UNCHANGED coverVars
    BY <1>0, <1>1, ContextStutters DEF contextVars
  <2> QED BY <1>0, <2>1, PagesKeepCover DEF coverVars
<1>2. CASE OpenLayer \/ CloseLayer \/ AskToHide \/ DropFrame
  BY <1>2, LayersKeep, CloseKeeps, AskKeeps
<1>3. CASE FreezeContent \/ Expose \/ AnswerFrame
  BY <1>3, FreezeKeeps, ExposeKeeps, AnswerKeepsCover
<1>4. CASE Hide \/ Uncover
  BY <1>4, HideKeeps, UncoverKeeps
<1>5. CASE \E s \in Sites : VisitShown(s)
  <2>1. PICK s \in Sites : VisitShown(s)
    BY <1>5
  <2>2. ContextTypeOK' /\ inFront' = inFront /\ \A u \in TabIds : page'[u].painted = page[u].painted
    BY <1>0, <2>1, VisitKeepsContext DEF VisitShown
  <2> QED BY <1>0, <2>1, <2>2, PagesKeepCover DEF VisitShown
<1>6. CASE GoHomeHidden
  <2>1. /\ ContextTypeOK' /\ inFront' = inFront /\ page'[inFront].home
        /\ \A u \in TabIds : page'[u].painted = page[u].painted
    BY <1>0, <1>6, GoHomeKeepsContext DEF GoHomeHidden
  <2> QED BY <1>0, <1>6, <2>1, PagesKeepCover DEF GoHomeHidden
<1>7. CASE \E t \in TabIds : ActivateShown(t)
  <2>1. PICK t \in TabIds : ActivateShown(t)
    BY <1>7
  <2>2. /\ ContextTypeOK' /\ inFront' = t
        /\ \A u \in TabIds : page'[u].painted = page[u].painted /\ page'[u].home = page[u].home
    BY <1>0, <2>1, ActivateKeepsContext DEF ActivateShown
  <2> QED BY <1>0, <2>1, <2>2, PagesKeepCover DEF ActivateShown
<1>8. CASE PageMoves
  <2>1. /\ ContextTypeOK' /\ inFront' = inFront /\ UNCHANGED coverVars
        /\ \A u \in TabIds : page'[u].painted = page[u].painted /\ page'[u].home = page[u].home
    BY <1>0, <1>8, PageNavigatesKeepsContext, StartKeepsContext, AbortKeepsContext DEF PageMoves
  <2> QED BY <1>0, <2>1, PagesKeepCover DEF coverVars
<1>9. CASE \E t \in TabIds, s \in Sites : CommitSeen(t, s)
  BY <1>9, CommitKeepsCover
<1> QED BY <1>1, <1>2, <1>3, <1>4, <1>5, <1>6, <1>7, <1>8, <1>9 DEF CoverNext

(* However fast menus open and close, none leaves the page in front hidden *)
(* (setOverlayOpen(), hideAllViews(), the overlay effect).                 *)
THEOREM MenusGiveThePageBack == CoverSpec => []UncoveredShows
<1>1. CoverInv => UncoveredShows
  BY DEF CoverInv
<1> HIDE DEF CoverInv, UncoveredShows
<1> QED BY <1>1, InitialCover, NextCover, PTL DEF CoverSpec

(* No pixel of a protected page is drawn by the chrome, if at most one     *)
(* navigation of the page commits while it is captured (freezeContent()).  *)
THEOREM NoProtectedImage == MaxDuring <= 1 => (CoverSpec => []FrozenUnprotected)
<1> SUFFICES ASSUME MaxDuring <= 1 PROVE CoverSpec => []FrozenUnprotected OBVIOUS
<1>1. CoverInv => FrozenUnprotected
  BY DEF CoverInv, FrameInv, FrozenUnprotected
<1> HIDE DEF CoverInv, FrozenUnprotected
<1> QED BY <1>1, InitialCover, NextCover, PTL DEF CoverSpec
-----------------------------------------------------------------------------
(* What leaves the device (AiConsent).                                     *)

(* What is held as a preview or an approval was read, and was neither sent *)
(* nor taken back; it is held once, as one or the other.  The order of     *)
(* what is held does not matter here.                                      *)
HeldUnsent(S) ==
  \A e \in S : /\ e.of \in Captures /\ capture[e.of] # None /\ capture[e.of].stage = "read"
               /\ sent[e.of] = 0 /\ e.of \notin revoked

ConsentInv ==
  /\ ContextTypeOK
  /\ capture \in [Captures -> CaptureRecord \cup {None}] /\ sent \in [Captures -> Nat]
  /\ HeldUnsent(previews) /\ HeldUnsent(approvals)
  /\ \A e \in previews, f \in approvals : e.of # f.of
  /\ \A c \in Captures : capture[c] = None \/ capture[c].stage # "read" => sent[c] = 0 /\ c \notin revoked
  /\ \A c \in Captures : capture[c] # None => page[capture[c].tab].painted # None

(* What SentOnce says of a step.                                           *)
SentFresh == \A c \in Captures : sent'[c] # sent[c] => sent[c] = 0 /\ c \notin revoked

LEMMA InitialConsent == ConsentInit => ConsentInv
  BY InitialContext DEF ConsentInit, ConsentInv, HeldUnsent

LEMMA PrunedIsKept == \A S, kind : Pruned(S, kind) \subseteq S
  BY DEF Pruned

LEMMA WithoutIs == \A S, c : Without(S, c) \subseteq S /\ \A e \in Without(S, c) : e.of # c
  BY DEF Without

LEMMA WithIs == \A S, c : \A e \in With(S, c) : e \in S \/ e.of = c
  BY DEF With

(* A reading begins or goes on, what is held of others only becomes less,  *)
(* and nothing is sent.                                                    *)
LEMMA ReadingGoesOn ==
  ASSUME ConsentInv, NEW c \in Captures, NEW v \in CaptureRecord,
         capture[c] = None \/ capture[c].stage # "read", v.stage # "read",
         page[v.tab].painted # None, capture' = [capture EXCEPT ![c] = v],
         UNCHANGED <<contextVars, sent, revoked>>,
         previews' \subseteq previews, approvals' \subseteq approvals
  PROVE  ConsentInv' /\ SentFresh
<1>1. ContextTypeOK' /\ UNCHANGED page
  BY ContextStutters DEF ConsentInv, contextVars
<1>2. capture' \in [Captures -> CaptureRecord \cup {None}]
  BY DEF ConsentInv
<1>3. \A d \in Captures : capture'[d] = IF d = c THEN v ELSE capture[d]
  BY DEF ConsentInv
<1>4. HeldUnsent(previews)' /\ HeldUnsent(approvals)'
  BY <1>3 DEF ConsentInv, HeldUnsent
<1>5. \A d \in Captures : capture'[d] = None \/ capture'[d].stage # "read" => sent'[d] = 0 /\ d \notin revoked'
  BY <1>3 DEF ConsentInv
<1>6. \A d \in Captures : capture'[d] # None => page'[capture'[d].tab].painted # None
  BY <1>1, <1>3 DEF ConsentInv
<1>7. SentFresh
  BY DEF SentFresh
<1> QED BY <1>1, <1>2, <1>4, <1>5, <1>6, <1>7 DEF ConsentInv

(* What is held becomes less, and nothing else changes.                    *)
LEMMA HeldBecomesLess ==
  ASSUME ConsentInv, ContextTypeOK', UNCHANGED <<capture, sent, revoked>>,
         previews' \subseteq previews, approvals' \subseteq approvals,
         \A t \in TabIds : page[t].painted # None => page'[t].painted # None
  PROVE  ConsentInv' /\ SentFresh
<1>1. \A c \in Captures : capture[c] # None => capture[c].tab \in TabIds
  BY DEF ConsentInv, CaptureRecord
<1>2. HeldUnsent(previews)' /\ HeldUnsent(approvals)'
  BY DEF ConsentInv, HeldUnsent
<1> QED BY <1>1, <1>2 DEF ConsentInv, SentFresh

LEMMA PreparesKeep ==
  ASSUME ConsentInv, NEW c \in Captures, PreparePreview(c) \/ PrepareDiagnostics(c)
  PROVE  ConsentInv' /\ SentFresh
<1> DEFINE f == page[inFront]
<1>1. inFront \in TabIds /\ f.url \in Sites /\ f.painted \in Sites \cup {None}
  BY TabFields DEF ConsentInv, ContextTypeOK
<1>2. CASE PreparePreview(c)
  <2>1. previews' \subseteq previews /\ approvals' \subseteq approvals
    BY <1>2, PrunedIsKept DEF PreparePreview
  <2>2. CASE capture' = capture
    <3>1. ContextTypeOK' /\ UNCHANGED page
      BY <1>2, ContextStutters DEF PreparePreview, ConsentInv, contextVars
    <3> QED BY <1>2, <2>1, <2>2, <3>1, HeldBecomesLess DEF PreparePreview
  <2>3. CASE capture' # capture
    <3> DEFINE s == IF f.load = None THEN "reading" ELSE "waiting"
    <3> DEFINE z == IF f.load = None THEN {f.painted} ELSE {}
    <3> DEFINE v == [tab |-> inFront, name |-> f.url, kind |-> "page", read |-> z, stage |-> s]
    <3>1. capture' = [capture EXCEPT ![c] = v] /\ f.painted # None
      BY <1>2, <2>3 DEF PreparePreview
    <3>2. s \in {"reading", "waiting"} /\ z \in SUBSET Sites
      BY <1>1, <3>1
    <3> HIDE DEF s, z
    <3>3. v \in CaptureRecord /\ v.tab = inFront /\ v.stage = s
      BY <1>1, <3>2 DEF CaptureRecord, CaptureKinds
    <3> HIDE DEF v
    <3> QED BY <1>2, <2>1, <3>1, <3>2, <3>3, ReadingGoesOn DEF PreparePreview
  <2> QED BY <2>2, <2>3
<1>3. CASE PrepareDiagnostics(c)
  <2> DEFINE v == [tab |-> inFront, name |-> f.url, kind |-> "diagnostics",
                   read |-> {f.painted}, stage |-> "more"]
  <2>1. capture' = [capture EXCEPT ![c] = v] /\ f.painted # None
    BY <1>3 DEF PrepareDiagnostics
  <2>2. v \in CaptureRecord /\ v.tab = inFront /\ v.stage = "more"
    BY <1>1, <2>1 DEF CaptureRecord, CaptureKinds
  <2> HIDE DEF v
  <2> QED BY <1>3, <2>1, <2>2, ReadingGoesOn DEF PrepareDiagnostics
<1> QED BY <1>2, <1>3

LEMMA ReadsKeep ==
  ASSUME ConsentInv, NEW c \in Captures, MoreDiagnostics(c) \/ WaitedRead(c)
  PROVE  ConsentInv' /\ SentFresh
<1> DEFINE old == capture[c]
<1>1. old # None /\ old \in CaptureRecord /\ old.stage # "read" /\ page[old.tab].painted # None
  BY DEF MoreDiagnostics, WaitedRead, ConsentInv
<1>2. /\ old.tab \in TabIds /\ page[old.tab].painted \in Sites
      /\ old.read \in SUBSET Sites /\ inFront \in TabIds /\ page[inFront].painted \in Sites \cup {None}
  BY <1>1, TabFields DEF CaptureRecord, ConsentInv, ContextTypeOK
<1>3. CASE WaitedRead(c)
  <2> DEFINE v == [old EXCEPT !.stage = "reading", !.read = {page[old.tab].painted}]
  <2>1. capture' = [capture EXCEPT ![c] = v]
    BY <1>3 DEF WaitedRead, ConsentInv
  <2>2. v \in CaptureRecord /\ v.tab = old.tab /\ v.stage = "reading"
    BY <1>1, <1>2 DEF CaptureRecord
  <2> HIDE DEF v, old
  <2> QED BY <1>1, <1>3, <2>1, <2>2, ReadingGoesOn DEF WaitedRead, old
<1>4. CASE MoreDiagnostics(c)
  <2> DEFINE u == old.read \cup {page[inFront].painted}
  <2> DEFINE v == [old EXCEPT !.stage = "reading", !.read = u]
  <2> DEFINE w == [old EXCEPT !.stage = "failed"]
  <2>1. capture' = [capture EXCEPT ![c] = w] \/ (capture' = [capture EXCEPT ![c] = v] /\ page[inFront].painted # None)
    BY <1>4 DEF MoreDiagnostics, ConsentInv
  <2>2. w \in CaptureRecord /\ w.tab = old.tab /\ w.stage = "failed"
    BY <1>1 DEF CaptureRecord
  <2>3. page[inFront].painted # None => u \in SUBSET Sites
    BY <1>2
  <2> HIDE DEF u
  <2>4. page[inFront].painted # None => v \in CaptureRecord /\ v.tab = old.tab /\ v.stage = "reading"
    BY <1>1, <2>3 DEF CaptureRecord
  <2> HIDE DEF v, w, old
  <2> QED BY <1>1, <1>4, <2>1, <2>2, <2>4, ReadingGoesOn DEF MoreDiagnostics, old
<1> QED BY <1>3, <1>4

(* A reading that is answered becomes a preview.                           *)
LEMMA AnsweredReadKeeps ==
  ASSUME ConsentInv, NEW c \in Captures, NEW b \in BOOLEAN, PageRead(c, b)
  PROVE  ConsentInv' /\ SentFresh
<1> DEFINE old == capture[c]
<1> DEFINE s == IF b THEN "read" ELSE "failed"
<1> DEFINE v == [old EXCEPT !.stage = s]
<1>1. /\ old # None /\ old \in CaptureRecord /\ old.stage = "reading" /\ page[old.tab].painted # None
      /\ sent[c] = 0 /\ c \notin revoked
  BY DEF PageRead, ConsentInv
<1>2. capture' = [capture EXCEPT ![c] = v] /\ UNCHANGED <<contextVars, approvals, sent, revoked>>
  BY DEF PageRead, ConsentInv
<1>3. s \in {"read", "failed"} /\ (b <=> s = "read")
  OBVIOUS
<1> HIDE DEF s
<1>4. v \in CaptureRecord /\ v.tab = old.tab /\ v.stage = s
  BY <1>1, <1>3 DEF CaptureRecord
<1> HIDE DEF v
<1>5. CASE ~b
  <2>1. UNCHANGED previews
    BY <1>5 DEF PageRead
  <2> QED BY <1>1, <1>2, <1>3, <1>4, <1>5, <2>1, ReadingGoesOn
<1>6. CASE b
  <2>1. previews' = With(previews, c)
    BY <1>6 DEF PageRead
  <2>2. \A e \in previews' : e \in previews \/ e.of = c
    BY <2>1, WithIs
  <2>3. \A d \in Captures : capture'[d] = IF d = c THEN v ELSE capture[d]
    BY <1>2 DEF ConsentInv
  <2>4. v # None /\ v.stage = "read"
    BY <1>3, <1>4, <1>6, ConsentAssumption
  <2>5. \A e \in previews \cup approvals : e.of \in Captures /\ e.of # c
    BY <1>1 DEF ConsentInv, HeldUnsent
  <2>6. HeldUnsent(previews)' /\ HeldUnsent(approvals)'
    BY <1>1, <1>2, <2>2, <2>3, <2>4, <2>5 DEF ConsentInv, HeldUnsent
  <2>7. \A e \in previews', f \in approvals' : e.of # f.of
    BY <1>2, <2>2, <2>5 DEF ConsentInv
  <2>8. ContextTypeOK' /\ UNCHANGED page
    BY <1>2, ContextStutters DEF ConsentInv, contextVars
  <2>9. capture' \in [Captures -> CaptureRecord \cup {None}]
    BY <1>2, <1>4 DEF ConsentInv
  <2>10. /\ \A d \in Captures : capture'[d] = None \/ capture'[d].stage # "read" => sent'[d] = 0 /\ d \notin revoked'
         /\ \A d \in Captures : capture'[d] # None => page'[capture'[d].tab].painted # None
    BY <1>1, <1>2, <1>4, <2>3, <2>4, <2>8 DEF ConsentInv
  <2> QED BY <1>2, <2>6, <2>7, <2>8, <2>9, <2>10 DEF ConsentInv, SentFresh
<1> QED BY <1>5, <1>6

(* A preview becomes an approval, and is one no longer.                    *)
LEMMA ApprovalKeeps ==
  ASSUME ConsentInv, NEW c \in Captures, ApprovePreview(c) PROVE ConsentInv' /\ SentFresh
<1>1. previews' = Without(previews, c) /\ UNCHANGED <<contextVars, capture, sent, revoked>>
  BY DEF ApprovePreview, Taken
<1>2. approvals' \in {approvals, With(approvals, c)}
  BY DEF ApprovePreview
<1>3. previews' \subseteq previews /\ \A e \in previews' : e.of # c
  BY <1>1, WithoutIs
<1>4. \A e \in approvals' : e \in approvals \/ e.of = c
  BY <1>2, WithIs
<1>5. PICK p \in previews : p.of = c
  BY DEF ApprovePreview, Holds
<1>6. HeldUnsent(previews)' /\ HeldUnsent(approvals)'
  BY <1>1, <1>3, <1>4, <1>5 DEF ConsentInv, HeldUnsent
<1>7. \A e \in previews', f \in approvals' : e.of # f.of
  BY <1>3, <1>4 DEF ConsentInv
<1>8. ContextTypeOK' /\ UNCHANGED page
  BY <1>1, ContextStutters DEF ConsentInv, contextVars
<1> QED BY <1>1, <1>6, <1>7, <1>8 DEF ConsentInv, SentFresh

(* An approval is spent on what is sent, which is held nowhere else.       *)
LEMMA SendKeeps ==
  ASSUME ConsentInv, NEW c \in Captures, NEW b \in BOOLEAN, Send(c, b) PROVE ConsentInv' /\ SentFresh
<1>1. approvals' = Without(approvals, c) /\ UNCHANGED <<contextVars, capture, previews, revoked>>
  BY DEF Send, Taken
<1>2. sent' \in {sent, [sent EXCEPT ![c] = sent[c] + 1]}
  BY DEF Send
<1>3. PICK p \in approvals : p.of = c
  BY DEF Send, Holds
<1>4. sent[c] = 0 /\ c \notin revoked /\ capture[c] # None /\ capture[c].stage = "read"
  BY <1>3 DEF ConsentInv, HeldUnsent
<1>5. approvals' \subseteq approvals /\ \A e \in approvals' : e.of # c
  BY <1>1, WithoutIs
<1>6. \A e \in previews : e.of # c
  BY <1>3 DEF ConsentInv
<1>7. sent' \in [Captures -> Nat] /\ \A d \in Captures : d # c => sent'[d] = sent[d]
  BY <1>2 DEF ConsentInv
<1>8. HeldUnsent(previews)' /\ HeldUnsent(approvals)'
  BY <1>1, <1>5, <1>6, <1>7 DEF ConsentInv, HeldUnsent
<1>9. ContextTypeOK' /\ UNCHANGED page
  BY <1>1, ContextStutters DEF ConsentInv, contextVars
<1>10. SentFresh
  BY <1>4, <1>7 DEF SentFresh
<1> QED BY <1>1, <1>4, <1>5, <1>7, <1>8, <1>9, <1>10 DEF ConsentInv

LEMMA RevokeKeeps ==
  ASSUME ConsentInv, Revoke PROVE ConsentInv' /\ SentFresh
<1>1. /\ previews' = {} /\ approvals' = {} /\ UNCHANGED <<contextVars, capture, sent>>
      /\ revoked' = revoked \cup {e.of : e \in previews \cup approvals}
  BY DEF Revoke, Discarded
<1>2. \A c \in Captures : c \in revoked' /\ c \notin revoked => capture[c] # None /\ capture[c].stage = "read"
  BY <1>1 DEF ConsentInv, HeldUnsent
<1>3. ContextTypeOK' /\ UNCHANGED page
  BY <1>1, ContextStutters DEF ConsentInv, contextVars
<1> QED BY <1>1, <1>2, <1>3 DEF ConsentInv, HeldUnsent, SentFresh

LEMMA StepOfConsent ==
  ASSUME ConsentInv, [ConsentNext]_aiVars PROVE ConsentInv' /\ [SentFresh]_aiVars
<1>0. ContextTypeOK
  BY DEF ConsentInv
<1>1. CASE UNCHANGED aiVars
  <2>1. ContextTypeOK' /\ UNCHANGED page /\ UNCHANGED consentVars
    BY <1>0, <1>1, ContextStutters DEF aiVars, contextVars
  <2> QED BY <1>1, <2>1, HeldBecomesLess DEF consentVars
<1>2. CASE \E c \in Captures : PreparePreview(c) \/ PrepareDiagnostics(c)
  BY <1>2, PreparesKeep
<1>3. CASE \E c \in Captures : MoreDiagnostics(c) \/ WaitedRead(c)
  BY <1>3, ReadsKeep
<1>4. CASE \E c \in Captures, b \in BOOLEAN : PageRead(c, b) \/ Send(c, b)
  BY <1>4, AnsweredReadKeeps, SendKeeps
<1>5. CASE \E c \in Captures : ApprovePreview(c)
  BY <1>5, ApprovalKeeps
<1>6. CASE \E c \in Captures, k \in {"preview", "approval"} : GrowsLate(k, c)
  <2>1. ContextTypeOK' /\ UNCHANGED page /\ UNCHANGED <<capture, previews, approvals, sent, revoked>>
    BY <1>0, <1>6, ContextStutters DEF GrowsLate, contextVars
  <2> QED BY <2>1, HeldBecomesLess
<1>7. CASE Revoke
  BY <1>7, RevokeKeeps
<1>8. CASE \E s \in Sites : Visit(s) /\ UNCHANGED consentVars
  <2>1. ContextTypeOK' /\ UNCHANGED consentVars /\ \A t \in TabIds : page'[t].painted = page[t].painted
    BY <1>0, <1>8, VisitKeepsContext
  <2> QED BY <2>1, HeldBecomesLess DEF consentVars
<1>9. CASE \E t \in TabIds : (StartLoad(t) \/ Abort(t) \/ Activate(t)) /\ UNCHANGED consentVars
  <2>1. ContextTypeOK' /\ UNCHANGED consentVars /\ \A t \in TabIds : page'[t].painted = page[t].painted
    BY <1>0, <1>9, StartKeepsContext, AbortKeepsContext, ActivateKeepsContext
  <2> QED BY <2>1, HeldBecomesLess DEF consentVars
<1>10. CASE \E t \in TabIds, s \in Sites : PageNavigates(t, s) /\ UNCHANGED consentVars
  <2>1. ContextTypeOK' /\ UNCHANGED consentVars /\ \A t \in TabIds : page'[t].painted = page[t].painted
    BY <1>0, <1>10, PageNavigatesKeepsContext
  <2> QED BY <2>1, HeldBecomesLess DEF consentVars
<1>11. CASE \E t \in TabIds, s \in Sites : Commit(t, s) /\ UNCHANGED consentVars
  <2>1. PICK t \in TabIds, s \in Sites : Commit(t, s) /\ UNCHANGED consentVars
    BY <1>11
  <2>2. /\ ContextTypeOK' /\ page'[t].painted = s
        /\ \A u \in TabIds : u # t => page'[u] = page[u]
    BY <1>0, <2>1, CommitKeepsContext
  <2>3. None \notin Sites
    BY PaintedAssumption
  <2> QED BY <2>1, <2>2, <2>3, HeldBecomesLess DEF consentVars
<1>12. CASE GoHome /\ UNCHANGED consentVars
  <2>1. ContextTypeOK' /\ UNCHANGED consentVars /\ \A t \in TabIds : page'[t].painted = page[t].painted
    BY <1>0, <1>12, GoHomeKeepsContext
  <2> QED BY <2>1, HeldBecomesLess DEF consentVars
<1> QED BY <1>1, <1>2, <1>3, <1>4, <1>5, <1>6, <1>7, <1>8, <1>9, <1>10, <1>11, <1>12 DEF ConsentNext

(* One approval buys one request, and none after it was taken back         *)
(* (approveAiPreview(), consumeAiApproval(), revokeAiContext()).           *)
THEOREM ApprovalSendsOnce == ConsentSpec => SentOnce
<1> DEFINE Step == \A c \in Captures : sent'[c] # sent[c] => sent[c] = 0 /\ c \notin revoked
<1>1. ConsentInv /\ [ConsentNext]_aiVars => ConsentInv'
  BY StepOfConsent
<1>2. ConsentInv /\ [ConsentNext]_aiVars => [Step]_aiVars
  BY StepOfConsent DEF SentFresh
<1>3. SentOnce <=> [][Step]_aiVars
  BY DEF SentOnce
<1> HIDE DEF ConsentInv, Step, SentOnce
<1> QED BY <1>1, <1>2, <1>3, InitialConsent, PTL DEF ConsentSpec
-----------------------------------------------------------------------------
(* Where the page lies (WindowLayout).                                     *)

(* What the renderer draws once it has the last snapshot.                  *)
Latest == IF news # None THEN news ELSE known

LayoutInv ==
  /\ LayoutTypeOK
  \* the last snapshot says how things are; of full screen the timer brings the last one
  /\ Latest.pane = pane /\ Latest.isHome = (pane \in home) /\ Latest.ui = prefs
  /\ timer # "both" => reported.full = window.full /\ Latest.full = window.full
  \* the renderer reported what it draws, and that arrives
  /\ posted = DrawnInsets(known, unconfirmed, find, inner)
  /\ asked # None => asked = posted
  /\ asked = None => insets = sanitizeContentInsets(posted)
  \* the view lies where the last layout put it, and another one follows the window
  /\ reported # window => timer # "off"
  /\ timer = "off" /\ pane \notin home => bounds = Placed(reported, insets)

LEMMA WidthIsNat ==
  ASSUME NEW w \in Widths
  PROVE  w \in Nat /\ w >= 900
  BY WidthsAssumption DEF MinWindowWidth

LEMMA DrawnIs ==
  ASSUME NEW p \in Patch
  PROVE  /\ \A u \in Prefs : Drawn(u, p) \in Prefs
         /\ \A u \in Patch : Drawn(u, p) \in Patch
<1>1. ASSUME NEW u, u = [bar |-> u.bar, open |-> u.open, width |-> u.width]
      PROVE  Drawn(u, p) = [bar   |-> IF p.bar # None THEN p.bar ELSE u.bar,
                            open  |-> IF p.open # None THEN p.open ELSE u.open,
                            width |-> IF p.width # None THEN p.width ELSE u.width]
  <2>1. DOMAIN u = {"bar", "open", "width"}
    BY <1>1
  <2>2. Drawn(u, p) = [k \in {"bar", "open", "width"} |-> IF p[k] # None THEN p[k] ELSE u[k]]
    BY <2>1 DEF Drawn
  <2> QED BY <2>2
<1>2. ASSUME NEW u \in Prefs PROVE Drawn(u, p) \in Prefs
  <2>1. u = [bar |-> u.bar, open |-> u.open, width |-> u.width]
    BY DEF Prefs
  <2>2. u.bar \in Bars /\ u.open \in BOOLEAN /\ u.width \in Nat
    BY DEF Prefs
  <2>3. p.bar \in Bars \cup {None} /\ p.open \in BOOLEAN \cup {None} /\ p.width \in Nat \cup {None}
    BY DEF Patch
  <2>4. Drawn(u, p) = [bar   |-> IF p.bar # None THEN p.bar ELSE u.bar,
                       open  |-> IF p.open # None THEN p.open ELSE u.open,
                       width |-> IF p.width # None THEN p.width ELSE u.width]
    BY <1>1, <2>1
  <2>5. (IF p.bar # None THEN p.bar ELSE u.bar) \in Bars
    BY <2>2, <2>3
  <2>6. (IF p.open # None THEN p.open ELSE u.open) \in BOOLEAN
    BY <2>2, <2>3
  <2>7. (IF p.width # None THEN p.width ELSE u.width) \in Nat
    BY <2>2, <2>3
  <2> QED BY <2>4, <2>5, <2>6, <2>7 DEF Prefs
<1>3. ASSUME NEW u \in Patch PROVE Drawn(u, p) \in Patch
  <2>1. u = [bar |-> u.bar, open |-> u.open, width |-> u.width]
    BY DEF Patch
  <2>2. u.bar \in Bars \cup {None} /\ u.open \in BOOLEAN \cup {None} /\ u.width \in Nat \cup {None}
    BY DEF Patch
  <2>3. p.bar \in Bars \cup {None} /\ p.open \in BOOLEAN \cup {None} /\ p.width \in Nat \cup {None}
    BY DEF Patch
  <2>4. Drawn(u, p) = [bar   |-> IF p.bar # None THEN p.bar ELSE u.bar,
                       open  |-> IF p.open # None THEN p.open ELSE u.open,
                       width |-> IF p.width # None THEN p.width ELSE u.width]
    BY <1>1, <2>1
  <2>5. (IF p.bar # None THEN p.bar ELSE u.bar) \in Bars \cup {None}
    BY <2>2, <2>3
  <2>6. (IF p.open # None THEN p.open ELSE u.open) \in BOOLEAN \cup {None}
    BY <2>2, <2>3
  <2>7. (IF p.width # None THEN p.width ELSE u.width) \in Nat \cup {None}
    BY <2>2, <2>3
  <2> QED BY <2>4, <2>5, <2>6, <2>7 DEF Patch
<1> QED BY <1>2, <1>3

(* The drawn chrome leaves room for a page in every window.                *)
LEMMA ChromeLeavesRoom ==
  ASSUME NEW ui \in Prefs, NEW h \in BOOLEAN, NEW f \in BOOLEAN, NEW full \in BOOLEAN, ~full,
         NEW w \in Nat, w >= 900
  PROVE  \E t, r \in Nat :
           /\ computeChromeLayout(ui, h, f, full, w) = [top |-> t, right |-> r]
           /\ t >= 88 /\ t <= 166 /\ r <= 520 /\ r <= w - 200
<1>1. ui.width \in Nat
  BY DEF Prefs
<1>2. /\ clampSidePanelWidth(ui.width, PanelCeiling(w)) \in Nat
      /\ clampSidePanelWidth(ui.width, PanelCeiling(w)) <= 520
      /\ 520 <= w - 200
  BY <1>1 DEF clampSidePanelWidth, PanelCeiling, Least, Greatest, PanelMin, PanelMax,
              MinContentWidth
<1> DEFINE clamp == clampSidePanelWidth(ui.width, PanelCeiling(w))
           bar == bookmarkBarShown(ui.bar, h)
           top == 88 + (IF bar THEN 34 ELSE 0) + (IF f /\ ~h THEN 44 ELSE 0)
           right == IF ui.open THEN clamp ELSE 0
<1>3. computeChromeLayout(ui, h, f, full, w) = [top |-> top, right |-> right]
  BY DEF computeChromeLayout, MinChromeTop, BookmarkBarHeight, FindBarHeight
<1>4. top \in Nat /\ top >= 88 /\ top <= 166
  <2> HIDE DEF bar
  <2> QED OBVIOUS
<1>5. right \in Nat /\ right <= 520 /\ right <= w - 200
  <2>1. PICK c \in Nat : c = clamp /\ c <= 520
    BY <1>2
  <2>2. right = c \/ right = 0
    BY <2>1
  <2> HIDE DEF clamp, right
  <2> QED BY <2>1, <2>2, <1>2
<1> HIDE DEF top, right
<1> QED BY <1>3, <1>4, <1>5

LEMMA ChromeLayoutIs ==
  ASSUME NEW ui \in Prefs, NEW h \in BOOLEAN, NEW f \in BOOLEAN, NEW full \in BOOLEAN,
         NEW w \in Widths
  PROVE  /\ computeChromeLayout(ui, h, f, full, w) \in Insets
         /\ ~full => sanitizeContentInsets(computeChromeLayout(ui, h, f, full, w))
                       = computeChromeLayout(ui, h, f, full, w)
<1>1. w \in Nat /\ w >= 900
  BY WidthIsNat
<1>2. CASE full
  BY <1>2 DEF computeChromeLayout, ZeroInsets, Insets
<1>3. CASE ~full
  <2>2. PICK t, r \in Nat : /\ computeChromeLayout(ui, h, f, full, w) = [top |-> t, right |-> r]
                            /\ t >= 88 /\ t <= 166 /\ r <= 520
    BY <1>1, <1>3, ChromeLeavesRoom
  <2>3. Least(4000, Greatest(MinChromeTop, t)) = t
    BY <2>2 DEF Least, Greatest, MinChromeTop
  <2>4. Least(4000, Greatest(0, r)) = r
    BY <2>2 DEF Least, Greatest
  <2>5. sanitizeContentInsets([top |-> t, right |-> r]) = [top |-> t, right |-> r]
    BY <2>3, <2>4 DEF sanitizeContentInsets
  <2>6. [top |-> t, right |-> r] \in Insets
    BY DEF Insets
  <2> QED BY <2>2, <2>5, <2>6
<1> QED BY <1>2, <1>3

LEMMA SanitizedIs ==
  ASSUME NEW i \in Insets
  PROVE  sanitizeContentInsets(i) \in Insets
<1>1. i.top \in Nat /\ i.right \in Nat
  BY DEF Insets
<1>2. Least(4000, Greatest(MinChromeTop, i.top)) \in Nat
  BY <1>1 DEF Least, Greatest, MinChromeTop
<1>3. Least(4000, Greatest(0, i.right)) \in Nat
  BY <1>1 DEF Least, Greatest
<1> QED BY <1>2, <1>3 DEF sanitizeContentInsets, Insets

LEMMA LayoutInvHolds == LayoutInit => LayoutInv
<1> SUFFICES ASSUME LayoutInit PROVE LayoutInv
  OBVIOUS
<1>1. /\ window \in [width : Widths, full : BOOLEAN] /\ window.full = FALSE
      /\ window.width \in Widths
  BY DEF LayoutInit
<1>2. FirstPrefs \in Prefs /\ NoPrefs \in Patch
  BY DEF FirstPrefs, NoPrefs, Prefs, Patch, Bars, PanelMin
<1>3. known \in Snapshots /\ known.pane = "first" /\ known.isHome = TRUE /\ known.full = FALSE
      /\ known.ui = FirstPrefs
  BY <1>2 DEF LayoutInit, Snapshot, Snapshots, Panes
<1>4. Drawn(FirstPrefs, NoPrefs) = FirstPrefs
  BY DEF Drawn, FirstPrefs, NoPrefs
<1>5. posted = DrawnInsets(known, unconfirmed, find, inner)
  BY <1>3, <1>4 DEF LayoutInit, DrawnInsets
<1>6. posted \in Insets /\ sanitizeContentInsets(posted) = posted
  BY <1>1, <1>2, ChromeLayoutIs DEF LayoutInit
<1>7. LayoutTypeOK
  BY <1>1, <1>2, <1>3, <1>6 DEF LayoutInit, LayoutTypeOK, Panes
<1> QED BY <1>1, <1>3, <1>5, <1>6, <1>7 DEF LayoutInit, LayoutInv, Latest

LEMMA DrawnInsetsAre ==
  ASSUME NEW k \in Snapshots, NEW p \in Patch, NEW f \in BOOLEAN, NEW w \in Widths
  PROVE  DrawnInsets(k, p, f, w) \in Insets
<1>1. k.ui \in Prefs /\ k.isHome \in BOOLEAN /\ k.full \in BOOLEAN
  BY DEF Snapshots
<1>2. Drawn(k.ui, p) \in Prefs
  BY <1>1, DrawnIs
<1> QED BY <1>1, <1>2, ChromeLayoutIs DEF DrawnInsets

LEMMA SnapshotIs ==
  ASSUME NEW p \in Panes, NEW h, NEW f \in BOOLEAN, NEW u \in Prefs
  PROVE  Snapshot(p, h, f, u) \in Snapshots /\ Snapshot(p, h, f, u) # None
<1>1. Snapshot(p, h, f, u) \in Snapshots
  BY DEF Snapshot, Snapshots
<1> QED BY <1>1, LayoutAssumption

(* What the renderer takes in it draws, and what it draws it reports.      *)
LEMMA RendererKeeps ==
  ASSUME LayoutInv, UNCHANGED mainVars, Report,
         known' \in Snapshots, unconfirmed' \in Patch, inner' \in Widths, find' \in BOOLEAN,
         patch' \in Patch \cup {None}, news' \in Snapshots \cup {None}, Latest' = Latest
  PROVE  LayoutInv'
<1>1. PICK drawn \in Insets : drawn = DrawnInsets(known', unconfirmed', find', inner')
  BY DrawnInsetsAre
<1>2. posted' = drawn /\ asked' = (IF drawn # posted THEN drawn ELSE asked)
  BY <1>1 DEF Report
<1>3. drawn # None
  BY LayoutAssumption
<1>4. LayoutTypeOK'
  BY <1>1, <1>2 DEF LayoutInv, LayoutTypeOK, mainVars
<1>5. posted' = DrawnInsets(known, unconfirmed, find, inner)'
  BY <1>1, <1>2 DEF DrawnInsets
<1>6. asked' # None => asked' = posted'
  BY <1>2 DEF LayoutInv
<1>7. asked' = None => insets' = sanitizeContentInsets(posted')
  BY <1>2, <1>3 DEF LayoutInv, mainVars
<1>8. /\ Latest'.pane = pane' /\ Latest'.isHome = (pane' \in home') /\ Latest'.ui = prefs'
      /\ timer' # "both" => reported'.full = window'.full /\ Latest'.full = window'.full
      /\ reported' # window' => timer' # "off"
      /\ timer' = "off" /\ pane' \notin home' => bounds' = Placed(reported', insets')
  BY DEF LayoutInv, mainVars
<1> QED BY <1>4, <1>5, <1>6, <1>7, <1>8 DEF LayoutInv

(* A step of the main process tells the renderer what it changed, and lays *)
(* the page out or leaves it to the timer.                                 *)
LEMMA MainKeeps ==
  ASSUME LayoutInv,
         UNCHANGED <<known, unconfirmed, inner, find, posted>>,
         insets' \in Insets, asked' \in Insets \cup {None},
         asked' # None => asked' = posted,
         asked' = None => insets' = sanitizeContentInsets(posted),
         window' \in [width : Widths, full : BOOLEAN],
         reported' \in [width : Widths, full : BOOLEAN],
         timer' \in {"off", "layout", "both"},
         pane' \in Panes, home' \subseteq Panes, owner' \in Panes \cup {None},
         prefs' \in Prefs, patch' \in Patch \cup {None},
         \/ news' = Snapshot(pane', home', reported'.full, prefs')
         \/ /\ UNCHANGED <<news, pane, home, prefs>>
            /\ timer' # "both" => Latest.full = window'.full,
         timer' # "both" => reported'.full = window'.full,
         reported' # window' => timer' # "off",
         timer' = "off" /\ pane' \notin home' => bounds' = Placed(reported', insets')
  PROVE  LayoutInv'
<1>1. reported'.full \in BOOLEAN
  OBVIOUS
<1>2. CASE news' = Snapshot(pane', home', reported'.full, prefs')
  <2>1. PICK p, h, f, u : p = pane' /\ h = home' /\ f = reported'.full /\ u = prefs'
    OBVIOUS
  <2>2. /\ news' \in Snapshots /\ news' # None
        /\ news'.pane = p /\ news'.isHome = (p \in h) /\ news'.full = f /\ news'.ui = u
    <3>1. p \in Panes /\ f \in BOOLEAN /\ u \in Prefs
      BY <1>1, <2>1
    <3>2. news' = Snapshot(p, h, f, u)
      BY <1>2, <2>1
    <3>3. Snapshot(p, h, f, u) \in Snapshots
      BY <3>1, SnapshotIs
    <3>4. Snapshot(p, h, f, u) # None
      BY <3>1, SnapshotIs
    <3>5. Snapshot(p, h, f, u).pane = p /\ Snapshot(p, h, f, u).isHome = (p \in h)
          /\ Snapshot(p, h, f, u).full = f /\ Snapshot(p, h, f, u).ui = u
      BY DEF Snapshot
    <3> QED BY <3>2, <3>3, <3>4, <3>5
  <2>3. Latest' = news'
    BY <2>2 DEF Latest
  <2>4. LayoutTypeOK'
    BY <2>2 DEF LayoutInv, LayoutTypeOK
  <2>5. posted' = DrawnInsets(known, unconfirmed, find, inner)'
    BY DEF LayoutInv, DrawnInsets
  <2> QED BY <2>1, <2>2, <2>3, <2>4, <2>5 DEF LayoutInv
<1>3. CASE /\ UNCHANGED <<news, pane, home, prefs>>
           /\ timer' # "both" => Latest.full = window'.full
  <2>1. Latest' = Latest
    BY <1>3 DEF Latest
  <2>2. LayoutTypeOK'
    BY <1>3 DEF LayoutInv, LayoutTypeOK
  <2>3. posted' = DrawnInsets(known, unconfirmed, find, inner)'
    BY DEF LayoutInv, DrawnInsets
  <2> QED BY <1>3, <2>1, <2>2, <2>3 DEF LayoutInv
<1> QED BY <1>2, <1>3

(* What a step of the main process may leave as it is.                     *)
LEMMA LayoutFacts ==
  ASSUME LayoutInv
  PROVE  /\ window \in [width : Widths, full : BOOLEAN]
         /\ reported \in [width : Widths, full : BOOLEAN]
         /\ timer \in {"off", "layout", "both"} /\ insets \in Insets
         /\ pane \in Panes /\ home \subseteq Panes /\ owner \in Panes \cup {None}
         /\ prefs \in Prefs /\ patch \in Patch \cup {None} /\ asked \in Insets \cup {None}
         /\ asked # None => asked = posted
         /\ asked = None => insets = sanitizeContentInsets(posted)
         /\ timer # "both" => reported.full = window.full /\ Latest.full = window.full
         /\ reported # window => timer # "off"
         /\ timer = "off" /\ pane \notin home => bounds = Placed(reported, insets)
  BY DEF LayoutInv, LayoutTypeOK

LEMMA ResizeKeeps ==
  ASSUME LayoutInv, NEW w \in Widths, Resize(w)
  PROVE  LayoutInv'
<1>1. /\ window' = [window EXCEPT !.width = w] /\ reported' \in {reported, window'}
      /\ timer' = IF timer = "both" THEN "both" ELSE "layout"
      /\ UNCHANGED <<insets, pane, home, prefs, owner, news, patch, known, unconfirmed, inner,
                     find, posted, asked>>
  BY DEF Resize, scheduleLayout, rendererVars
<1>2. window' \in [width : Widths, full : BOOLEAN] /\ window'.full = window.full
  BY <1>1, LayoutFacts
<1>3. timer' # "off" /\ (timer' # "both" => timer # "both") /\ timer' \in {"off", "layout", "both"}
  BY <1>1
<1> QED BY <1>1, <1>2, <1>3, LayoutFacts, MainKeeps

(* Any step that changes full screen.                                      *)
LEMMA FullScreenKeeps ==
  ASSUME LayoutInv, NEW full \in BOOLEAN, SetFullScreen(full), owner' \in Panes \cup {None}
  PROVE  LayoutInv'
<1>1. /\ window' = [window EXCEPT !.full = full] /\ reported' \in {reported, window'}
      /\ timer' = "both" /\ news' = Snapshot(pane, home, reported'.full, prefs)
      /\ UNCHANGED <<insets, pane, home, prefs, patch, known, unconfirmed, inner, find, posted,
                     asked>>
  BY DEF SetFullScreen, scheduleLayout, broadcast, rendererVars
<1>2. window' \in [width : Widths, full : BOOLEAN]
  BY <1>1, LayoutFacts
<1> QED BY <1>1, <1>2, LayoutFacts, MainKeeps

LEMMA FullScreenStepsKeep ==
  ASSUME LayoutInv,
         toggleFullscreen \/ EnterHtmlFullScreen \/ LeaveHtmlFullScreen \/ EscapeInPage
           \/ EscapeInChrome
  PROVE  LayoutInv'
<1>1. \E full \in BOOLEAN : SetFullScreen(full)
  <2>1. (~window.full) \in BOOLEAN
    OBVIOUS
  <2> QED BY <2>1 DEF toggleFullscreen, EnterHtmlFullScreen, LeaveHtmlFullScreen, EscapeInPage,
                      EscapeInChrome
<1>2. owner' \in Panes \cup {None}
  BY LayoutFacts DEF toggleFullscreen, EnterHtmlFullScreen, LeaveHtmlFullScreen, EscapeInPage,
                     EscapeInChrome
<1> QED BY <1>1, <1>2, FullScreenKeeps

LEMMA SettleKeeps ==
  ASSUME LayoutInv, Settle
  PROVE  LayoutInv'
<1>1. /\ reported # window /\ reported' = window
      /\ UNCHANGED <<window, timer, insets, bounds, pane, home, prefs, owner, news, known,
                     unconfirmed, inner, find, posted, asked, patch>>
  BY DEF Settle, rendererVars
<1>2. timer' # "off"
  BY <1>1, LayoutFacts
<1> QED BY <1>1, <1>2, LayoutFacts, MainKeeps

LEMMA TimerKeeps ==
  ASSUME LayoutInv, TimerFires
  PROVE  LayoutInv'
<1>1. /\ timer # "off" /\ reported = window /\ timer' = "off"
      /\ bounds' = IF pane \in home THEN bounds ELSE Placed(reported, insets)
      /\ IF timer = "both" THEN news' = Snapshot(pane, home, reported.full, prefs)
         ELSE news' = news
      /\ UNCHANGED <<window, reported, insets, pane, home, prefs, owner, known, unconfirmed,
                     inner, find, posted, asked, patch>>
  BY DEF TimerFires, applyLayout, broadcast, rendererVars
<1>2. reported' = reported /\ insets' = insets /\ pane' = pane /\ home' = home
  BY <1>1
<1>3. pane' \notin home' => bounds' = Placed(reported', insets')
  BY <1>1, <1>2
<1>4. \/ news' = Snapshot(pane', home', reported'.full, prefs')
      \/ UNCHANGED <<news, pane, home, prefs>> /\ Latest.full = window'.full
  BY <1>1, LayoutFacts
<1> QED BY <1>1, <1>3, <1>4, LayoutFacts, MainKeeps

LEMMA TakeInsetsKeeps ==
  ASSUME LayoutInv, TakeInsets
  PROVE  LayoutInv'
<1>1. /\ asked # None /\ asked' = None /\ insets' = sanitizeContentInsets(asked)
      /\ bounds' = IF pane \in home THEN bounds ELSE Placed(reported, insets')
      /\ UNCHANGED <<window, reported, timer, pane, home, prefs, owner, news, known,
                     unconfirmed, inner, find, posted, patch>>
  BY DEF TakeInsets, applyLayout
<1>2. asked \in Insets /\ asked = posted
  BY <1>1, LayoutFacts
<1>3. insets' \in Insets /\ insets' = sanitizeContentInsets(posted)
  BY <1>1, <1>2, SanitizedIs
<1>4. pane' \notin home' => bounds' = Placed(reported', insets')
  BY <1>1
<1> QED BY <1>1, <1>3, <1>4, LayoutFacts, MainKeeps

LEMMA VisitKeeps ==
  ASSUME LayoutInv, NEW toHome \in BOOLEAN, VisitInPane(toHome)
  PROVE  LayoutInv'
<1>1. /\ home' = (IF toHome THEN home \cup {pane} ELSE home \ {pane})
      /\ bounds' = (IF toHome THEN bounds ELSE Placed(reported, insets))
      /\ news' = Snapshot(pane, home', reported.full, prefs)
      /\ UNCHANGED <<window, reported, timer, insets, pane, prefs, owner, known, unconfirmed,
                     inner, find, posted, asked, patch>>
  BY DEF VisitInPane, broadcast, rendererVars
<1>2. home' \subseteq Panes
  BY <1>1, LayoutFacts
<1>3. pane' \notin home' => bounds' = Placed(reported', insets')
  BY <1>1
<1> QED BY <1>1, <1>2, <1>3, LayoutFacts, MainKeeps

LEMMA ActivateKeeps ==
  ASSUME LayoutInv, NEW p \in Panes, ActivatePane(p)
  PROVE  LayoutInv'
<1>1. /\ pane' = p
      /\ bounds' = (IF p \in home THEN bounds ELSE Placed(reported, insets))
      /\ news' = Snapshot(p, home, reported.full, prefs)
      /\ UNCHANGED <<window, reported, timer, insets, home, prefs, owner, known, unconfirmed,
                     inner, find, posted, asked, patch>>
  BY DEF ActivatePane, broadcast, rendererVars
<1>2. pane' \notin home' => bounds' = Placed(reported', insets')
  BY <1>1
<1> QED BY <1>1, <1>2, LayoutFacts, MainKeeps

(* Steps of the main process that change preferences, and no layout.       *)
LEMMA PrefsKeep ==
  ASSUME LayoutInv, prefs' \in Prefs, patch' \in Patch \cup {None},
         UNCHANGED <<window, reported, timer, insets, bounds, pane, home, owner, known,
                     unconfirmed, inner, find, posted, asked>>,
         news' = Snapshot(pane, home, reported.full, prefs') \/ UNCHANGED <<prefs, news>>
  PROVE  LayoutInv'
<1>1. timer' = "off" /\ pane' \notin home' => bounds' = Placed(reported', insets')
  BY LayoutFacts
<1>2. \/ news' = Snapshot(pane', home', reported'.full, prefs')
      \/ /\ UNCHANGED <<news, pane, home, prefs>>
         /\ timer' # "both" => Latest.full = window'.full
  BY LayoutFacts
<1> QED BY <1>1, <1>2, LayoutFacts, MainKeeps

LEMMA StoreKeeps ==
  ASSUME LayoutInv, StorePrefs
  PROVE  LayoutInv'
<1>1. /\ patch # None /\ patch' = None
      /\ UNCHANGED <<window, reported, timer, insets, bounds, pane, home, owner, known,
                     unconfirmed, inner, find, posted, asked>>
      /\ \/ /\ prefs' = [Drawn(prefs, patch) EXCEPT !.width = clampSidePanelWidth(@, PanelMax)]
            /\ news' = Snapshot(pane, home, reported.full, prefs')
         \/ UNCHANGED <<prefs, news>>
  BY DEF StorePrefs, broadcast, rendererVars
<1>2. PICK u \in Prefs : u = Drawn(prefs, patch)
  BY <1>1, LayoutFacts, DrawnIs
<1>3. clampSidePanelWidth(u.width, PanelMax) \in Nat
  <2>1. u.width \in Nat
    BY DEF Prefs
  <2> QED BY <2>1 DEF clampSidePanelWidth, Least, Greatest, PanelMin, PanelMax
<1>4. [u EXCEPT !.width = clampSidePanelWidth(@, PanelMax)] \in Prefs
  BY <1>3 DEF Prefs
<1>5. prefs' \in Prefs
  BY <1>1, <1>2, <1>4, LayoutFacts
<1> QED BY <1>1, <1>5, PrefsKeep

LEMMA ToggleBarKeeps ==
  ASSUME LayoutInv, toggleBookmarkBar
  PROVE  LayoutInv'
<1>1. /\ prefs' = [prefs EXCEPT !.bar = IF @ = "hidden" THEN "always" ELSE "hidden"]
      /\ news' = Snapshot(pane, home, reported.full, prefs')
      /\ UNCHANGED <<window, reported, timer, insets, bounds, pane, home, owner, known,
                     unconfirmed, inner, find, posted, asked, patch>>
  BY DEF toggleBookmarkBar, broadcast, rendererVars
<1>2. prefs' \in Prefs
  BY <1>1, LayoutFacts DEF Prefs, Bars
<1> QED BY <1>1, <1>2, LayoutFacts, PrefsKeep

LEMMA RendererFacts ==
  ASSUME LayoutInv
  PROVE  /\ known \in Snapshots /\ news \in Snapshots \cup {None} /\ unconfirmed \in Patch
         /\ inner \in Widths /\ find \in BOOLEAN /\ patch \in Patch \cup {None}
  BY DEF LayoutInv, LayoutTypeOK

LEMMA ReceiveKeeps ==
  ASSUME LayoutInv, ReceiveState
  PROVE  LayoutInv'
<1>1. /\ news # None /\ news' = None /\ known' = news
      /\ unconfirmed' = [k \in DOMAIN unconfirmed |->
                          IF unconfirmed[k] = news.ui[k] THEN None ELSE unconfirmed[k]]
      /\ find' = (find /\ news.pane = known.pane) /\ inner' = inner
      /\ Report /\ UNCHANGED mainVars /\ patch' = patch
  BY DEF ReceiveState
<1>2. unconfirmed' \in Patch
  <2>1. DOMAIN unconfirmed = {"bar", "open", "width"}
    BY RendererFacts DEF Patch
  <2>2. /\ unconfirmed.bar \in Bars \cup {None} /\ unconfirmed.open \in BOOLEAN \cup {None}
        /\ unconfirmed.width \in Nat \cup {None}
    BY RendererFacts DEF Patch
  <2>3. unconfirmed' =
          [bar   |-> IF unconfirmed.bar = news.ui.bar THEN None ELSE unconfirmed.bar,
           open  |-> IF unconfirmed.open = news.ui.open THEN None ELSE unconfirmed.open,
           width |-> IF unconfirmed.width = news.ui.width THEN None ELSE unconfirmed.width]
    BY <1>1, <2>1
  <2> QED BY <2>2, <2>3 DEF Patch
<1>3. known' \in Snapshots /\ news' \in Snapshots \cup {None} /\ Latest' = Latest
  BY <1>1, RendererFacts DEF Latest
<1>4. find' \in BOOLEAN
  BY <1>1
<1> QED BY <1>1, <1>2, <1>3, <1>4, RendererFacts, RendererKeeps

LEMMA RendererResizeKeeps ==
  ASSUME LayoutInv, RendererResize
  PROVE  LayoutInv'
<1>1. /\ inner' = window.width /\ UNCHANGED <<known, unconfirmed, find, news, patch, mainVars>>
      /\ Report
  BY DEF RendererResize
<1>2. inner' \in Widths /\ Latest' = Latest
  BY <1>1, LayoutFacts DEF Latest
<1> QED BY <1>1, <1>2, RendererFacts, RendererKeeps

LEMMA SetUiKeeps ==
  ASSUME LayoutInv, NEW p \in Patches, SetUi(p)
  PROVE  LayoutInv'
<1>1. /\ patch' = p /\ unconfirmed' = Drawn(unconfirmed, p)
      /\ UNCHANGED <<known, inner, find, news, mainVars>> /\ Report
  BY DEF SetUi
<1>2. p \in Patch
  <2>1. NoPrefs \in Patch
    BY DEF NoPrefs, Patch
  <2>2. \A o \in BOOLEAN : [NoPrefs EXCEPT !.open = o] \in Patch
    BY <2>1 DEF Patch
  <2>3. \A w \in PanelWidths : [NoPrefs EXCEPT !.width = w] \in Patch
    BY <2>1, WidthsAssumption DEF Patch
  <2>4. \A b \in {"always", "hidden"} : [NoPrefs EXCEPT !.bar = b] \in Patch
    BY <2>1 DEF Patch, Bars
  <2> QED BY <2>2, <2>3, <2>4 DEF Patches
<1>3. unconfirmed' \in Patch /\ Latest' = Latest
  BY <1>1, <1>2, RendererFacts, DrawnIs DEF Latest
<1> QED BY <1>1, <1>2, <1>3, RendererFacts, RendererKeeps

LEMMA ToggleFindKeeps ==
  ASSUME LayoutInv, ToggleFind
  PROVE  LayoutInv'
<1>1. /\ find' = ~find /\ UNCHANGED <<known, unconfirmed, inner, news, patch, mainVars>>
      /\ Report
  BY DEF ToggleFind
<1>2. find' \in BOOLEAN /\ Latest' = Latest
  BY <1>1 DEF Latest
<1> QED BY <1>1, <1>2, RendererFacts, RendererKeeps

(* The last snapshot the renderer will draw says how things are, what it   *)
(* drew it has reported, and another layout follows every change of the    *)
(* window.                                                                 *)
THEOREM LayoutInvariant == LayoutSpec => []LayoutInv
<1>1. LayoutInv /\ [LayoutNext]_layoutVars => LayoutInv'
  <2> SUFFICES ASSUME LayoutInv, [LayoutNext]_layoutVars PROVE LayoutInv'
    OBVIOUS
  <2>1. CASE UNCHANGED layoutVars
    BY <2>1 DEF layoutVars, LayoutInv, LayoutTypeOK, Latest, DrawnInsets
  <2>2. ASSUME NEW w \in Widths, Resize(w) PROVE LayoutInv'
    BY <2>2, ResizeKeeps
  <2>3. CASE toggleFullscreen \/ EnterHtmlFullScreen \/ LeaveHtmlFullScreen \/ EscapeInPage
               \/ EscapeInChrome
    BY <2>3, FullScreenStepsKeep
  <2>4. CASE Settle \/ TimerFires \/ TakeInsets
    BY <2>4, SettleKeeps, TimerKeeps, TakeInsetsKeeps
  <2>5. ASSUME NEW toHome \in BOOLEAN, VisitInPane(toHome) PROVE LayoutInv'
    BY <2>5, VisitKeeps
  <2>6. ASSUME NEW p \in Panes, ActivatePane(p) PROVE LayoutInv'
    BY <2>6, ActivateKeeps
  <2>7. CASE StorePrefs \/ toggleBookmarkBar
    BY <2>7, StoreKeeps, ToggleBarKeeps
  <2>8. CASE ReceiveState \/ RendererResize \/ ToggleFind
    BY <2>8, ReceiveKeeps, RendererResizeKeeps, ToggleFindKeeps
  <2>9. ASSUME NEW p \in Patches, SetUi(p) PROVE LayoutInv'
    BY <2>9, SetUiKeeps
  <2> QED BY <2>1, <2>2, <2>3, <2>4, <2>5, <2>6, <2>7, <2>8, <2>9 DEF LayoutNext
<1> QED BY <1>1, LayoutInvHolds, PTL DEF LayoutSpec

(* Once everything has settled the page fills what the chrome leaves, in   *)
(* windows of any size the browser takes and after any number of changes   *)
(* (scheduleLayout(), setLayout(), the layout effect).                     *)
THEOREM PageLiesRight == LayoutSpec => []PageFillsTheRest
<1>1. LayoutInv => PageFillsTheRest
  <2> SUFFICES ASSUME LayoutInv, Quiet, pane \notin home
               PROVE  LET drawn == DrawnInsets(known, unconfirmed, find, inner) IN
                      /\ known = Snapshot(pane, home, window.full, prefs)
                      /\ bounds = [y |-> drawn.top, width |-> window.width - drawn.right]
    BY DEF PageFillsTheRest
  <2>1. /\ known \in Snapshots /\ unconfirmed \in Patch /\ find \in BOOLEAN
        /\ window \in [width : Widths, full : BOOLEAN]
    BY RendererFacts, LayoutFacts
  <2>2. known = Snapshot(pane, home, window.full, prefs)
    <3>1. /\ known.pane = pane /\ known.isHome = (pane \in home) /\ known.ui = prefs
          /\ known.full = window.full
      BY DEF LayoutInv, Latest, Quiet
    <3>2. known = [pane |-> known.pane, isHome |-> known.isHome, full |-> known.full,
                   ui |-> known.ui]
      BY <2>1 DEF Snapshots
    <3> QED BY <3>1, <3>2 DEF Snapshot
  <2>3. /\ posted = DrawnInsets(known, unconfirmed, find, inner) /\ inner = window.width
        /\ insets = sanitizeContentInsets(posted) /\ reported = window
        /\ bounds = Placed(window, insets)
    BY DEF LayoutInv, Quiet
  <2>4. PICK w \in Nat : w = window.width /\ w >= 900
    BY <2>1, WidthIsNat
  <2>5. PICK ui \in Prefs, h \in BOOLEAN, full \in BOOLEAN :
          /\ ui = Drawn(known.ui, unconfirmed) /\ h = known.isHome /\ full = known.full
          /\ full = window.full
    <3>1. known.ui \in Prefs /\ known.isHome \in BOOLEAN /\ known.full \in BOOLEAN
      BY <2>1 DEF Snapshots
    <3>2. Drawn(known.ui, unconfirmed) \in Prefs
      BY <2>1, <3>1, DrawnIs
    <3>3. known.full = window.full
      BY DEF LayoutInv, Latest, Quiet
    <3> QED BY <3>1, <3>2, <3>3
  <2>6. posted = computeChromeLayout(ui, h, find, full, w)
    BY <2>3, <2>4, <2>5 DEF DrawnInsets
  <2>7. bounds = [y |-> posted.top, width |-> window.width - posted.right]
    <3>1. CASE full
      <4>1. posted = ZeroInsets /\ bounds = contentBounds(ZeroInsets, w)
        BY <2>3, <2>4, <2>5, <2>6, <3>1 DEF computeChromeLayout, Placed
      <4>2. Greatest(200, w - Least(0, Greatest(0, w - 200))) = w - 0
        BY <2>4 DEF Greatest, Least
      <4> QED BY <2>4, <4>1, <4>2 DEF contentBounds, ZeroInsets, MinContentWidth
    <3>2. CASE ~full
      <4>1. PICK t, r \in Nat : posted = [top |-> t, right |-> r] /\ r <= w - 200
        BY <2>1, <2>4, <2>6, <3>2, ChromeLeavesRoom
      <4>2. sanitizeContentInsets(posted) = posted
        BY <2>1, <2>4, <2>6, <3>2, ChromeLayoutIs
      <4>3. bounds = contentBounds(posted, w)
        BY <2>3, <2>4, <2>5, <4>2, <3>2 DEF Placed
      <4>4. Greatest(200, w - Least(r, Greatest(0, w - 200))) = w - r
        BY <2>4, <4>1 DEF Greatest, Least
      <4> QED BY <2>4, <4>1, <4>3, <4>4 DEF contentBounds, MinContentWidth
    <3> QED BY <3>1, <3>2
  <2> QED BY <2>2, <2>3, <2>7
<1> QED BY <1>1, LayoutInvariant, PTL
=============================================================================
