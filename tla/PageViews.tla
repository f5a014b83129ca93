----------------------------- MODULE PageViews -----------------------------
(***************************************************************************)
(* Tabs and their page views (electron/main.ts) under everything that is   *)
(* done to Account Spaces (AccountLifecycle).  A tab has a page or is a    *)
(* New Tab page; its view, once built, stays alive while it is hidden.     *)
(* What the pages load, menus that cover them and popup windows are left   *)
(* out.                                                                    *)
(***************************************************************************)
EXTENDS AccountLifecycle

CONSTANT Tabs

VARIABLES
  tab,       \* account and page of each open tab
  chosen,    \* activeTabByAccountSpace
  view,      \* runtimeTabs: each view, with the account whose session it has
  raced      \* history: accounts with a view that was built while a handler waited

vars == <<lifecycleVars, tab, chosen, view, raced>>

Tab  == [account : Accounts, page : BOOLEAN]
View == [account : Accounts, shown : BOOLEAN]

ASSUME TabsAssumption == None \notin Tabs \cup Tab \cup View

NewTab(a, page) == [account |-> a, page |-> page]

(* One New Tab page for each account.                                      *)
Init ==
  /\ LifecycleInit
  /\ chosen \in {c \in [Accounts -> Tabs \cup {None}] :
       /\ \A a \in Accounts : c[a] = None <=> a \notin accounts
       /\ \A a, b \in accounts : c[a] = c[b] => a = b}
  /\ tab = [t \in Tabs |-> IF \E a \in accounts : chosen[a] = t
                           THEN NewTab(CHOOSE a \in accounts : chosen[a] = t, FALSE) ELSE None]
  /\ view = [t \in Tabs |-> None]
  /\ raced = {}

-----------------------------------------------------------------------------
TabsOf(a) == {t \in Tabs : tab[t] # None /\ tab[t].account = a}

\* a new identifier
Fresh == {t \in Tabs : tab[t] = None /\ view[t] = None}

\* activeTab()
Front == chosen[active[front]]

\* hideAllViews()
Hidden(views) == [t \in Tabs |-> IF views[t] = None THEN None ELSE [views[t] EXCEPT !.shown = FALSE]]

\* closeAccountViews()
Closed(views, a) == [t \in Tabs |-> IF t \in TabsOf(a) THEN None ELSE views[t]]

(* Variants of Viewable: without the check of the lock, and of the page.   *)
LockedToo(t) == tab[t].page
HomeToo(t) == tab[t].account \notin locked

\* showActiveTab(), ensureView(): no view for a New Tab page or a locked account
Viewable(t) == tab[t].page /\ tab[t].account \notin locked

(* ensureView() and setVisible() of tab t, of account a.                    *)
Show(views, t, a) ==
  [views EXCEPT ![t] = [account |-> IF views[t] = None THEN a ELSE views[t].account,
                        shown |-> TRUE]]

(* showActiveTab() at the end of a step that leaves these views.           *)
ShowActive(views) ==
  view' = IF Viewable(Front)' THEN Show(views, Front', active'[front']) ELSE views

Waited(a) == \E kind \in Waits \ {"restore"} : IsPending(kind, a)

HasView(a) == \E t \in Tabs : view[t] # None /\ view[t].account = a

BuildsView(a) == \E t \in Tabs : view[t] = None /\ view'[t] # None /\ view'[t].account = a

(* The bookkeeping of every action.                                        *)
Note == raced' = {a \in Accounts : (a \in raced \/ (Waited(a) /\ BuildsView(a))) /\ HasView(a)'}

PagesStay == UNCHANGED <<tab, chosen, view>>

-----------------------------------------------------------------------------
(* Tabs.                                                                   *)

(* navigate(): to a page or Home, in the tab in front; ensureView() looks  *)
(* at the lock only when it has to build a view.                           *)
Navigate(page) ==
  /\ UNCHANGED <<lifecycleVars, chosen>>
  /\ tab' = [tab EXCEPT ![Front].page = page]
  /\ view' = IF ~page THEN [view EXCEPT ![Front] = Hidden(view)[Front]]
             ELSE IF view[Front] # None \/ tab[Front].account \notin locked
                  THEN Show(view, Front, tab[Front].account) ELSE view
  /\ Note

(* newTab(), by the user or a link out of a page, for any account.         *)
OpenTab(t, a, page) ==
  /\ UNCHANGED <<accounts, removed, locked, pending>>
  /\ t \in Fresh /\ a \in accounts
  /\ tab' = [tab EXCEPT ![t] = NewTab(a, page)]
  /\ chosen' = [chosen EXCEPT ![a] = t]
  /\ front' = HomeOf(a) /\ GoTo(a)
  /\ ShowActive(Hidden(view))
  /\ Note

(* addBackgroundTab(): for a page that is alive.                           *)
OpenBehind(t, a) ==
  /\ t \in Fresh /\ a \in accounts
  /\ \E u \in Tabs : view[u] # None /\ view[u].account = a
  /\ tab' = [tab EXCEPT ![t] = NewTab(a, TRUE)]
  /\ UNCHANGED <<lifecycleVars, chosen, view>>
  /\ Note

ActivateTab(t) ==
  /\ UNCHANGED <<accounts, removed, locked, pending, tab>>
  /\ tab[t] # None
  /\ chosen' = [chosen EXCEPT ![tab[t].account] = t]
  /\ front' = HomeOf(tab[t].account) /\ GoTo(tab[t].account)
  /\ ShowActive(Hidden(view))
  /\ Note

(* closeTab(): the next tab is another one of the account, or a new one:   *)
(* the one that normalizeRuntimeState() adds and that of newTab().         *)
CloseTab(t) ==
  /\ UNCHANGED <<accounts, removed, locked, pending>>
  /\ tab[t] # None
  /\ LET a == tab[t].account
         others == TabsOf(a) \ {t}
         views == [view EXCEPT ![t] = None]
     IN
     \/ /\ others = {}
        /\ \E added, n \in Fresh \cup {t} :
             /\ added # n
             /\ tab' = [tab EXCEPT ![t] = None, ![added] = NewTab(a, FALSE), ![n] = NewTab(a, FALSE)]
             /\ chosen' = [chosen EXCEPT ![a] = n]
        /\ front' = HomeOf(a) /\ GoTo(a)
        /\ ShowActive(Hidden(views))
     \/ /\ others # {} /\ chosen[a] = t
        /\ tab' = [tab EXCEPT ![t] = None]
        /\ \E n \in others : chosen' = [chosen EXCEPT ![a] = n]
        /\ front' = HomeOf(a) /\ GoTo(a)
        /\ ShowActive(Hidden(views))
     \/ /\ others # {} /\ chosen[a] # t
        /\ tab' = [tab EXCEPT ![t] = None]
        /\ view' = views
        /\ UNCHANGED <<chosen, front, active>>
  /\ Note

(* restoreBackup() of an account that is not locked.  A lock or a deletion *)
(* aborts it (cancelAccountOperations()), but authorizedFetch() sees that  *)
(* only until an answer begins: the restore fails or it goes on.           *)
RestoreBegins(a) ==
  /\ UNCHANGED <<accounts, removed, locked, active, front, tab, chosen, view>>
  /\ Member(a) /\ a \notin locked
  /\ Begins("restore", a)
  /\ Note

(* The tabs of a restored account: those of the backup.  It may come from  *)
(* another Account Space, the one that still has its tabs open.            *)
TakesAll(a, new) == new
Kept(a, new) == {t \in new : tab[t] = None \/ t \in TabsOf(a)}

(* The backup is in place, with tabs or without; normalizeRuntimeState()   *)
(* drops the tabs that are another's and those of an account that is gone. *)
RestoreEnds(a) ==
  /\ UNCHANGED <<accounts, removed, locked, active, front>>
  /\ Ends("restore", a)
  /\ view' = Closed(view, a)
  /\ \/ UNCHANGED <<tab, chosen>>
     \/ /\ a \in accounts
        /\ \E new \in (SUBSET Tabs) \ {{}} : \E pages \in SUBSET Kept(a, new), n \in Tabs :
             /\ IF Kept(a, new) # {} THEN n \in Kept(a, new) ELSE n \in Fresh \cup TabsOf(a)
             /\ tab' = [t \in Tabs |-> IF t \in Kept(a, new) \cup {n} THEN NewTab(a, t \in pages)
                                       ELSE IF t \in TabsOf(a) THEN None ELSE tab[t]]
             /\ chosen' = [chosen EXCEPT ![a] = n]
  /\ Note

RestoreFails(a) ==
  /\ UNCHANGED <<accounts, removed, locked, active, front>>
  /\ Ends("restore", a)
  /\ PagesStay /\ Note

-----------------------------------------------------------------------------
(* Account Spaces.                                                         *)

Switch(a) == SwitchTo(a) /\ /\ UNCHANGED <<tab, chosen>> /\ ShowActive(Hidden(view)) /\ Note

ShowWorkspace(w) == SwitchWorkspace(w) /\ /\ UNCHANGED <<tab, chosen>> /\ ShowActive(Hidden(view)) /\ Note

AddAccount(a, t) ==
  /\ Add(a)
  /\ t \in Fresh
  /\ tab' = [tab EXCEPT ![t] = NewTab(a, FALSE)]
  /\ chosen' = [chosen EXCEPT ![a] = t]
  /\ ShowActive(Hidden(view))
  /\ Note

(* A variant of CloseAll that leaves what is hidden alone.                 *)
CloseShown(views, a) ==
  [t \in Tabs |-> IF t \in TabsOf(a) /\ views[t] # None /\ views[t].shown THEN None ELSE views[t]]

CloseAll(views, a) == Closed(views, a)

Lock(a) ==
  /\ LockBegins(a)
  /\ view' = CloseAll(IF active[front] = a THEN Hidden(view) ELSE view, a)
  /\ UNCHANGED <<tab, chosen>>
  /\ Note

Locked(a) ==
  /\ UNCHANGED <<tab, chosen>>
  /\ LockEnds(a)
  /\ IF a \in accounts THEN ShowActive(view) ELSE UNCHANGED view
  /\ Note

Open(a) == Unlock(a) /\ /\ UNCHANGED <<tab, chosen>> /\ ShowActive(view) /\ Note

Clear(a) ==
  /\ ClearBegins(a)
  /\ view' = CloseAll(view, a)
  /\ UNCHANGED <<tab, chosen>>
  /\ Note

(* The data is erased and the tabs are New Tab pages, or it is not.        *)
Cleared(a) ==
  /\ UNCHANGED <<chosen>>
  /\ ClearEnds(a)
  /\ \/ /\ tab' = [t \in Tabs |-> IF t \in TabsOf(a) THEN NewTab(a, FALSE) ELSE tab[t]]
        /\ ShowActive(view)
     \/ UNCHANGED <<tab, view>>
  /\ Note

Delete(a) ==
  /\ \E wait \in {"revoke", "erase"} : DeleteBegins(a, wait)
  /\ view' = CloseAll(view, a)
  /\ UNCHANGED <<tab, chosen>>
  /\ Note

Revoked(a) == \E revoked \in BOOLEAN : RevokeEnds(a, revoked) /\ PagesStay /\ Note

Deleted(a) ==
  /\ DeleteEnds(a)
  /\ tab' = [t \in Tabs |-> IF t \in TabsOf(a) THEN None ELSE tab[t]]
  /\ chosen' = [chosen EXCEPT ![a] = None]
  /\ ShowActive(view)
  /\ Note

NotDeleted(a) == DeleteFails(a) /\ PagesStay /\ Note

-----------------------------------------------------------------------------
TabSteps ==
  \/ \E page \in BOOLEAN : Navigate(page)
  \/ \E t \in Tabs, a \in Accounts : (\E page \in BOOLEAN : OpenTab(t, a, page)) \/ OpenBehind(t, a)
  \/ \E t \in Tabs : ActivateTab(t) \/ CloseTab(t)

AccountSteps ==
  \/ \E a \in Accounts : RestoreBegins(a) \/ RestoreEnds(a) \/ RestoreFails(a)
  \/ \E a \in Accounts : Switch(a) \/ (\E t \in Tabs : AddAccount(a, t))
  \/ \E w \in Workspaces : ShowWorkspace(w)
  \/ \E a \in Accounts : Lock(a) \/ Locked(a) \/ Open(a) \/ Clear(a) \/ Cleared(a)
  \/ \E a \in Accounts : Delete(a) \/ Revoked(a) \/ Deleted(a) \/ NotDeleted(a)

Next == TabSteps \/ AccountSteps

Spec == Init /\ [][Next]_vars

-----------------------------------------------------------------------------
TypeOK ==
  /\ LifecycleTypeOK
  /\ tab \in [Tabs -> Tab \cup {None}]
  /\ chosen \in [Accounts -> Tabs \cup {None}]
  /\ view \in [Tabs -> View \cup {None}]
  /\ raced \subseteq Accounts

(* Every workspace has an active account and every account an active tab   *)
(* that is its own, or activeTab() would throw and the window would stop.  *)
SomethingActive ==
  /\ \A w \in Workspaces : HomeOf(active[w]) = w
  /\ \A a \in accounts : chosen[a] \in TabsOf(a)

(* A view belongs to an open tab of an account that exists and is not      *)
(* locked (ensureView(), closeAccountViews()), unless the user brought it  *)
(* back while the account was being locked, cleared or deleted.            *)
ViewsBelong ==
  \A t \in Tabs : view[t] # None /\ view[t].account \notin raced =>
    /\ tab[t] # None /\ tab[t].account = view[t].account
    /\ view[t].account \in accounts \ locked

(* The user sees one page at most, that of the tab in front, and none      *)
(* while it is a New Tab page (main.ts, the comment at line 2383).         *)
SeesFront ==
  \A t \in Tabs : view[t] # None /\ view[t].shown /\ view[t].account \notin raced =>
    t = Front /\ tab[t].page

(* No page view is ever built for a locked account                         *)
(* (docs/systems/google-account-spaces.md, line 105).                      *)
BuiltUnlocked ==
  [][\A t \in Tabs : view[t] = None /\ view'[t] # None => view'[t].account \notin locked']_vars

(* A locked Account Space has no page view at all (main.ts, the comment at *)
(* line 2402).                                                             *)
LockedHasNoView == \A t \in Tabs : view[t] # None => view[t].account \notin locked
=============================================================================
