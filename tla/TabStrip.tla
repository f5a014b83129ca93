------------------------------- MODULE TabStrip -------------------------------
(***************************************************************************)
(* The tabs of the Account Spaces and the icons of their pages             *)
(* (electron/main.ts, bookmark-icons.ts, popup-windows.ts).  A page says   *)
(* where its icon is; the icon is fetched with the cookies of the tab's    *)
(* own Account Space, which takes a while, and is then cached, shown on    *)
(* the tab and kept for the bookmarks of the host that the tab is at by    *)
(* then.  Meanwhile tabs are opened, moved, closed and reopened, pages     *)
(* open windows, and an Account Space is cleared.                          *)
(*                                                                         *)
(* A host stands for its pages and for an icon at it.  An icon is told by  *)
(* where it is from and by whose cookies it was fetched.  A store that     *)
(* cannot be written (isReadOnly) is left out.                             *)
(***************************************************************************)
EXTENDS Spaces, SequencesExt

CONSTANTS
  StripTabs,
  Hosts,
  MaxClosed,   \* MAX_CLOSED_TABS, 25
  MaxCache,    \* 200 icons
  MaxIcons,    \* MAX_BOOKMARK_ICONS, 300 of an Account Space
  MaxPopups,   \* MAX_POPUPS_PER_WINDOW, 5
  MaxFetches,  \* bound: icons fetched at the same time
  MaxTabActs   \* bound: what the user and the pages do in a behaviour

VARIABLES
  tabs,       \* in their order: [id, space, host]; host None: the New Tab page
  frontTab,   \* the tab in front
  runtime,    \* runtimeTabs: whether there is a view, and the icon shown
  closed,     \* closedTabs: hosts, the one closed last at the end
  popups,     \* the tabs that opened the popup windows there are
  recent,     \* popupTimes: how many windows a page opened of late
  cache,      \* faviconCache: [key, icon, turn], from the oldest, 0
  fetches,    \* icons on their way: [tab, space, from]
  marked,     \* the hosts bookmarked in each Account Space
  kept,       \* bookmarkIconsByAccountSpace: [space, host, icon]
  tabActs

tabVars == <<tabs, frontTab, closed, popups, recent>>
iconVars == <<runtime, cache, fetches, marked, kept>>
stripVars == <<tabVars, iconVars, tabActs>>

Icon == [from : Hosts, by : AccountSpaces]
StripTab == [id : StripTabs, space : AccountSpaces, host : Hosts \cup {None}]
Runtime == [view : BOOLEAN, icon : Icon \cup {None}]
Fetching == [tab : StripTabs, space : AccountSpaces, from : Hosts]

(* There is an Account Space; None is neither an icon nor what a tab runs.  *)
ASSUME StripAssumption ==
  /\ IsFiniteSet(AccountSpaces) /\ AccountSpaces # {}
  /\ MaxClosed \in Nat /\ MaxPopups \in Nat
  /\ None \notin Icon \cup Runtime

Ids == {tabs[i].id : i \in DOMAIN tabs}
At(t) == CHOOSE i \in DOMAIN tabs : tabs[i].id = t
TabOf(t) == tabs[At(t)]

\* the positions of the tabs of an Account Space, and those on either side of one
Places(s) == {i \in DOMAIN tabs : tabs[i].space = s}
After(i, s) == {j \in Places(s) : j > i}
Before(i, s) == {j \in Places(s) : j < i}

NewRuntime == [view |-> FALSE, icon |-> None]

StripTypeOK ==
  /\ tabs \in Seq(StripTab)
  /\ frontTab \in Ids
  /\ runtime \in [StripTabs -> Runtime \cup {None}]
  /\ closed \in [AccountSpaces -> Seq(Hosts)]
  /\ popups \subseteq StripTabs
  /\ recent \in [StripTabs -> 0..MaxPopups]
  /\ \A e \in cache : e.key \in AccountSpaces \X Hosts /\ e.icon \in Icon
  /\ fetches \subseteq Fetching
  /\ marked \in [AccountSpaces -> SUBSET Hosts]
  /\ kept \subseteq [space : AccountSpaces, host : Hosts, icon : Icon]

(* One tab of each Account Space, in the order of the spaces.              *)
StripInit ==
  /\ \E ids \in Injection(AccountSpaces, StripTabs), order \in SetToSeqs(AccountSpaces) :
       /\ tabs = [i \in DOMAIN order |->
                   [id |-> ids[order[i]], space |-> order[i], host |-> None]]
       /\ frontTab = tabs[1].id
  /\ runtime = [t \in StripTabs |-> None]
  /\ closed = [s \in AccountSpaces |-> << >>]
  /\ popups = {} /\ recent = [t \in StripTabs |-> 0]
  /\ cache = {} /\ fetches = {}
  /\ marked = [s \in AccountSpaces |-> {}] /\ kept = {}
  /\ tabActs = 0

-----------------------------------------------------------------------------
(* Tabs.                                                                   *)

Fresh(t) == t \notin Ids /\ \A f \in fetches : f.tab # t

\* newTab() and navigate(): in front, and with a view unless it is the New Tab page
OpenTab(t, s, h) ==
  /\ Fresh(t)
  /\ tabs' = Append(tabs, [id |-> t, space |-> s, host |-> h])
  /\ frontTab' = t
  /\ runtime' = [runtime EXCEPT ![t] = [NewRuntime EXCEPT !.view = (h # None)]]

\* addBackgroundTab()
OpenBehind(t, s, h) ==
  /\ Fresh(t)
  /\ tabs' = Append(tabs, [id |-> t, space |-> s, host |-> h])
  /\ runtime' = [runtime EXCEPT ![t] = NewRuntime]
  /\ UNCHANGED frontTab

NewTab(t, h) ==
  /\ OpenTab(t, TabOf(frontTab).space, h)
  /\ UNCHANGED <<closed, popups, recent, cache, fetches, marked, kept>>

\* openFromPage(): a page that is in front of the focused window opens a popup window or
\* a tab, any other one a tab behind; banking pages, which open none, are not modelled
PageOpens(t, new, h, focused, asPopup) ==
  LET inFront == t = frontTab /\ focused IN
  /\ runtime[t] # None /\ runtime[t].view
  /\ recent[t] < MaxPopups
  /\ recent' = [recent EXCEPT ![t] = @ + 1]
  /\ \/ inFront /\ asPopup /\ popups' = popups \cup {t} /\ UNCHANGED <<tabs, frontTab, runtime>>
     \/ inFront /\ ~asPopup /\ OpenTab(new, TabOf(t).space, h) /\ UNCHANGED popups
     \/ ~inFront /\ OpenBehind(new, TabOf(t).space, h) /\ UNCHANGED popups
  /\ UNCHANGED <<closed, cache, fetches, marked, kept>>

\* ten seconds later
PopupsForgotten(t) ==
  /\ recent[t] > 0 /\ recent' = [recent EXCEPT ![t] = @ - 1]
  /\ UNCHANGED <<tabs, frontTab, closed, popups, iconVars>>

Remembered(s, h) ==
  IF h = None THEN closed
  ELSE LET all == Append(closed[s], h)
       IN  [closed EXCEPT ![s] = SubSeq(all, Len(all) - Min({Len(all), MaxClosed}) + 1, Len(all))]

\* closeTab(): its neighbour comes to the front, or a New Tab page in place of the last one
CloseTab(t, new) ==
  LET s == TabOf(t).space
      next == After(At(t), s)
      previous == Before(At(t), s)
      rest == RemoveAt(tabs, At(t))
  IN  /\ closed' = Remembered(s, TabOf(t).host)
      /\ popups' = popups \ {t} /\ recent' = [recent EXCEPT ![t] = 0]
      /\ IF next \cup previous = {}
           THEN /\ Fresh(new) /\ frontTab' = new
                /\ tabs' = Append(rest, [id |-> new, space |-> s, host |-> None])
                /\ runtime' = [runtime EXCEPT ![t] = None, ![new] = NewRuntime]
           ELSE /\ frontTab' = IF t # frontTab THEN frontTab
                               ELSE tabs[IF next # {} THEN Min(next) ELSE Max(previous)].id
                /\ tabs' = rest
                /\ runtime' = [runtime EXCEPT ![t] = None]
      /\ UNCHANGED <<cache, fetches, marked, kept>>

\* reopenClosedTab(): in the active Account Space
ReopenTab(t) ==
  LET s == TabOf(frontTab).space IN
  /\ closed[s] # << >>
  /\ closed' = [closed EXCEPT ![s] = Front(@)]
  /\ OpenTab(t, s, Last(closed[s]))
  /\ UNCHANGED <<popups, recent, cache, fetches, marked, kept>>

\* activateTab(), and showActiveTab() builds its view
ActivateTab(t) ==
  /\ t # frontTab /\ frontTab' = t
  /\ runtime' = IF TabOf(t).host = None THEN runtime
                ELSE [runtime EXCEPT ![t] = [view |-> TRUE,
                                             icon |-> IF @ = None THEN None ELSE @.icon]]
  /\ UNCHANGED <<tabs, closed, popups, recent, cache, fetches, marked, kept>>

\* moveTabWithinAccountSpace(): to a place of its Account Space, to which toIndex is
\* clamped; the tabs of that space which are passed make room, all others stay
MoveTab(t, place) ==
  LET s == TabOf(frontTab).space
      from == At(t)
  IN  /\ TabOf(t).space = s
      /\ tabs' = [i \in DOMAIN tabs |->
           CASE i = place -> TabOf(t)
             [] i \in Places(s) /\ from <= i /\ i < place -> tabs[Min(After(i, s))]
             [] i \in Places(s) /\ place < i /\ i <= from -> tabs[Max(Before(i, s))]
             [] OTHER -> tabs[i]]
      /\ UNCHANGED <<frontTab, closed, popups, recent, iconVars>>

\* the page of a tab goes to another host, or the user takes the tab there
TakeTo(t, h) ==
  /\ TabOf(t).host # h
  /\ \/ t = frontTab
     \/ TabOf(t).host # None /\ runtime[t] # None /\ runtime[t].view
  /\ tabs' = [tabs EXCEPT ![At(t)].host = h]
  /\ runtime' = [runtime EXCEPT ![t] = [view |-> TRUE, icon |-> IF @ = None THEN None ELSE @.icon]]
  /\ UNCHANGED <<frontTab, closed, popups, recent, cache, fetches, marked, kept>>

TakeHome ==
  /\ TabOf(frontTab).host # None
  /\ tabs' = [tabs EXCEPT ![At(frontTab)].host = None]
  /\ UNCHANGED <<frontTab, closed, popups, recent, iconVars>>

-----------------------------------------------------------------------------
(* Icons.                                                                  *)

(* A variant of CacheKey that does not tell Account Spaces apart.          *)
KeyOfAddress(s, from) == <<from>>

CacheKey(s, from) == <<s, from>>

(* A variant of Pruned that keeps every icon.                              *)
Unpruned(icons, marks) == icons

\* pruneBookmarkIcons(), at every update of the store (normalizeRuntimeState)
Pruned(icons, marks) == {k \in icons : k.host \in marks[k.space]}

\* rememberBookmarkIcon() for the host a tab is at, if that host has a bookmark
Remember(icons, marks, t, icon) ==
  LET s == TabOf(t).space
      h == TabOf(t).host
      next == {k \in icons : <<k.space, k.host>> # <<s, h>>}
                \cup {[space |-> s, host |-> h, icon |-> icon]}
  IN  IF h = None \/ h \notin marks[s] \/ Cardinality({k \in next : k.space = s}) > MaxIcons
        THEN icons ELSE next

\* updateRuntime(): of a tab that is gone nothing is shown
Show(t, icon) ==
  runtime' = IF runtime[t] = None THEN runtime ELSE [runtime EXCEPT ![t].icon = icon]

\* page-favicon-updated: an icon that is not cached is fetched
Announce(t, from) ==
  LET s    == TabOf(t).space
      hits == {e \in cache : e.key = CacheKey(s, from)}
  IN  /\ runtime[t] # None /\ runtime[t].view
      /\ IF hits # {}
           THEN LET icon == (CHOOSE e \in hits : TRUE).icon IN
                /\ Show(t, icon)
                /\ kept' = Pruned(Remember(kept, marked, t, icon), marked)
                /\ UNCHANGED fetches
           ELSE /\ Cardinality(fetches) < MaxFetches
                /\ fetches' = fetches \cup {[tab |-> t, space |-> s, from |-> from]}
                /\ UNCHANGED <<runtime, kept>>
      /\ UNCHANGED <<tabVars, cache, marked>>

\* the page says that it has no icon
NoIcon(t) ==
  /\ runtime[t] # None /\ runtime[t].view /\ runtime[t].icon # None
  /\ Show(t, None)
  /\ UNCHANGED <<tabVars, cache, fetches, marked, kept>>

\* numbered anew, in the same order
InOrder(icons) ==
  {[key |-> e.key, icon |-> e.icon, turn |-> Cardinality({d \in icons : d.turn < e.turn})] : e \in icons}

\* a full cache drops its oldest icon; a key that is there keeps its turn
Cached(key, icon) ==
  LET room == IF Cardinality(cache) >= MaxCache THEN InOrder({e \in cache : e.turn > 0}) ELSE cache
      same == {e \in room : e.key = key}
  IN  IF same # {} THEN (room \ same) \cup {[key |-> key, icon |-> icon, turn |-> e.turn] : e \in same}
      ELSE room \cup {[key |-> key, icon |-> icon, turn |-> Cardinality(room)]}

\* the icon has come, whatever became of the tab; or it has not, and nothing happens
Fetched(f, ok) ==
  LET icon == [from |-> f.from, by |-> f.space] IN
  /\ fetches' = fetches \ {f}
  /\ IF ok
       THEN /\ cache' = Cached(CacheKey(f.space, f.from), icon)
            /\ Show(f.tab, icon)
            /\ kept' = IF f.tab \in Ids
                         THEN Pruned(Remember(kept, marked, f.tab, icon), marked) ELSE kept
       ELSE UNCHANGED <<cache, runtime, kept>>
  /\ UNCHANGED <<tabVars, marked>>

\* toggleBookmark(): a bookmark that is new takes the icon the tab shows
ToggleBookmark ==
  LET s == TabOf(frontTab).space
      h == TabOf(frontTab).host
      marks == [marked EXCEPT ![s] = IF h \in @ THEN @ \ {h} ELSE @ \cup {h}]
      icon == IF runtime[frontTab] = None THEN None ELSE runtime[frontTab].icon
  IN  /\ h # None
      /\ marked' = marks
      /\ kept' = IF icon = None THEN Pruned(kept, marks)
                 ELSE Remember(Pruned(kept, marks), marks, frontTab, icon)
      /\ UNCHANGED <<tabVars, runtime, cache, fetches>>

\* clearAccountSpaceData(): its views, closed tabs and cached icons go, its tabs go Home
ClearSpace(s) ==
  /\ s = TabOf(frontTab).space
  /\ runtime' = [t \in StripTabs |-> IF t \in Ids /\ TabOf(t).space = s THEN None ELSE runtime[t]]
  /\ closed' = [closed EXCEPT ![s] = << >>]
  /\ popups' = {t \in popups : TabOf(t).space # s}
  /\ recent' = [t \in StripTabs |-> IF t \in Ids /\ TabOf(t).space = s THEN 0 ELSE recent[t]]
  /\ cache' = InOrder({e \in cache : e.key[1] # s})
  /\ tabs' = [i \in DOMAIN tabs |-> IF tabs[i].space = s THEN [tabs[i] EXCEPT !.host = None]
                                    ELSE tabs[i]]
  /\ UNCHANGED <<frontTab, fetches, marked, kept>>

TabActs ==
  /\ tabActs < MaxTabActs /\ tabActs' = tabActs + 1
  /\ \/ \E t \in StripTabs : ReopenTab(t) \/ \E h \in Hosts \cup {None} : NewTab(t, h)
     \/ TakeHome \/ ToggleBookmark
     \/ \E s \in AccountSpaces : ClearSpace(s)
     \/ \E t \in Ids :
          \/ ActivateTab(t)
          \/ \E new \in StripTabs : CloseTab(t, new)
          \/ \E new \in StripTabs, h \in Hosts, focused, asPopup \in BOOLEAN :
               PageOpens(t, new, h, focused, asPopup)
          \/ \E place \in Places(TabOf(frontTab).space) : MoveTab(t, place)
          \/ \E h \in Hosts : TakeTo(t, h)

StripNext ==
  \/ TabActs
  \/ /\ \/ \E f \in fetches, ok \in BOOLEAN : Fetched(f, ok)
        \/ \E t \in Ids : PopupsForgotten(t) \/ NoIcon(t) \/ \E h \in Hosts : Announce(t, h)
     /\ UNCHANGED tabActs

StripSpec == StripInit /\ [][StripNext]_stripVars

-----------------------------------------------------------------------------
(* An icon is shown and remembered only in the Account Space whose cookies *)
(* fetched it, and remembered only while its host has a bookmark there:    *)
(* an icon is not a mark by which a site could follow the user from one    *)
(* Account Space to another (updateFavicon, bookmark-icons.ts).            *)
IconsStayInAccount ==
  /\ \A t \in Ids :
       runtime[t] # None /\ runtime[t].icon # None => runtime[t].icon.by = TabOf(t).space
  /\ \A k \in kept : k.icon.by = k.space /\ k.host \in marked[k.space]

(* Not what the code does: the icon is kept for the host the tab is at     *)
(* when it has come, or when the bookmark is made, which may not be the    *)
(* page that announced it (updateFavicon, toggleBookmark).                 *)
IconOfItsHost == \A k \in kept : k.icon.from = k.host

(* Not what the code does: an icon that comes after the Account Space was  *)
(* cleared is cached again.                                                *)
ClearedIsForgotten ==
  [][\A s \in AccountSpaces :
       frontTab # None /\ ClearSpace(s) => \A f \in fetches' : f.space # s]_stripVars
===============================================================================
