----------------------------- MODULE WindowLayout -----------------------------
(***************************************************************************)
(* Where the page lies in the window (electron/chrome-layout.ts, the       *)
(* window events and applyLayout of main.ts, the layout effects of         *)
(* src/App.tsx).  The renderer draws the chrome and reports the insets it  *)
(* leaves; the main process places the native view by them.  The two see   *)
(* the window's size, full screen, the tab in front and the preferences at *)
(* different moments.  Lengths are in pixels.                              *)
(***************************************************************************)
EXTENDS Integers, FiniteSets, Absent

CONSTANTS
  Widths,        \* the sizes the window takes; its height does not matter
  PanelWidths,   \* the widths the user drags the side panel to
  MaxActs        \* bound on what the user does in a behaviour

Panes == {"first", "second"}   \* two tabs of one Account Space

MinContentWidth == 200
MinChromeTop == 88             \* CHROME.tabStrip + CHROME.toolbar
BookmarkBarHeight == 34
FindBarHeight == 44
PanelMin == 320
PanelMax == 520

MinWindowWidth == 900          \* minWidth of the BrowserWindow

ASSUME WidthsAssumption ==
  /\ \A w \in Widths : w \in Nat /\ w >= MinWindowWidth
  /\ PanelWidths \subseteq Nat

VARIABLES
  window,     \* the window as it is: [width, full]
  reported,   \* what getContentSize() and isFullScreen() say: late while it settles
  timer,      \* settleLayoutTimer, with settleBroadcast
  insets,     \* the controller's layout
  bounds,     \* the rectangle of the view in front
  pane,       \* the tab in front
  home,       \* the tabs that show the New Tab page
  prefs,      \* the stored interface preferences
  owner,      \* htmlFullscreenOwner
  news,       \* the last snapshot on its way to the renderer
  known,      \* the snapshot the renderer draws
  unconfirmed, \* preferences the renderer draws before they are confirmed
  inner,      \* window.innerWidth as the renderer has it
  find,       \* the find bar is open
  posted,     \* the insets the renderer reported last
  asked,      \* those still on their way
  patch,      \* the preferences on their way
  acts

layoutVars == <<window, reported, timer, insets, bounds, pane, home, prefs, owner, news, known,
                unconfirmed, inner, find, posted, asked, patch, acts>>

Least(a, b) == IF a < b THEN a ELSE b
Greatest(a, b) == IF a > b THEN a ELSE b

-----------------------------------------------------------------------------
(* chrome-layout.ts                                                        *)

bookmarkBarShown(mode, isHome) == mode = "always" \/ (mode = "new-tab" /\ isHome)

clampSidePanelWidth(width, ceiling) == Least(ceiling, Greatest(PanelMin, width))

PanelCeiling(windowWidth) == Greatest(PanelMin, Least(PanelMax, windowWidth - MinContentWidth))

ZeroInsets == [top |-> 0, right |-> 0]

\* The insets of the chrome that is drawn; there is none on the left or below.
computeChromeLayout(ui, isHome, findOpen, full, windowWidth) ==
  IF full THEN ZeroInsets
  ELSE [top |-> MinChromeTop
                  + (IF bookmarkBarShown(ui.bar, isHome) THEN BookmarkBarHeight ELSE 0)
                  + (IF findOpen /\ ~isHome THEN FindBarHeight ELSE 0),
        right |-> IF ui.open THEN clampSidePanelWidth(ui.width, PanelCeiling(windowWidth)) ELSE 0]

sanitizeContentInsets(i) == [top |-> Least(4000, Greatest(MinChromeTop, i.top)),
                             right |-> Least(4000, Greatest(0, i.right))]

contentBounds(i, width) ==
  [y |-> i.top,
   width |-> Greatest(MinContentWidth,
                      width - Least(i.right, Greatest(0, width - MinContentWidth)))]

-----------------------------------------------------------------------------
Bars == {"always", "new-tab", "hidden"}
Prefs == [bar : Bars, open : BOOLEAN, width : Nat]
Snapshots == [pane : Panes, isHome : BOOLEAN, full : BOOLEAN, ui : Prefs]
Insets == [top : Nat, right : Nat]
Snapshot(p, h, f, u) == [pane |-> p, isHome |-> p \in h, full |-> f, ui |-> u]

\* The preferences as the renderer draws them; one not confirmed yet wins.
Drawn(u, p) == [k \in DOMAIN u |-> IF p[k] # None THEN p[k] ELSE u[k]]
NoPrefs == [bar |-> None, open |-> None, width |-> None]

DrawnInsets(k, p, f, w) == computeChromeLayout(Drawn(k.ui, p), k.isHome, f, k.full, w)

\* preferences of which some are not given
Patch == [bar : Bars \cup {None}, open : BOOLEAN \cup {None}, width : Nat \cup {None}]

\* nothing the two exchange is taken for nothing
ASSUME LayoutAssumption == None \notin Snapshots \cup Insets \cup Patch

LayoutTypeOK ==
  /\ window \in [width : Widths, full : BOOLEAN] /\ reported \in [width : Widths, full : BOOLEAN]
  /\ timer \in {"off", "layout", "both"}
  /\ insets \in Insets
  /\ pane \in Panes /\ home \subseteq Panes /\ owner \in Panes \cup {None}
  /\ prefs \in Prefs /\ known \in Snapshots /\ news \in Snapshots \cup {None}
  /\ unconfirmed \in Patch /\ patch \in Patch \cup {None}
  /\ posted \in Insets /\ asked \in Insets \cup {None}
  /\ inner \in Widths /\ find \in BOOLEAN

FirstPrefs == [bar |-> "new-tab", open |-> FALSE, width |-> PanelMin]

LayoutInit ==
  /\ window \in [width : Widths, full : {FALSE}] /\ reported = window
  /\ timer = "off" /\ pane = "first" /\ home = {"first"} /\ prefs = FirstPrefs
  /\ owner = None /\ news = None /\ bounds = None
  /\ known = Snapshot("first", {"first"}, FALSE, FirstPrefs)
  /\ unconfirmed = NoPrefs /\ inner = window.width /\ find = FALSE
  /\ posted = computeChromeLayout(FirstPrefs, TRUE, FALSE, FALSE, window.width)
  /\ insets = posted /\ asked = None /\ patch = None /\ acts = 0

-----------------------------------------------------------------------------
(* The main process.  applyLayout() places the view of the tab in front;   *)
(* a New Tab page has none that shows.                                     *)

Placed(r, i) == contentBounds(IF r.full THEN ZeroInsets ELSE i, r.width)
applyLayout(r, i) == bounds' = IF pane \in home THEN bounds ELSE Placed(r, i)

broadcast(p, h, r, u) == news' = Snapshot(p, h, r.full, u)

mainVars == <<window, reported, timer, insets, bounds, pane, home, prefs, owner>>
rendererVars == <<known, unconfirmed, inner, find, posted, asked>>

Acts == acts < MaxActs /\ acts' = acts + 1

\* A bug: what the event finds is laid out, and nothing after it.
ScheduleOnce(windowStateChanged) ==
  /\ applyLayout(reported', insets)
  /\ timer' = "off"

\* scheduleLayout(): now, and again when the frame has settled
scheduleLayout(windowStateChanged) ==
  /\ applyLayout(reported', insets)
  /\ timer' = IF windowStateChanged \/ timer = "both" THEN "both" ELSE "layout"

\* resize, with what the window reports at that moment
Resize(w) ==
  /\ w # window.width /\ Acts
  /\ window' = [window EXCEPT !.width = w]
  /\ reported' \in {reported, window'}
  /\ scheduleLayout(FALSE)
  /\ UNCHANGED <<insets, pane, home, prefs, owner, news, rendererVars, patch>>

\* setFullScreen(), then enter- or leave-full-screen
SetFullScreen(full) ==
  /\ window' = [window EXCEPT !.full = full]
  /\ reported' \in {reported, window'}
  /\ scheduleLayout(TRUE)
  /\ broadcast(pane, home, reported', prefs)
  /\ UNCHANGED <<insets, pane, home, prefs, rendererVars, patch>>

toggleFullscreen ==
  /\ Acts /\ SetFullScreen(~window.full) /\ UNCHANGED owner

\* enter-html-full-screen and leave-html-full-screen of the page in front
EnterHtmlFullScreen ==
  /\ pane \notin home /\ ~window.full
  /\ Acts /\ SetFullScreen(TRUE) /\ owner' = pane

LeaveHtmlFullScreen ==
  /\ owner = pane /\ pane \notin home
  /\ Acts /\ SetFullScreen(FALSE) /\ owner' = None

\* Escape in the page, which handleShortcut() takes when no page owns the full screen
EscapeInPage ==
  /\ window.full /\ pane \notin home /\ owner = None
  /\ Acts /\ SetFullScreen(FALSE) /\ UNCHANGED owner

\* the frame has settled: within the 80 milliseconds of the timer
Settle ==
  /\ reported # window /\ reported' = window
  /\ UNCHANGED <<window, timer, insets, bounds, pane, home, prefs, owner, news, rendererVars,
                 patch, acts>>

TimerFires ==
  /\ timer # "off" /\ reported = window
  /\ applyLayout(reported, insets)
  /\ IF timer = "both" THEN broadcast(pane, home, reported, prefs) ELSE UNCHANGED news
  /\ timer' = "off"
  /\ UNCHANGED <<window, reported, insets, pane, home, prefs, owner, rendererVars, patch, acts>>

\* setLayout() from the renderer
TakeInsets ==
  /\ asked # None /\ asked' = None
  /\ insets' = sanitizeContentInsets(asked)
  /\ applyLayout(reported, insets')
  /\ UNCHANGED <<window, reported, timer, pane, home, prefs, owner, news, known, unconfirmed,
                 inner, find, posted, patch, acts>>

\* navigate() to a page shows the view and places it; to the New Tab page hides it
VisitInPane(toHome) ==
  /\ Acts
  /\ home' = IF toHome THEN home \cup {pane} ELSE home \ {pane}
  /\ bounds' = IF toHome THEN bounds ELSE Placed(reported, insets)
  /\ broadcast(pane, home', reported, prefs)
  /\ UNCHANGED <<window, reported, timer, insets, pane, prefs, owner, rendererVars, patch>>

\* activateTab() and showActiveTab()
ActivatePane(p) ==
  /\ p # pane /\ Acts
  /\ pane' = p
  /\ bounds' = IF p \in home THEN bounds ELSE Placed(reported, insets)
  /\ broadcast(p, home, reported, prefs)
  /\ UNCHANGED <<window, reported, timer, insets, home, prefs, owner, rendererVars, patch>>

\* setUiPreferences(): stored and confirmed, or refused because it cannot be saved
StorePrefs ==
  /\ patch # None /\ patch' = None
  /\ \/ /\ prefs' = [Drawn(prefs, patch) EXCEPT !.width = clampSidePanelWidth(@, PanelMax)]
        /\ broadcast(pane, home, reported, prefs')
     \/ UNCHANGED <<prefs, news>>
  /\ UNCHANGED <<window, reported, timer, insets, bounds, pane, home, owner, rendererVars, acts>>

toggleBookmarkBar ==
  /\ Acts
  /\ prefs' = [prefs EXCEPT !.bar = IF @ = "hidden" THEN "always" ELSE "hidden"]
  /\ broadcast(pane, home, reported, prefs')
  /\ UNCHANGED <<window, reported, timer, insets, bounds, pane, home, owner, rendererVars, patch>>

-----------------------------------------------------------------------------
(* The renderer: whenever the insets it draws have changed, it reports     *)
(* them.                                                                   *)

Report ==
  LET drawn == DrawnInsets(known', unconfirmed', find', inner') IN
  /\ posted' = drawn
  /\ asked' = IF drawn # posted THEN drawn ELSE asked

\* a snapshot arrives: confirmed preferences are forgotten, another tab closes the find bar
ReceiveState ==
  /\ news # None /\ news' = None
  /\ known' = news
  /\ unconfirmed' = [k \in DOMAIN unconfirmed |->
                      IF unconfirmed[k] = news.ui[k] THEN None ELSE unconfirmed[k]]
  /\ find' = (find /\ news.pane = known.pane)
  /\ UNCHANGED inner
  /\ Report
  /\ UNCHANGED <<mainVars, patch, acts>>

\* the window's resize event in the renderer
RendererResize ==
  /\ inner # window.width /\ inner' = window.width
  /\ UNCHANGED <<known, unconfirmed, find>>
  /\ Report
  /\ UNCHANGED <<mainVars, news, patch, acts>>

\* setUi(): drawn at once
SetUi(p) ==
  /\ patch = None /\ Acts
  /\ patch' = p
  /\ unconfirmed' = Drawn(unconfirmed, p)
  /\ UNCHANGED <<known, inner, find>>
  /\ Report
  /\ UNCHANGED <<mainVars, news>>

ToggleFind ==
  /\ ~known.isHome /\ Acts
  /\ find' = ~find
  /\ UNCHANGED <<known, unconfirmed, inner>>
  /\ Report
  /\ UNCHANGED <<mainVars, news, patch>>

\* Escape while the chrome has the focus
EscapeInChrome ==
  /\ known.full /\ Acts
  /\ SetFullScreen(~window.full) /\ UNCHANGED owner

Patches == {[NoPrefs EXCEPT !.open = o] : o \in BOOLEAN}
             \cup {[NoPrefs EXCEPT !.width = w] : w \in PanelWidths}
             \cup {[NoPrefs EXCEPT !.bar = b] : b \in {"always", "hidden"}}

LayoutNext ==
  \/ \E w \in Widths : Resize(w)
  \/ toggleFullscreen \/ EnterHtmlFullScreen \/ LeaveHtmlFullScreen
  \/ EscapeInPage \/ EscapeInChrome
  \/ Settle \/ TimerFires \/ TakeInsets
  \/ \E toHome \in BOOLEAN : VisitInPane(toHome)
  \/ \E p \in Panes : ActivatePane(p)
  \/ StorePrefs \/ toggleBookmarkBar
  \/ ReceiveState \/ RendererResize \/ ToggleFind
  \/ \E p \in Patches : SetUi(p)

-----------------------------------------------------------------------------
Quiet ==
  /\ reported = window /\ timer = "off" /\ news = None /\ asked = None /\ patch = None
  /\ inner = window.width

(* Once everything has settled the page fills exactly what the chrome      *)
(* leaves of the window: no gap, and nothing of it over or under the       *)
(* chrome, in whatever order resizes, full screen, tabs, the find bar and  *)
(* preferences changed (scheduleLayout, setLayout, the layout effect).     *)
PageFillsTheRest ==
  Quiet /\ pane \notin home =>
    LET drawn == DrawnInsets(known, unconfirmed, find, inner) IN
    /\ known = Snapshot(pane, home, window.full, prefs)
    /\ bounds = [y |-> drawn.top, width |-> window.width - drawn.right]

(* Not what the code does: after the main process refused a preference,    *)
(* the renderer goes on drawing it (App.tsx: "Optimistic preferences stay  *)
(* only until the main process confirms them").                            *)
DrawsWhatIsStored == Quiet => Drawn(known.ui, unconfirmed) = prefs

(* Not what the code does: when the tab that took the full screen is not   *)
(* the one in front, Escape in the page does nothing.                      *)
EscapeLeaves == window.full /\ pane \notin home /\ pane # owner => owner = None

LayoutSpec == LayoutInit /\ [][LayoutNext]_layoutVars
=============================================================================
