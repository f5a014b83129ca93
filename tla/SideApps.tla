------------------------------ MODULE SideApps ------------------------------
(***************************************************************************)
(* The remote apps of the side panel (electron/side-apps.ts,               *)
(* electron/side-app-registry.ts): each has a view and a partition of its  *)
(* own, and stays beside the page, on its own hosts and out of Banking.    *)
(***************************************************************************)
EXTENDS Spaces

CONSTANT Apps

VARIABLES
  appView,     \* each app's view: None, or whether it is shown and where it is
  requestedAt, \* apps whose slot the renderer has reported, and fits
  tool,        \* the app selected in the open side panel, or None
  covered,     \* why no app may be seen: hidden by a menu or Banking, the full screen
  fullScreen,  \* the window is in full screen, which isFullScreen() may report late
  lastLayout,  \* what layout() was told last, or None
  clearStage,  \* clearData() under way: what it clears next, or None
  used         \* apps whose partition holds something

sideVars == <<appView, requestedAt, tool, covered, fullScreen, lastLayout, clearStage, used>>

Reasons == {"hidden", "full"}
Places == {"own", "elsewhere"}
AppView == [shown : BOOLEAN, at : Places, loaded : BOOLEAN, stale : BOOLEAN]
Layout == [suppressed : BOOLEAN, active : Apps \cup {None}]
Parts == {"storage", "cache", "auth", "report"}

ASSUME SideAssumption == None \notin Apps \cup AppView \cup Layout \cup Parts

SideTypeOK ==
  /\ appView \in [Apps -> AppView \cup {None}]
  /\ requestedAt \in [Apps -> BOOLEAN]
  /\ tool \in Apps \cup {None} /\ covered \subseteq Reasons /\ fullScreen \in BOOLEAN
  /\ lastLayout \in Layout \cup {None}
  /\ clearStage \in [Apps -> Parts \cup {None}] /\ used \subseteq Apps

SideInit ==
  /\ appView = [a \in Apps |-> None] /\ requestedAt = [a \in Apps |-> FALSE]
  /\ tool = None /\ covered = {} /\ fullScreen = FALSE /\ lastLayout = None
  /\ clearStage = [a \in Apps |-> None] /\ used = {}

-----------------------------------------------------------------------------
(* A variant of Shows: every app that has a slot.                          *)
ShowsRequested(a, l, req) == ~l.suppressed /\ req[a]

\* layout(): the selected app, if nothing covers it and its slot is large enough
Shows(a, l, req) == ~l.suppressed /\ l.active = a /\ req[a]

\* ensureView(): a new view loads the app's home
Shown(v) ==
  IF v # None THEN [v EXCEPT !.shown = TRUE]
  ELSE [shown |-> TRUE, at |-> "own", loaded |-> FALSE, stale |-> FALSE]
HiddenView(v) == IF v # None THEN [v EXCEPT !.shown = FALSE] ELSE None

(* SideAppHost.layout() of every app; a view that is created while its     *)
(* partition is being cleared begins with what is left of it.              *)
LaidOut(views, l, req) ==
  [a \in Apps |-> IF ~Shows(a, l, req) THEN HiddenView(views[a])
                  ELSE IF views[a] = None /\ a \in used /\ clearStage[a] # None
                         THEN [Shown(None) EXCEPT !.stale = TRUE]
                  ELSE Shown(views[a])]

\* layoutSideApps(): what the browser's state asks for now
Placement(t, cov) == [suppressed |-> cov # {}, active |-> t]

Relayout(t, cov, req) ==
  /\ lastLayout' = Placement(t, cov)
  /\ appView' = LaidOut(appView, Placement(t, cov), req)

(* setUiPreferences(), setOverlayOpen(), switchWorkspace() and the other   *)
(* calls that end in showActiveTab(): each lays the side apps out.         *)
SelectTool(t) ==
  /\ t # tool /\ tool' = t /\ Relayout(t, covered, requestedAt)
  /\ UNCHANGED <<requestedAt, covered, fullScreen, clearStage, used>>

Cover(r, on) ==
  /\ r # "full" /\ covered' = IF on THEN covered \cup {r} ELSE covered \ {r}
  /\ covered' # covered /\ Relayout(tool, covered', requestedAt)
  /\ UNCHANGED <<requestedAt, tool, fullScreen, clearStage, used>>

\* the window-state event lays out at once; isFullScreen() may still say what was
FullScreenEvent(reported) ==
  /\ fullScreen' = ~fullScreen
  /\ covered' = IF ~reported THEN covered ELSE IF fullScreen' THEN covered \cup {"full"} ELSE covered \ {"full"}
  /\ Relayout(tool, covered', requestedAt)
  /\ UNCHANGED <<requestedAt, tool, clearStage, used>>

\* settleLayoutTimer
Settles ==
  /\ fullScreen # ("full" \in covered)
  /\ covered' = IF fullScreen THEN covered \cup {"full"} ELSE covered \ {"full"}
  /\ Relayout(tool, covered', requestedAt)
  /\ UNCHANGED <<requestedAt, tool, fullScreen, clearStage, used>>

\* setSideAppBounds() and clampSideAppBounds(), also of a slot that is gone by now
SetBounds(a, fit) ==
  /\ fit # requestedAt[a] /\ requestedAt' = [requestedAt EXCEPT ![a] = fit]
  /\ Relayout(tool, covered, requestedAt')
  /\ UNCHANGED <<tool, covered, fullScreen, clearStage, used>>

-----------------------------------------------------------------------------
\* did-stop-loading, did-fail-load, render-process-gone: what was loaded may leave something
ViewStatus(a, ready) ==
  /\ appView[a] # None /\ (ready => ~appView[a].loaded)
  /\ appView' = [appView EXCEPT ![a].loaded = ready]
  /\ used' = IF ready THEN used \cup {a} ELSE used
  /\ UNCHANGED <<requestedAt, tool, covered, fullScreen, lastLayout, clearStage>>

(* A variant of Stays: a redirect is not held back.                        *)
StaysUnlessRedirected(to, redirect) == to # "elsewhere" \/ redirect

(* will-navigate and will-redirect keep the view on the app's hosts: a     *)
(* link off them becomes a tab, or nothing in Banking.                     *)
Stays(to, redirect) == to # "elsewhere"

ViewNavigates(a, to, redirect) ==
  /\ appView[a] # None /\ Stays(to, redirect)
  /\ appView' = [appView EXCEPT ![a].at = to, ![a].loaded = FALSE]
  /\ UNCHANGED <<requestedAt, tool, covered, fullScreen, lastLayout, clearStage, used>>

-----------------------------------------------------------------------------
\* clearData(): the view goes at once, then what the partition holds, part by part
ClearData(a) ==
  /\ clearStage[a] = None
  /\ appView' = [appView EXCEPT ![a] = None]
  /\ clearStage' = [clearStage EXCEPT ![a] = "storage"]
  /\ UNCHANGED <<requestedAt, tool, covered, fullScreen, lastLayout, used>>

PartCleared(a) ==
  /\ clearStage[a] \in Parts \ {"report"}
  /\ clearStage' = [clearStage EXCEPT ![a] =
       CASE @ = "storage" -> "cache" [] @ = "cache" -> "auth" [] @ = "auth" -> "report"]
  /\ used' = IF clearStage[a] = "storage" THEN used \ {a} ELSE used
  /\ UNCHANGED <<appView, requestedAt, tool, covered, fullScreen, lastLayout>>

\* its last lines: "signed out", and the layout as it was told last
DataCleared(a) ==
  /\ clearStage[a] = "report" /\ clearStage' = [clearStage EXCEPT ![a] = None]
  /\ appView' = IF lastLayout # None THEN LaidOut(appView, lastLayout, requestedAt) ELSE appView
  /\ UNCHANGED <<requestedAt, tool, covered, fullScreen, lastLayout, used>>

SideNext ==
  \/ \E t \in Apps \cup {None} : SelectTool(t)
  \/ \E r \in Reasons, on \in BOOLEAN : Cover(r, on)
  \/ \E reported \in BOOLEAN : FullScreenEvent(reported)
  \/ Settles
  \/ \E a \in Apps :
       \/ \E fit \in BOOLEAN : SetBounds(a, fit)
       \/ \E ready \in BOOLEAN : ViewStatus(a, ready)
       \/ \E to \in Places, redirect \in BOOLEAN : ViewNavigates(a, to, redirect)
       \/ ClearData(a) \/ PartCleared(a) \/ DataCleared(a)

SideSpec == SideInit /\ [][SideNext]_sideVars

-----------------------------------------------------------------------------
(* What is seen of the side apps is the selected one, on its own hosts,    *)
(* and nothing in Banking or under a menu, whatever rectangle arrives late *)
(* and also after its data were cleared; in full screen nothing once the   *)
(* window has settled.                                                     *)
PanelOnly ==
  \A a \in Apps : appView[a] # None =>
    /\ appView[a].at # "elsewhere"
    /\ appView[a].shown => tool = a /\ covered = {} /\ requestedAt[a]

(* "signed out" (clearData()): no view goes on with what was in the        *)
(* partition before.  False: a layout during the clearing creates one.     *)
SignedOut == \A a \in Apps : appView[a] # None /\ appView[a].stale => clearStage[a] # None
=============================================================================
