------------------------------ MODULE PageCover ------------------------------
(***************************************************************************)
(* Menus and dialogs over the page (electron/main.ts: setOverlayOpen,      *)
(* freezeContent, showActiveTab, hideAllViews; src/App.tsx: the overlay    *)
(* effect; src/shell/overlay.tsx).  A native view paints above everything  *)
(* the chrome draws, so the renderer asks for a still image of the page,   *)
(* draws it, and has the view hidden; when the last layer closes the view  *)
(* is shown again.  Requests of the renderer reach the main process in     *)
(* order, and its answers and state changes reach the renderer in order.   *)
(***************************************************************************)
EXTENDS PageContext, Sequences

CONSTANTS
  MaxLayers,   \* bound on the menus and dialogs open at once
  MaxAsks,     \* bound on the calls on their way when the user opens a menu
  MaxDuring    \* navigations of a page that commit during one capture of it

VARIABLES
  visible,   \* the tabs whose native view is shown
  covered,   \* overlayOpen of the main process
  layers,    \* overlayCount and the dialogs of the renderer
  phase,     \* where the renderer's overlay effect is
  shot,      \* the capture under way
  frame,     \* the still image the renderer draws
  asks       \* calls of setOverlayOpen() on their way

coverVars == <<visible, covered, layers, phase, shot, frame, asks>>

Image == [tab : TabIds, site : Sites]
Shot == [tab : TabIds, before : Sites, image : Sites \cup {None}, during : 0..MaxDuring]

ASSUME CoverAssumption == MaxLayers \in Nat /\ MaxDuring \in Nat /\ None \notin Image \cup Shot

\* "hiding" waits for the main process, "ready" shows the menu
Phases == {"closed", "freezing", "painting", "hiding", "ready"}

CoverTypeOK ==
  /\ visible \in SUBSET TabIds
  /\ covered \in BOOLEAN
  /\ layers \in 0..MaxLayers
  /\ phase \in Phases
  /\ shot \in Shot \cup {None}
  /\ frame \in Image \cup {None}
  /\ asks \in Seq(BOOLEAN)

CoverInit ==
  /\ ContextInit
  /\ visible = {} /\ covered = FALSE
  /\ layers = 0 /\ phase = "closed"
  /\ shot = None /\ frame = None /\ asks = << >>

-----------------------------------------------------------------------------
(* The renderer.                                                           *)

\* acquireOverlay(), an account dialog, the vault, a permission prompt
OpenLayer ==
  /\ layers < MaxLayers /\ layers' = layers + 1
  /\ Len(asks) < MaxAsks
  /\ phase' = IF layers = 0 THEN "freezing" ELSE phase
  /\ UNCHANGED <<visible, covered, shot, frame, asks, contextVars>>

\* A bug: the effect that was cancelled goes on after the next paint.
CloseLayerLate ==
  /\ layers > 0 /\ layers' = layers - 1
  /\ IF layers = 1
       THEN /\ phase' = "closed" /\ shot' = None
            /\ asks' = asks \o (IF phase = "painting" THEN <<FALSE, TRUE>> ELSE <<FALSE>>)
       ELSE UNCHANGED <<phase, shot, asks>>
  /\ UNCHANGED <<visible, covered, frame, contextVars>>

\* The effect is cancelled: what freezeContent() still answers is not used.
CloseLayer ==
  /\ layers > 0 /\ layers' = layers - 1
  /\ IF layers = 1
       THEN phase' = "closed" /\ shot' = None /\ asks' = Append(asks, FALSE)
       ELSE UNCHANGED <<phase, shot, asks>>
  /\ UNCHANGED <<visible, covered, frame, contextVars>>

\* after nextPaint()
AskToHide ==
  /\ phase = "painting" /\ phase' = "hiding"
  /\ asks' = Append(asks, TRUE)
  /\ UNCHANGED <<visible, covered, layers, shot, frame, contextVars>>

\* the last setOverlayOpen(false) is answered
DropFrame ==
  /\ phase = "closed" /\ asks = << >> /\ frame # None
  /\ frame' = None
  /\ UNCHANGED <<visible, covered, layers, phase, shot, asks, contextVars>>

-----------------------------------------------------------------------------
(* The main process.                                                       *)

MayFreeze ==
  LET f == page[inFront] IN
  /\ ~f.home /\ inFront \in visible
  /\ ~Protected(f.url)
  /\ f.load = None
  /\ f.painted # None /\ ~Protected(f.painted)

\* freezeContent() up to capturePage(); without an image the backdrop is neutral
FreezeContent ==
  /\ phase = "freezing" /\ shot = None /\ asks = << >>
  /\ IF MayFreeze
       THEN /\ shot' = [tab |-> inFront, before |-> page[inFront].painted, image |-> None,
                       during |-> 0]
            /\ UNCHANGED <<phase, frame>>
       ELSE phase' = "painting" /\ frame' = None /\ UNCHANGED shot
  /\ UNCHANGED <<visible, covered, layers, asks, contextVars>>

\* the compositor copies what is painted at some moment of the capture
Expose ==
  /\ shot # None /\ shot.image = None
  /\ shot' = [shot EXCEPT !.image = page[shot.tab].painted]
  /\ UNCHANGED <<visible, covered, layers, phase, frame, asks, contextVars>>

\* A bug: what was captured is answered, whatever happened meanwhile.
AnswerUnchecked ==
  /\ shot # None /\ shot.image # None
  /\ frame' = [tab |-> shot.tab, site |-> shot.image]
  /\ shot' = None /\ phase' = "painting"
  /\ UNCHANGED <<visible, covered, layers, asks, contextVars>>

\* the image is answered unless the page has changed; it may also come out empty
AnswerFrame ==
  /\ shot # None /\ shot.image # None
  /\ \E empty \in BOOLEAN :
       frame' = IF \/ empty \/ page[shot.tab].painted # shot.before
                   \/ Protected(page[shot.tab].painted)
                  THEN None ELSE [tab |-> shot.tab, site |-> shot.image]
  /\ shot' = None /\ phase' = "painting"
  /\ UNCHANGED <<visible, covered, layers, asks, contextVars>>

Handled == asks' = Tail(asks)

\* setOverlayOpen(true) hides every view
Hide ==
  /\ asks # << >> /\ Head(asks) /\ Handled
  /\ covered' = TRUE /\ visible' = {}
  /\ phase' = IF phase = "hiding" /\ Len(asks) = 1 THEN "ready" ELSE phase
  /\ UNCHANGED <<layers, shot, frame, contextVars>>

\* setOverlayOpen(false): showActiveTab(), which loads a page never painted
Uncover ==
  /\ asks # << >> /\ ~Head(asks) /\ Handled
  /\ covered' = FALSE
  /\ LET f == page[inFront] IN
     /\ visible' = IF f.home THEN visible ELSE visible \cup {inFront}
     /\ IF f.home \/ f.painted # None \/ f.load # None
          THEN UNCHANGED <<page, loads>>
          ELSE /\ loads < MaxLoads /\ loads' = loads + 1
               /\ page' = [page EXCEPT ![inFront].load = [to |-> f.url, started |-> FALSE]]
  /\ UNCHANGED <<layers, phase, shot, frame, inFront>>

-----------------------------------------------------------------------------
(* Tabs and pages go on under an open menu: a shortcut, another program or *)
(* the page itself.                                                        *)

\* navigate() shows the view
VisitShown(s) ==
  /\ Visit(s)
  /\ visible' = visible \cup {inFront}
  /\ UNCHANGED <<covered, layers, phase, shot, frame, asks>>

GoHomeHidden ==
  /\ GoHome
  /\ visible' = visible \ {inFront}
  /\ UNCHANGED <<covered, layers, phase, shot, frame, asks>>

\* activateTab(): hideAllViews(), then showActiveTab(); the renderer drops the image
ActivateShown(t) ==
  /\ Activate(t)
  /\ visible' = IF page[t].home THEN {} ELSE {t}
  /\ frame' = None
  /\ UNCHANGED <<covered, layers, phase, shot, asks>>

PageMoves ==
  /\ \/ \E t \in TabIds, s \in Sites : PageNavigates(t, s)
     \/ \E t \in TabIds : StartLoad(t) \/ Abort(t)
  /\ UNCHANGED coverVars

CommitSeen(t, s) ==
  /\ Commit(t, s)
  /\ IF shot # None /\ shot.tab = t
       THEN shot.during < MaxDuring /\ shot' = [shot EXCEPT !.during = @ + 1]
       ELSE UNCHANGED shot
  /\ UNCHANGED <<visible, covered, layers, phase, frame, asks>>

CoverNext ==
  \/ OpenLayer \/ CloseLayer \/ AskToHide \/ DropFrame
  \/ FreezeContent \/ Expose \/ AnswerFrame
  \/ Hide \/ Uncover
  \/ \E s \in Sites : VisitShown(s)
  \/ GoHomeHidden
  \/ \E t \in TabIds : ActivateShown(t)
  \/ PageMoves
  \/ \E t \in TabIds, s \in Sites : CommitSeen(t, s)

CoverSpec == CoverInit /\ [][CoverNext]_<<contextVars, coverVars>>

-----------------------------------------------------------------------------
(* No pixel of a protected page reaches the chrome renderer, though the    *)
(* page may navigate while it is captured (freezeContent: "protected pages *)
(* never leave pixels in the chrome renderer").  It compares addresses and *)
(* not navigations, so this takes at most one navigation to commit within  *)
(* a capture: away and back would go unnoticed.                            *)
FrozenUnprotected == frame # None => ~Protected(frame.site)

(* When no menu is open and every request is handled, the page in front is *)
(* shown: however fast menus open and close, none leaves the page hidden.  *)
(* No other tab's view is ever shown (setOverlayOpen, hideAllViews).       *)
UncoveredShows ==
  /\ visible \subseteq {inFront}
  /\ phase = "closed" /\ asks = << >> /\ ~page[inFront].home => inFront \in visible

(* Not what the code does: a tab that is activated or navigated while a    *)
(* menu is open shows its view over the menu (overlay.tsx: a layer "must   *)
(* hide the native page view first").                                      *)
NothingOverMenu == phase = "ready" => visible = {}

(* Not what the code does: a capture that was started in one tab is        *)
(* answered after another one came to the front, and drawn there.          *)
FrozenIsFront == frame # None => frame.tab = inFront
=============================================================================
