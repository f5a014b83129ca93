----------------------------- MODULE PageFills -----------------------------
(***************************************************************************)
(* Filling a saved login and capturing a typed one (electron/main.ts and   *)
(* electron/myvault/): the side panel's Fill with its confirmation, the    *)
(* login picker, automatic fill and Save from page.  Each takes the page's *)
(* context, waits for the page or the user, and takes the context again.   *)
(* The script of a fill runs in the document it is sent to, or nowhere.    *)
(***************************************************************************)
EXTENDS PageContext

CONSTANT MaxFills   \* bound on the calls that wait for a page at a time

VARIABLES
  unlocked,   \* the vault's lifecycle
  probes,     \* openFillPicker() calls that wait for the page: their contexts
  picker,     \* context of the open list, or None
  dialog,     \* the confirmation that is open: [kind, context, read], or None
  reading,    \* requestSaveFromPage() waiting for the page: [context, read], or None
  autos,      \* tryAutomaticFill() calls that wait for the page: their contexts
  fillPending, \* automaticFillPending
  autoDone,   \* automaticFillGeneration
  secret      \* history: what last went into a page or came from one, or None

fillVars == <<unlocked, probes, picker, dialog, reading, autos, fillPending, autoDone, secret>>
pageFillVars == <<contextVars, fillVars>>

(* The one login of the vault belongs to this site.                        *)
Saved == "shop"

Ways == {"panel", "picker", "automatic", "capture"}
Secret == [way : Ways, seen : Sites, at : Sites]
Dialog == [kind : {"confirm-fill", "confirm-capture"}, context : Contexts, read : Sites]

ASSUME FillsAssumption == None \notin Contexts \cup Dialog \cup Secret

FillsTypeOK ==
  /\ ContextTypeOK
  /\ unlocked \in BOOLEAN
  /\ probes \subseteq Contexts /\ picker \in Contexts \cup {None}
  /\ dialog \in Dialog \cup {None}
  /\ reading \in [context : Contexts, read : Sites] \cup {None}
  /\ autos \subseteq Contexts /\ fillPending \subseteq TabIds
  /\ autoDone \in [TabIds -> Nat \cup {None}]
  /\ secret \in Secret \cup {None}

FillsInit ==
  /\ ContextInit
  /\ unlocked = TRUE /\ probes = {} /\ picker = None /\ dialog = None /\ reading = None
  /\ autos = {} /\ fillPending = {} /\ autoDone = [t \in TabIds |-> None] /\ secret = None

Waiting == Cardinality(probes) + Cardinality(autos) + (IF reading = None THEN 0 ELSE 1)

Moved(way, context) == [way |-> way, seen |-> context.origin, at |-> page[inFront].painted]

-----------------------------------------------------------------------------
(* A variant of SameContext: the tab and its navigation, not the origin.   *)
SameNavigation(context) ==
  /\ ~page[inFront].home /\ page[inFront].painted # None
  /\ context.tab = inFront /\ context.gen = page[inFront].gen

(* The context is what it was; the capability's redemption compares the    *)
(* same fields once more.                                                  *)
SameContext(context) == Current # None /\ context = Current

\* which saved logins a way of filling may use on this page
Fits(way, origin) == IF way = "picker" THEN SameSite(Saved, origin) ELSE Saved = origin

\* fillEntryInto(): nothing is awaited between the last check and the injection
FillEntryInto(way, context) ==
  IF unlocked /\ SameContext(context) /\ Fits(way, context.origin)
    THEN /\ secret' = Moved(way, context)
         /\ autoDone' = [autoDone EXCEPT ![context.tab] = context.gen]
    ELSE UNCHANGED <<secret, autoDone>>

(* autofill(): Banking asks first.                                         *)
Fill(confirm) ==
  /\ Current # None /\ dialog = None
  /\ IF confirm
       THEN /\ dialog' = [kind |-> "confirm-fill", context |-> Current, read |-> Current.origin]
            /\ UNCHANGED <<secret, autoDone>>
       ELSE FillEntryInto("panel", Current) /\ UNCHANGED dialog
  /\ UNCHANGED <<contextVars, unlocked, probes, picker, reading, autos, fillPending>>

\* requestSaveFromPage(), up to the page's answer
Capture ==
  /\ Current # None /\ reading = None /\ Waiting < MaxFills
  /\ reading' = [context |-> Current, read |-> Current.origin]
  /\ UNCHANGED <<contextVars, unlocked, probes, picker, dialog, autos, fillPending, autoDone, secret>>

\* the page has answered: the same page still, and the user confirms
Captured ==
  /\ reading # None
  /\ dialog' = IF SameContext(reading.context) /\ dialog = None
               THEN [kind |-> "confirm-capture", context |-> reading.context, read |-> reading.read]
               ELSE dialog
  /\ reading' = None
  /\ UNCHANGED <<contextVars, unlocked, probes, picker, autos, fillPending, autoDone, secret>>

AnswerDialog(confirmed) ==
  /\ dialog # None /\ dialog' = None
  /\ IF ~confirmed THEN UNCHANGED <<secret, autoDone>>
     ELSE IF dialog.kind = "confirm-fill" THEN FillEntryInto("panel", dialog.context)
     ELSE /\ secret' = IF unlocked
               THEN [way |-> "capture", seen |-> dialog.context.origin, at |-> dialog.read]
               ELSE secret
          /\ UNCHANGED autoDone
  /\ UNCHANGED <<contextVars, unlocked, probes, picker, reading, autos, fillPending>>

-----------------------------------------------------------------------------
(* openFillPicker(), up to the probe of the focused field.                 *)
OpenFillPicker ==
  /\ unlocked /\ Current # None /\ Fits("picker", Current.origin) /\ Waiting < MaxFills
  /\ probes' = probes \cup {Current}
  /\ UNCHANGED <<contextVars, unlocked, picker, dialog, reading, autos, fillPending, autoDone, secret>>

\* the field is found: the list is shown if the context is what it was
Probed(context, field) ==
  /\ context \in probes /\ probes' = probes \ {context}
  /\ picker' = IF field /\ SameContext(context) THEN context ELSE picker
  /\ UNCHANGED <<contextVars, unlocked, dialog, reading, autos, fillPending, autoDone, secret>>

\* a row is clicked, or chosen with Enter: the session is spent whatever comes of it
Choose ==
  /\ picker # None /\ picker' = None
  /\ FillEntryInto("picker", picker)
  /\ UNCHANGED <<contextVars, unlocked, probes, dialog, reading, autos, fillPending>>

\* Escape, another key, a scroll, a click elsewhere or the idle timer
ClosePicker ==
  /\ picker # None /\ picker' = None
  /\ UNCHANGED <<contextVars, unlocked, probes, dialog, reading, autos, fillPending, autoDone, secret>>

-----------------------------------------------------------------------------
(* tryAutomaticFill(), one of the retries scheduled for a page, up to the  *)
(* page's answer.  The page's script fills an empty sign-in form only.     *)
TryAutomaticFill ==
  /\ unlocked /\ Current # None /\ Waiting < MaxFills
  /\ autoDone[inFront] # Current.gen /\ inFront \notin fillPending
  /\ Fits("automatic", Current.origin)
  /\ fillPending' = fillPending \cup {inFront} /\ autos' = autos \cup {Current}
  /\ \E accepts \in BOOLEAN : secret' = IF accepts THEN Moved("automatic", Current) ELSE secret
  /\ UNCHANGED <<contextVars, unlocked, probes, picker, dialog, reading, autoDone>>

\* the finally block clears the flag of whatever generation is pending by now
AutomaticFillEnds(context, form) ==
  /\ context \in autos /\ autos' = autos \ {context}
  /\ fillPending' = fillPending \ {context.tab}
  /\ autoDone' = IF form /\ SameContext(context) THEN [autoDone EXCEPT ![context.tab] = context.gen]
                 ELSE autoDone
  /\ UNCHANGED <<contextVars, unlocked, probes, picker, dialog, reading, secret>>

-----------------------------------------------------------------------------
(* A variant of PickerAfterStart: the list stays.                          *)
PickerStays(t) == picker

\* did-start-navigation closes the list made for this tab
PickerAfterStart(t) == IF picker # None /\ picker.tab = t THEN None ELSE picker

\* the navigation starts: no fill of the tab is pending or done, and no dialog is open
FillStartLoad(t) ==
  /\ StartLoad(t)
  /\ picker' = PickerAfterStart(t)
  /\ dialog' = None
  /\ fillPending' = fillPending \ {t} /\ autoDone' = [autoDone EXCEPT ![t] = None]
  /\ UNCHANGED <<unlocked, probes, reading, autos, secret>>

\* hideAllViews() and markCertificateError() close the list
ClosesPicker(A) ==
  /\ A /\ picker' = None
  /\ UNCHANGED <<unlocked, probes, dialog, reading, autos, fillPending, autoDone, secret>>

\* lockVault() closes the dialogs, and the vault's listener the list
LockVault ==
  /\ unlocked /\ unlocked' = FALSE
  /\ picker' = None /\ dialog' = None
  /\ UNCHANGED <<contextVars, probes, reading, autos, fillPending, autoDone, secret>>

UnlockVault ==
  /\ ~unlocked /\ unlocked' = TRUE
  /\ UNCHANGED <<contextVars, probes, picker, dialog, reading, autos, fillPending, autoDone, secret>>

FillsNext ==
  \/ \E b \in BOOLEAN : Fill(b) \/ AnswerDialog(b)
  \/ Capture \/ Captured
  \/ OpenFillPicker \/ Choose \/ ClosePicker
  \/ \E c \in probes, b \in BOOLEAN : Probed(c, b)
  \/ TryAutomaticFill
  \/ \E c \in autos, b \in BOOLEAN : AutomaticFillEnds(c, b)
  \/ \E s \in Sites : Visit(s) /\ UNCHANGED fillVars
  \/ \E t \in TabIds :
       \/ FillStartLoad(t)
       \/ Abort(t) /\ UNCHANGED fillVars
       \/ ClosesPicker(CertificateError(t)) \/ ClosesPicker(Activate(t))
       \/ \E s \in Sites : (PageNavigates(t, s) \/ Commit(t, s)) /\ UNCHANGED fillVars
  \/ GoHome /\ UNCHANGED fillVars
  \/ LockVault \/ UnlockVault

FillsSpec == FillsInit /\ [][FillsNext]_pageFillVars

-----------------------------------------------------------------------------
(* A password goes only into a page of the site the user saw when the fill *)
(* began, and only where that way of filling may put it; one typed in a    *)
(* page is saved under the site it was typed in.  Navigations, tab         *)
(* switches and dialogs fall between the two.  The login list on the       *)
(* screen is of the tab in front, of the navigation it made and of a page  *)
(* whose certificate is good.                                              *)
SecretsWhereSeen ==
  /\ secret # None => /\ secret.at = secret.seen
                      /\ secret.way # "capture" => Fits(secret.way, secret.at)
  /\ picker # None =>
       picker.tab = inFront /\ picker.gen = page[inFront].gen /\ ~page[inFront].cert

(* "A locked vault, a navigation or a vanished field just means no list."  *)
(* (main.ts, openFillPicker)                                               *)
NoListWhenLocked == picker # None => unlocked
=============================================================================
