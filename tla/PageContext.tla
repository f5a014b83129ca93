---------------------------- MODULE PageContext ----------------------------
(***************************************************************************)
(* What a tab is said to show and what it paints (electron/main.ts).  The  *)
(* address of a tab is stored when the user asks for it; the view goes on  *)
(* painting the old page until the new one commits, and for good when the  *)
(* navigation ends in a download or is stopped.  The generation stands for *)
(* webContentsId and navigationGeneration together.                        *)
(***************************************************************************)
EXTENDS Spaces

CONSTANTS
  TabIds,
  Sites,      \* the websites visited
  MaxLoads    \* bound on the navigations of a behaviour

ASSUME LoadsAssumption == MaxLoads \in Nat

VARIABLES page, inFront, loads

contextVars == <<page, inFront, loads>>

(* Two addresses of one site, a protected page and the mailbox.            *)
ASSUME SitesAssumption == Sites \subseteq {"shop", "shop-login", "bank", "mail"}
ASSUME PaintedAssumption == None \notin Sites

SameSite(s, t) == s = t \/ {s, t} = {"shop", "shop-login"}

\* isProtectedPage()
Protected(s) == s = "bank"

Load == [to : Sites, started : BOOLEAN]
TabState == [url : Sites, painted : Sites \cup {None}, load : Load \cup {None},
             gen : Nat, home : BOOLEAN, cert : BOOLEAN]

ContextTypeOK ==
  /\ page \in [TabIds -> TabState]
  /\ inFront \in TabIds
  /\ loads \in 0..MaxLoads

ContextInit ==
  /\ \E s \in Sites : page = [t \in TabIds |-> [url |-> s, painted |-> None, load |-> None,
                                             gen |-> 0, home |-> TRUE, cert |-> FALSE]]
  /\ inFront \in TabIds
  /\ loads = 0

-----------------------------------------------------------------------------
(* currentFillContext(): the page in front, if it paints what is stored.   *)
Current ==
  LET f == page[inFront] IN
  IF f.home \/ f.cert \/ f.painted = None \/ f.painted # f.url THEN None
  ELSE [tab |-> inFront, gen |-> f.gen, origin |-> f.painted]

Contexts == [tab : TabIds, gen : Nat, origin : Sites]

\* navigate(): the address is stored before the page loads
Visit(s) ==
  /\ loads < MaxLoads /\ loads' = loads + 1
  /\ page' = [page EXCEPT ![inFront].url = s, ![inFront].home = FALSE,
                        ![inFront].load = [to |-> s, started |-> FALSE]]
  /\ UNCHANGED inFront

\* a link or a script of the page
PageNavigates(t, s) ==
  /\ page[t].painted # None /\ page[t].load = None
  /\ loads < MaxLoads /\ loads' = loads + 1
  /\ page' = [page EXCEPT ![t].load = [to |-> s, started |-> FALSE]]
  /\ UNCHANGED inFront

\* did-start-navigation of the main frame
StartLoad(t) ==
  /\ page[t].load # None /\ ~page[t].load.started
  /\ page' = [page EXCEPT ![t].load.started = TRUE, ![t].gen = @ + 1, ![t].cert = FALSE]
  /\ UNCHANGED <<inFront, loads>>

\* did-navigate: commitNavigation() leaves a Home tab alone; a redirect ends elsewhere
Commit(t, s) ==
  /\ page[t].load # None /\ page[t].load.started
  /\ page' = [page EXCEPT ![t].painted = s, ![t].load = None,
                        ![t].url = IF page[t].home THEN @ ELSE s]
  /\ UNCHANGED <<inFront, loads>>

\* a download, an empty answer or the stop button: nothing commits
Abort(t) ==
  /\ page[t].load # None
  /\ page' = [page EXCEPT ![t].load = None]
  /\ UNCHANGED <<inFront, loads>>

\* navigate('private://home'); a commit under way may still arrive
GoHome ==
  /\ ~page[inFront].home
  /\ \E stopped \in BOOLEAN :
       page' = [page EXCEPT ![inFront].home = TRUE,
                 ![inFront].load = IF stopped \/ @ = None \/ ~@.started THEN None ELSE @]
  /\ UNCHANGED <<inFront, loads>>

\* certificate-error: of the page or of something it loads
CertificateError(t) ==
  /\ page[t].painted # None \/ page[t].load # None
  /\ ~page[t].cert
  /\ page' = [page EXCEPT ![t].cert = TRUE]
  /\ UNCHANGED <<inFront, loads>>

\* activateTab() and showActiveTab(): a page that was never painted loads
Activate(t) ==
  /\ t # inFront /\ inFront' = t
  /\ IF page[t].home \/ page[t].painted # None \/ page[t].load # None
       THEN UNCHANGED <<page, loads>>
       ELSE /\ loads < MaxLoads /\ loads' = loads + 1
            /\ page' = [page EXCEPT ![t].load = [to |-> page[t].url, started |-> FALSE]]
=============================================================================
