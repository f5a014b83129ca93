--------------------------- MODULE BridgeSessions ---------------------------
(***************************************************************************)
(* The VS Code bridge: the server in the browser's main process            *)
(* (electron/vscode-bridge.ts) and the clients in the VS Code windows      *)
(* (vscode-extension/src/bridge-client.ts), over named-pipe sockets.       *)
(*                                                                         *)
(* Both sides are single threaded.  A socket carries frames in order; the  *)
(* end that destroys it reads nothing more, and what it wrote may or may   *)
(* not arrive.  Peers are honest, so signatures, the challenge and the     *)
(* keys always fit and a hello is the code it carries.  The pipe accepts   *)
(* a connection at once.  All windows share one identity and remember the  *)
(* browser in common, as the extension's secrets do.                       *)
(***************************************************************************)
EXTENDS Integers, Sequences, FiniteSets, Functions, Absent

CONSTANTS
  Windows,      \* VS Code windows
  MaxSockets,   \* bound: sockets that exist at one time
  MaxRequests,  \* bound: requests the browser makes
  MaxExpired,   \* MAX_EXPIRED_IDS, 200 in the code
  MaxAttempts,  \* pairing attempts for one code, 5 in the code
  MaxEvents,    \* bound: frames after which a window sends no more events
  MaxCommands   \* bound: user commands, expiries and handshake timeouts

Sockets  == 1 .. MaxSockets
Requests == 1 .. MaxRequests
Codes    == {"code", "wrong"}
Hellos   == Codes \cup {"plain"}

Session  == [sock : Sockets, in : Nat, out : Nat, fresh : BOOLEAN]

ASSUME BridgeAssumption ==
  /\ MaxSockets \in Nat /\ MaxRequests \in Nat /\ MaxExpired \in Nat
  /\ MaxAttempts \in Nat /\ MaxEvents \in Nat /\ MaxCommands \in Nat
  /\ None \notin Windows /\ None \notin Session /\ None \notin Sockets /\ None \notin Hellos

VARIABLES
  conn,       \* the sockets: both ends and the frames under way
  session,    \* the browser's session
  pairing,    \* attempts made with the pairing code shown, None without one
  trusted,    \* the browser trusts the extension's identity
  error,      \* the browser shows an error instead of the session
  request,    \* what became of each request of the browser
  expired,    \* requests given up whose late answers are dropped, oldest first
  client,     \* the client of each window
  remembered, \* the extension remembers the browser's key
  commands,   \* how many commands, expiries and timeouts there were
  torn,       \* history: the browser refused a frame of its session
  skipped     \* history: a client refused a frame of its session

browser == <<session, pairing, trusted, error, request, expired>>
vars == <<conn, session, pairing, trusted, error, request, expired, client,
          remembered, commands, torn, skipped>>

NoConn == [window |-> None, hello |-> "plain", near |-> "gone", far |-> "gone",
           up |-> <<>>, down |-> <<>>]

NoClient == [sock |-> None, keyed |-> FALSE, stage |-> None, busy |-> FALSE,
             in |-> 0, out |-> 0, chunk |-> None, work |-> {}]

Init ==
  /\ conn = [s \in Sockets |-> NoConn]
  /\ session = None
  /\ pairing = None
  /\ trusted \in BOOLEAN
  /\ error = FALSE
  /\ request = [r \in Requests |-> "new"]
  /\ expired = <<>>
  /\ client = [w \in Windows |-> NoClient]
  /\ remembered = trusted
  /\ commands = 0
  /\ torn = FALSE /\ skipped = FALSE

Command == commands < MaxCommands /\ commands' = commands + 1

-----------------------------------------------------------------------------
(* The browser.  near is its end of a socket: "new" until the hello was    *)
(* read, then "ready", "closing" between destroy() and the close event.    *)

\* socket.destroy() on the browser's side
NearDestroyed(c) ==
  IF c.near \in {"new", "ready"} THEN [c EXCEPT !.near = "closing", !.up = <<>>] ELSE c

\* a socket neither end holds any more
Freed(c) == IF c.near = "gone" /\ c.far = "gone" THEN NoConn ELSE c

Pending == {r \in Requests : request[r] = "pending"}

(* A variant of CloseSession that tells nobody who waits.                  *)
CloseSessionOnly ==
  /\ session' = None
  /\ UNCHANGED request
  /\ IF session = None THEN UNCHANGED conn
       ELSE conn' = [conn EXCEPT ![session.sock] = NearDestroyed(@)]

\* closeSession(): the session's socket is destroyed, pending requests fail
CloseSession ==
  /\ session' = None
  /\ request' = [r \in Requests |-> IF r \in Pending THEN "failed" ELSE request[r]]
  /\ IF session = None THEN UNCHANGED conn
       ELSE conn' = [conn EXCEPT ![session.sock] = NearDestroyed(@)]

(* beginPairing(): a new code; one typed or sent before is now wrong.      *)
BeginPairing ==
  /\ Command
  /\ pairing' = 0 /\ error' = FALSE
  /\ conn' = [s \in Sockets |-> IF conn[s].hello = "code" /\ conn[s].near = "new"
                                  THEN [conn[s] EXCEPT !.hello = "wrong"] ELSE conn[s]]
  /\ client' = [w \in Windows |-> IF client[w].stage = "code"
                                    THEN [client[w] EXCEPT !.stage = "wrong"] ELSE client[w]]
  /\ UNCHANGED <<session, trusted, request, expired, remembered, torn, skipped>>

PairingExpires ==
  /\ pairing # None
  /\ pairing' = None
  /\ UNCHANGED <<conn, session, trusted, error, request, expired, client, remembered,
                 commands, torn, skipped>>

(* handleHello().                                                          *)
\* the code is used up by a right attempt, and by one too many
PairingAfter(hello) ==
  IF hello = "plain" \/ pairing = None THEN pairing
  ELSE IF hello = "code" \/ pairing >= MaxAttempts THEN None ELSE pairing + 1

(* A variant of Known that lets every identity in.                         *)
KnownAnyway(hello) ==
  hello = "plain" \/ (hello = "code" /\ pairing # None /\ pairing < MaxAttempts)

Known(hello) ==
  IF hello = "plain" THEN trusted
  ELSE hello = "code" /\ pairing # None /\ pairing < MaxAttempts

(* A variant of HeldFrom by which any window may take the session.         *)
HeldFromNobody(c) == FALSE

\* another window holds a session whose heartbeats keep arriving
HeldFrom(c) ==
  /\ session # None /\ c.hello = "plain"
  /\ conn[session.sock].window # c.window /\ session.fresh

(* A variant of SessionWorks by which every refusal is an error.           *)
NeverWorks(s) == FALSE

\* "Refused a connection" is shown as an activity, not as an error
SessionWorks(s) ==
  session # None /\ session.sock # s /\ conn[session.sock].near = "ready"

RefuseHello(s) ==
  /\ conn[s].near = "new"
  /\ ~Known(conn[s].hello) \/ HeldFrom(conn[s])
  /\ pairing' = PairingAfter(conn[s].hello)
  /\ error' = (error \/ (~Known(conn[s].hello) /\ ~SessionWorks(s)))
  /\ conn' = [conn EXCEPT ![s].near = "closing"]
  /\ UNCHANGED <<session, trusted, request, expired, client, remembered, commands, torn, skipped>>

Welcome == [kind |-> "welcome", no |-> 0, req |-> 0]

AcceptHello(s) ==
  LET welcomed == [conn[s] EXCEPT !.near = "ready", !.down = <<Welcome>>] IN
  /\ conn[s].near = "new"
  /\ Known(conn[s].hello) /\ ~HeldFrom(conn[s])
  /\ pairing' = PairingAfter(conn[s].hello)
  /\ trusted' = (trusted \/ conn[s].hello # "plain")
  /\ error' = FALSE
  /\ request' = [r \in Requests |-> IF r \in Pending THEN "failed" ELSE request[r]]
  /\ session' = [sock |-> s, in |-> 0, out |-> 0, fresh |-> TRUE]
  /\ IF session = None THEN conn' = [conn EXCEPT ![s] = welcomed]
       ELSE conn' = [conn EXCEPT ![session.sock] = NearDestroyed(@), ![s] = welcomed]
  /\ UNCHANGED <<expired, client, remembered, commands, torn, skipped>>

(* handleSecure(): the frames of the session, in order.                    *)
Acceptable(f) ==
  /\ f.no = session.in
  /\ f.kind = "answer" => f.req \in Pending \cup Range(expired)

\* a set that forgets its oldest element keeps the order of the others
Dropped(r) ==
  LET i == CHOOSE x \in 1 .. Len(expired) : expired[x] = r
  IN  SubSeq(expired, 1, i - 1) \o SubSeq(expired, i + 1, Len(expired))

HandleFrame(s) ==
  LET f == Head(conn[s].up) IN
  /\ conn[s].near = "ready" /\ conn[s].up # <<>>
  /\ session # None /\ session.sock = s /\ Acceptable(f)
  /\ conn' = [conn EXCEPT ![s].up = Tail(@)]
  /\ session' = [session EXCEPT !.in = @ + 1, !.fresh = TRUE]
  /\ IF f.kind = "answer" /\ f.req \in Pending
       THEN request' = [request EXCEPT ![f.req] = "answered"] /\ UNCHANGED expired
       ELSE UNCHANGED request /\ expired' = IF f.kind = "answer" THEN Dropped(f.req) ELSE expired
  /\ UNCHANGED <<pairing, trusted, error, client, remembered, commands, torn, skipped>>

RefuseFrame(s) ==
  /\ conn[s].near = "ready" /\ conn[s].up # <<>>
  /\ session # None /\ session.sock = s => ~Acceptable(Head(conn[s].up))
  /\ conn' = [conn EXCEPT ![s] = NearDestroyed(@)]
  /\ error' = (error \/ ~SessionWorks(s))
  /\ torn' = TRUE
  /\ UNCHANGED <<session, pairing, trusted, request, expired, client, remembered, commands, skipped>>

(* request(), and its timeout.                                             *)
Request(r) ==
  /\ session # None /\ conn[session.sock].near = "ready"
  /\ request[r] = "new" /\ \A x \in 1 .. r - 1 : request[x] # "new"
  /\ request' = [request EXCEPT ![r] = "pending"]
  /\ session' = [session EXCEPT !.out = @ + 1]
  /\ conn' = [conn EXCEPT ![session.sock].down =
                IF conn[session.sock].far = "open"
                  THEN Append(@, [kind |-> "request", no |-> session.out, req |-> r]) ELSE @]
  /\ UNCHANGED <<pairing, trusted, error, expired, client, remembered, commands, torn, skipped>>

(* Variants of Expiring that keep every identifier, and none.              *)
ExpiringAll(r) == Append(expired, r)

ExpiringNone(r) == expired

\* the oldest identifier is forgotten when there are too many
Expiring(r) ==
  LET q == Append(expired, r) IN IF Len(q) > MaxExpired THEN Tail(q) ELSE q

TimeOut(r) ==
  /\ r \in Pending
  /\ request' = [request EXCEPT ![r] = "expired"]
  /\ expired' = Expiring(r)
  /\ UNCHANGED <<conn, session, pairing, trusted, error, client, remembered, commands, torn, skipped>>

(* disconnect(revoke).                                                     *)
DisconnectBrowser(revoke) ==
  /\ Command
  /\ CloseSession
  /\ trusted' = (trusted /\ ~revoke)
  /\ UNCHANGED <<pairing, error, expired, client, remembered, torn, skipped>>

\* the timer of SESSION_TTL_MS
SessionExpires ==
  /\ session # None /\ Command
  /\ CloseSession
  /\ UNCHANGED <<pairing, trusted, error, expired, client, remembered, torn, skipped>>

\* accept(): no hello within 30 s
HandshakeTimesOut(s) ==
  /\ conn[s].near = "new" /\ Command
  /\ conn' = [conn EXCEPT ![s] = NearDestroyed(@)]
  /\ UNCHANGED <<browser, client, remembered, torn, skipped>>

(* The close event: after destroy(), or after the peer's, with whatever of *)
(* the peer's last frames, its hello among them, did not arrive.           *)
NearCloses(s) ==
  /\ \/ conn[s].near = "closing"
     \/ conn[s].near \in {"new", "ready"} /\ conn[s].far # "open"
  /\ conn' = [conn EXCEPT ![s] = Freed([@ EXCEPT !.near = "gone", !.up = <<>>])]
  /\ IF session # None /\ session.sock = s
       THEN /\ session' = None
            /\ request' = [r \in Requests |-> IF r \in Pending THEN "failed" ELSE request[r]]
       ELSE UNCHANGED <<session, request>>
  /\ UNCHANGED <<pairing, trusted, error, expired, client, remembered, commands, torn, skipped>>

(* SESSION_LIVE_MS without a heartbeat: because nobody sends them, or the   *)
(* window was held up or the machine slept.                                *)
Beating(s) == conn[s].far = "open" /\ client[conn[s].window].sock = s

Quiet ==
  /\ session # None /\ session.fresh
  /\ session' = [session EXCEPT !.fresh = FALSE]
  /\ UNCHANGED <<conn, pairing, trusted, error, request, expired, client, remembered,
                 torn, skipped>>

FallsSilent == Quiet /\ ~Beating(session.sock) /\ UNCHANGED commands

HeldUp == Quiet /\ Command

-----------------------------------------------------------------------------
(* The client of a window.  far is its end of a socket: "open", "closing"  *)
(* between destroy() and the close event.  stage is the hello of a         *)
(* tryConnect() that has not yet made its socket.                          *)

\* socket.destroy() on the extension's side
FarDestroyed(c) ==
  IF c.far = "open" THEN [c EXCEPT !.far = "closing", !.down = <<>>] ELSE c

\* session.socket.write(): lost when the browser's end is closed
Written(c, f) ==
  IF c.near = "ready" /\ c.far = "open" THEN [c EXCEPT !.up = Append(@, f)] ELSE c

\* answers to a session that was replaced or ended are not sent
Stale(work) == {[h EXCEPT !.live = FALSE] : h \in work}

Unconnected(c) == [c EXCEPT !.sock = None, !.keyed = FALSE, !.work = Stale(@)]

(* disconnect(false), with what the caller does next.                      *)
Disconnect(w, c) ==
  /\ client' = [client EXCEPT ![w] = Unconnected(c)]
  /\ IF c.sock = None THEN UNCHANGED conn
       ELSE conn' = [conn EXCEPT ![c.sock] = FarDestroyed(@)]
  /\ UNCHANGED <<browser, remembered, torn, skipped>>

Leave(w) == Command /\ Disconnect(w, client[w])

\* tryConnect() returns at once while another one is under way
Staged(c, hello) == IF c.stage = None THEN [c EXCEPT !.stage = hello] ELSE c

\* the command, or the timer of the session's expiry
Reconnect(w) == Command /\ Disconnect(w, Staged([client[w] EXCEPT !.busy = FALSE], "plain"))

Pair(w, hello) ==
  /\ Command /\ (hello = "code" => pairing # None)
  /\ Disconnect(w, Staged(client[w], hello))

(* The interval of start(), every five seconds.                            *)
Tick(w) ==
  LET c == client[w] IN
  /\ c.sock = None /\ c.stage = None /\ ~c.busy
  /\ client' = [client EXCEPT ![w].stage = "plain"]
  /\ UNCHANGED <<conn, browser, remembered, commands, torn, skipped>>

BusyOver(w) ==
  /\ client[w].busy
  /\ client' = [client EXCEPT ![w].busy = FALSE]
  /\ UNCHANGED <<conn, browser, remembered, commands, torn, skipped>>

(* tryConnect() makes its socket.  It read two files and two secrets       *)
(* before: by then a socket it destroyed has emitted its close event, and  *)
(* the secret onData() is storing has been stored.                         *)
Open(w) ==
  LET c == client[w] IN
  /\ c.stage # None /\ c.chunk = None
  /\ \A s \in Sockets : conn[s].window = w => conn[s].far # "closing"
  /\ IF c.stage = "plain" /\ ~remembered
       THEN client' = [client EXCEPT ![w].stage = None] /\ UNCHANGED conn
       ELSE \E s \in Sockets :
              /\ conn[s] = NoConn /\ \A x \in 1 .. s - 1 : conn[x] # NoConn
              /\ conn' = [conn EXCEPT ![s] = [NoConn EXCEPT !.window = w, !.hello = c.stage,
                                                !.near = "new", !.far = "open"]]
              /\ client' = [client EXCEPT ![w].sock = s, ![w].stage = None]
  /\ UNCHANGED <<browser, remembered, commands, torn, skipped>>

(* onData() with the welcome: the key is set, then the rest of the chunk   *)
(* waits until the browser's key is stored.                                *)
ReadWelcome(w, n) ==
  LET c == client[w]  q == conn[c.sock].down IN
  /\ c.sock # None /\ ~c.keyed /\ conn[c.sock].far = "open"
  /\ n <= Len(q)
  /\ client' = [client EXCEPT ![w] = [c EXCEPT !.keyed = TRUE, !.in = 0, !.out = 0,
                                               !.chunk = SubSeq(q, 2, n)]]
  /\ conn' = [conn EXCEPT ![c.sock].down = SubSeq(q, n + 1, Len(q))]
  /\ UNCHANGED <<browser, remembered, commands, torn, skipped>>

Event(c) == [kind |-> "event", no |-> c.out, req |-> 0]

\* a handler for each request of a chunk
Handlers(q) == {[req |-> f.req, live |-> TRUE] : f \in Range(q)}

(* onData() goes on: the status event, then the frames that waited.        *)
Stored(w) ==
  LET c    == client[w]
      rest == c.chunk
      next == [c EXCEPT !.chunk = None, !.out = @ + 1]
      d    == Written(conn[c.sock], Event(c))
  IN
  /\ c.chunk # None
  /\ remembered' = TRUE
  /\ \/ /\ ~c.keyed
        /\ client' = [client EXCEPT ![w].chunk = None]
        /\ UNCHANGED <<conn, skipped>>
     \/ /\ c.keyed /\ (rest # <<>> => Head(rest).no = c.in)
        /\ client' = [client EXCEPT ![w] = [next EXCEPT !.in = @ + Len(rest),
                                                         !.work = @ \cup Handlers(rest)]]
        /\ conn' = [conn EXCEPT ![c.sock] = d]
        /\ UNCHANGED skipped
     \/ /\ c.keyed /\ rest # <<>> /\ Head(rest).no # c.in
        /\ client' = [client EXCEPT ![w] = next]
        /\ conn' = [conn EXCEPT ![c.sock] = FarDestroyed(d)]
        /\ skipped' = TRUE
  /\ UNCHANGED <<browser, commands, torn>>

(* onData() with a request.                                                *)
ReadRequest(w) ==
  LET c == client[w]  q == conn[c.sock].down IN
  /\ c.sock # None /\ c.keyed /\ conn[c.sock].far = "open" /\ q # <<>>
  /\ IF Head(q).no = c.in
       THEN /\ client' = [client EXCEPT ![w] = [c EXCEPT !.in = @ + 1,
                                                         !.work = @ \cup Handlers(<<Head(q)>>)]]
            /\ conn' = [conn EXCEPT ![c.sock].down = Tail(q)]
            /\ UNCHANGED skipped
       ELSE /\ client' = [client EXCEPT ![w].in = @ + 1]
            /\ conn' = [conn EXCEPT ![c.sock] = FarDestroyed(@)]
            /\ skipped' = TRUE
  /\ UNCHANGED <<browser, remembered, commands, torn>>

(* respond(): the handler ends, in any order.                              *)
Answer(c, h) == [kind |-> "answer", no |-> c.out, req |-> h.req]

Respond(w, h) ==
  LET c == client[w]  done == [c EXCEPT !.work = @ \ {h}] IN
  /\ h \in c.work
  /\ IF h.live
       THEN /\ client' = [client EXCEPT ![w] = [done EXCEPT !.out = @ + 1]]
            /\ conn' = [conn EXCEPT ![c.sock] = Written(@, Answer(c, h))]
       ELSE client' = [client EXCEPT ![w] = done] /\ UNCHANGED conn
  /\ UNCHANGED <<browser, remembered, commands, torn, skipped>>

(* notify(): heartbeats, editor changes, progress.                         *)
Notify(w) ==
  LET c == client[w] IN
  /\ c.keyed /\ c.out < MaxEvents
  /\ client' = [client EXCEPT ![w].out = @ + 1]
  /\ conn' = [conn EXCEPT ![c.sock] = Written(@, Event(c))]
  /\ UNCHANGED <<browser, remembered, commands, torn, skipped>>

\* no welcome within 30 s
WelcomeTimesOut(w) ==
  LET c == client[w] IN
  /\ c.sock # None /\ ~c.keyed /\ Command
  /\ conn' = [conn EXCEPT ![c.sock] = FarDestroyed(@)]
  /\ UNCHANGED <<browser, client, remembered, torn, skipped>>

(* The close event.  Without a key the window backs off.                   *)
FarCloses(s) ==
  LET w == conn[s].window IN
  /\ \/ conn[s].far = "closing"
     \/ conn[s].far = "open" /\ conn[s].near \in {"closing", "gone"}
  /\ conn' = [conn EXCEPT ![s] = Freed([@ EXCEPT !.far = "gone", !.down = <<>>])]
  /\ client' = [client EXCEPT ![w] = Unconnected([client[w] EXCEPT !.busy = @ \/ ~client[w].keyed])]
  /\ UNCHANGED <<browser, remembered, commands, torn, skipped>>

-----------------------------------------------------------------------------
Browser ==
  \/ BeginPairing \/ PairingExpires \/ SessionExpires \/ FallsSilent \/ HeldUp
  \/ \E revoke \in BOOLEAN : DisconnectBrowser(revoke)
  \/ \E s \in Sockets : RefuseHello(s) \/ AcceptHello(s) \/ HandleFrame(s) \/ RefuseFrame(s)
  \/ \E s \in Sockets : HandshakeTimesOut(s) \/ NearCloses(s)
  \/ \E r \in Requests : Request(r) \/ TimeOut(r)

Extension ==
  \/ \E w \in Windows : Leave(w) \/ Reconnect(w) \/ Tick(w) \/ BusyOver(w) \/ Open(w)
  \/ \E w \in Windows, hello \in Codes : Pair(w, hello)
  \/ \E w \in Windows, n \in 1 .. MaxRequests + 1 : ReadWelcome(w, n)
  \/ \E w \in Windows : Stored(w) \/ ReadRequest(w) \/ Notify(w) \/ WelcomeTimesOut(w)
  \/ \E w \in Windows : \E h \in client[w].work : Respond(w, h)
  \/ \E s \in Sockets : FarCloses(s)

Next == Browser \/ Extension

Spec == Init /\ [][Next]_vars

(* What the event loops and the system's timers do without a person: they  *)
(* read what arrived, report what closed, and let timers fire.  Nothing    *)
(* makes anybody give a command or a handler end.                          *)
Fairness ==
  /\ WF_vars(FallsSilent)
  /\ \A s \in Sockets :
       /\ WF_vars(RefuseHello(s)) /\ WF_vars(AcceptHello(s)) /\ WF_vars(NearCloses(s))
       /\ WF_vars(HandleFrame(s) \/ RefuseFrame(s)) /\ WF_vars(FarCloses(s))
  /\ \A w \in Windows :
       /\ WF_vars(Tick(w)) /\ WF_vars(BusyOver(w)) /\ WF_vars(Open(w))
       /\ WF_vars(\E n \in 1 .. MaxRequests + 1 : ReadWelcome(w, n))
       /\ WF_vars(Stored(w)) /\ WF_vars(ReadRequest(w))
  /\ \A r \in Requests : WF_vars(TimeOut(r))

FairSpec == Spec /\ Fairness

-----------------------------------------------------------------------------
Frame == [kind : {"welcome", "request", "event", "answer"}, no : Nat, req : 0 .. MaxRequests]

Socket == [window : Windows \cup {None}, hello : Hellos, near : {"new", "ready", "closing", "gone"},
           far : {"open", "closing", "gone"}, up : Seq(Frame), down : Seq(Frame)]

Handler == [req : Requests, live : BOOLEAN]

Client == [sock : {None} \cup Sockets, keyed : BOOLEAN, stage : {None} \cup Hellos, busy : BOOLEAN,
           in : Nat, out : Nat, chunk : {None} \cup Seq(Frame), work : SUBSET Handler]

TypeOK ==
  /\ conn \in [Sockets -> Socket]
  /\ session = None \/ session \in Session
  /\ pairing \in {None} \cup 0 .. MaxAttempts
  /\ trusted \in BOOLEAN /\ error \in BOOLEAN /\ remembered \in BOOLEAN
  /\ request \in [Requests -> {"new", "pending", "answered", "failed", "expired"}]
  /\ expired \in Seq(Requests) /\ Len(expired) <= MaxExpired
  /\ client \in [Windows -> Client]
  /\ commands \in 0 .. MaxCommands
  /\ torn \in BOOLEAN /\ skipped \in BOOLEAN

(* The browser never tears a session down over what an honest window       *)
(* writes, late answers included, while it remembers those it gave up.     *)
SessionSurvives ==
  torn => Cardinality({r \in Requests : request[r] = "expired"}) > MaxExpired

(* A request in progress has a session that can still answer it: when the  *)
(* session ends, whoever waits is told.                                    *)
NobodyWaitsInVain ==
  Pending # {} => session # None /\ Cardinality(Pending) <= session.out

(* A failed handshake on another socket never shows over a working session.*)
ErrorIsReal == error => session = None \/ conn[session.sock].near = "closing"

(* A revoked window is out, whatever was under way.                        *)
OnlyTrusted == session # None => trusted

(* Once people and timers leave the bridge alone, one window that is paired *)
(* gets the session and keeps it: windows never take it from each other    *)
(* for ever, nor knock for ever at a session nobody is behind.             *)
StaysConnected ==
  <>[](trusted /\ remembered =>
         /\ session # None /\ Beating(session.sock)
         /\ client[conn[session.sock].window].keyed)

(* Frames are opened in order (bridge-client.ts, onData).                  *)
OpenedInOrder == ~skipped
=============================================================================
