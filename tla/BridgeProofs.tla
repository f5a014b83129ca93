---------------------------- MODULE BridgeProofs ----------------------------
(***************************************************************************)
(* The bridge for any number of windows, sockets and requests: first what  *)
(* the browser promises by itself, then both ends and the frames between   *)
(* them.                                                                   *)
(***************************************************************************)
EXTENDS BridgeSessions, FiniteSetTheorems, SequenceTheorems, TLAPS

(* The part of the types that the browser's promises rest on.              *)
SessionOK ==
  /\ session = None \/ session \in Session
  /\ request \in [Requests -> {"new", "pending", "answered", "failed", "expired"}]
  /\ trusted \in BOOLEAN

BridgeInv == SessionOK /\ OnlyTrusted /\ NobodyWaitsInVain

LEMMA PendingFinite == IsFiniteSet(Pending) /\ Cardinality(Pending) \in Nat
<1>1. IsFiniteSet(Requests)
  BY FS_Interval, BridgeAssumption DEF Requests
<1>2. Pending \subseteq Requests
  BY DEF Pending
<1> QED BY <1>1, <1>2, FS_Subset, FS_CardinalityType

LEMMA InitBridge == Init => BridgeInv
  BY DEF Init, BridgeInv, SessionOK, OnlyTrusted, NobodyWaitsInVain, Pending

(* Who waits no longer cannot wait in vain.                                *)
LEMMA FewerWait ==
  ASSUME NEW n \in Nat, Cardinality(Pending) <= n, Pending' \subseteq Pending
  PROVE  Cardinality(Pending)' <= n
<1>1. IsFiniteSet(Pending) /\ Cardinality(Pending) \in Nat
  BY PendingFinite
<1>2. Cardinality(Pending') <= Cardinality(Pending) /\ Cardinality(Pending') \in Nat
  BY <1>1, FS_Subset, FS_CardinalityType
<1> QED BY <1>1, <1>2

(* A step that leaves the session where it is, makes it fresher or counts  *)
(* a frame, and answers or gives up requests.                              *)
LEMMA Continues ==
  ASSUME BridgeInv, UNCHANGED trusted, Pending' \subseteq Pending,
         request' \in [Requests -> {"new", "pending", "answered", "failed", "expired"}],
         \/ UNCHANGED session
         \/ session # None /\ session' \in Session /\ session'.out = session.out
  PROVE  BridgeInv'
<1>1. CASE Pending' = {}
  BY <1>1 DEF BridgeInv, SessionOK, OnlyTrusted, NobodyWaitsInVain
<1>2. CASE Pending' # {}
  <2>1. session # None /\ session \in Session /\ Cardinality(Pending) <= session.out
    BY <1>2 DEF BridgeInv, SessionOK, NobodyWaitsInVain
  <2>2. session' # None /\ session' \in Session /\ session'.out = session.out
    BY <2>1, BridgeAssumption
  <2>3. PICK n \in Nat : n = session.out
    BY <2>1 DEF Session
  <2>4. Cardinality(Pending)' <= n
    BY <2>1, <2>3, FewerWait
  <2> QED BY <2>1, <2>2, <2>3, <2>4 DEF BridgeInv, SessionOK, OnlyTrusted, NobodyWaitsInVain
<1> QED BY <1>1, <1>2

(* A step after which nobody waits.                                        *)
LEMMA AllTold ==
  ASSUME BridgeInv, request' = [r \in Requests |-> IF r \in Pending THEN "failed" ELSE request[r]]
  PROVE  /\ Pending' = {} /\ NobodyWaitsInVain'
         /\ request' \in [Requests -> {"new", "pending", "answered", "failed", "expired"}]
<1>1. Pending' = {}
  BY DEF Pending, BridgeInv, SessionOK
<1> QED BY <1>1 DEF NobodyWaitsInVain, BridgeInv, SessionOK

LEMMA RequestKeeps ==
  ASSUME BridgeInv, NEW r \in Requests, Request(r) PROVE BridgeInv'
<1>1. session # None /\ session \in Session /\ session' = [session EXCEPT !.out = session.out + 1]
  BY DEF Request, BridgeInv, SessionOK
<1>2. session' \in Session /\ session'.out = session.out + 1 /\ session.out \in Nat
  BY <1>1 DEF Session
<1>3. request[r] = "new" /\ request' = [request EXCEPT ![r] = "pending"] /\ UNCHANGED trusted
  BY DEF Request
<1>4. Pending' = Pending \cup {r} /\ r \notin Pending
  BY <1>3 DEF Pending, BridgeInv, SessionOK
<1>5. Cardinality(Pending') = Cardinality(Pending) + 1
  BY <1>4, PendingFinite, FS_AddElement
<1>6. Cardinality(Pending) <= session.out
  <2>1. CASE Pending = {}
    BY <1>2, <2>1, FS_EmptySet
  <2>2. CASE Pending # {}
    BY <2>2 DEF BridgeInv, NobodyWaitsInVain
  <2> QED BY <2>1, <2>2
<1>7. session' # None
  BY <1>2, BridgeAssumption
<1>8. Cardinality(Pending') <= session'.out
  BY <1>2, <1>5, <1>6, PendingFinite
<1> QED BY <1>1, <1>2, <1>3, <1>7, <1>8 DEF BridgeInv, SessionOK, OnlyTrusted, NobodyWaitsInVain

LEMMA AcceptKeeps ==
  ASSUME BridgeInv, NEW s \in Sockets, AcceptHello(s) PROVE BridgeInv'
<1>1. Pending' = {} /\ NobodyWaitsInVain' /\ request' \in [Requests -> {"new", "pending", "answered", "failed", "expired"}]
  BY AllTold DEF AcceptHello
<1>2. session' \in Session
  BY DEF AcceptHello, Session
<1>3. trusted' = TRUE
  BY DEF AcceptHello, Known, BridgeInv, SessionOK
<1> QED BY <1>1, <1>2, <1>3 DEF BridgeInv, SessionOK, OnlyTrusted

(* A step that ends the session tells whoever waits.                       *)
LEMMA EndKeeps ==
  ASSUME BridgeInv, session' = None, trusted' \in BOOLEAN,
         request' = [r \in Requests |-> IF r \in Pending THEN "failed" ELSE request[r]]
  PROVE  BridgeInv'
  BY AllTold DEF BridgeInv, SessionOK, OnlyTrusted

LEMMA BrowserKeeps ==
  ASSUME BridgeInv, Browser PROVE BridgeInv'
<1>1. CASE UNCHANGED <<session, request, trusted>>
  BY <1>1, Continues DEF Pending, BridgeInv, SessionOK
<1>2. CASE BeginPairing \/ PairingExpires \/ (\E s \in Sockets : RefuseHello(s) \/ RefuseFrame(s) \/ HandshakeTimesOut(s))
  BY <1>1, <1>2 DEF BeginPairing, PairingExpires, RefuseHello, RefuseFrame, HandshakeTimesOut, browser
<1>3. CASE SessionExpires \/ (\E revoke \in BOOLEAN : DisconnectBrowser(revoke))
  <2>1. trusted' \in BOOLEAN
    BY <1>3 DEF SessionExpires, DisconnectBrowser, BridgeInv, SessionOK
  <2> QED BY <1>3, <2>1, EndKeeps DEF SessionExpires, DisconnectBrowser, CloseSession
<1>4. CASE Quiet /\ UNCHANGED <<request, trusted>>
  <2>1. session' \in Session /\ session'.out = session.out
    BY <1>4 DEF Quiet, BridgeInv, SessionOK, Session
  <2> QED BY <1>4, <2>1, Continues DEF Quiet, Pending, BridgeInv, SessionOK
<1>5. CASE \E s \in Sockets : AcceptHello(s)
  BY <1>5, AcceptKeeps
<1>6. CASE \E s \in Sockets : HandleFrame(s)
  <2>1. PICK s \in Sockets : HandleFrame(s) BY <1>6
  <2>2. session # None /\ session' \in Session /\ session'.out = session.out /\ UNCHANGED trusted
    <3>1. session # None /\ session' = [session EXCEPT !.in = session.in + 1, !.fresh = TRUE] /\ UNCHANGED trusted
      BY <2>1 DEF HandleFrame
    <3>2. session \in Session
      BY <3>1 DEF BridgeInv, SessionOK
    <3>3. \A x \in Session : x.in + 1 \in Nat
      BY DEF Session
    <3>4. \A x \in Session, n \in Nat : [x EXCEPT !.in = n, !.fresh = TRUE] \in Session
                                       /\ [x EXCEPT !.in = n, !.fresh = TRUE].out = x.out
      BY DEF Session
    <3> QED BY <3>1, <3>2, <3>3, <3>4
  <2>3. UNCHANGED request \/ \E r \in Pending : request' = [request EXCEPT ![r] = "answered"]
    BY <2>1 DEF HandleFrame
  <2>4. /\ request' \in [Requests -> {"new", "pending", "answered", "failed", "expired"}]
        /\ Pending' \subseteq Pending
    BY <2>3 DEF Pending, BridgeInv, SessionOK
  <2> QED BY <2>2, <2>4, Continues
<1>7. CASE \E s \in Sockets : NearCloses(s)
  BY <1>1, <1>7, EndKeeps DEF NearCloses, BridgeInv, SessionOK
<1>8. CASE \E r \in Requests : Request(r)
  BY <1>8, RequestKeeps
<1>9. CASE \E r \in Requests : TimeOut(r)
  <2>1. PICK r \in Requests : TimeOut(r) BY <1>9
  <2>2. /\ request' \in [Requests -> {"new", "pending", "answered", "failed", "expired"}]
        /\ Pending' \subseteq Pending
    BY <2>1 DEF TimeOut, Pending, BridgeInv, SessionOK
  <2> QED BY <2>1, <2>2, Continues DEF TimeOut
<1> QED BY <1>2, <1>3, <1>4, <1>5, <1>6, <1>7, <1>8, <1>9 DEF Browser, FallsSilent, HeldUp, Quiet

LEMMA ExtensionKeeps ==
  ASSUME BridgeInv, Extension PROVE BridgeInv'
<1>1. UNCHANGED browser
  BY DEF Extension, Leave, Reconnect, Tick, BusyOver, Open, Pair, ReadWelcome, Stored, ReadRequest, Notify,
         WelcomeTimesOut, Respond, FarCloses, Disconnect
<1> QED BY <1>1, Continues DEF browser, Pending, BridgeInv, SessionOK

LEMMA NextBridge == BridgeInv /\ [Next]_vars => BridgeInv'
<1> SUFFICES ASSUME BridgeInv, [Next]_vars PROVE BridgeInv' OBVIOUS
<1>1. CASE UNCHANGED vars
  BY <1>1, Continues DEF vars, Pending, BridgeInv, SessionOK
<1> QED BY <1>1, BrowserKeeps, ExtensionKeeps DEF Next

LEMMA AlwaysBridge == Spec => []BridgeInv
<1> HIDE DEF BridgeInv
<1> QED BY InitBridge, NextBridge, PTL DEF Spec

(* A session belongs to a trusted extension: a revocation ends it, whatever *)
(* was under way (disconnect(), handleHello()).                            *)
THEOREM RevokedIsOut == Spec => []OnlyTrusted
<1>1. BridgeInv => OnlyTrusted BY DEF BridgeInv
<1> HIDE DEF BridgeInv, OnlyTrusted
<1> QED BY <1>1, AlwaysBridge, PTL

(* Who waits for an answer has a session that was asked (request(),        *)
(* closeSession()).                                                        *)
THEOREM WhoWaitsHasASession == Spec => []NobodyWaitsInVain
<1>1. BridgeInv => NobodyWaitsInVain BY DEF BridgeInv
<1> HIDE DEF BridgeInv, NobodyWaitsInVain
<1> QED BY <1>1, AlwaysBridge, PTL

-----------------------------------------------------------------------------
(* Both ends.  The browser forgot a request it had given up.               *)
TooMany == Cardinality({r \in Requests : request[r] = "expired"}) > MaxExpired

(* What the two ends of a socket know of each other.                       *)
SocketInv ==
  /\ session # None => conn[session.sock].near \in {"ready", "closing"}
  /\ \A s \in Sockets :
       LET d == conn[s] IN
       /\ d.near = "new" => d.up = <<>> /\ d.down = <<>>
       /\ d.near = "ready" => session # None /\ session.sock = s
       /\ d.near # "gone" \/ d.far # "gone" => d.window \in Windows
       /\ d.far = "open" => client[d.window].sock = s
       /\ d.far = "closing" => client[d.window].sock \in {s, None}

ClientInv ==
  \A w \in Windows :
       LET c == client[w] IN
       /\ c.sock # None => conn[c.sock].window = w /\ conn[c.sock].far # "gone"
       /\ c.stage # None => c.sock = None
       /\ c.keyed => c.sock # None /\ conn[c.sock].near # "new"
       /\ ~c.keyed => (\A h \in c.work : ~h.live) /\ (c.sock # None => c.chunk = None)

(* A request is in one place: due to the client on its socket, waiting in  *)
(* a chunk, with a handler, or answered in a frame under way.  A client    *)
(* without the key reads the welcome before the requests.                  *)
First(c) == IF c.keyed THEN 1 ELSE 2
ReqsFrom(q, k) == {q[i].req : i \in k .. Len(q)}
OnceFrom(q, k) == \A i, j \in k .. Len(q) : i # j => q[i].req # q[j].req

Due(c, d)    == ReqsFrom(d.down, First(c))
Chunked(c)   == IF c.chunk = None THEN {} ELSE ReqsFrom(c.chunk, 1)
Handled(c)   == {h.req : h \in {x \in c.work : x.live}}
Answers(d)   == {i \in 1 .. Len(d.up) : d.up[i].kind = "answer"}
Answered(d)  == {d.up[i].req : i \in Answers(d)}

FrameInv ==
  /\ \A s \in Sockets : conn[s].far = "open" => Due(client[conn[s].window], conn[s]) \subseteq Requests
  /\ \A w \in Windows : Chunked(client[w]) \subseteq Requests

(* The browser still knows what to do with an answer to r.                 *)
Asked(r) ==
  /\ r \in Requests /\ request[r] \in {"pending", "expired"}
  /\ request[r] = "expired" => r \in Range(expired) \/ TooMany

ExpiredInv ==
  /\ \A i, j \in 1 .. Len(expired) : i # j => expired[i] # expired[j]
  /\ \A i \in 1 .. Len(expired) : request[expired[i]] = "expired"

(* What the window wrote on the session's socket: numbered from the frame  *)
(* the browser expects, and one answer to each request it was asked.       *)
UpInv(d) ==
  /\ \A i \in 1 .. Len(d.up) : d.up[i].no = session.in + i - 1
  /\ \A r \in Answered(d) : Asked(r)
  /\ \A i, j \in Answers(d) : i # j => d.up[i].req # d.up[j].req

(* What an open end can still write there.                                 *)
OpenInv(c, d) ==
  /\ c.keyed => c.out = session.in + Len(d.up)
  /\ ~c.keyed => d.up = <<>> /\ session.in = 0
  /\ \A r \in Due(c, d) \cup Chunked(c) \cup Handled(c) : Asked(r)
  /\ OnceFrom(d.down, First(c)) 
  /\ c.chunk # None => OnceFrom(c.chunk, 1)
  /\ Due(c, d) \cap Chunked(c) = {}
  /\ Due(c, d) \cap Handled(c) = {}
  /\ Due(c, d) \cap Answered(d) = {}
  /\ Chunked(c) \cap Handled(c) = {}
  /\ Chunked(c) \cap Answered(d) = {}
  /\ Handled(c) \cap Answered(d) = {}

ReadyInv ==
  \A s \in Sockets : conn[s].near = "ready" =>
    /\ UpInv(conn[s])
    /\ conn[s].far = "open" => OpenInv(client[conn[s].window], conn[s])

-----------------------------------------------------------------------------

(* The requests of a queue of frames when one is read, written or taken    *)
(* apart.                                                                  *)
LEMMA TailReqs ==
  ASSUME NEW q \in Seq(Frame), q # <<>>
  PROVE  /\ Tail(q) \in Seq(Frame) /\ q[1] \in Frame /\ Head(q) = q[1]
         /\ ReqsFrom(Tail(q), 1) \subseteq ReqsFrom(q, 1) /\ q[1].req \in ReqsFrom(q, 1)
         /\ OnceFrom(q, 1) => OnceFrom(Tail(q), 1) /\ q[1].req \notin ReqsFrom(Tail(q), 1)
<1>1. /\ Tail(q) \in Seq(Frame) /\ Len(Tail(q)) = Len(q) - 1 /\ Len(q) \in Nat \ {0} /\ q[1] \in Frame
      /\ Head(q) = q[1] /\ \A i \in 1 .. Len(Tail(q)) : Tail(q)[i] = q[i + 1] /\ i + 1 \in 1 .. Len(q) /\ i + 1 # 1
  OBVIOUS
<1>2. 1 \in 1 .. Len(q)
  BY <1>1
<1>3. \A i, j \in 1 .. Len(Tail(q)) : i # j => i + 1 # j + 1
  OBVIOUS
<1>4. ReqsFrom(Tail(q), 1) \subseteq ReqsFrom(q, 1)
  BY <1>1 DEF ReqsFrom
<1>5. ASSUME OnceFrom(q, 1) PROVE OnceFrom(Tail(q), 1)
  BY <1>1, <1>3, <1>5 DEF OnceFrom
<1>6. ASSUME OnceFrom(q, 1) PROVE q[1].req \notin ReqsFrom(Tail(q), 1)
  BY <1>1, <1>2, <1>6 DEF OnceFrom, ReqsFrom
<1> QED BY <1>1, <1>2, <1>4, <1>5, <1>6 DEF ReqsFrom

LEMMA AppendReqs ==
  ASSUME NEW q \in Seq(Frame), NEW f \in Frame, NEW k \in {1, 2}
  PROVE  /\ Append(q, f) \in Seq(Frame) /\ Len(Append(q, f)) = Len(q) + 1
         /\ ReqsFrom(Append(q, f), k) \subseteq ReqsFrom(q, k) \cup {f.req}
         /\ OnceFrom(q, k) /\ f.req \notin ReqsFrom(q, k) => OnceFrom(Append(q, f), k)
<1>1. /\ Append(q, f) \in Seq(Frame) /\ Len(Append(q, f)) = Len(q) + 1 /\ Len(q) \in Nat
      /\ Append(q, f)[Len(q) + 1] = f
      /\ \A i \in 1 .. Len(q) : Append(q, f)[i] = q[i]
  OBVIOUS
<1>2. \A i \in k .. Len(q) + 1 : i = Len(q) + 1 \/ (i \in k .. Len(q) /\ i \in 1 .. Len(q))
  BY <1>1
<1>3. ReqsFrom(Append(q, f), k) \subseteq ReqsFrom(q, k) \cup {f.req}
  BY <1>1, <1>2 DEF ReqsFrom
<1>4. ASSUME OnceFrom(q, k), f.req \notin ReqsFrom(q, k) PROVE OnceFrom(Append(q, f), k)
  BY <1>1, <1>2, <1>4 DEF OnceFrom, ReqsFrom
<1> QED BY <1>1, <1>3, <1>4

LEMMA SplitReqs ==
  ASSUME NEW q \in Seq(Frame), NEW n \in 1 .. Len(q)
  PROVE  LET a == SubSeq(q, 2, n)  b == SubSeq(q, n + 1, Len(q)) IN
         /\ a \in Seq(Frame) /\ b \in Seq(Frame)
         /\ ReqsFrom(a, 1) \subseteq ReqsFrom(q, 2) /\ ReqsFrom(b, 1) \subseteq ReqsFrom(q, 2)
         /\ OnceFrom(q, 2) => /\ OnceFrom(a, 1) /\ OnceFrom(b, 1)
                              /\ ReqsFrom(a, 1) \cap ReqsFrom(b, 1) = {}
<1> DEFINE a == SubSeq(q, 2, n)  b == SubSeq(q, n + 1, Len(q))
<1>1. /\ a \in Seq(Frame) /\ Len(a) = n - 1
      /\ \A i \in 1 .. Len(a) : i + 1 \in 2 .. Len(q) /\ i + 1 <= n /\ a[i] = q[i + 1]
  OBVIOUS
<1>2. /\ b \in Seq(Frame) /\ Len(b) = Len(q) - n
      /\ \A i \in 1 .. Len(b) : i + n \in 2 .. Len(q) /\ i + n > n /\ b[i] = q[i + n]
  OBVIOUS
<1>3. \A i \in 1 .. Len(a), j \in 1 .. Len(b) : i + 1 # j + n
  BY <1>1, <1>2
<1>4. \A i, j \in 1 .. Len(a) : i # j => i + 1 # j + 1
  OBVIOUS
<1>9. \A i, j \in 1 .. Len(b) : i # j => i + n # j + n
  OBVIOUS
<1> HIDE DEF a, b
<1>5. ReqsFrom(a, 1) \subseteq ReqsFrom(q, 2) /\ ReqsFrom(b, 1) \subseteq ReqsFrom(q, 2)
  BY <1>1, <1>2 DEF ReqsFrom
<1>6. ASSUME OnceFrom(q, 2) PROVE OnceFrom(a, 1)
  BY <1>1, <1>4, <1>6 DEF OnceFrom
<1>7. ASSUME OnceFrom(q, 2) PROVE OnceFrom(b, 1)
  BY <1>2, <1>9, <1>7 DEF OnceFrom
<1>8. ASSUME OnceFrom(q, 2) PROVE ReqsFrom(a, 1) \cap ReqsFrom(b, 1) = {}
  <2>1. ASSUME NEW i \in 1 .. Len(a), NEW j \in 1 .. Len(b), a[i].req = b[j].req PROVE FALSE
    BY <1>1, <1>2, <1>3, <1>8, <2>1 DEF OnceFrom
  <2> QED BY <2>1 DEF ReqsFrom
<1> QED BY <1>1, <1>2, <1>5, <1>6, <1>7, <1>8 DEF a, b

(* The expired identifiers are distinct, so that many of them are many     *)
(* requests.                                                               *)
LEMMA LengthCounts ==
  ASSUME NEW q \in Seq(Requests), \A i, j \in 1 .. Len(q) : i # j => q[i] # q[j]
  PROVE  IsFiniteSet(Range(q)) /\ Cardinality(Range(q)) = Len(q)
<1>1. q \in [1 .. Len(q) -> Requests] /\ Range(q) = {q[i] : i \in 1 .. Len(q)}
  BY DEF Range
<1>2. q \in [1 .. Len(q) -> Range(q)] /\ \A x \in Range(q) : \E i \in 1 .. Len(q) : q[i] = x
  BY <1>1
<1>4. q \in Bijection(1 .. Len(q), Range(q))
  BY <1>1, <1>2 DEF Bijection, Injection, Surjection, IsInjective
<1>3. IsFiniteSet(1 .. Len(q)) /\ Cardinality(1 .. Len(q)) = Len(q)
  <2>1. Len(q) \in Nat
    OBVIOUS
  <2>2. Cardinality(1 .. Len(q)) = IF 1 > Len(q) THEN 0 ELSE Len(q) - 1 + 1
    BY <2>1, FS_Interval
  <2> QED BY <2>1, <2>2, FS_Interval
<1> QED BY <1>4, <1>3, FS_Bijection DEF ExistsBijection
-----------------------------------------------------------------------------
(* What the two ends do to a socket and a window to its client.            *)
LEMMA NoFrames == <<>> \in Seq(Frame)
  OBVIOUS

LEMMA SocketFields ==
  ASSUME NEW d \in Socket
  PROVE  /\ d.window \in Windows \cup {None} /\ d.hello \in Hellos
         /\ d.near \in {"new", "ready", "closing", "gone"} /\ d.far \in {"open", "closing", "gone"}
         /\ d.up \in Seq(Frame) /\ d.down \in Seq(Frame)
  BY DEF Socket

LEMMA ClientFields ==
  ASSUME NEW c \in Client
  PROVE  /\ c.sock \in {None} \cup Sockets /\ c.keyed \in BOOLEAN /\ c.stage \in {None} \cup Hellos
         /\ c.busy \in BOOLEAN /\ c.in \in Nat /\ c.out \in Nat /\ c.chunk \in {None} \cup Seq(Frame)
         /\ c.work \in SUBSET Handler
  BY DEF Client

LEMMA NoConnShape == NoConn \in Socket
  BY DEF NoConn, Socket, Hellos

LEMMA FarDestroyedShape ==
  ASSUME NEW d \in Socket
  PROVE  /\ FarDestroyed(d) \in Socket
         /\ FarDestroyed(d).window = d.window /\ FarDestroyed(d).near = d.near /\ FarDestroyed(d).up = d.up
         /\ FarDestroyed(d).far = IF d.far = "open" THEN "closing" ELSE d.far
         /\ d.down = <<>> => FarDestroyed(d).down = <<>>
  BY NoFrames DEF FarDestroyed, Socket

LEMMA NearDestroyedShape ==
  ASSUME NEW d \in Socket
  PROVE  /\ NearDestroyed(d) \in Socket
         /\ NearDestroyed(d).window = d.window /\ NearDestroyed(d).far = d.far /\ NearDestroyed(d).down = d.down
         /\ NearDestroyed(d).near = IF d.near \in {"new", "ready"} THEN "closing" ELSE d.near
         /\ d.up = <<>> => NearDestroyed(d).up = <<>>
  BY NoFrames DEF NearDestroyed, Socket

LEMMA WrittenShape ==
  ASSUME NEW d \in Socket, NEW f \in Frame
  PROVE  /\ Written(d, f) \in Socket
         /\ Written(d, f).window = d.window /\ Written(d, f).near = d.near /\ Written(d, f).far = d.far
         /\ Written(d, f).down = d.down
         /\ Written(d, f).up = IF d.near = "ready" /\ d.far = "open" THEN Append(d.up, f) ELSE d.up
<1>1. Append(d.up, f) \in Seq(Frame)
  BY SocketFields
<1>2. [d EXCEPT !.up = Append(@, f)] \in Socket
  BY <1>1 DEF Socket
<1> QED BY <1>2 DEF Written, Socket

LEMMA FarGoneShape ==
  ASSUME NEW d \in Socket
  PROVE  LET g == Freed([d EXCEPT !.far = "gone", !.down = <<>>]) IN
         /\ g \in Socket /\ g.far = "gone" /\ g.near = d.near /\ g.down = <<>>
         /\ d.near # "gone" => g.up = d.up /\ g.window = d.window
<1>1. [d EXCEPT !.far = "gone", !.down = <<>>] \in Socket
  BY NoFrames DEF Socket
<1> QED BY <1>1, NoConnShape DEF Freed, NoConn, Socket

LEMMA NearGoneShape ==
  ASSUME NEW d \in Socket
  PROVE  LET g == Freed([d EXCEPT !.near = "gone", !.up = <<>>]) IN
         /\ g \in Socket /\ g.near = "gone" /\ g.far = d.far /\ g.up = <<>>
         /\ d.far # "gone" => g.down = d.down /\ g.window = d.window
<1>1. [d EXCEPT !.near = "gone", !.up = <<>>] \in Socket
  BY NoFrames DEF Socket
<1> QED BY <1>1, NoConnShape DEF Freed, NoConn, Socket

LEMMA UnconnectedShape ==
  ASSUME NEW c \in Client
  PROVE  /\ Unconnected(c) \in Client
         /\ Unconnected(c).sock = None /\ ~Unconnected(c).keyed /\ Unconnected(c).stage = c.stage
         /\ Unconnected(c).chunk = c.chunk
         /\ \A h \in Unconnected(c).work : ~h.live
<1>1. Stale(c.work) \in SUBSET Handler /\ \A h \in Stale(c.work) : ~h.live
  BY DEF Stale, Handler, Client
<1>2. /\ Unconnected(c).work = Stale(c.work) /\ Unconnected(c).sock = None /\ Unconnected(c).keyed = FALSE
      /\ Unconnected(c).stage = c.stage /\ Unconnected(c).chunk = c.chunk /\ Unconnected(c).busy = c.busy
      /\ Unconnected(c).in = c.in /\ Unconnected(c).out = c.out
      /\ Unconnected(c) = [c EXCEPT !.sock = None, !.keyed = FALSE, !.work = Stale(c.work)]
  BY DEF Unconnected, Client
<1>3. \A k \in SUBSET Handler : [c EXCEPT !.sock = None, !.keyed = FALSE, !.work = k] \in Client
  BY DEF Client
<1> QED BY <1>1, <1>2, <1>3

(* What is due to a client with its socket.                                *)
FrameOK(c, d) ==
  Chunked(c) \subseteq Requests /\ (d.far = "open" => Due(c, d) \subseteq Requests)

Fits(w, s, c, d) ==
  /\ c \in Client /\ d \in Socket
  /\ d.near = "new" => d.up = <<>> /\ d.down = <<>>
  /\ session # None /\ session.sock = s => d.near \in {"ready", "closing"}
  /\ d.near = "ready" => session # None /\ session.sock = s
  /\ d.window = w \/ (d.far = "gone" /\ d.near \notin {"new", "ready", "closing"})
  /\ c.sock \in {s, None}
  /\ FrameOK(c, d) /\ (d.far = "open" => c.sock = s)
  /\ d.near = "ready" => UpInv(d)
  /\ d.near = "ready" /\ d.far = "open" => OpenInv(c, d)
  /\ c.sock = s => d.far # "gone"
  /\ c.stage # None => c.sock = None
  /\ c.keyed => c.sock # None /\ d.near # "new"
  /\ ~c.keyed => (\A h \in c.work : ~h.live) /\ (c.sock # None => c.chunk = None)

WireInv == TypeOK /\ SocketInv /\ ClientInv /\ FrameInv /\ ReadyInv

Wired == conn \in [Sockets -> Socket] /\ client \in [Windows -> Client] /\ SocketInv /\ ClientInv /\ FrameInv /\ ReadyInv

(* A client and one socket of its window come to fit each other, and no    *)
(* other socket or client is concerned.                                    *)
LEMMA FitKeeps ==
  ASSUME WireInv, NEW w \in Windows, NEW s \in Sockets, NEW c, NEW d, Fits(w, s, c, d),
         client' = [client EXCEPT ![w] = c], conn' = [conn EXCEPT ![s] = d],
         UNCHANGED <<session, request, expired>>,
         \A x \in Sockets \ {s} :
           conn[x].window = w => conn[x].far = "gone" \/ (conn[x].far = "closing" /\ c.sock = None),
         \A x \in Windows \ {w} : client[x].sock # s
  PROVE  Wired'
<1>1. /\ conn \in [Sockets -> Socket] /\ client \in [Windows -> Client]
      /\ conn'[s] = d /\ \A x \in Sockets \ {s} : conn'[x] = conn[x]
      /\ client'[w] = c /\ \A x \in Windows \ {w} : client'[x] = client[x]
      /\ c \in Client /\ d \in Socket /\ conn' \in [Sockets -> Socket] /\ client' \in [Windows -> Client]
  BY DEF WireInv, TypeOK, Fits
<1>3. \A x \in Windows \ {w} : client[x].sock # None => client[x].sock # s /\ client[x].sock \in Sockets
  BY <1>1, ClientFields
<1>4. SocketInv'
  <2>1. session' # None => conn'[session'.sock].near \in {"ready", "closing"}
    BY <1>1 DEF WireInv, SocketInv, TypeOK, Session, Fits
  <2>2. ASSUME NEW x \in Sockets
        PROVE  LET e == conn'[x] IN
               /\ e.near = "new" => e.up = <<>> /\ e.down = <<>>
               /\ e.near = "ready" => session' # None /\ session'.sock = x
               /\ e.near # "gone" \/ e.far # "gone" => e.window \in Windows
               /\ e.far = "open" => client'[e.window].sock = x
               /\ e.far = "closing" => client'[e.window].sock \in {x, None}
    <3>1. CASE x = s
      BY <1>1, <3>1, SocketFields DEF Fits
    <3>2. CASE x # s
      BY <1>1, <3>2 DEF WireInv, SocketInv
    <3> QED BY <3>1, <3>2
  <2> QED BY <2>1, <2>2 DEF SocketInv
<1>5. ClientInv'
  <2>1. ASSUME NEW x \in Windows
        PROVE  LET e == client'[x] IN
               /\ e.sock # None => conn'[e.sock].window = x /\ conn'[e.sock].far # "gone"
               /\ e.stage # None => e.sock = None
               /\ e.keyed => e.sock # None /\ conn'[e.sock].near # "new"
               /\ ~e.keyed => (\A h \in e.work : ~h.live) /\ (e.sock # None => e.chunk = None)
    <3>1. CASE x = w
      BY <1>1, <3>1 DEF Fits
    <3>2. CASE x # w
      BY <1>1, <1>3, <3>2 DEF WireInv, ClientInv
    <3> QED BY <3>1, <3>2
  <2> QED BY <2>1 DEF ClientInv
<1>6. FrameInv'
  <2>1. ASSUME NEW x \in Sockets, conn'[x].far = "open"
        PROVE  Due(client'[conn'[x].window], conn'[x]) \subseteq Requests
    <3>1. CASE x = s
      BY <1>1, <2>1, <3>1 DEF Fits, FrameOK
    <3>2. CASE x # s
      BY <1>1, <2>1, <3>2 DEF WireInv, FrameInv, SocketInv
    <3> QED BY <3>1, <3>2
  <2>2. ASSUME NEW x \in Windows PROVE Chunked(client'[x]) \subseteq Requests
    BY <1>1 DEF WireInv, FrameInv, Fits, FrameOK
  <2> QED BY <2>1, <2>2 DEF FrameInv
<1>7. ReadyInv'
  <2>1. ASSUME NEW x \in Sockets, conn'[x].near = "ready"
        PROVE  /\ UpInv(conn'[x])
               /\ conn'[x].far = "open" => OpenInv(client'[conn'[x].window], conn'[x])
    <3>1. CASE x = s
      BY <1>1, <2>1, <3>1 DEF Fits
    <3>2. CASE x # s
      BY <1>1, <2>1, <3>2 DEF WireInv, ReadyInv, SocketInv
    <3> QED BY <3>1, <3>2
  <2>2. \A e : UpInv(e)' <=> UpInv(e)
    BY DEF UpInv, Asked, TooMany
  <2>3. \A b, e : OpenInv(b, e)' <=> OpenInv(b, e)
    BY DEF OpenInv, Asked, TooMany
  <2> QED BY <2>1, <2>2, <2>3 DEF ReadyInv
<1> QED BY <1>1, <1>4, <1>5, <1>6, <1>7 DEF Wired

(* A window's socket is its only one, and no other window's.               *)
LEMMA OwnSocket ==
  ASSUME WireInv, NEW w \in Windows, NEW s \in Sockets, NEW c,
         conn[s].window = w, conn[s].far # "gone", c.sock \in {s, None}, c.sock = s => client[w].sock = s
  PROVE  /\ \A x \in Sockets \ {s} :
              conn[x].window = w => conn[x].far = "gone" \/ (conn[x].far = "closing" /\ c.sock = None)
         /\ \A x \in Windows \ {w} : client[x].sock # s
<1>1. /\ conn \in [Sockets -> Socket] /\ client \in [Windows -> Client] /\ None \notin Sockets
  BY BridgeAssumption DEF WireInv, TypeOK
<1>2. conn[s].far \in {"open", "closing"} /\ client[w].sock \in {s, None}
  BY <1>1, SocketFields DEF WireInv, SocketInv
<1>3. ASSUME NEW x \in Sockets \ {s}, conn[x].window = w
      PROVE  conn[x].far = "gone" \/ (conn[x].far = "closing" /\ c.sock = None)
  <2>1. conn[x].far \in {"open", "closing", "gone"}
    BY <1>1, SocketFields
  <2>2. conn[x].far # "open"
    BY <1>1, <1>2, <1>3 DEF WireInv, SocketInv
  <2>3. conn[x].far = "closing" => client[w].sock = None
    BY <1>1, <1>2, <1>3 DEF WireInv, SocketInv
  <2> QED BY <1>1, <2>1, <2>2, <2>3
<1>4. ASSUME NEW x \in Windows \ {w} PROVE client[x].sock # s
  BY <1>1, <1>4 DEF WireInv, ClientInv
<1> QED BY <1>3, <1>4

(* A client moves and its socket, if it has one, stays as it is.           *)
LEMMA RestKeeps ==
  ASSUME WireInv, NEW w \in Windows, NEW c \in Client, client' = [client EXCEPT ![w] = c],
         UNCHANGED <<conn, session, request, expired>>,
         c.sock = client[w].sock, c.keyed = client[w].keyed, c.stage # None => c.sock = None,
         ~c.keyed => \A h \in c.work : ~h.live,
         c.chunk \in {client[w].chunk, None},
         c.sock = None \/ (c.chunk = client[w].chunk /\ c.out = client[w].out /\ Handled(c) = Handled(client[w]))
  PROVE  Wired'
<1>1. /\ conn \in [Sockets -> Socket] /\ client \in [Windows -> Client] /\ None \notin Sockets
      /\ conn' = conn /\ client'[w] = c /\ \A x \in Windows \ {w} : client'[x] = client[x]
      /\ client' \in [Windows -> Client]
  BY BridgeAssumption DEF WireInv, TypeOK
<1>2. \A x \in Windows : client'[x].sock = client[x].sock
  BY <1>1
<1>3. SocketInv'
  BY <1>1, <1>2 DEF WireInv, SocketInv
<1>4. ClientInv'
  BY <1>1 DEF WireInv, ClientInv
<1>5. \A x \in Sockets : conn[x].far = "open" => conn[x].window \in Windows
  BY DEF WireInv, SocketInv
<1>6. \A x \in Sockets : conn[x].far = "open" =>
        \/ client'[conn[x].window] = client[conn[x].window]
        \/ /\ conn[x].window = w /\ c.chunk = client[w].chunk /\ c.keyed = client[w].keyed
           /\ c.out = client[w].out /\ Handled(c) = Handled(client[w])
  BY <1>1, <1>5 DEF WireInv, SocketInv
<1>7. \A d : /\ Due(c, d) = Due(client[w], d) \/ c.keyed # client[w].keyed
             /\ First(c) = First(client[w]) \/ c.keyed # client[w].keyed
  BY DEF Due, First
<1>8. Chunked(c) = Chunked(client[w]) \/ c.chunk # client[w].chunk
  BY DEF Chunked
<1>9. FrameInv'
  <2>1. Chunked(c) \subseteq Chunked(client[w])
    BY DEF Chunked
  <2>2. \A x \in Windows : Chunked(client'[x]) \subseteq Requests
    BY <1>1, <2>1 DEF WireInv, FrameInv
  <2> QED BY <1>1, <1>6, <1>7, <2>2 DEF WireInv, FrameInv
<1>10. ReadyInv'
  <2>1. ASSUME NEW x \in Sockets, conn[x].near = "ready", conn[x].far = "open"
        PROVE  OpenInv(client'[conn[x].window], conn[x])
    <3>1. OpenInv(client[conn[x].window], conn[x])
      BY <2>1 DEF WireInv, ReadyInv
    <3>2. CASE client'[conn[x].window] = client[conn[x].window]
      BY <3>1, <3>2
    <3>3. CASE client'[conn[x].window] # client[conn[x].window]
      <4>1. /\ conn[x].window = w /\ c.chunk = client[w].chunk /\ c.keyed = client[w].keyed
            /\ c.out = client[w].out /\ Handled(c) = Handled(client[w])
        BY <1>6, <2>1, <3>3
      <4>2. OpenInv(c, conn[x])
        BY <3>1, <4>1, <1>7, <1>8 DEF OpenInv
      <4> QED BY <1>1, <4>1, <4>2
    <3> QED BY <3>2, <3>3
  <2>2. \A e : UpInv(e)' <=> UpInv(e)
    BY DEF UpInv, Asked, TooMany
  <2>3. \A b, e : OpenInv(b, e)' <=> OpenInv(b, e)
    BY DEF OpenInv, Asked, TooMany
  <2> QED BY <1>1, <2>1, <2>2, <2>3 DEF WireInv, ReadyInv
<1> QED BY <1>1, <1>3, <1>4, <1>9, <1>10 DEF Wired

LEMMA UpSame ==
  ASSUME NEW d, NEW e, d.up = e.up, UpInv(e) PROVE UpInv(d)
  BY DEF UpInv, Answers, Answered

(* disconnect(): the client lets go of its socket, whatever it does next.  *)
LEMMA DisconnectKeeps ==
  ASSUME WireInv, NEW w \in Windows, NEW b \in Client, b.sock = client[w].sock, b.chunk = client[w].chunk, Disconnect(w, b)
  PROVE  Wired'
<1> DEFINE c == Unconnected(b)
<1>1. /\ c \in Client /\ c.sock = None /\ ~c.keyed /\ (\A h \in c.work : ~h.live) /\ c.chunk = client[w].chunk
  BY UnconnectedShape
<1>5. Chunked(c) \subseteq Requests
  BY <1>1 DEF Chunked, WireInv, FrameInv
<1>2. client' = [client EXCEPT ![w] = c] /\ UNCHANGED <<session, request, expired>>
  BY DEF Disconnect, browser
<1> HIDE DEF c
<1>3. CASE b.sock = None
  <2>1. ~client[w].keyed /\ c.keyed = client[w].keyed
    BY <1>1, <1>3, ClientFields DEF WireInv, ClientInv, TypeOK
  <2> QED BY <1>1, <1>2, <1>3, <2>1, RestKeeps DEF Disconnect
<1>4. CASE b.sock # None
  <2> DEFINE s == b.sock  d == FarDestroyed(conn[s])
  <2>1. s \in Sockets /\ conn[s] \in Socket /\ conn[s].window = w /\ conn[s].far # "gone"
    BY <1>4, ClientFields DEF WireInv, ClientInv, TypeOK
  <2>2. /\ d \in Socket /\ d.window = w /\ d.near = conn[s].near /\ d.up = conn[s].up /\ d.far = "closing"
        /\ conn[s].down = <<>> => d.down = <<>>
    BY <2>1, FarDestroyedShape, SocketFields
  <2>3. conn' = [conn EXCEPT ![s] = d]
    BY <1>4 DEF Disconnect
  <2> HIDE DEF d
  <2>4. d.near = "ready" => UpInv(d)
    BY <2>1, <2>2, UpSame DEF WireInv, ReadyInv
  <2>5. Fits(w, s, c, d)
    BY <1>1, <1>5, <2>1, <2>2, <2>4, BridgeAssumption DEF Fits, FrameOK, WireInv, SocketInv
  <2>6. c.sock \in {s, None} /\ (c.sock = s => client[w].sock = s)
    BY <1>1
  <2> HIDE DEF s
  <2>7. /\ \A z \in Sockets \ {s} :
              conn[z].window = w => conn[z].far = "gone" \/ (conn[z].far = "closing" /\ c.sock = None)
        /\ \A z \in Windows \ {w} : client[z].sock # s
    BY <2>1, <2>6, OwnSocket
  <2> QED BY <1>2, <2>1, <2>3, <2>5, <2>7, FitKeeps
<1> QED BY <1>3, <1>4

LEMMA LettingGoKeeps ==
  ASSUME WireInv, NEW w \in Windows, Leave(w) \/ Reconnect(w) \/ (\E hello \in Codes : Pair(w, hello))
  PROVE  Wired'
<1>1. client[w] \in Client
  BY DEF WireInv, TypeOK
<1>2. \A hello \in Hellos, c \in Client : Staged(c, hello) \in Client /\ Staged(c, hello).sock = c.sock
                                               /\ Staged(c, hello).chunk = c.chunk
  BY DEF Staged, Client
<1>3. [client[w] EXCEPT !.busy = FALSE] \in Client /\ [client[w] EXCEPT !.busy = FALSE].sock = client[w].sock
      /\ [client[w] EXCEPT !.busy = FALSE].chunk = client[w].chunk
  BY <1>1 DEF Client
<1>4. \A hello \in Codes : hello \in Hellos
  BY DEF Hellos
<1>5. "plain" \in Hellos
  BY DEF Hellos
<1> QED BY <1>1, <1>2, <1>3, <1>4, <1>5, DisconnectKeeps DEF Leave, Reconnect, Pair

(* The other actions of the extension, each by FitKeeps or RestKeeps.      *)
LEMMA TickKeeps ==
  ASSUME WireInv, NEW w \in Windows, Tick(w) \/ BusyOver(w)
  PROVE  Wired'
<1>1. client[w] \in Client
  BY DEF WireInv, TypeOK
<1>2. CASE Tick(w)
  <2> DEFINE c == [client[w] EXCEPT !.stage = "plain"]
  <2>1. c \in Client /\ c.sock = None /\ client[w].sock = None /\ c.keyed = client[w].keyed /\ c.work = client[w].work
        /\ c.chunk = client[w].chunk
    BY <1>1, <1>2 DEF Client, Hellos, Tick
  <2>2. client' = [client EXCEPT ![w] = c] /\ UNCHANGED <<conn, session, request, expired>>
    BY <1>2 DEF Tick, browser
  <2> HIDE DEF c
  <2>3. ~c.keyed => \A h \in c.work : ~h.live
    BY <2>1 DEF WireInv, ClientInv
  <2> QED BY <2>1, <2>2, <2>3, RestKeeps
<1>3. CASE BusyOver(w)
  <2> DEFINE c == [client[w] EXCEPT !.busy = FALSE]
  <2>1. /\ c \in Client /\ c.sock = client[w].sock /\ c.keyed = client[w].keyed /\ c.work = client[w].work
        /\ c.stage = client[w].stage /\ c.chunk = client[w].chunk /\ c.out = client[w].out
    BY <1>1 DEF Client
  <2>2. client' = [client EXCEPT ![w] = c] /\ UNCHANGED <<conn, session, request, expired>>
    BY <1>3 DEF BusyOver, browser
  <2> HIDE DEF c
  <2>3. (~c.keyed => \A h \in c.work : ~h.live) /\ (c.stage # None => c.sock = None)
    BY <2>1 DEF WireInv, ClientInv
  <2>4. Handled(c) = Handled(client[w])
    BY <2>1 DEF Handled
  <2> QED BY <2>1, <2>2, <2>3, <2>4, RestKeeps
<1> QED BY <1>2, <1>3

LEMMA OpenKeeps ==
  ASSUME WireInv, NEW w \in Windows, Open(w) PROVE Wired'
<1>1. /\ client[w] \in Client /\ client[w].stage # None /\ client[w].chunk = None
      /\ UNCHANGED <<session, request, expired>>
  BY DEF WireInv, TypeOK, Open, browser
<1>2. client[w].sock = None /\ ~client[w].keyed /\ \A h \in client[w].work : ~h.live
  BY <1>1, ClientFields DEF WireInv, ClientInv
<1>3. CASE client' = [client EXCEPT ![w].stage = None] /\ UNCHANGED conn
  <2> DEFINE c == [client[w] EXCEPT !.stage = None]
  <2>1. c \in Client /\ c.sock = None /\ ~c.keyed /\ c.work = client[w].work /\ c.stage = None /\ c.keyed = client[w].keyed
        /\ c.chunk = client[w].chunk
    BY <1>1, <1>2 DEF Client
  <2>2. client' = [client EXCEPT ![w] = c]
    BY <1>3
  <2> HIDE DEF c
  <2> QED BY <1>1, <1>2, <1>3, <2>1, <2>2, RestKeeps
<1>4. ASSUME NEW s \in Sockets, conn[s] = NoConn,
             conn' = [conn EXCEPT ![s] = [NoConn EXCEPT !.window = w, !.hello = client[w].stage,
                                                        !.near = "new", !.far = "open"]],
             client' = [client EXCEPT ![w].sock = s, ![w].stage = None]
      PROVE  Wired'
  <2> DEFINE c == [client[w] EXCEPT !.sock = s, !.stage = None]
             d == [NoConn EXCEPT !.window = w, !.hello = client[w].stage, !.near = "new", !.far = "open"]
  <2>1. /\ c \in Client /\ c.sock = s /\ ~c.keyed /\ c.work = client[w].work /\ c.stage = None
        /\ c.chunk = None
    BY <1>1, <1>2 DEF Client
  <2>2. /\ d \in Socket /\ d.window = w /\ d.near = "new" /\ d.far = "open" /\ d.up = <<>> /\ d.down = <<>>
    BY <1>1, NoFrames, ClientFields DEF NoConn, Socket
  <2>3. client' = [client EXCEPT ![w] = c] /\ conn' = [conn EXCEPT ![s] = d]
    BY <1>1, <1>4 DEF WireInv, TypeOK
  <2>4. conn[s].window = None /\ conn[s].near = "gone" /\ conn[s].far = "gone"
    BY <1>4 DEF NoConn
  <2> HIDE DEF c, d
  <2>5. Due(c, d) = {} /\ Chunked(c) = {}
    BY <2>1, <2>2 DEF Due, First, ReqsFrom, Chunked
  <2>6. Fits(w, s, c, d)
    BY <1>2, <2>1, <2>2, <2>4, <2>5, BridgeAssumption DEF Fits, FrameOK, WireInv, SocketInv
  <2>7. \A x \in Sockets \ {s} : conn[x].window = w => conn[x].far = "gone"
    <3>1. \A x \in Sockets : conn[x].window = w => conn[x].far # "closing"
      BY DEF Open
    <3>2. \A x \in Sockets : conn[x].window = w => conn[x].far # "open"
      BY <1>2, BridgeAssumption DEF WireInv, SocketInv
    <3> QED BY <3>1, <3>2, SocketFields DEF WireInv, TypeOK
  <2>8. \A x \in Windows \ {w} : client[x].sock # s
    BY <2>4, BridgeAssumption DEF WireInv, ClientInv
  <2> QED BY <1>1, <2>3, <2>6, <2>7, <2>8, FitKeeps
<1> QED BY <1>3, <1>4 DEF Open

(* The client's own socket.                                                *)
LEMMA OwnFacts ==
  ASSUME WireInv, NEW w \in Windows, client[w].sock # None
  PROVE  /\ client[w] \in Client /\ client[w].sock \in Sockets /\ conn[client[w].sock] \in Socket
         /\ conn[client[w].sock].window = w /\ conn[client[w].sock].far # "gone" /\ client[w].stage = None
         /\ client[w].keyed => conn[client[w].sock].near # "new"
  BY ClientFields DEF WireInv, ClientInv, TypeOK

LEMMA NobodyHandles ==
  ASSUME NEW c, \A h \in c.work : ~h.live PROVE Handled(c) = {}
  BY DEF Handled

LEMMA ReadWelcomeKeeps ==
  ASSUME WireInv, NEW w \in Windows, NEW n \in 1 .. MaxRequests + 1, ReadWelcome(w, n) PROVE Wired'
<1> DEFINE b == client[w]  s == b.sock  q == conn[s].down
           c == [b EXCEPT !.keyed = TRUE, !.in = 0, !.out = 0, !.chunk = SubSeq(q, 2, n)]
           d == [conn[s] EXCEPT !.down = SubSeq(q, n + 1, Len(q))]
<1>1. /\ b.sock # None /\ ~b.keyed /\ conn[s].far = "open" /\ n <= Len(q)
      /\ client' = [client EXCEPT ![w] = c] /\ conn' = [conn EXCEPT ![s] = d]
      /\ UNCHANGED <<session, request, expired>>
  BY DEF ReadWelcome, WireInv, TypeOK, browser
<1>2. /\ b \in Client /\ s \in Sockets /\ conn[s] \in Socket /\ conn[s].window = w /\ b.stage = None
  BY <1>1, OwnFacts
<1>3. q \in Seq(Frame) /\ n \in 1 .. Len(q)
  BY <1>1, <1>2, SocketFields, BridgeAssumption
<1>4. /\ SubSeq(q, 2, n) \in Seq(Frame) /\ SubSeq(q, n + 1, Len(q)) \in Seq(Frame)
      /\ ReqsFrom(SubSeq(q, 2, n), 1) \subseteq ReqsFrom(q, 2)
      /\ ReqsFrom(SubSeq(q, n + 1, Len(q)), 1) \subseteq ReqsFrom(q, 2)
      /\ OnceFrom(q, 2) => /\ OnceFrom(SubSeq(q, 2, n), 1) /\ OnceFrom(SubSeq(q, n + 1, Len(q)), 1)
                           /\ ReqsFrom(SubSeq(q, 2, n), 1) \cap ReqsFrom(SubSeq(q, n + 1, Len(q)), 1) = {}
  BY <1>3, SplitReqs
<1> DEFINE x == SubSeq(q, 2, n)  y == SubSeq(q, n + 1, Len(q))
<1>5. /\ c \in Client /\ c.sock = s /\ c.keyed = TRUE /\ c.out = 0 /\ c.chunk = x /\ c.work = b.work /\ c.stage = None
  <2>1. [b EXCEPT !.keyed = TRUE, !.in = 0, !.out = 0, !.chunk = x] \in Client
    BY <1>2, <1>4 DEF Client
  <2> QED BY <1>2, <2>1 DEF Client
<1>6. /\ d \in Socket /\ d.window = w /\ d.near = conn[s].near /\ d.far = "open" /\ d.up = conn[s].up /\ d.down = y
  <2>1. [conn[s] EXCEPT !.down = y] \in Socket
    BY <1>2, <1>4 DEF Socket
  <2> QED BY <1>1, <1>2, <2>1 DEF Socket
<1>7. Due(b, conn[s]) = ReqsFrom(q, 2) /\ First(b) = 2
  BY <1>1 DEF Due, First
<1>8. d.near # "new"
  <2>1. q # <<>>
    BY <1>3
  <2> QED BY <1>2, <1>6, <2>1 DEF WireInv, SocketInv
<1>14. FrameOK(b, conn[s])
  BY <1>1, <1>2 DEF WireInv, FrameInv, FrameOK
<1>15. conn[s].near = "ready" => UpInv(conn[s]) /\ OpenInv(b, conn[s])
  BY <1>1, <1>2 DEF WireInv, ReadyInv
<1>16. Handled(b) = {}
  BY <1>1, NobodyHandles DEF WireInv, ClientInv
<1>17. client[w].sock = s
  OBVIOUS
<1> HIDE DEF c, d, q, x, y
<1>9. Due(c, d) = ReqsFrom(y, 1) /\ First(c) = 1 /\ Chunked(c) \subseteq ReqsFrom(x, 1) /\ Handled(c) = {}
  BY <1>5, <1>6, <1>16 DEF Due, First, Chunked, Handled
<1>10. FrameOK(c, d)
  BY <1>1, <1>4, <1>6, <1>7, <1>9, <1>14 DEF FrameOK, x, y
<1>11. d.near = "ready" => UpInv(d)
  BY <1>6, <1>15, UpSame
<1>12. ASSUME d.near = "ready" PROVE OpenInv(c, d)
  <2>1. OpenInv(b, conn[s])
    BY <1>6, <1>12, <1>15
  <2>2. conn[s].up = <<>> /\ session.in = 0 /\ OnceFrom(q, 2) /\ \A r \in ReqsFrom(q, 2) : Asked(r)
    BY <1>1, <1>7, <2>1 DEF OpenInv, q
  <2>3. Answered(d) = {}
    BY <1>6, <2>2 DEF Answered, Answers
  <2>4. OnceFrom(x, 1) /\ OnceFrom(y, 1) /\ ReqsFrom(x, 1) \cap ReqsFrom(y, 1) = {}
    BY <1>4, <2>2 DEF x, y
  <2>5. \A r \in Due(c, d) \cup Chunked(c) \cup Handled(c) : Asked(r)
    BY <1>4, <1>9, <2>2 DEF x, y
  <2>6. c.out = session.in + Len(d.up)
    BY <1>5, <1>6, <2>2
  <2> QED BY <1>5, <1>6, <1>9, <2>3, <2>4, <2>5, <2>6 DEF OpenInv
<1>13. Fits(w, s, c, d)
  <2>1. session # None /\ session.sock = s => d.near \in {"ready", "closing"}
    BY <1>6 DEF WireInv, SocketInv
  <2>2. d.near = "ready" => session # None /\ session.sock = s
    BY <1>2, <1>6 DEF WireInv, SocketInv
  <2> QED BY <1>1, <1>5, <1>6, <1>8, <1>10, <1>11, <1>12, <2>1, <2>2, <1>2, BridgeAssumption DEF Fits
<1> HIDE DEF s, b
<1>18. /\ \A z \in Sockets \ {s} :
            conn[z].window = w => conn[z].far = "gone" \/ (conn[z].far = "closing" /\ c.sock = None)
       /\ \A z \in Windows \ {w} : client[z].sock # s
  BY <1>1, <1>2, <1>5, <1>17, OwnSocket
<1> QED BY <1>1, <1>2, <1>13, <1>18, FitKeeps

(* A socket whose far end closes owes its client nothing.                  *)
LEMMA ClosingFits ==
  ASSUME WireInv, NEW w \in Windows, NEW s \in Sockets, NEW c \in Client, NEW d \in Socket,
         d.near = conn[s].near, d.far # "open", d.near = "ready" => UpInv(d), c.chunk \in {client[w].chunk, None},
         d.near = "new" => d.up = <<>> /\ d.down = <<>>,
         d.window = w \/ (d.far = "gone" /\ d.near = "gone"),
         c.sock \in {s, None}, c.sock = s => d.far # "gone", c.stage # None => c.sock = None,
         c.keyed => c.sock # None /\ d.near # "new",
         ~c.keyed => (\A h \in c.work : ~h.live) /\ (c.sock # None => c.chunk = None)
  PROVE  Fits(w, s, c, d)
<1>1. session # None /\ session.sock = s => d.near \in {"ready", "closing"}
  BY DEF WireInv, SocketInv
<1>2. d.near = "ready" => session # None /\ session.sock = s
  BY DEF WireInv, SocketInv
<1>3. Chunked(c) \subseteq Requests
  BY DEF Chunked, WireInv, FrameInv
<1> QED BY <1>1, <1>2, <1>3 DEF Fits, FrameOK

LEMMA WelcomeTimesOutKeeps ==
  ASSUME WireInv, NEW w \in Windows, WelcomeTimesOut(w) PROVE Wired'
<1> DEFINE c == client[w]  s == c.sock  d == FarDestroyed(conn[s])
<1>1. /\ s # None /\ conn' = [conn EXCEPT ![s] = d] /\ UNCHANGED <<session, request, expired>>
      /\ client' = [client EXCEPT ![w] = c]
  BY DEF WelcomeTimesOut, browser, WireInv, TypeOK
<1>2. /\ c \in Client /\ s \in Sockets /\ conn[s] \in Socket /\ conn[s].window = w /\ conn[s].far # "gone"
      /\ c.stage = None
  BY <1>1, OwnFacts
<1>3. /\ d \in Socket /\ d.window = w /\ d.near = conn[s].near /\ d.far = "closing" /\ d.up = conn[s].up
      /\ conn[s].down = <<>> => d.down = <<>>
  BY <1>2, FarDestroyedShape, SocketFields
<1> HIDE DEF d
<1>4. d.near = "ready" => UpInv(d)
  BY <1>2, <1>3, UpSame DEF WireInv, ReadyInv
<1>5. Fits(w, s, c, d)
  <2>1. d.near = "new" => d.up = <<>> /\ d.down = <<>>
    BY <1>2, <1>3 DEF WireInv, SocketInv
  <2>2. c.keyed => c.sock # None /\ d.near # "new"
    BY <1>1, <1>3 DEF WireInv, ClientInv
  <2>3. ~c.keyed => (\A h \in c.work : ~h.live) /\ (c.sock # None => c.chunk = None)
    BY DEF WireInv, ClientInv
  <2> QED BY <1>2, <1>3, <1>4, <2>1, <2>2, <2>3, ClosingFits
<1>6. c.sock \in {s, None} /\ (c.sock = s => client[w].sock = s)
  OBVIOUS
<1> HIDE DEF s, c
<1>7. /\ \A z \in Sockets \ {s} :
            conn[z].window = w => conn[z].far = "gone" \/ (conn[z].far = "closing" /\ c.sock = None)
      /\ \A z \in Windows \ {w} : client[z].sock # s
  BY <1>2, <1>6, OwnSocket
<1> QED BY <1>1, <1>2, <1>5, <1>7, FitKeeps

LEMMA FarClosesKeeps ==
  ASSUME WireInv, NEW s \in Sockets, FarCloses(s) PROVE Wired'
<1> DEFINE w == conn[s].window
           b == [client[w] EXCEPT !.busy = client[w].busy \/ ~client[w].keyed]
           c == Unconnected(b)
           d == Freed([conn[s] EXCEPT !.far = "gone", !.down = <<>>])
<1>1. /\ conn[s] \in Socket /\ conn[s].far # "gone" /\ w \in Windows /\ client[w] \in Client
  BY SocketFields DEF FarCloses, WireInv, TypeOK, SocketInv
<1>2. client' = [client EXCEPT ![w] = c] /\ conn' = [conn EXCEPT ![s] = d] /\ UNCHANGED <<session, request, expired>>
  <2>1. client' = [client EXCEPT ![w] = Unconnected([client[w] EXCEPT !.busy = client[w].busy \/ ~client[w].keyed])]
    BY DEF FarCloses
  <2>2. conn' = [conn EXCEPT ![s] = Freed([conn[s] EXCEPT !.far = "gone", !.down = <<>>])]
    BY DEF FarCloses
  <2> QED BY <2>1, <2>2 DEF FarCloses, browser
<1>3. b \in Client /\ b.stage = client[w].stage /\ b.chunk = client[w].chunk
  BY <1>1 DEF Client
<1>4. /\ c \in Client /\ c.sock = None /\ ~c.keyed /\ (\A h \in c.work : ~h.live) /\ c.chunk = client[w].chunk
  BY <1>3, UnconnectedShape
<1>5. /\ d \in Socket /\ d.far = "gone" /\ d.near = conn[s].near /\ d.down = <<>>
      /\ conn[s].near # "gone" => d.up = conn[s].up /\ d.window = w
  BY <1>1, FarGoneShape
<1> HIDE DEF b, c, d
<1>6. d.near = "ready" => UpInv(d)
  BY <1>5, UpSame DEF WireInv, ReadyInv
<1>7. d.near = "new" => d.up = <<>> /\ d.down = <<>>
  BY <1>5 DEF WireInv, SocketInv
<1>8. Fits(w, s, c, d)
  BY <1>1, <1>4, <1>5, <1>6, <1>7, BridgeAssumption, ClosingFits
<1>9. c.sock \in {s, None} /\ (c.sock = s => client[w].sock = s)
  BY <1>4, BridgeAssumption
<1>10. conn[s].window = w
  OBVIOUS
<1> HIDE DEF w
<1>11. /\ \A z \in Sockets \ {s} :
             conn[z].window = w => conn[z].far = "gone" \/ (conn[z].far = "closing" /\ c.sock = None)
       /\ \A z \in Windows \ {w} : client[z].sock # s
  BY <1>1, <1>9, <1>10, OwnSocket
<1> QED BY <1>1, <1>2, <1>8, <1>11, FitKeeps

LEMMA HandlersShape ==
  ASSUME NEW q \in Seq(Frame), ReqsFrom(q, 1) \subseteq Requests
  PROVE  /\ Handlers(q) \in SUBSET Handler /\ \A h \in Handlers(q) : h.live
         /\ {h.req : h \in Handlers(q)} = ReqsFrom(q, 1)
<1>1. Range(q) = {q[i] : i \in 1 .. Len(q)}
  BY DEF Range
<1>2. Handlers(q) = {[req |-> q[i].req, live |-> TRUE] : i \in 1 .. Len(q)}
  BY <1>1 DEF Handlers
<1>3. \A i \in 1 .. Len(q) : q[i].req \in Requests /\ [req |-> q[i].req, live |-> TRUE] \in Handler
  BY DEF ReqsFrom, Handler
<1>4. \A h \in Handlers(q) : h \in Handler /\ h.live
  BY <1>2, <1>3
<1>5. {h.req : h \in Handlers(q)} = {q[i].req : i \in 1 .. Len(q)}
  <2>1. \A h \in Handlers(q) : \E i \in 1 .. Len(q) : h.req = q[i].req
    BY <1>2
  <2>2. ASSUME NEW i \in 1 .. Len(q) PROVE \E h \in Handlers(q) : h.req = q[i].req
    <3>1. [req |-> q[i].req, live |-> TRUE] \in Handlers(q) /\ [req |-> q[i].req, live |-> TRUE].req = q[i].req
      BY <1>2
    <3> QED BY <3>1
  <2> QED BY <2>1, <2>2
<1> QED BY <1>4, <1>5 DEF ReqsFrom

LEMMA MoreHandled ==
  ASSUME NEW k \in SUBSET Handler, NEW l \in SUBSET Handler, NEW b, NEW c, b.work = k, c.work = k \cup l,
         \A h \in l : h.live
  PROVE  Handled(c) = Handled(b) \cup {h.req : h \in l}
  BY DEF Handled

LEMMA ReadRequestKeeps ==
  ASSUME WireInv, NEW w \in Windows, ReadRequest(w) PROVE Wired'
<1> DEFINE b == client[w]  s == b.sock  q == conn[s].down
<1>1. b.sock # None /\ b.keyed /\ conn[s].far = "open" /\ q # <<>> /\ UNCHANGED <<session, request, expired>>
  BY DEF ReadRequest, browser
<1>2. /\ b \in Client /\ s \in Sockets /\ conn[s] \in Socket /\ conn[s].window = w /\ b.stage = None
      /\ conn[s].near # "new" /\ client \in [Windows -> Client] /\ conn \in [Sockets -> Socket]
  BY <1>1, OwnFacts DEF WireInv, TypeOK
<1>3. q \in Seq(Frame) /\ b.in \in Nat /\ b.work \in SUBSET Handler
  BY <1>2, SocketFields, ClientFields
<1>4. session # None /\ session.sock = s => conn[s].near \in {"ready", "closing"}
  BY DEF WireInv, SocketInv
<1>5. conn[s].near = "ready" => session # None /\ session.sock = s
  BY <1>2 DEF WireInv, SocketInv
<1>6. FrameOK(b, conn[s]) /\ (conn[s].near = "ready" => UpInv(conn[s]) /\ OpenInv(b, conn[s]))
  BY <1>1, <1>2 DEF WireInv, FrameInv, FrameOK, ReadyInv
<1>7. First(b) = 1 /\ Due(b, conn[s]) = ReqsFrom(q, 1)
  BY <1>1 DEF First, Due
<1>8. \A c : c.sock = s =>
        /\ \A z \in Sockets \ {s} :
             conn[z].window = w => conn[z].far = "gone" \/ (conn[z].far = "closing" /\ c.sock = None)
        /\ \A z \in Windows \ {w} : client[z].sock # s
  BY <1>1, <1>2, OwnSocket
<1>9. CASE Head(q).no = b.in
  <2> DEFINE c == [b EXCEPT !.in = @ + 1, !.work = @ \cup Handlers(<<Head(q)>>)]
             d == [conn[s] EXCEPT !.down = Tail(q)]
             f == q[1]
  <2>1. client' = [client EXCEPT ![w] = c] /\ conn' = [conn EXCEPT ![s] = d]
    BY <1>2, <1>9 DEF ReadRequest
  <2>2. /\ Tail(q) \in Seq(Frame) /\ f \in Frame /\ Head(q) = f
        /\ ReqsFrom(Tail(q), 1) \subseteq ReqsFrom(q, 1) /\ f.req \in ReqsFrom(q, 1)
        /\ OnceFrom(q, 1) => OnceFrom(Tail(q), 1) /\ f.req \notin ReqsFrom(Tail(q), 1)
    BY <1>1, <1>3, TailReqs
  <2>3. <<f>> \in Seq(Frame) /\ ReqsFrom(<<f>>, 1) = {f.req}
    BY <2>2 DEF ReqsFrom
  <2>4. f.req \in Requests
    BY <1>1, <1>6, <1>7, <2>2 DEF FrameOK
  <2>5. /\ Handlers(<<f>>) \in SUBSET Handler /\ (\A h \in Handlers(<<f>>) : h.live)
        /\ {h.req : h \in Handlers(<<f>>)} = {f.req}
    BY <2>3, <2>4, HandlersShape
  <2>6. /\ c \in Client /\ c.sock = s /\ c.keyed = TRUE /\ c.out = b.out /\ c.chunk = b.chunk /\ c.stage = None
        /\ c.work = b.work \cup Handlers(<<f>>)
    <3>1. \A m \in Nat, k \in SUBSET Handler : [b EXCEPT !.in = m, !.work = k] \in Client
      BY <1>2 DEF Client
    <3>2. b.in + 1 \in Nat /\ b.work \cup Handlers(<<f>>) \in SUBSET Handler
      BY <1>3, <2>5
    <3>3. c = [b EXCEPT !.in = b.in + 1, !.work = b.work \cup Handlers(<<f>>)]
      BY <2>2
    <3>4. c \in Client
      BY <3>1, <3>2, <3>3
    <3> QED BY <1>1, <1>2, <3>3, <3>4 DEF Client
  <2>7. d \in Socket /\ d.window = w /\ d.near = conn[s].near /\ d.far = "open" /\ d.up = conn[s].up /\ d.down = Tail(q)
    <3>1. d \in Socket
      BY <1>2, <2>2 DEF Socket
    <3> QED BY <1>1, <1>2, <3>1 DEF Socket
  <2> HIDE DEF c, d, f, q
  <2>8. Handled(c) = Handled(b) \cup {f.req}
    <3>1. Handled(c) = Handled(b) \cup {h.req : h \in Handlers(<<f>>)}
      BY <1>3, <2>5, <2>6, MoreHandled
    <3> QED BY <2>5, <3>1
  <2>9. First(c) = 1 /\ Due(c, d) = ReqsFrom(Tail(q), 1) /\ Chunked(c) = Chunked(b)
    BY <2>6, <2>7 DEF First, Due, Chunked
  <2>10. FrameOK(c, d)
    BY <1>1, <1>6, <1>7, <2>2, <2>9 DEF FrameOK
  <2>11. d.near = "ready" => UpInv(d)
    BY <1>6, <2>7, UpSame
  <2>12. ASSUME d.near = "ready" PROVE OpenInv(c, d)
    <3>1. OpenInv(b, conn[s])
      BY <1>6, <2>7, <2>12
    <3>2. Answered(d) = Answered(conn[s])
      BY <2>7 DEF Answered, Answers
    <3>3. /\ OnceFrom(q, 1) /\ \A r \in ReqsFrom(q, 1) : Asked(r)
      BY <1>7, <3>1 DEF OpenInv, q
    <3>4. f.req \notin Due(c, d) /\ f.req \notin Chunked(c) /\ f.req \notin Answered(d) /\ Asked(f.req)
      BY <1>7, <2>2, <2>9, <3>1, <3>2, <3>3 DEF OpenInv
    <3>5. c.keyed => c.out = session.in + Len(d.up)
      BY <1>1, <2>6, <2>7, <3>1 DEF OpenInv
    <3>6. OnceFrom(d.down, First(c)) /\ (c.chunk # None => OnceFrom(c.chunk, 1))
      BY <2>2, <2>6, <2>7, <2>9, <3>1, <3>3 DEF OpenInv
    <3>7. Due(c, d) \subseteq Due(b, conn[s])
      BY <1>7, <2>2, <2>9
    <3>8. \A r \in Due(c, d) \cup Chunked(c) \cup Handled(c) : Asked(r)
      BY <2>8, <2>9, <3>1, <3>4, <3>7 DEF OpenInv
    <3> QED BY <2>6, <2>8, <2>9, <3>1, <3>2, <3>4, <3>5, <3>6, <3>7, <3>8 DEF OpenInv
  <2>13. Fits(w, s, c, d)
    BY <1>1, <1>2, <1>4, <1>5, <2>6, <2>7, <2>10, <2>11, <2>12 DEF Fits
  <2> HIDE DEF s, b
  <2> QED BY <1>1, <1>2, <1>8, <2>1, <2>6, <2>13, FitKeeps
<1>10. CASE Head(q).no # b.in
  <2> DEFINE c == [b EXCEPT !.in = @ + 1]  d == FarDestroyed(conn[s])
  <2>1. client' = [client EXCEPT ![w] = c] /\ conn' = [conn EXCEPT ![s] = d]
    BY <1>2, <1>10 DEF ReadRequest
  <2>2. /\ c \in Client /\ c.sock = s /\ c.keyed = TRUE /\ c.stage = None /\ c.chunk = b.chunk
    <3>1. b.in + 1 \in Nat /\ c = [b EXCEPT !.in = b.in + 1]
      BY <1>3
    <3>2. \A m \in Nat : [b EXCEPT !.in = m] \in Client
      BY <1>2 DEF Client
    <3> QED BY <1>1, <1>2, <3>1, <3>2 DEF Client
  <2>3. d \in Socket /\ d.window = w /\ d.near = conn[s].near /\ d.far = "closing" /\ d.up = conn[s].up
    BY <1>1, <1>2, FarDestroyedShape
  <2> HIDE DEF c, d
  <2>4. d.near = "ready" => UpInv(d)
    BY <1>6, <2>3, UpSame
  <2>5. Fits(w, s, c, d)
    BY <1>1, <1>2, <2>2, <2>3, <2>4, ClosingFits
  <2> HIDE DEF s, b
  <2> QED BY <1>1, <1>2, <1>8, <2>1, <2>2, <2>5, FitKeeps
<1> QED BY <1>9, <1>10

(* One more frame on a socket.                                             *)
LEMMA WrittenUp ==
  ASSUME NEW e \in Socket, NEW d, NEW f \in Frame, d.up = Append(e.up, f), UpInv(e),
         session.in \in Nat, f.no = session.in + Len(e.up),
         f.kind = "answer" => Asked(f.req) /\ f.req \notin Answered(e)
  PROVE  /\ UpInv(d) /\ Len(d.up) = Len(e.up) + 1
         /\ \A r \in Answered(d) : r \in Answered(e) \/ (f.kind = "answer" /\ r = f.req)
<1> DEFINE u == e.up  v == d.up  m == Len(u)
<1>1. /\ v = Append(u, f) /\ Len(v) = m + 1 /\ m \in Nat /\ v[m + 1] = f /\ \A i \in 1 .. m : v[i] = u[i]
  BY SocketFields
<1>2. \A i \in 1 .. m + 1 : i = m + 1 \/ i \in 1 .. m
  BY <1>1
<1>3. m + 1 - 1 = m /\ m + 1 \notin 1 .. m
  BY <1>1
<1> HIDE DEF u, v, m
<1>4. Answers(d) = {i \in 1 .. m + 1 : v[i].kind = "answer"} /\ Answers(e) = {i \in 1 .. m : u[i].kind = "answer"}
  BY <1>1 DEF Answers, u, v, m
<1>5. \A i \in Answers(d) : (i \in Answers(e) /\ v[i] = u[i]) \/ (i = m + 1 /\ v[i] = f /\ f.kind = "answer")
  BY <1>1, <1>2, <1>4
<1>6. Answered(d) = {v[i].req : i \in Answers(d)} /\ Answered(e) = {u[i].req : i \in Answers(e)}
  BY DEF Answered, u, v
<1>7. \A r \in Answered(d) : r \in Answered(e) \/ (f.kind = "answer" /\ r = f.req)
  BY <1>5, <1>6
<1>8. \A i \in 1 .. m + 1 : v[i].no = session.in + i - 1
  <2>1. ASSUME NEW i \in 1 .. m PROVE v[i].no = session.in + i - 1
    BY <1>1 DEF UpInv, u, m
  <2>2. v[m + 1].no = session.in + (m + 1) - 1
    BY <1>1 DEF m, u
  <2> QED BY <1>2, <2>1, <2>2
<1>9. \A r \in Answered(d) : Asked(r)
  BY <1>7 DEF UpInv
<1>10. ASSUME NEW i \in Answers(d), NEW j \in Answers(d), i # j PROVE v[i].req # v[j].req
  <2>1. CASE i \in Answers(e) /\ j \in Answers(e) /\ v[i] = u[i] /\ v[j] = u[j]
    BY <1>10, <2>1 DEF UpInv, u
  <2>2. CASE i = m + 1 /\ v[i] = f /\ f.kind = "answer" /\ j \in Answers(e) /\ v[j] = u[j]
    BY <1>6, <2>2
  <2>3. CASE j = m + 1 /\ v[j] = f /\ f.kind = "answer" /\ i \in Answers(e) /\ v[i] = u[i]
    BY <1>6, <2>3
  <2> QED BY <1>5, <1>10, <2>1, <2>2, <2>3
<1> QED BY <1>1, <1>7, <1>8, <1>9, <1>10 DEF UpInv, u, v, m

(* A keyed client writes the next frame: an event, or the answer of a      *)
(* handler that ends.                                                      *)
LEMMA WriteFits ==
  ASSUME WireInv, NEW w \in Windows, client[w].keyed, NEW c \in Client, NEW f \in Frame,
         c.sock = client[w].sock, c.keyed, c.stage = None, c.out = client[w].out + 1, f.no = client[w].out,
         c.chunk # None => c.chunk = client[w].chunk,
         \A r \in Handled(c) : \/ r \in Handled(client[w])
                               \/ r \in Chunked(client[w]) /\ c.chunk = None,
         f.kind = "answer" => /\ f.req \in Handled(client[w]) /\ f.req \notin Handled(c)
                              /\ c.chunk = client[w].chunk
  PROVE  LET s == client[w].sock IN
         /\ s \in Sockets /\ conn[s] \in Socket /\ conn[s].window = w /\ conn[s].far # "gone"
         /\ Fits(w, s, c, Written(conn[s], f))
         /\ conn[s].near = "ready" => UpInv(Written(conn[s], f))
<1> DEFINE b == client[w]  s == b.sock  d == Written(conn[s], f)
<1>1. b.sock # None
  BY DEF WireInv, ClientInv
<1>2. /\ b \in Client /\ s \in Sockets /\ conn[s] \in Socket /\ conn[s].window = w /\ conn[s].far # "gone"
      /\ conn[s].near # "new" /\ b.out \in Nat
  BY <1>1, OwnFacts, ClientFields DEF WireInv, TypeOK
<1>3. /\ d \in Socket /\ d.window = conn[s].window /\ d.near = conn[s].near /\ d.far = conn[s].far
      /\ d.down = conn[s].down
      /\ d.up = IF conn[s].near = "ready" /\ conn[s].far = "open" THEN Append(conn[s].up, f) ELSE conn[s].up
  BY <1>2, WrittenShape
<1>4. session # None /\ session.sock = s => conn[s].near \in {"ready", "closing"}
  BY DEF WireInv, SocketInv
<1>5. conn[s].near = "ready" => session # None /\ session.sock = s /\ session \in Session /\ session.in \in Nat
  BY <1>2 DEF WireInv, SocketInv, TypeOK, Session
<1>6. /\ conn[s].near = "ready" => UpInv(conn[s])
      /\ conn[s].near = "ready" /\ conn[s].far = "open" => OpenInv(b, conn[s])
      /\ FrameOK(b, conn[s])
  BY <1>1, <1>2 DEF WireInv, FrameInv, FrameOK, ReadyInv
<1> HIDE DEF d
<1>7. First(c) = First(b) /\ Due(c, d) = Due(b, conn[s])
  BY <1>3 DEF First, Due
<1>8. Chunked(c) \subseteq Chunked(b) /\ (c.chunk = None => Chunked(c) = {}) /\ (c.chunk = b.chunk => Chunked(c) = Chunked(b))
  BY DEF Chunked
<1>9. FrameOK(c, d)
  BY <1>3, <1>6, <1>7, <1>8 DEF FrameOK
<1>10. CASE ~(conn[s].near = "ready" /\ conn[s].far = "open")
  <2>1. d.near = "ready" => UpInv(d)
    BY <1>3, <1>6, <1>10, UpSame
  <2> QED BY <1>1, <1>2, <1>3, <1>4, <1>5, <1>9, <1>10, <2>1 DEF Fits, d
<1>11. CASE conn[s].near = "ready" /\ conn[s].far = "open"
  <2>1. OpenInv(b, conn[s]) /\ UpInv(conn[s]) /\ d.up = Append(conn[s].up, f) /\ session.in \in Nat
    BY <1>3, <1>5, <1>6, <1>11
  <2>2. f.no = session.in + Len(conn[s].up)
    BY <2>1 DEF OpenInv
  <2>3. f.kind = "answer" => Asked(f.req) /\ f.req \notin Answered(conn[s]) /\ f.req \notin Due(b, conn[s]) /\ f.req \notin Chunked(b)
    BY <2>1 DEF OpenInv
  <2>4. /\ UpInv(d) /\ Len(d.up) = Len(conn[s].up) + 1
        /\ \A r \in Answered(d) : r \in Answered(conn[s]) \/ (f.kind = "answer" /\ r = f.req)
    BY <1>2, <2>1, <2>2, <2>3, WrittenUp
  <2>5. c.out = session.in + Len(d.up)
    <3>1. Len(conn[s].up) \in Nat
      BY <1>2, SocketFields
    <3>2. b.out = session.in + Len(conn[s].up)
      BY <2>1 DEF OpenInv
    <3> QED BY <2>1, <2>4, <3>1, <3>2
  <2>6. OpenInv(c, d)
    <3>1. \A r \in Due(c, d) \cup Chunked(c) \cup Handled(c) : Asked(r)
      BY <1>7, <1>8, <2>1 DEF OpenInv
    <3>2. OnceFrom(d.down, First(c)) /\ (c.chunk # None => OnceFrom(c.chunk, 1))
      BY <1>3, <1>7, <2>1 DEF OpenInv
    <3>3. Due(c, d) \cap Chunked(c) = {} /\ Due(c, d) \cap Handled(c) = {} /\ Chunked(c) \cap Handled(c) = {}
      BY <1>7, <1>8, <2>1 DEF OpenInv
    <3>4. Due(c, d) \cap Answered(d) = {}
      BY <1>7, <2>1, <2>3, <2>4 DEF OpenInv
    <3>5. Chunked(c) \cap Answered(d) = {}
      BY <1>8, <2>1, <2>3, <2>4 DEF OpenInv
    <3>6. Handled(c) \cap Answered(d) = {}
      BY <2>1, <2>3, <2>4 DEF OpenInv
    <3> QED BY <2>5, <3>1, <3>2, <3>3, <3>4, <3>5, <3>6 DEF OpenInv
  <2> QED BY <1>1, <1>2, <1>3, <1>4, <1>5, <1>9, <1>11, <2>4, <2>6 DEF Fits, d
<1> QED BY <1>10, <1>11

LEMMA WriteKeeps ==
  ASSUME WireInv, NEW w \in Windows, client[w].keyed, NEW c \in Client, NEW f \in Frame,
         c.sock = client[w].sock, c.keyed, c.stage = None, c.out = client[w].out + 1, f.no = client[w].out,
         c.chunk # None => c.chunk = client[w].chunk,
         \A r \in Handled(c) : \/ r \in Handled(client[w])
                               \/ r \in Chunked(client[w]) /\ c.chunk = None,
         f.kind = "answer" => /\ f.req \in Handled(client[w]) /\ f.req \notin Handled(c)
                              /\ c.chunk = client[w].chunk,
         client' = [client EXCEPT ![w] = c],
         conn' = [conn EXCEPT ![client[w].sock] = Written(conn[client[w].sock], f)],
         UNCHANGED <<session, request, expired>>
  PROVE  Wired'
<1> DEFINE s == client[w].sock  d == Written(conn[s], f)
<1>1. s \in Sockets /\ conn[s].window = w /\ conn[s].far # "gone" /\ Fits(w, s, c, d)
  BY WriteFits
<1>2. conn' = [conn EXCEPT ![s] = d] /\ client[w].sock = s /\ c.sock = s
  OBVIOUS
<1> HIDE DEF s, d
<1>3. /\ \A z \in Sockets \ {s} :
            conn[z].window = w => conn[z].far = "gone" \/ (conn[z].far = "closing" /\ c.sock = None)
      /\ \A z \in Windows \ {w} : client[z].sock # s
  BY <1>1, <1>2, OwnSocket
<1> QED BY <1>1, <1>2, <1>3, FitKeeps

LEMMA NotifyKeeps ==
  ASSUME WireInv, NEW w \in Windows, Notify(w) PROVE Wired'
<1> DEFINE b == client[w]  c == [b EXCEPT !.out = b.out + 1]  f == Event(b)
<1>1. b \in Client /\ b.keyed /\ b.out \in Nat /\ b.stage = None
  BY ClientFields, OwnFacts DEF Notify, WireInv, TypeOK, ClientInv
<1>2. /\ c \in Client /\ c.sock = b.sock /\ c.keyed = b.keyed /\ c.stage = b.stage /\ c.chunk = b.chunk
      /\ c.work = b.work /\ c.out = b.out + 1
  <2>1. \A m \in Nat : [b EXCEPT !.out = m] \in Client
    BY <1>1 DEF Client
  <2>2. c \in Client
    BY <1>1, <2>1
  <2> QED BY <1>1, <2>2 DEF Client
<1>3. f \in Frame /\ f.kind = "event" /\ f.no = b.out
  BY <1>1, BridgeAssumption DEF Event, Frame
<1>4. /\ client' = [client EXCEPT ![w] = c] /\ conn' = [conn EXCEPT ![b.sock] = Written(conn[b.sock], f)]
      /\ UNCHANGED <<session, request, expired>>
  BY DEF Notify, browser
<1> HIDE DEF c, f
<1>5. Handled(c) = Handled(b)
  BY <1>2 DEF Handled
<1> QED BY <1>1, <1>2, <1>3, <1>4, <1>5, WriteKeeps

LEMMA RespondKeeps ==
  ASSUME WireInv, NEW w \in Windows, NEW h \in client[w].work, Respond(w, h) PROVE Wired'
<1> DEFINE b == client[w]
<1>1. /\ b \in Client /\ b.work \in SUBSET Handler /\ h \in Handler /\ b.out \in Nat
      /\ UNCHANGED <<session, request, expired>>
  BY ClientFields DEF WireInv, TypeOK, Respond, browser
<1>2. CASE h.live
  <2> DEFINE c == [b EXCEPT !.work = b.work \ {h}, !.out = b.out + 1]  f == Answer(b, h)
  <2>1. b.keyed /\ b.sock # None /\ b.stage = None
    BY <1>2, OwnFacts DEF WireInv, ClientInv
  <2>2. /\ c \in Client /\ c.sock = b.sock /\ c.keyed = b.keyed /\ c.stage = b.stage /\ c.chunk = b.chunk
        /\ c.work = b.work \ {h} /\ c.out = b.out + 1
    <3>1. b.out + 1 \in Nat /\ b.work \ {h} \in SUBSET Handler
      BY <1>1
    <3>2. \A m \in Nat, k \in SUBSET Handler : [b EXCEPT !.work = k, !.out = m] \in Client
      BY <1>1 DEF Client
    <3>3. c \in Client
      BY <3>1, <3>2
    <3> QED BY <1>1, <3>3 DEF Client
  <2>3. f \in Frame /\ f.kind = "answer" /\ f.no = b.out /\ f.req = h.req
    BY <1>1, BridgeAssumption DEF Answer, Frame, Handler, Requests
  <2>4. client' = [client EXCEPT ![w] = c] /\ conn' = [conn EXCEPT ![b.sock] = Written(conn[b.sock], f)]
    BY <1>2 DEF Respond
  <2> HIDE DEF c, f
  <2>5. Handled(c) \subseteq Handled(b) /\ h.req \in Handled(b)
    BY <1>2, <2>2 DEF Handled
  <2>6. h.req \notin Handled(c)
    <3>1. \A x \in Handler : x.live /\ x.req = h.req => x = h
      BY <1>1, <1>2 DEF Handler
    <3> QED BY <1>1, <2>2, <3>1 DEF Handled
  <2> QED BY <2>1, <2>2, <2>3, <2>4, <2>5, <2>6, <1>1, WriteKeeps
<1>3. CASE ~h.live
  <2> DEFINE c == [b EXCEPT !.work = b.work \ {h}]
  <2>1. /\ c \in Client /\ c.sock = b.sock /\ c.keyed = b.keyed /\ c.stage = b.stage /\ c.chunk = b.chunk
        /\ c.work = b.work \ {h} /\ c.out = b.out
    <3>1. b.work \ {h} \in SUBSET Handler
      BY <1>1
    <3>2. \A k \in SUBSET Handler : [b EXCEPT !.work = k] \in Client
      BY <1>1 DEF Client
    <3>3. c \in Client
      BY <3>1, <3>2
    <3> QED BY <1>1, <3>3 DEF Client
  <2>2. client' = [client EXCEPT ![w] = c] /\ UNCHANGED conn
    BY <1>3 DEF Respond
  <2> HIDE DEF c
  <2>3. Handled(c) = Handled(b)
    BY <1>3, <2>1 DEF Handled
  <2>4. (c.stage # None => c.sock = None) /\ (~c.keyed => \A x \in c.work : ~x.live)
    BY <2>1 DEF WireInv, ClientInv
  <2> QED BY <1>1, <2>1, <2>2, <2>3, <2>4, RestKeeps
<1> QED BY <1>2, <1>3

LEMMA StoredKeeps ==
  ASSUME WireInv, NEW w \in Windows, Stored(w) PROVE Wired'
<1> DEFINE b == client[w]  rest == b.chunk  s == b.sock  f == Event(b)
<1>1. /\ b \in Client /\ rest \in Seq(Frame) /\ b.out \in Nat /\ b.in \in Nat /\ b.work \in SUBSET Handler
      /\ UNCHANGED <<session, request, expired>> /\ rest # None
  BY ClientFields DEF WireInv, TypeOK, Stored, browser
<1>2. f \in Frame /\ f.kind = "event" /\ f.no = b.out
  BY <1>1, BridgeAssumption DEF Event, Frame
<1>3. CASE ~b.keyed
  <2> DEFINE c == [b EXCEPT !.chunk = None]
  <2>1. b.sock = None
    BY <1>1, <1>3 DEF WireInv, ClientInv
  <2>2. /\ c \in Client /\ c.sock = b.sock /\ c.keyed = b.keyed /\ c.stage = b.stage /\ c.work = b.work
        /\ c.chunk = None
    BY <1>1 DEF Client
  <2>3. client' = [client EXCEPT ![w] = c] /\ UNCHANGED conn
    BY <1>3 DEF Stored
  <2> HIDE DEF c
  <2>4. ~c.keyed => \A x \in c.work : ~x.live
    BY <2>2 DEF WireInv, ClientInv
  <2> QED BY <1>1, <2>1, <2>2, <2>3, <2>4, RestKeeps
<1>4. CASE b.keyed
  <2>1. b.sock # None /\ b.stage = None
    BY <1>4, OwnFacts DEF WireInv, ClientInv
  <2>2. CASE /\ client' = [client EXCEPT ![w] = [b EXCEPT !.chunk = None, !.out = b.out + 1,
                                                       !.in = b.in + Len(rest), !.work = b.work \cup Handlers(rest)]]
             /\ conn' = [conn EXCEPT ![s] = Written(conn[s], f)]
    <3> DEFINE c == [b EXCEPT !.chunk = None, !.out = b.out + 1, !.in = b.in + Len(rest),
                              !.work = b.work \cup Handlers(rest)]
    <3>1. Chunked(b) = ReqsFrom(rest, 1) /\ Chunked(b) \subseteq Requests
      BY <1>1 DEF WireInv, FrameInv, Chunked
    <3>2. /\ Handlers(rest) \in SUBSET Handler /\ (\A h \in Handlers(rest) : h.live)
          /\ {h.req : h \in Handlers(rest)} = Chunked(b)
      BY <1>1, <3>1, HandlersShape
    <3>3. /\ c \in Client /\ c.sock = b.sock /\ c.keyed = b.keyed /\ c.stage = b.stage /\ c.chunk = None
          /\ c.work = b.work \cup Handlers(rest) /\ c.out = b.out + 1
      <4>1. b.out + 1 \in Nat /\ b.in + Len(rest) \in Nat /\ b.work \cup Handlers(rest) \in SUBSET Handler
        BY <1>1, <3>2
      <4>2. \A m, n \in Nat, k \in SUBSET Handler :
              [b EXCEPT !.chunk = None, !.out = m, !.in = n, !.work = k] \in Client
        BY <1>1 DEF Client
      <4>3. c \in Client
        BY <4>1, <4>2
      <4> QED BY <1>1, <4>3 DEF Client
    <3>5. client' = [client EXCEPT ![w] = c] /\ conn' = [conn EXCEPT ![s] = Written(conn[s], f)]
      BY <2>2
    <3> HIDE DEF c, f, rest
    <3>4. Handled(c) = Handled(b) \cup Chunked(b)
      <4>1. Handled(c) = Handled(b) \cup {h.req : h \in Handlers(rest)}
        BY <1>1, <3>2, <3>3, MoreHandled
      <4> QED BY <3>2, <4>1
    <3> QED BY <1>1, <1>2, <1>4, <2>1, <3>3, <3>4, <3>5, WriteKeeps
  <2>3. CASE /\ client' = [client EXCEPT ![w] = [b EXCEPT !.chunk = None, !.out = b.out + 1]]
             /\ conn' = [conn EXCEPT ![s] = FarDestroyed(Written(conn[s], f))]
    <3> DEFINE c == [b EXCEPT !.chunk = None, !.out = b.out + 1]
    <3>1. /\ c \in Client /\ c.sock = b.sock /\ c.keyed = b.keyed /\ c.stage = b.stage /\ c.chunk = None
          /\ c.work = b.work /\ c.out = b.out + 1
      <4>1. b.out + 1 \in Nat
        BY <1>1
      <4>2. \A m \in Nat : [b EXCEPT !.chunk = None, !.out = m] \in Client
        BY <1>1 DEF Client
      <4>3. c \in Client
        BY <4>1, <4>2
      <4> QED BY <1>1, <4>3 DEF Client
    <3> DEFINE e == Written(conn[s], f)  d == FarDestroyed(e)
    <3> HIDE DEF c, f
    <3>2. Handled(c) = Handled(b)
      BY <3>1 DEF Handled
    <3>3. /\ s \in Sockets /\ conn[s] \in Socket /\ conn[s].window = w /\ conn[s].far # "gone"
          /\ conn[s].near = "ready" => UpInv(e)
      BY <1>1, <1>2, <1>4, <2>1, <3>1, <3>2, WriteFits
    <3>4. e \in Socket /\ e.window = w /\ e.near = conn[s].near /\ e.far = conn[s].far /\ e.down = conn[s].down
      BY <1>2, <3>3, WrittenShape
    <3> HIDE DEF e
    <3>5. d \in Socket /\ d.window = w /\ d.near = e.near /\ d.far = "closing" /\ d.up = e.up
      BY <3>3, <3>4, FarDestroyedShape, SocketFields
    <3> HIDE DEF d
    <3>6. d.near = "ready" => UpInv(d)
      BY <3>3, <3>4, <3>5, UpSame
    <3>7. d.near # "new"
      BY <1>4, <3>4, <3>5 DEF WireInv, ClientInv
    <3>8. Fits(w, s, c, d)
      BY <1>4, <2>1, <3>1, <3>3, <3>4, <3>5, <3>6, <3>7, ClosingFits
    <3>9. client' = [client EXCEPT ![w] = c] /\ conn' = [conn EXCEPT ![s] = d]
      BY <2>3 DEF c, d, e
    <3>10. c.sock = s /\ client[w].sock = s
      BY <3>1
    <3> HIDE DEF s
    <3>11. /\ \A z \in Sockets \ {s} :
                conn[z].window = w => conn[z].far = "gone" \/ (conn[z].far = "closing" /\ c.sock = None)
           /\ \A z \in Windows \ {w} : client[z].sock # s
      BY <3>3, <3>10, OwnSocket
    <3> QED BY <1>1, <3>3, <3>8, <3>9, <3>11, FitKeeps
  <2> QED BY <1>4, <2>2, <2>3 DEF Stored
<1> QED BY <1>3, <1>4
-----------------------------------------------------------------------------
(* Requests that were given up.                                            *)
Distinct(q) == \A i, j \in 1 .. Len(q) : i # j => q[i] # q[j]

LEMMA ManyStay ==
  ASSUME TooMany, \A r \in Requests : request[r] = "expired" => request'[r] = "expired"
  PROVE  TooMany'
<1> DEFINE A == {r \in Requests : request[r] = "expired"}  B == {r \in Requests : request'[r] = "expired"}
<1>1. IsFiniteSet(Requests)
  BY FS_Interval, BridgeAssumption DEF Requests
<1>2. A \subseteq B /\ B \subseteq Requests
  OBVIOUS
<1>3. IsFiniteSet(A) /\ IsFiniteSet(B)
  BY <1>1, <1>2, FS_Subset
<1>4. Cardinality(A) <= Cardinality(B) /\ Cardinality(A) \in Nat /\ Cardinality(B) \in Nat
  BY <1>2, <1>3, FS_Subset, FS_CardinalityType
<1>5. Cardinality(A) > MaxExpired
  BY DEF TooMany
<1>6. Cardinality(B) > MaxExpired
  BY <1>4, <1>5, BridgeAssumption
<1> QED BY <1>6 DEF TooMany

LEMMA LongIsMany ==
  ASSUME NEW q \in Seq(Requests), Distinct(q), Len(q) > MaxExpired,
         \A i \in 1 .. Len(q) : request'[q[i]] = "expired"
  PROVE  TooMany'
<1> DEFINE B == {r \in Requests : request'[r] = "expired"}
<1>1. IsFiniteSet(Requests)
  BY FS_Interval, BridgeAssumption DEF Requests
<1>2. Range(q) = {q[i] : i \in 1 .. Len(q)} /\ \A i \in 1 .. Len(q) : q[i] \in Requests
  BY DEF Range
<1>3. Range(q) \subseteq B /\ B \subseteq Requests
  BY <1>2
<1>4. Cardinality(Range(q)) = Len(q) /\ IsFiniteSet(B) /\ Len(q) \in Nat
  BY <1>1, <1>3, FS_Subset, LengthCounts DEF Distinct
<1>5. Cardinality(Range(q)) <= Cardinality(B) /\ Cardinality(B) \in Nat
  BY <1>3, <1>4, FS_Subset, FS_CardinalityType
<1>6. Cardinality(B) > MaxExpired
  BY <1>4, <1>5, BridgeAssumption
<1> QED BY <1>6 DEF TooMany

(* One more at the end of the queue.                                       *)
LEMMA AppendDistinct ==
  ASSUME NEW q \in Seq(Requests), NEW r \in Requests, Distinct(q), \A i \in 1 .. Len(q) : q[i] # r
  PROVE  /\ Append(q, r) \in Seq(Requests) /\ Distinct(Append(q, r)) /\ Len(Append(q, r)) = Len(q) + 1
         /\ \A i \in 1 .. Len(q) + 1 : Append(q, r)[i] = r \/ \E j \in 1 .. Len(q) : Append(q, r)[i] = q[j]
         /\ Range(q) \subseteq Range(Append(q, r)) /\ r \in Range(Append(q, r))
<1>1. /\ Append(q, r) \in Seq(Requests) /\ Len(Append(q, r)) = Len(q) + 1 /\ Len(q) \in Nat
      /\ Append(q, r)[Len(q) + 1] = r /\ \A i \in 1 .. Len(q) : Append(q, r)[i] = q[i]
  OBVIOUS
<1>2. \A i \in 1 .. Len(q) + 1 : i = Len(q) + 1 \/ i \in 1 .. Len(q)
  BY <1>1
<1>3. \A i \in 1 .. Len(q) : i \in 1 .. Len(q) + 1
  BY <1>1
<1>4. Len(q) + 1 \in 1 .. Len(q) + 1
  BY <1>1
<1>5. Distinct(Append(q, r))
  BY <1>1, <1>2 DEF Distinct
<1>6. Range(q) = {q[i] : i \in 1 .. Len(q)} /\ Range(Append(q, r)) = {Append(q, r)[i] : i \in 1 .. Len(q) + 1}
  BY <1>1 DEF Range
<1>7. \A i \in 1 .. Len(q) + 1 : Append(q, r)[i] = r \/ \E j \in 1 .. Len(q) : Append(q, r)[i] = q[j]
  BY <1>1, <1>2
<1>8. Range(q) \subseteq Range(Append(q, r))
  BY <1>1, <1>3, <1>6
<1>9. r \in Range(Append(q, r))
  BY <1>1, <1>4, <1>6
<1> QED BY <1>1, <1>5, <1>7, <1>8, <1>9

LEMMA TailDistinct ==
  ASSUME NEW q \in Seq(Requests), q # <<>>, Distinct(q)
  PROVE  /\ Tail(q) \in Seq(Requests) /\ Distinct(Tail(q)) /\ Len(Tail(q)) = Len(q) - 1
         /\ \A i \in 1 .. Len(Tail(q)) : \E j \in 1 .. Len(q) : Tail(q)[i] = q[j]
<1>1. /\ Tail(q) \in Seq(Requests) /\ Len(Tail(q)) = Len(q) - 1 /\ Len(q) \in Nat \ {0}
      /\ \A i \in 1 .. Len(Tail(q)) : Tail(q)[i] = q[i + 1] /\ i + 1 \in 1 .. Len(q)
  OBVIOUS
<1>2. \A i, j \in 1 .. Len(Tail(q)) : i # j => i + 1 # j + 1
  OBVIOUS
<1>3. Distinct(Tail(q))
  BY <1>1, <1>2 DEF Distinct
<1> QED BY <1>1, <1>3

(* One taken out of it.                                                    *)
LEMMA WithoutDistinct ==
  ASSUME NEW q \in Seq(Requests), Distinct(q), NEW i \in 1 .. Len(q)
  PROVE  LET o == SubSeq(q, 1, i - 1) \o SubSeq(q, i + 1, Len(q)) IN
         /\ o \in Seq(Requests) /\ Distinct(o) /\ Len(o) = Len(q) - 1
         /\ \A k \in 1 .. Len(o) : \E j \in 1 .. Len(q) : o[k] = q[j]
         /\ \A r \in Range(q) : r = q[i] \/ r \in Range(o)
<1> DEFINE a == SubSeq(q, 1, i - 1)  b == SubSeq(q, i + 1, Len(q))  o == a \o b  n == Len(q)
<1>1. a \in Seq(Requests) /\ Len(a) = i - 1 /\ \A k \in 1 .. i - 1 : a[k] = q[k]
  OBVIOUS
<1>2. b \in Seq(Requests) /\ Len(b) = n - i /\ \A k \in 1 .. n - i : b[k] = q[k + i]
  OBVIOUS
<1>3. n \in Nat /\ i \in Nat /\ i >= 1 /\ i <= n
  OBVIOUS
<1> HIDE DEF a, b, n
<1>4. /\ o \in Seq(Requests) /\ Len(o) = Len(a) + Len(b)
      /\ \A k \in 1 .. Len(a) + Len(b) : o[k] = IF k <= Len(a) THEN a[k] ELSE b[k - Len(a)]
  BY <1>1, <1>2, ConcatProperties
<1>5. Len(o) = n - 1
  BY <1>1, <1>2, <1>3, <1>4
<1> HIDE DEF o
<1>6. \A k \in 1 .. n - 1 : o[k] = IF k <= i - 1 THEN q[k] ELSE q[k + 1]
  <2>1. ASSUME NEW k \in 1 .. n - 1, k <= i - 1 PROVE o[k] = q[k]
    BY <1>1, <1>2, <1>3, <1>4, <2>1
  <2>2. ASSUME NEW k \in 1 .. n - 1, ~(k <= i - 1) PROVE o[k] = q[k + 1]
    <3>1. k - (i - 1) \in 1 .. n - i /\ k - (i - 1) + i = k + 1
      BY <1>3, <2>2
    <3>2. o[k] = b[k - (i - 1)]
      BY <1>1, <1>2, <1>3, <1>4, <2>2
    <3> QED BY <1>2, <3>1, <3>2
  <2> QED BY <2>1, <2>2
<1> DEFINE at(k) == IF k <= i - 1 THEN k ELSE k + 1
<1>7. /\ \A k \in 1 .. n - 1 : at(k) \in 1 .. n /\ at(k) # i /\ o[k] = q[at(k)]
      /\ \A k, l \in 1 .. n - 1 : k # l => at(k) # at(l)
  <2>1. \A k \in 1 .. n - 1 : at(k) \in 1 .. n /\ at(k) # i
    BY <1>3
  <2>2. \A k, l \in 1 .. n - 1 : k # l => at(k) # at(l)
    BY <1>3
  <2> QED BY <1>6, <2>1, <2>2
<1>8. \A j \in 1 .. n : j = i \/ \E k \in 1 .. n - 1 : at(k) = j
  <2>1. ASSUME NEW j \in 1 .. n, j < i PROVE j \in 1 .. n - 1 /\ at(j) = j
    BY <1>3, <2>1
  <2>2. ASSUME NEW j \in 1 .. n, j > i PROVE j - 1 \in 1 .. n - 1 /\ at(j - 1) = j
    BY <1>3, <2>2
  <2>3. \A j \in 1 .. n : j = i \/ j < i \/ j > i
    BY <1>3
  <2> QED BY <2>1, <2>2, <2>3
<1> HIDE DEF at
<1>9. Distinct(o)
  BY <1>5, <1>7 DEF Distinct, n
<1>10. \A r \in Range(q) : r = q[i] \/ r \in Range(o)
  <2>1. Range(q) = {q[j] : j \in 1 .. n} /\ Range(o) = {o[k] : k \in 1 .. n - 1}
    BY <1>4, <1>5 DEF Range, n
  <2>2. ASSUME NEW j \in 1 .. n, j # i PROVE q[j] \in Range(o)
    <3>1. PICK k \in 1 .. n - 1 : at(k) = j
      BY <1>8, <2>2
    <3>2. o[k] = q[j]
      BY <1>7, <3>1
    <3> QED BY <2>1, <3>2
  <2> QED BY <2>1, <2>2
<1>11. o \in Seq(Requests) /\ Len(o) = Len(q) - 1
  BY <1>4, <1>5 DEF n
<1>12. \A k \in 1 .. Len(o) : \E j \in 1 .. Len(q) : o[k] = q[j]
  BY <1>5, <1>7 DEF n
<1> QED BY <1>9, <1>10, <1>11, <1>12 DEF o, a, b

-----------------------------------------------------------------------------
ExpiredOK == expired \in Seq(Requests) /\ Len(expired) <= MaxExpired /\ ExpiredInv

(* What was given up stays given up, and what was asked stays asked until  *)
(* it is answered.                                                         *)
LEMMA TimeOutFacts ==
  ASSUME SessionOK, ExpiredOK, NEW x \in Requests, TimeOut(x)
  PROVE  /\ ExpiredOK' /\ \A r \in Requests : request[r] = "expired" => request'[r] = "expired"
         /\ \A r : Asked(r) => Asked(r)'
<1> DEFINE q == Append(expired, x)
<1>1. /\ request[x] = "pending" /\ request' = [request EXCEPT ![x] = "expired"]
      /\ expired' = IF Len(q) > MaxExpired THEN Tail(q) ELSE q
  BY DEF TimeOut, Pending, Expiring
<1>2. /\ expired \in Seq(Requests) /\ Len(expired) <= MaxExpired /\ Distinct(expired)
      /\ \A i \in 1 .. Len(expired) : request[expired[i]] = "expired" /\ expired[i] \in Requests
  BY DEF ExpiredOK, ExpiredInv, Distinct
<1>3. request'[x] = "expired" /\ \A r \in Requests : r # x => request'[r] = request[r]
  BY <1>1 DEF SessionOK
<1>4. \A r \in Requests : request[r] = "expired" => request'[r] = "expired"
  BY <1>3
<1>5. \A i \in 1 .. Len(expired) : expired[i] # x
  BY <1>1, <1>2
<1>6. /\ q \in Seq(Requests) /\ Distinct(q) /\ Len(q) = Len(expired) + 1
      /\ \A i \in 1 .. Len(expired) + 1 : q[i] = x \/ \E j \in 1 .. Len(expired) : q[i] = expired[j]
      /\ Range(expired) \subseteq Range(q) /\ x \in Range(q)
  BY <1>2, <1>5, AppendDistinct
<1> HIDE DEF q
<1>7. \A i \in 1 .. Len(q) : request'[q[i]] = "expired"
  BY <1>2, <1>3, <1>4, <1>6
<1>8. Len(q) > MaxExpired => TooMany'
  BY <1>6, <1>7, LongIsMany
<1>9. ExpiredOK'
  <2>1. CASE Len(q) > MaxExpired
    <3>1. q # <<>>
      BY <1>2, <1>6
    <3>2. /\ Tail(q) \in Seq(Requests) /\ Distinct(Tail(q)) /\ Len(Tail(q)) = Len(q) - 1
          /\ \A i \in 1 .. Len(Tail(q)) : \E j \in 1 .. Len(q) : Tail(q)[i] = q[j]
      BY <1>6, <3>1, TailDistinct
    <3>3. Len(Tail(q)) <= MaxExpired
      BY <1>2, <1>6, <3>2, BridgeAssumption
    <3>4. expired' = Tail(q)
      BY <1>1, <2>1
    <3> QED BY <1>7, <3>2, <3>3, <3>4 DEF ExpiredOK, ExpiredInv, Distinct
  <2>2. CASE ~(Len(q) > MaxExpired)
    <3>1. expired' = q /\ Len(q) <= MaxExpired
      BY <1>1, <1>6, <2>2, BridgeAssumption
    <3> QED BY <1>6, <1>7, <3>1 DEF ExpiredOK, ExpiredInv, Distinct
  <2> QED BY <2>1, <2>2
<1>10. ASSUME NEW r, Asked(r) PROVE Asked(r)'
  <2>1. r \in Requests /\ request'[r] \in {"pending", "expired"}
    BY <1>3, <1>10 DEF Asked
  <2>2. TooMany => TooMany'
    BY <1>4, ManyStay
  <2>3. CASE Len(q) > MaxExpired
    BY <1>8, <2>1, <2>3 DEF Asked
  <2>4. CASE ~(Len(q) > MaxExpired)
    <3>1. expired' = q
      BY <1>1, <2>4
    <3>2. r = x \/ (request[r] = "expired" => r \in Range(expired) \/ TooMany)
      BY <1>10 DEF Asked
    <3>3. request'[r] = "expired" => r \in Range(q) \/ TooMany'
      BY <1>3, <1>6, <2>1, <2>2, <3>2
    <3> QED BY <2>1, <3>1, <3>3 DEF Asked
  <2> QED BY <2>3, <2>4
<1> QED BY <1>4, <1>9, <1>10

LEMMA DroppedFacts ==
  ASSUME expired \in Seq(Requests), Distinct(expired), NEW x \in Range(expired)
  PROVE  /\ Dropped(x) \in Seq(Requests) /\ Distinct(Dropped(x)) /\ Len(Dropped(x)) = Len(expired) - 1
         /\ \A k \in 1 .. Len(Dropped(x)) : \E j \in 1 .. Len(expired) : Dropped(x)[k] = expired[j]
         /\ \A r \in Range(expired) : r = x \/ r \in Range(Dropped(x))
<1> DEFINE i == CHOOSE k \in 1 .. Len(expired) : expired[k] = x
<1>1. Range(expired) = {expired[k] : k \in 1 .. Len(expired)}
  BY DEF Range
<1>2. i \in 1 .. Len(expired) /\ expired[i] = x
  BY <1>1
<1>3. Dropped(x) = SubSeq(expired, 1, i - 1) \o SubSeq(expired, i + 1, Len(expired))
  BY DEF Dropped
<1> HIDE DEF i
<1>4. LET o == SubSeq(expired, 1, i - 1) \o SubSeq(expired, i + 1, Len(expired)) IN
      /\ o \in Seq(Requests) /\ Distinct(o) /\ Len(o) = Len(expired) - 1
      /\ \A k \in 1 .. Len(o) : \E j \in 1 .. Len(expired) : o[k] = expired[j]
      /\ \A r \in Range(expired) : r = expired[i] \/ r \in Range(o)
  BY <1>2, WithoutDistinct, Zenon
<1> QED BY <1>2, <1>3, <1>4, Zenon

LEMMA AnswerFacts ==
  ASSUME SessionOK, ExpiredOK, NEW s \in Sockets, HandleFrame(s)
  PROVE  /\ ExpiredOK' /\ \A r \in Requests : request[r] = "expired" => request'[r] = "expired"
         /\ \A r : Asked(r) /\ (Head(conn[s].up).kind = "answer" => r # Head(conn[s].up).req) => Asked(r)'
<1> DEFINE f == Head(conn[s].up)
<1>1. /\ f.kind = "answer" => f.req \in Pending \cup Range(expired)
      /\ IF f.kind = "answer" /\ f.req \in Pending
           THEN request' = [request EXCEPT ![f.req] = "answered"] /\ UNCHANGED expired
           ELSE UNCHANGED request /\ expired' = IF f.kind = "answer" THEN Dropped(f.req) ELSE expired
  BY DEF HandleFrame, Acceptable
<1>2. /\ expired \in Seq(Requests) /\ Len(expired) <= MaxExpired /\ Distinct(expired) /\ Len(expired) \in Nat
      /\ \A i \in 1 .. Len(expired) : request[expired[i]] = "expired" /\ expired[i] \in Requests
  BY DEF ExpiredOK, ExpiredInv, Distinct
<1> HIDE DEF f
<1>3. CASE f.kind = "answer" /\ f.req \in Pending
  <2>1. f.req \in Requests /\ request[f.req] = "pending" /\ expired' = expired
    BY <1>1, <1>3 DEF Pending
  <2>2. \A r \in Requests : r # f.req => request'[r] = request[r]
    BY <1>1, <1>3 DEF SessionOK
  <2>3. \A r \in Requests : request[r] = "expired" => request'[r] = "expired"
    BY <2>1, <2>2
  <2>4. ExpiredOK'
    BY <1>2, <2>1, <2>3 DEF ExpiredOK, ExpiredInv, Distinct
  <2>5. TooMany => TooMany'
    BY <2>3, ManyStay
  <2>6. \A r : Asked(r) /\ r # f.req => Asked(r)'
    BY <2>1, <2>2, <2>5 DEF Asked
  <2> QED BY <1>3, <2>3, <2>4, <2>6 DEF f
<1>4. CASE f.kind = "answer" /\ f.req \notin Pending
  <2>1. f.req \in Range(expired) /\ request' = request /\ expired' = Dropped(f.req)
    BY <1>1, <1>4
  <2>2. /\ Dropped(f.req) \in Seq(Requests) /\ Distinct(Dropped(f.req)) /\ Len(Dropped(f.req)) = Len(expired) - 1
        /\ \A k \in 1 .. Len(Dropped(f.req)) : \E j \in 1 .. Len(expired) : Dropped(f.req)[k] = expired[j]
        /\ \A r \in Range(expired) : r = f.req \/ r \in Range(Dropped(f.req))
    BY <1>2, <2>1, DroppedFacts
  <2>3. Len(Dropped(f.req)) <= MaxExpired
    BY <1>2, <2>2, BridgeAssumption
  <2>4. ExpiredOK'
    BY <1>2, <2>1, <2>2, <2>3 DEF ExpiredOK, ExpiredInv, Distinct
  <2>5. TooMany => TooMany'
    BY <2>1 DEF TooMany
  <2>6. \A r : Asked(r) /\ r # f.req => Asked(r)'
    BY <2>1, <2>2, <2>5 DEF Asked
  <2> QED BY <1>4, <2>1, <2>4, <2>6 DEF f
<1>5. CASE f.kind # "answer"
  <2>1. UNCHANGED <<request, expired>>
    BY <1>1, <1>5
  <2>2. ExpiredOK' /\ \A r : Asked(r) => Asked(r)'
    BY <2>1 DEF ExpiredOK, ExpiredInv, Asked, TooMany
  <2> QED BY <2>1, <2>2
<1> QED BY <1>3, <1>4, <1>5

LEMMA RequestFacts ==
  ASSUME SessionOK, ExpiredOK, NEW x \in Requests, Request(x)
  PROVE  /\ ExpiredOK' /\ \A r \in Requests : request[r] = "expired" => request'[r] = "expired"
         /\ (\A r : Asked(r) => Asked(r)' /\ r # x) /\ Asked(x)'
<1>1. request[x] = "new" /\ request' = [request EXCEPT ![x] = "pending"] /\ UNCHANGED expired
  BY DEF Request
<1>2. request'[x] = "pending" /\ \A r \in Requests : r # x => request'[r] = request[r]
  BY <1>1 DEF SessionOK
<1>3. \A r \in Requests : request[r] = "expired" => request'[r] = "expired"
  BY <1>1, <1>2
<1>4. TooMany => TooMany'
  BY <1>3, ManyStay
<1>5. ExpiredOK'
  BY <1>1, <1>3 DEF ExpiredOK, ExpiredInv
<1> QED BY <1>1, <1>2, <1>3, <1>4, <1>5 DEF Asked

(* A session that ends or begins: whoever waits is told.                   *)
LEMMA ToldFacts ==
  ASSUME SessionOK, ExpiredOK, UNCHANGED expired,
         request' = [r \in Requests |-> IF r \in Pending THEN "failed" ELSE request[r]]
  PROVE  ExpiredOK' /\ \A r \in Requests : request[r] = "expired" => request'[r] = "expired"
<1>1. \A r \in Requests : request[r] = "expired" => request'[r] = "expired"
  BY DEF Pending
<1> QED BY <1>1 DEF ExpiredOK, ExpiredInv

-----------------------------------------------------------------------------
(* What a step of the browser leaves of a socket.                          *)
Kept(d, e) ==
  /\ e \in Socket /\ e.far = d.far
  /\ d.far # "gone" \/ e.near # "gone" => e.window = d.window
  /\ e.near = "new" => d.near = "new" /\ e.up = d.up /\ e.down = d.down
  /\ e.near # "gone" => d.near # "gone"

Moved ==
  /\ client' \in [Windows -> Client] /\ conn' \in [Sockets -> Socket]
  /\ \A w \in Windows :
       LET b == client[w]  c == client'[w] IN
       /\ c.sock = b.sock /\ c.keyed = b.keyed /\ c.chunk = b.chunk /\ c.work = b.work /\ c.out = b.out
       /\ c.stage = None <=> b.stage = None
  /\ \A x \in Sockets : Kept(conn[x], conn'[x])
  /\ session' # None => conn'[session'.sock].near \in {"ready", "closing"}
  /\ \A x \in Sockets : conn'[x].near = "ready" => session' # None /\ session'.sock = x

(* A step of the browser leaves every client with its socket.              *)
LEMMA NearKeeps ==
  ASSUME WireInv, Moved,
         \A x \in Sockets : conn[x].far = "open" => Due(client[conn[x].window], conn'[x]) \subseteq Requests,
         \A x \in Sockets : \A d : conn'[x] = d /\ d.near = "ready" => UpInv(d)',
         \A x \in Sockets : \A d, c : conn'[x] = d /\ d.near = "ready" /\ d.far = "open" /\ client[conn[x].window] = c
                                    => OpenInv(c, d)'
  PROVE  Wired'
<1>1. /\ conn \in [Sockets -> Socket] /\ client \in [Windows -> Client] /\ None \notin Sockets
  BY BridgeAssumption DEF WireInv, TypeOK
<1>2. \A x \in Sockets : conn[x].far = "open" => conn[x].window \in Windows /\ conn'[x].window = conn[x].window
                                                   /\ conn'[x].far = conn[x].far
  BY DEF WireInv, SocketInv, Moved, Kept
<1>3. SocketInv'
  <2>1. ASSUME NEW x \in Sockets
        PROVE  LET e == conn'[x] IN
               /\ e.near = "new" => e.up = <<>> /\ e.down = <<>>
               /\ e.near = "ready" => session' # None /\ session'.sock = x
               /\ e.near # "gone" \/ e.far # "gone" => e.window \in Windows
               /\ e.far = "open" => client'[e.window].sock = x
               /\ e.far = "closing" => client'[e.window].sock \in {x, None}
    <3>1. Kept(conn[x], conn'[x])
      BY DEF Moved
    <3>2. LET e == conn'[x] IN e.near # "gone" \/ e.far # "gone" => e.window \in Windows /\ e.window = conn[x].window
      BY <3>1 DEF WireInv, SocketInv, Kept
    <3> QED BY <3>1, <3>2 DEF WireInv, SocketInv, Moved, Kept
  <2> QED BY <2>1 DEF SocketInv, Moved
<1>4. ClientInv'
  <2>1. ASSUME NEW w \in Windows
        PROVE  LET e == client'[w] IN
               /\ e.sock # None => conn'[e.sock].window = w /\ conn'[e.sock].far # "gone"
               /\ e.stage # None => e.sock = None
               /\ e.keyed => e.sock # None /\ conn'[e.sock].near # "new"
               /\ ~e.keyed => (\A h \in e.work : ~h.live) /\ (e.sock # None => e.chunk = None)
    <3> DEFINE b == client[w]  c == client'[w]
    <3>1. /\ c.sock = b.sock /\ c.keyed = b.keyed /\ c.chunk = b.chunk /\ c.work = b.work
          /\ c.stage = None <=> b.stage = None
      BY DEF Moved
    <3>2. b.sock # None => b.sock \in Sockets /\ Kept(conn[b.sock], conn'[b.sock])
      BY <1>1, ClientFields DEF Moved
    <3>3. b.sock # None => conn[b.sock].window = w /\ conn[b.sock].far # "gone"
      BY DEF WireInv, ClientInv
    <3>4. b.sock # None => conn'[b.sock].window = w /\ conn'[b.sock].far # "gone"
      BY <3>2, <3>3 DEF Kept
    <3>5. b.keyed => b.sock # None /\ conn'[b.sock].near # "new"
      BY <3>2 DEF WireInv, ClientInv, Kept
    <3>6. (b.stage # None => b.sock = None) /\ (~b.keyed => (\A h \in b.work : ~h.live) /\ (b.sock # None => b.chunk = None))
      BY DEF WireInv, ClientInv
    <3> HIDE DEF b, c
    <3>7. /\ c.sock # None => conn'[c.sock].window = w /\ conn'[c.sock].far # "gone"
          /\ c.stage # None => c.sock = None
          /\ c.keyed => c.sock # None /\ conn'[c.sock].near # "new"
          /\ ~c.keyed => (\A h \in c.work : ~h.live) /\ (c.sock # None => c.chunk = None)
      BY <3>1, <3>4, <3>5, <3>6
    <3> QED BY <3>7 DEF c
  <2> QED BY <2>1 DEF ClientInv
<1>5. FrameInv'
  <2>1. ASSUME NEW x \in Sockets, conn'[x].far = "open"
        PROVE  Due(client'[conn'[x].window], conn'[x]) \subseteq Requests
    <3>1. conn[x].far = "open"
      BY <2>1 DEF Moved, Kept
    <3>2. First(client'[conn'[x].window]) = First(client[conn[x].window])
      BY <1>2, <3>1 DEF First, Moved
    <3> QED BY <3>1, <3>2 DEF Due
  <2>2. \A w \in Windows : Chunked(client'[w]) = Chunked(client[w])
    BY DEF Moved, Chunked
  <2> QED BY <2>1, <2>2 DEF WireInv, FrameInv
<1>6. ReadyInv'
  <2>1. \A x \in Sockets : \A d : conn'[x] = d /\ d.near = "ready" => UpInv(d)'
    OBVIOUS
  <2>2. ASSUME NEW x \in Sockets, NEW d, NEW c, conn'[x] = d, d.near = "ready", d.far = "open", client'[d.window] = c
        PROVE  OpenInv(c, d)'
    <3>1. conn[x].far = "open" /\ d.window = conn[x].window /\ conn[x].window \in Windows
      BY <1>2, <2>2 DEF Moved, Kept
    <3>2. PICK b : b = client[conn[x].window]
      OBVIOUS
    <3>3. OpenInv(b, d)'
      BY <2>2, <3>2
    <3>4. c.keyed = b.keyed /\ c.chunk = b.chunk /\ c.work = b.work /\ c.out = b.out
      BY <2>2, <3>1, <3>2 DEF Moved
    <3>5. First(c) = First(b) /\ Due(c, d) = Due(b, d) /\ Chunked(c) = Chunked(b) /\ Handled(c) = Handled(b)
      BY <3>4 DEF First, Due, Chunked, Handled
    <3> QED BY <3>3, <3>4, <3>5 DEF OpenInv
  <2> QED BY <2>1, <2>2 DEF ReadyInv
<1> QED BY <1>3, <1>4, <1>5, <1>6 DEF Wired, Moved

(* A step after which the ready socket, if there is one, carries what it   *)
(* carried.                                                                *)
LEMMA SameKeeps ==
  ASSUME WireInv, Moved,
         \A x \in Sockets : conn[x].far = "open" => conn'[x].down = conn[x].down,
         \A x \in Sockets : conn'[x].near = "ready" =>
           /\ conn[x].near = "ready" /\ conn'[x].up = conn[x].up
           /\ session'.in = session.in /\ \A r : Asked(r) => Asked(r)'
  PROVE  Wired'
<1>1. ASSUME NEW x \in Sockets, conn[x].far = "open"
      PROVE  Due(client[conn[x].window], conn'[x]) \subseteq Requests
  BY <1>1 DEF WireInv, FrameInv, Due
<1>2. ASSUME NEW x \in Sockets, NEW d, conn'[x] = d, d.near = "ready" PROVE UpInv(d)'
  <2>1. UpInv(conn[x])
    BY <1>2 DEF WireInv, ReadyInv
  <2>2. UpInv(d)
    BY <1>2, <2>1, UpSame
  <2>3. session'.in = session.in /\ \A r : Asked(r) => Asked(r)'
    BY <1>2
  <2> QED BY <2>2, <2>3 DEF UpInv
<1>3. ASSUME NEW x \in Sockets, NEW d, NEW c, conn'[x] = d, d.near = "ready", d.far = "open", client[conn[x].window] = c
      PROVE  OpenInv(c, d)'
  <2>1. conn[x].far = "open" /\ conn[x].near = "ready" /\ d.up = conn[x].up /\ d.down = conn[x].down
    BY <1>3 DEF Moved, Kept
  <2>2. OpenInv(c, conn[x])
    BY <1>3, <2>1 DEF WireInv, ReadyInv
  <2>3. Due(c, d) = Due(c, conn[x]) /\ Answered(d) = Answered(conn[x])
    BY <2>1 DEF Due, Answered, Answers
  <2>4. OpenInv(c, d)
    BY <2>1, <2>2, <2>3 DEF OpenInv
  <2>5. session'.in = session.in /\ \A r : Asked(r) => Asked(r)'
    BY <1>3
  <2> QED BY <2>4, <2>5 DEF OpenInv
<1> QED BY <1>1, <1>2, <1>3, NearKeeps

-----------------------------------------------------------------------------

(* The actions of the browser, each by NearKeeps or SameKeeps.             *)
LEMMA KeptSame == ASSUME NEW d \in Socket PROVE Kept(d, d)
  BY DEF Kept

LEMMA NearDestroyedKept ==
  ASSUME NEW d \in Socket
  PROVE  /\ Kept(d, NearDestroyed(d)) /\ NearDestroyed(d).down = d.down
         /\ NearDestroyed(d).near \notin {"new", "ready"}
         /\ d.near \in {"ready", "closing"} => NearDestroyed(d).near = "closing"
  BY NearDestroyedShape, SocketFields DEF Kept

LEMMA NearGoneKept ==
  ASSUME NEW d \in Socket, d.near # "gone"
  PROVE  LET g == Freed([d EXCEPT !.near = "gone", !.up = <<>>]) IN
         Kept(d, g) /\ g.near = "gone" /\ (d.far = "open" => g.down = d.down)
  BY NearGoneShape DEF Kept

(* The clients do not move.                                                *)
LEMMA ClientsStay ==
  ASSUME WireInv, UNCHANGED client, conn' \in [Sockets -> Socket],
         \A x \in Sockets : Kept(conn[x], conn'[x]),
         session' # None => conn'[session'.sock].near \in {"ready", "closing"},
         \A x \in Sockets : conn'[x].near = "ready" => session' # None /\ session'.sock = x
  PROVE  Moved
  BY DEF Moved, WireInv, TypeOK

(* One socket moves and is not ready afterwards.                           *)
LEMMA OneKeeps ==
  ASSUME WireInv, UNCHANGED <<client, session, request, expired>>, NEW s \in Sockets, NEW e,
         conn' = [conn EXCEPT ![s] = e], Kept(conn[s], e), e.near # "ready",
         conn[s].near \in {"ready", "closing"} => e.near = "closing",
         conn[s].far = "open" => e.down = conn[s].down
  PROVE  Wired'
<1>1. /\ conn \in [Sockets -> Socket] /\ e \in Socket /\ conn' \in [Sockets -> Socket]
      /\ conn'[s] = e /\ \A x \in Sockets \ {s} : conn'[x] = conn[x]
  BY DEF WireInv, TypeOK, Kept
<1>2. \A x \in Sockets : Kept(conn[x], conn'[x])
  BY <1>1, KeptSame
<1>3. session' # None => conn'[session'.sock].near \in {"ready", "closing"}
  BY <1>1 DEF WireInv, SocketInv, TypeOK, Session
<1>4. \A x \in Sockets : conn'[x].near = "ready" =>
        session' # None /\ session'.sock = x /\ conn[x].near = "ready" /\ conn'[x].up = conn[x].up
  BY <1>1 DEF WireInv, SocketInv
<1>5. \A x \in Sockets : conn[x].far = "open" => conn'[x].down = conn[x].down
  BY <1>1
<1>6. session'.in = session.in /\ \A r : Asked(r) => Asked(r)'
  BY DEF Asked, TooMany
<1>7. Moved
  BY <1>1, <1>2, <1>3, <1>4, ClientsStay
<1> QED BY <1>4, <1>5, <1>6, <1>7, SameKeeps

LEMMA RefusingKeeps ==
  ASSUME WireInv, NEW s \in Sockets, RefuseHello(s) \/ RefuseFrame(s) \/ HandshakeTimesOut(s)
  PROVE  Wired'
<1>1. conn[s] \in Socket /\ UNCHANGED <<client, session, request, expired>>
  BY DEF WireInv, TypeOK, RefuseHello, RefuseFrame, HandshakeTimesOut, browser
<1>2. CASE RefuseHello(s)
  <2> DEFINE e == [conn[s] EXCEPT !.near = "closing"]
  <2>1. conn' = [conn EXCEPT ![s] = e] /\ conn[s].near = "new"
    BY <1>2 DEF RefuseHello
  <2>2. Kept(conn[s], e) /\ e.near = "closing" /\ e.down = conn[s].down
    BY <1>1, <2>1 DEF Kept, Socket
  <2> HIDE DEF e
  <2> QED BY <1>1, <2>1, <2>2, OneKeeps
<1>3. CASE RefuseFrame(s) \/ HandshakeTimesOut(s)
  <2> DEFINE e == NearDestroyed(conn[s])
  <2>1. conn' = [conn EXCEPT ![s] = e]
    BY <1>3 DEF RefuseFrame, HandshakeTimesOut
  <2>2. /\ Kept(conn[s], e) /\ e.near # "ready" /\ e.down = conn[s].down
        /\ conn[s].near \in {"ready", "closing"} => e.near = "closing"
    BY <1>1, NearDestroyedKept
  <2> HIDE DEF e
  <2> QED BY <1>1, <2>1, <2>2, OneKeeps
<1> QED BY <1>2, <1>3

(* The session ends.                                                       *)
LEMMA EndingKeeps ==
  ASSUME WireInv, UNCHANGED <<client, expired>>, session' = None, conn' \in [Sockets -> Socket],
         \A x \in Sockets : Kept(conn[x], conn'[x]) /\ (conn[x].far = "open" => conn'[x].down = conn[x].down),
         \A x \in Sockets : conn'[x].near # "ready"
  PROVE  Wired'
<1>1. Moved
  BY ClientsStay
<1> QED BY <1>1, SameKeeps

LEMMA CloseSessionKeeps ==
  ASSUME WireInv, UNCHANGED <<client, expired>>, CloseSession PROVE Wired'
<1>1. conn \in [Sockets -> Socket] /\ session' = None
  BY DEF WireInv, TypeOK, CloseSession
<1>2. CASE session = None
  <2>1. conn' = conn
    BY <1>2 DEF CloseSession
  <2>2. \A x \in Sockets : conn'[x].near # "ready"
    BY <1>2, <2>1 DEF WireInv, SocketInv
  <2> QED BY <1>1, <2>1, <2>2, KeptSame, EndingKeeps
<1>3. CASE session # None
  <2> DEFINE s == session.sock
  <2>1. s \in Sockets /\ conn[s] \in Socket
    BY <1>1, <1>3 DEF WireInv, TypeOK, Session
  <2>2. conn' = [conn EXCEPT ![s] = NearDestroyed(conn[s])]
    BY <1>3 DEF CloseSession
  <2>3. Kept(conn[s], NearDestroyed(conn[s])) /\ NearDestroyed(conn[s]).down = conn[s].down
        /\ NearDestroyed(conn[s]).near # "ready" /\ NearDestroyed(conn[s]) \in Socket
    BY <2>1, NearDestroyedKept, NearDestroyedShape
  <2>4. conn'[s] = NearDestroyed(conn[s]) /\ \A x \in Sockets \ {s} : conn'[x] = conn[x]
    BY <1>1, <2>1, <2>2
  <2>5. \A x \in Sockets \ {s} : conn[x].near # "ready"
    BY DEF WireInv, SocketInv
  <2> HIDE DEF s
  <2>6. conn' \in [Sockets -> Socket]
    BY <1>1, <2>1, <2>2, <2>3
  <2>7. \A x \in Sockets : conn'[x].near # "ready"
    BY <2>3, <2>4, <2>5
  <2>8. \A x \in Sockets : Kept(conn[x], conn'[x]) /\ (conn[x].far = "open" => conn'[x].down = conn[x].down)
    BY <1>1, <2>3, <2>4, KeptSame
  <2> QED BY <1>1, <2>6, <2>7, <2>8, EndingKeeps
<1> QED BY <1>2, <1>3

LEMMA NearClosesKeeps ==
  ASSUME WireInv, NEW s \in Sockets, NearCloses(s) PROVE Wired'
<1> DEFINE e == Freed([conn[s] EXCEPT !.near = "gone", !.up = <<>>])
<1>1. /\ conn \in [Sockets -> Socket] /\ conn[s] \in Socket /\ conn[s].near # "gone"
      /\ conn' = [conn EXCEPT ![s] = e] /\ UNCHANGED <<client, expired>>
  BY DEF WireInv, TypeOK, NearCloses
<1>2. Kept(conn[s], e) /\ e.near = "gone" /\ (conn[s].far = "open" => e.down = conn[s].down) /\ e \in Socket
  BY <1>1, NearGoneKept DEF Kept
<1> HIDE DEF e
<1>3. conn'[s] = e /\ (\A x \in Sockets \ {s} : conn'[x] = conn[x]) /\ conn' \in [Sockets -> Socket]
  BY <1>1, <1>2
<1>4. \A x \in Sockets : Kept(conn[x], conn'[x]) /\ (conn[x].far = "open" => conn'[x].down = conn[x].down)
  BY <1>1, <1>2, <1>3, KeptSame
<1>5. CASE session # None /\ session.sock = s
  <2>1. session' = None
    BY <1>5 DEF NearCloses
  <2>2. \A x \in Sockets : conn'[x].near # "ready"
    BY <1>2, <1>3, <1>5 DEF WireInv, SocketInv
  <2> QED BY <1>1, <1>3, <1>4, <2>1, <2>2, EndingKeeps
<1>6. CASE ~(session # None /\ session.sock = s)
  <2>1. UNCHANGED <<session, request>>
    BY <1>6 DEF NearCloses
  <2>2. session' # None => conn'[session'.sock].near \in {"ready", "closing"}
    BY <1>3, <1>6, <2>1 DEF WireInv, SocketInv, TypeOK, Session
  <2>3. \A x \in Sockets : conn'[x].near = "ready" =>
          session' # None /\ session'.sock = x /\ conn[x].near = "ready" /\ conn'[x].up = conn[x].up
    BY <1>2, <1>3, <2>1 DEF WireInv, SocketInv
  <2>4. session'.in = session.in /\ \A r : Asked(r) => Asked(r)'
    BY <1>1, <2>1 DEF Asked, TooMany
  <2>5. Moved
    BY <1>1, <1>3, <1>4, <2>2, <2>3, ClientsStay
  <2> QED BY <1>4, <2>3, <2>4, <2>5, SameKeeps
<1> QED BY <1>5, <1>6

(* Nothing on the wire moves.                                              *)
LEMMA StillKeeps ==
  ASSUME WireInv, UNCHANGED <<client, conn>>, \A r : Asked(r) => Asked(r)',
         UNCHANGED session \/ (session # None /\ session' # None /\ session'.sock = session.sock /\ session'.in = session.in)
  PROVE  Wired'
<1>1. /\ conn' \in [Sockets -> Socket] /\ \A x \in Sockets : Kept(conn[x], conn'[x])
  BY KeptSame DEF WireInv, TypeOK
<1>2. session' # None => conn'[session'.sock].near \in {"ready", "closing"}
  BY DEF WireInv, SocketInv
<1>3. \A x \in Sockets : conn'[x].near = "ready" => session' # None /\ session'.sock = x
  BY DEF WireInv, SocketInv
<1>4. Moved
  BY <1>1, <1>2, <1>3, ClientsStay
<1> QED BY <1>4, SameKeeps

LEMMA QuietKeeps ==
  ASSUME WireInv, Quiet \/ PairingExpires PROVE Wired'
<1>1. UNCHANGED <<client, conn, request, expired>>
  BY DEF Quiet, PairingExpires
<1>2. \A r : Asked(r) => Asked(r)'
  BY <1>1 DEF Asked, TooMany
<1>3. CASE Quiet
  <2>1. /\ session # None /\ session \in Session /\ session' = [session EXCEPT !.fresh = FALSE]
    BY <1>3 DEF Quiet, WireInv, TypeOK
  <2>2. session' \in Session /\ session'.sock = session.sock /\ session'.in = session.in
    BY <2>1 DEF Session
  <2>3. session' # None
    BY <2>2, BridgeAssumption
  <2> QED BY <1>1, <1>2, <2>1, <2>2, <2>3, StillKeeps
<1>4. CASE PairingExpires
  <2>1. UNCHANGED session
    BY <1>4 DEF PairingExpires
  <2> QED BY <1>1, <1>2, <2>1, StillKeeps
<1> QED BY <1>3, <1>4

LEMMA TimeOutKeeps ==
  ASSUME WireInv, ExpiredInv, NEW x \in Requests, TimeOut(x) PROVE Wired'
<1>1. SessionOK /\ ExpiredOK
  BY DEF WireInv, TypeOK, SessionOK, ExpiredOK
<1>2. \A r : Asked(r) => Asked(r)'
  BY <1>1, TimeOutFacts
<1> QED BY <1>2, StillKeeps DEF TimeOut

LEMMA BeginPairingKeeps ==
  ASSUME WireInv, BeginPairing PROVE Wired'
<1>1. /\ conn \in [Sockets -> Socket] /\ client \in [Windows -> Client] /\ UNCHANGED <<session, request, expired>>
  BY DEF WireInv, TypeOK, BeginPairing
<1>2. \A d \in Socket : LET e == [d EXCEPT !.hello = "wrong"] IN
        /\ e \in Socket /\ e.near = d.near /\ e.far = d.far /\ e.window = d.window /\ e.up = d.up /\ e.down = d.down
  BY DEF Socket, Hellos, Codes
<1>3. \A b \in Client : LET c == [b EXCEPT !.stage = "wrong"] IN
        /\ c \in Client /\ c.sock = b.sock /\ c.keyed = b.keyed /\ c.chunk = b.chunk /\ c.work = b.work /\ c.out = b.out
        /\ c.stage = "wrong"
  BY DEF Client, Hellos, Codes
<1>4. ASSUME NEW x \in Sockets
      PROVE  /\ conn'[x] \in Socket /\ Kept(conn[x], conn'[x]) /\ conn'[x].near = conn[x].near
             /\ conn'[x].up = conn[x].up /\ conn'[x].down = conn[x].down
  <2>1. conn'[x] = [conn[x] EXCEPT !.hello = "wrong"] \/ conn'[x] = conn[x]
    BY DEF BeginPairing
  <2> QED BY <1>1, <1>2, <2>1 DEF Kept
<1>5. ASSUME NEW w \in Windows
      PROVE  LET b == client[w]  c == client'[w] IN
             /\ c \in Client
             /\ c.sock = b.sock /\ c.keyed = b.keyed /\ c.chunk = b.chunk /\ c.work = b.work /\ c.out = b.out
             /\ c.stage = None <=> b.stage = None
  <2>1. \/ client[w].stage = "code" /\ client'[w] = [client[w] EXCEPT !.stage = "wrong"]
        \/ client'[w] = client[w]
    BY DEF BeginPairing
  <2>2. client[w] \in Client
    BY <1>1
  <2>3. "code" # None /\ "wrong" # None
    BY BridgeAssumption DEF Hellos, Codes
  <2> QED BY <1>3, <2>1, <2>2, <2>3
<1>6. conn' \in [Sockets -> Socket] /\ client' \in [Windows -> Client]
  BY <1>4, <1>5 DEF BeginPairing
<1>7. session' # None => conn'[session'.sock].near \in {"ready", "closing"}
  BY <1>1, <1>4 DEF WireInv, SocketInv, TypeOK, Session
<1>8. \A x \in Sockets : conn'[x].near = "ready" => session' # None /\ session'.sock = x
  BY <1>1, <1>4 DEF WireInv, SocketInv
<1>9. Moved
  BY <1>4, <1>5, <1>6, <1>7, <1>8 DEF Moved
<1>10. session'.in = session.in /\ \A r : Asked(r) => Asked(r)'
  BY <1>1 DEF Asked, TooMany
<1> QED BY <1>4, <1>9, <1>10, SameKeeps

-----------------------------------------------------------------------------

(* A session begins, counts a frame and asks a request.                    *)
LEMMA WelcomeShape == <<Welcome>> \in Seq(Frame) /\ Len(<<Welcome>>) = 1
<1>1. Welcome \in Frame
  BY BridgeAssumption DEF Welcome, Frame
<1> QED BY <1>1

LEMMA AcceptHelloKeeps ==
  ASSUME WireInv, NEW s \in Sockets, AcceptHello(s) PROVE Wired'
<1> DEFINE e == [conn[s] EXCEPT !.near = "ready", !.down = <<Welcome>>]
<1>1. /\ conn \in [Sockets -> Socket] /\ conn[s] \in Socket /\ conn[s].near = "new" /\ conn[s].up = <<>>
      /\ UNCHANGED client /\ client \in [Windows -> Client]
  BY DEF WireInv, TypeOK, SocketInv, AcceptHello
<1>2. /\ e \in Socket /\ e.near = "ready" /\ e.far = conn[s].far /\ e.window = conn[s].window /\ e.up = <<>>
      /\ e.down = <<Welcome>>
  BY <1>1, WelcomeShape DEF Socket
<1>3. /\ session' \in Session /\ session' # None /\ session'.sock = s /\ session'.in = 0
  <2>1. session' \in Session /\ session'.sock = s /\ session'.in = 0
    BY DEF AcceptHello, Session
  <2> QED BY <2>1, BridgeAssumption
<1>4. /\ conn'[s] = e /\ conn' \in [Sockets -> Socket]
      /\ \A x \in Sockets \ {s} : /\ Kept(conn[x], conn'[x]) /\ conn'[x].near # "ready"
                                  /\ conn'[x].down = conn[x].down
  <2>1. CASE session = None
    <3>1. conn' = [conn EXCEPT ![s] = e]
      BY <2>1 DEF AcceptHello
    <3> HIDE DEF e
    <3>2. \A x \in Sockets : conn[x].near # "ready"
      BY <2>1 DEF WireInv, SocketInv
    <3> QED BY <1>1, <1>2, <3>1, <3>2, KeptSame
  <2>2. CASE session # None
    <3> DEFINE o == session.sock  n == NearDestroyed(conn[o])
    <3>1. conn' = [conn EXCEPT ![o] = n, ![s] = e]
      BY <2>2 DEF AcceptHello
    <3>2. o \in Sockets /\ o # s
      BY <1>1, <2>2 DEF WireInv, SocketInv, TypeOK, Session
    <3>3. n \in Socket /\ Kept(conn[o], n) /\ n.near # "ready" /\ n.down = conn[o].down
      BY <1>1, <3>2, NearDestroyedKept, NearDestroyedShape
    <3>4. \A x \in Sockets : conn[x].near = "ready" => x = o
      BY DEF WireInv, SocketInv
    <3> HIDE DEF e, o, n
    <3>5. conn'[s] = e /\ conn'[o] = n /\ conn' \in [Sockets -> Socket]
          /\ \A x \in Sockets : x # o /\ x # s => conn'[x] = conn[x]
      BY <1>1, <1>2, <3>1, <3>2, <3>3
    <3> QED BY <1>1, <3>3, <3>4, <3>5, KeptSame
  <2> QED BY <2>1, <2>2
<1> HIDE DEF e
<1>5. Kept(conn[s], e)
  BY <1>1, <1>2 DEF Kept
<1>6. \A x \in Sockets : Kept(conn[x], conn'[x])
  BY <1>4, <1>5
<1>7. Moved
  <2>1. session' # None => conn'[session'.sock].near \in {"ready", "closing"}
    BY <1>2, <1>3, <1>4
  <2>2. \A x \in Sockets : conn'[x].near = "ready" => session' # None /\ session'.sock = x
    BY <1>3, <1>4
  <2> QED BY <1>1, <1>4, <1>6, <2>1, <2>2, ClientsStay
<1>8. conn[s].far = "open" => ~client[conn[s].window].keyed /\ client[conn[s].window].sock = s
  BY <1>1 DEF WireInv, SocketInv, ClientInv
<1>9. \A c : ~c.keyed => Due(c, e) = {} /\ First(c) = 2
  <2>1. 2 .. 1 = {}
    OBVIOUS
  <2> QED BY <1>2, <2>1, WelcomeShape DEF Due, First, ReqsFrom
<1>10. ASSUME NEW x \in Sockets, conn[x].far = "open"
       PROVE  Due(client[conn[x].window], conn'[x]) \subseteq Requests
  <2>1. CASE x = s
    BY <1>4, <1>8, <1>9, <1>10, <2>1
  <2>2. CASE x # s
    BY <1>4, <1>10, <2>2 DEF WireInv, FrameInv, Due
  <2> QED BY <2>1, <2>2
<1>11. Answers(e) = {} /\ Answered(e) = {} /\ Len(e.up) = 0
  BY <1>2 DEF Answers, Answered
<1>12. ASSUME NEW x \in Sockets, NEW d, conn'[x] = d, d.near = "ready" PROVE UpInv(d)'
  <2>1. d = e
    BY <1>4, <1>12
  <2>2. \A i \in 1 .. Len(e.up) : e.up[i].no = session'.in + i - 1
    BY <1>11
  <2> QED BY <1>11, <2>1, <2>2 DEF UpInv
<1>13. ASSUME NEW x \in Sockets, NEW d, NEW c, conn'[x] = d, d.near = "ready", d.far = "open", client[conn[x].window] = c
       PROVE  OpenInv(c, d)'
  <2>1. d = e /\ x = s /\ conn[s].far = "open" /\ conn[s].window \in Windows
    BY <1>2, <1>4, <1>13 DEF WireInv, SocketInv
  <2>2. ~c.keyed /\ c.sock = s
    BY <1>8, <1>13, <2>1
  <2>3. Handled(c) = {} /\ c.chunk = None /\ Chunked(c) = {}
    BY <1>13, <2>1, <2>2, NobodyHandles, BridgeAssumption DEF WireInv, ClientInv, Chunked
  <2>4. OnceFrom(e.down, First(c))
    BY <1>2, <1>9, <2>2, WelcomeShape DEF OnceFrom
  <2> QED BY <1>2, <1>3, <1>9, <1>11, <2>1, <2>2, <2>3, <2>4 DEF OpenInv
<1> QED BY <1>7, <1>10, <1>12, <1>13, NearKeeps

LEMMA TailAnswers ==
  ASSUME NEW e \in Socket, NEW d, e.up # <<>>, d.up = Tail(e.up), UpInv(e), session.in \in Nat
  PROVE  /\ Len(d.up) = Len(e.up) - 1 /\ Len(e.up) \in Nat \ {0}
         /\ \A i \in 1 .. Len(d.up) : d.up[i].no = session.in + 1 + i - 1
         /\ Head(e.up).kind = "answer" => Head(e.up).req \in Answered(e)
         /\ \A r \in Answered(d) : r \in Answered(e) /\ (Head(e.up).kind = "answer" => r # Head(e.up).req)
         /\ \A i, j \in Answers(d) : i # j => d.up[i].req # d.up[j].req
<1> DEFINE u == e.up  v == d.up
<1>1. /\ u \in Seq(Frame) /\ Len(u) \in Nat \ {0} /\ Len(v) = Len(u) - 1 /\ Head(u) = u[1]
      /\ \A i \in 1 .. Len(v) : v[i] = u[i + 1] /\ i + 1 \in 1 .. Len(u) /\ i + 1 # 1
  <2>1. u \in Seq(Frame) /\ u # <<>> /\ v = Tail(u)
    BY SocketFields
  <2> HIDE DEF u, v
  <2> QED BY <2>1
<1>2. 1 \in 1 .. Len(u)
  BY <1>1
<1>3. \A i, j \in 1 .. Len(v) : i # j => i + 1 # j + 1
  OBVIOUS
<1>4. Answers(d) = {i \in 1 .. Len(v) : v[i].kind = "answer"} /\ Answers(e) = {i \in 1 .. Len(u) : u[i].kind = "answer"}
  BY DEF Answers
<1>5. Answered(d) = {v[i].req : i \in Answers(d)} /\ Answered(e) = {u[i].req : i \in Answers(e)}
  BY DEF Answered
<1>6. /\ \A i, j \in Answers(e) : i # j => u[i].req # u[j].req
      /\ \A i \in 1 .. Len(u) : u[i].no = session.in + i - 1
  BY DEF UpInv
<1> HIDE DEF u, v
<1>7. \A i \in Answers(d) : i + 1 \in Answers(e) /\ v[i] = u[i + 1] /\ i + 1 # 1 /\ i \in 1 .. Len(v)
  BY <1>1, <1>4
<1>8. Head(u).kind = "answer" => 1 \in Answers(e) /\ Head(u).req = u[1].req
  BY <1>1, <1>2, <1>4
<1>9. ASSUME NEW i \in 1 .. Len(v) PROVE v[i].no = session.in + 1 + i - 1
  <2>1. v[i].no = session.in + (i + 1) - 1
    BY <1>1, <1>6
  <2> QED BY <2>1
<1>10. \A r \in Answered(d) : r \in Answered(e) /\ (Head(u).kind = "answer" => r # Head(u).req)
  BY <1>5, <1>6, <1>7, <1>8
<1>11. \A i, j \in Answers(d) : i # j => v[i].req # v[j].req
  BY <1>3, <1>6, <1>7
<1>12. Head(u).kind = "answer" => Head(u).req \in Answered(e)
  BY <1>5, <1>8
<1> QED BY <1>1, <1>9, <1>10, <1>11, <1>12 DEF u, v

LEMMA HandleFrameKeeps ==
  ASSUME WireInv, ExpiredInv, NEW s \in Sockets, HandleFrame(s) PROVE Wired'
<1> DEFINE e == [conn[s] EXCEPT !.up = Tail(conn[s].up)]  f == Head(conn[s].up)
<1>1. /\ conn \in [Sockets -> Socket] /\ conn[s] \in Socket /\ conn[s].near = "ready" /\ conn[s].up # <<>>
      /\ session # None /\ session \in Session /\ session.sock = s
      /\ session' = [session EXCEPT !.in = session.in + 1, !.fresh = TRUE]
      /\ conn' = [conn EXCEPT ![s] = e] /\ UNCHANGED client
  BY DEF WireInv, TypeOK, HandleFrame
<1>2. session.in \in Nat /\ session' \in Session /\ session'.sock = s /\ session'.in = session.in + 1 /\ session' # None
  <2>1. session.in \in Nat /\ session.in + 1 \in Nat
    BY <1>1 DEF Session
  <2>2. \A n \in Nat : /\ [session EXCEPT !.in = n, !.fresh = TRUE] \in Session
                       /\ [session EXCEPT !.in = n, !.fresh = TRUE].in = n
                       /\ [session EXCEPT !.in = n, !.fresh = TRUE].sock = session.sock
    BY <1>1 DEF Session
  <2>3. session' \in Session /\ session'.sock = s /\ session'.in = session.in + 1
    BY <1>1, <2>1, <2>2
  <2> QED BY <2>1, <2>3, BridgeAssumption
<1>3. /\ e \in Socket /\ e.near = "ready" /\ e.far = conn[s].far /\ e.window = conn[s].window
      /\ e.up = Tail(conn[s].up) /\ e.down = conn[s].down
  <2>1. Tail(conn[s].up) \in Seq(Frame)
    BY <1>1, SocketFields
  <2>2. \A q \in Seq(Frame) : [conn[s] EXCEPT !.up = q] \in Socket
    BY <1>1 DEF Socket
  <2>3. e \in Socket
    BY <2>1, <2>2
  <2> QED BY <1>1, <2>3 DEF Socket
<1>4. UpInv(conn[s]) /\ (conn[s].far = "open" => OpenInv(client[conn[s].window], conn[s]))
  BY <1>1 DEF WireInv, ReadyInv
<1>5. /\ Len(e.up) = Len(conn[s].up) - 1 /\ Len(conn[s].up) \in Nat \ {0}
      /\ \A i \in 1 .. Len(e.up) : e.up[i].no = session.in + 1 + i - 1
      /\ f.kind = "answer" => f.req \in Answered(conn[s])
      /\ \A r \in Answered(e) : r \in Answered(conn[s]) /\ (f.kind = "answer" => r # f.req)
      /\ \A i, j \in Answers(e) : i # j => e.up[i].req # e.up[j].req
  BY <1>1, <1>2, <1>3, <1>4, TailAnswers
<1>6. \A r : Asked(r) /\ (f.kind = "answer" => r # f.req) => Asked(r)'
  BY AnswerFacts DEF WireInv, TypeOK, SessionOK, ExpiredOK
<1> HIDE DEF e, f
<1>7. /\ conn'[s] = e /\ (\A x \in Sockets \ {s} : conn'[x] = conn[x] /\ conn[x].near # "ready")
      /\ conn' \in [Sockets -> Socket]
  BY <1>1, <1>3 DEF WireInv, SocketInv
<1>8. Kept(conn[s], e)
  BY <1>1, <1>3 DEF Kept
<1>9. Moved
  <2>1. \A x \in Sockets : Kept(conn[x], conn'[x])
    BY <1>1, <1>7, <1>8, KeptSame
  <2> QED BY <1>1, <1>2, <1>3, <1>7, <2>1, ClientsStay
<1>10. ASSUME NEW x \in Sockets, conn[x].far = "open"
       PROVE  Due(client[conn[x].window], conn'[x]) \subseteq Requests
  BY <1>3, <1>7, <1>10 DEF WireInv, FrameInv, Due
<1>11. ASSUME NEW x \in Sockets, NEW d, conn'[x] = d, d.near = "ready" PROVE UpInv(d)'
  <2>1. d = e
    BY <1>7, <1>11
  <2>2. \A r \in Answered(e) : Asked(r)'
    BY <1>4, <1>5, <1>6 DEF UpInv
  <2>3. \A i \in 1 .. Len(e.up) : e.up[i].no = session'.in + i - 1
    BY <1>2, <1>5
  <2> QED BY <1>5, <2>1, <2>2, <2>3 DEF UpInv
<1>12. ASSUME NEW x \in Sockets, NEW d, NEW c, conn'[x] = d, d.near = "ready", d.far = "open", client[conn[x].window] = c
       PROVE  OpenInv(c, d)'
  <2>1. d = e /\ x = s /\ conn[s].far = "open"
    BY <1>3, <1>7, <1>12
  <2>2. OpenInv(c, conn[s])
    BY <1>4, <1>12, <2>1
  <2>3. c.keyed /\ c.out = session.in + Len(conn[s].up)
    BY <1>1, <2>2 DEF OpenInv
  <2>4. c.out = session'.in + Len(e.up)
    <3>1. PICK m \in Nat, n \in Nat : m = Len(conn[s].up) /\ n = session.in
      BY <1>2, <1>5
    <3>2. Len(e.up) = m - 1 /\ session'.in = n + 1 /\ c.out = n + m
      BY <1>2, <1>5, <2>3, <3>1
    <3>3. n + m = (n + 1) + (m - 1)
      BY <3>1
    <3> QED BY <3>2, <3>3
  <2>5. Due(c, e) = Due(c, conn[s]) /\ Answered(e) \subseteq Answered(conn[s])
    BY <1>3, <1>5 DEF Due
  <2>6. ASSUME NEW r \in Due(c, e) \cup Chunked(c) \cup Handled(c) PROVE Asked(r)'
    <3>1. Asked(r) /\ r \notin Answered(conn[s])
      BY <2>2, <2>5 DEF OpenInv
    <3>2. f.kind = "answer" => r # f.req
      BY <1>5, <3>1
    <3> QED BY <1>6, <3>1, <3>2
  <2>7. OnceFrom(e.down, First(c))
    BY <1>3, <2>2 DEF OpenInv
  <2> QED BY <2>1, <2>2, <2>3, <2>4, <2>5, <2>6, <2>7 DEF OpenInv
<1> QED BY <1>9, <1>10, <1>11, <1>12, NearKeeps

LEMMA AskingKeeps ==
  ASSUME WireInv, ExpiredInv, NEW r \in Requests, Request(r) PROVE Wired'
<1> DEFINE s == session.sock
           f == [kind |-> "request", no |-> session.out, req |-> r]
           e == [conn[s] EXCEPT !.down = IF conn[s].far = "open" THEN Append(conn[s].down, f) ELSE conn[s].down]
<1>1. /\ conn \in [Sockets -> Socket] /\ session # None /\ session \in Session /\ s \in Sockets
      /\ conn[s] \in Socket /\ conn[s].near = "ready" /\ UNCHANGED client
      /\ session' = [session EXCEPT !.out = session.out + 1] /\ conn' = [conn EXCEPT ![s] = e]
  BY DEF WireInv, TypeOK, Request, Session
<1>2. session.out \in Nat /\ session' \in Session /\ session'.sock = s /\ session'.in = session.in /\ session' # None
  <2>1. session.out \in Nat /\ session.out + 1 \in Nat
    BY <1>1 DEF Session
  <2>2. \A n \in Nat : /\ [session EXCEPT !.out = n] \in Session
                       /\ [session EXCEPT !.out = n].in = session.in
                       /\ [session EXCEPT !.out = n].sock = session.sock
    BY <1>1 DEF Session
  <2>3. session' \in Session /\ session'.sock = s /\ session'.in = session.in
    BY <1>1, <2>1, <2>2
  <2> QED BY <2>1, <2>3, BridgeAssumption
<1>3. f \in Frame /\ f.req = r
  BY <1>2, BridgeAssumption DEF Frame, Requests
<1>4. /\ e \in Socket /\ e.near = "ready" /\ e.far = conn[s].far /\ e.window = conn[s].window
      /\ e.up = conn[s].up
      /\ conn[s].far = "open" => e.down = Append(conn[s].down, f)
  <2>1. conn[s].down \in Seq(Frame) /\ Append(conn[s].down, f) \in Seq(Frame)
    BY <1>1, <1>3, SocketFields
  <2>2. \A q \in Seq(Frame) : [conn[s] EXCEPT !.down = q] \in Socket
    BY <1>1 DEF Socket
  <2>3. e \in Socket
    BY <2>1, <2>2
  <2> QED BY <1>1, <2>3 DEF Socket
<1>5. (\A x : Asked(x) => Asked(x)' /\ x # r) /\ Asked(r)'
  BY RequestFacts DEF WireInv, TypeOK, SessionOK, ExpiredOK
<1> HIDE DEF e, f, s
<1>6. UpInv(conn[s]) /\ (conn[s].far = "open" => OpenInv(client[conn[s].window], conn[s]))
  BY <1>1 DEF WireInv, ReadyInv
<1>7. /\ conn'[s] = e /\ (\A x \in Sockets \ {s} : conn'[x] = conn[x] /\ conn[x].near # "ready")
      /\ conn' \in [Sockets -> Socket]
  BY <1>1, <1>4 DEF WireInv, SocketInv, s
<1>8. Kept(conn[s], e)
  BY <1>1, <1>4 DEF Kept
<1>9. Moved
  <2>1. \A x \in Sockets : Kept(conn[x], conn'[x])
    BY <1>1, <1>7, <1>8, KeptSame
  <2> QED BY <1>1, <1>2, <1>4, <1>7, <2>1, ClientsStay
<1>10. ASSUME NEW c, conn[s].far = "open"
       PROVE  /\ Due(c, e) \subseteq Due(c, conn[s]) \cup {r}
              /\ OnceFrom(conn[s].down, First(c)) /\ r \notin Due(c, conn[s]) => OnceFrom(e.down, First(c))
  <2>1. First(c) \in {1, 2} /\ conn[s].down \in Seq(Frame)
    BY <1>1, SocketFields DEF First
  <2> QED BY <1>3, <1>4, <1>10, <2>1, AppendReqs DEF Due
<1>11. ASSUME NEW x \in Sockets, conn[x].far = "open"
       PROVE  Due(client[conn[x].window], conn'[x]) \subseteq Requests
  <2>1. Due(client[conn[x].window], conn[x]) \subseteq Requests
    BY <1>11 DEF WireInv, FrameInv
  <2>2. CASE x = s
    BY <1>7, <1>10, <1>11, <2>1, <2>2
  <2>3. CASE x # s
    BY <1>7, <2>1, <2>3
  <2> QED BY <2>2, <2>3
<1>12. ASSUME NEW x \in Sockets, NEW d, conn'[x] = d, d.near = "ready" PROVE UpInv(d)'
  <2>1. d = e
    BY <1>7, <1>12
  <2>2. UpInv(e)
    BY <1>4, <1>6, UpSame
  <2> QED BY <1>2, <1>5, <2>1, <2>2 DEF UpInv
<1>13. ASSUME NEW x \in Sockets, NEW d, NEW c, conn'[x] = d, d.near = "ready", d.far = "open", client[conn[x].window] = c
       PROVE  OpenInv(c, d)'
  <2>1. d = e /\ x = s /\ conn[s].far = "open"
    BY <1>4, <1>7, <1>13
  <2>2. OpenInv(c, conn[s])
    BY <1>6, <1>13, <2>1
  <2>3. r \notin Due(c, conn[s]) /\ r \notin Chunked(c) /\ r \notin Handled(c) /\ r \notin Answered(conn[s])
    BY <1>5, <1>6, <2>2 DEF OpenInv, UpInv
  <2>4. Due(c, e) \subseteq Due(c, conn[s]) \cup {r} /\ OnceFrom(e.down, First(c))
    <3>1. OnceFrom(conn[s].down, First(c))
      BY <2>2 DEF OpenInv
    <3> QED BY <1>10, <2>1, <2>3, <3>1
  <2>5. Answered(e) = Answered(conn[s])
    BY <1>4 DEF Answered, Answers
  <2>6. \A y \in Due(c, e) \cup Chunked(c) \cup Handled(c) : Asked(y)'
    BY <1>5, <2>2, <2>4 DEF OpenInv
  <2>7. /\ Due(c, e) \cap Chunked(c) = {} /\ Due(c, e) \cap Handled(c) = {} /\ Due(c, e) \cap Answered(e) = {}
        /\ Chunked(c) \cap Handled(c) = {} /\ Chunked(c) \cap Answered(e) = {} /\ Handled(c) \cap Answered(e) = {}
    BY <2>2, <2>3, <2>4, <2>5 DEF OpenInv
  <2>8. /\ c.keyed => c.out = session'.in + Len(e.up)
        /\ ~c.keyed => e.up = <<>> /\ session'.in = 0
        /\ c.chunk # None => OnceFrom(c.chunk, 1)
    BY <1>2, <1>4, <2>2 DEF OpenInv
  <2> QED BY <2>1, <2>4, <2>6, <2>7, <2>8 DEF OpenInv
<1> QED BY <1>9, <1>11, <1>12, <1>13, NearKeeps

-----------------------------------------------------------------------------

(* All steps together.                                                     *)
LEMMA GivenUpStays ==
  ASSUME SessionOK, ExpiredOK, [Next]_vars
  PROVE  ExpiredOK' /\ \A r \in Requests : request[r] = "expired" => request'[r] = "expired"
<1>1. CASE UNCHANGED <<request, expired>>
  BY <1>1 DEF ExpiredOK, ExpiredInv
<1>2. CASE UNCHANGED vars
  BY <1>1, <1>2 DEF vars
<1>3. CASE Extension
  <2>1. UNCHANGED browser
    BY <1>3 DEF Extension, Leave, Reconnect, Tick, BusyOver, Open, Pair, ReadWelcome, Stored, ReadRequest,
                Notify, WelcomeTimesOut, Respond, FarCloses, Disconnect
  <2> QED BY <1>1, <2>1 DEF browser
<1>4. CASE \/ BeginPairing \/ PairingExpires \/ FallsSilent \/ HeldUp
           \/ \E s \in Sockets : RefuseHello(s) \/ RefuseFrame(s) \/ HandshakeTimesOut(s)
  BY <1>1, <1>4 DEF BeginPairing, PairingExpires, FallsSilent, HeldUp, Quiet, RefuseHello, RefuseFrame,
                    HandshakeTimesOut, browser
<1>5. CASE SessionExpires \/ (\E revoke \in BOOLEAN : DisconnectBrowser(revoke)) \/ \E s \in Sockets : AcceptHello(s)
  BY <1>5, ToldFacts DEF SessionExpires, DisconnectBrowser, CloseSession, AcceptHello
<1>6. CASE \E s \in Sockets : NearCloses(s)
  BY <1>1, <1>6, ToldFacts DEF NearCloses
<1>7. CASE \E s \in Sockets : HandleFrame(s)
  BY <1>7, AnswerFacts
<1>8. CASE \E r \in Requests : Request(r)
  BY <1>8, RequestFacts
<1>9. CASE \E r \in Requests : TimeOut(r)
  BY <1>9, TimeOutFacts
<1> QED BY <1>2, <1>3, <1>4, <1>5, <1>6, <1>7, <1>8, <1>9 DEF Next, Browser

LEMMA WiresKeep ==
  ASSUME WireInv, ExpiredInv, [Next]_vars PROVE Wired'
<1>1. CASE UNCHANGED vars
  <2>1. \A r : Asked(r) => Asked(r)'
    BY <1>1 DEF vars, Asked, TooMany
  <2> QED BY <1>1, <2>1, StillKeeps DEF vars
<1>2. CASE Extension
  BY <1>2, LettingGoKeeps, TickKeeps, OpenKeeps, ReadWelcomeKeeps, StoredKeeps, ReadRequestKeeps, NotifyKeeps,
     WelcomeTimesOutKeeps, RespondKeeps, FarClosesKeeps DEF Extension
<1>3. CASE SessionExpires \/ \E revoke \in BOOLEAN : DisconnectBrowser(revoke)
  BY <1>3, CloseSessionKeeps DEF SessionExpires, DisconnectBrowser
<1>4. CASE BeginPairing \/ PairingExpires \/ FallsSilent \/ HeldUp
  BY <1>4, BeginPairingKeeps, QuietKeeps DEF FallsSilent, HeldUp
<1>5. CASE \E s \in Sockets : RefuseHello(s) \/ AcceptHello(s) \/ HandleFrame(s) \/ RefuseFrame(s)
                                \/ HandshakeTimesOut(s) \/ NearCloses(s)
  BY <1>5, RefusingKeeps, AcceptHelloKeeps, HandleFrameKeeps, NearClosesKeeps
<1>6. CASE \E r \in Requests : Request(r) \/ TimeOut(r)
  BY <1>6, AskingKeeps, TimeOutKeeps
<1> QED BY <1>1, <1>2, <1>3, <1>4, <1>5, <1>6 DEF Next, Browser

(* The rest of the types.                                                  *)
Counted ==
  /\ pairing \in {None} \cup 0 .. MaxAttempts
  /\ error \in BOOLEAN /\ remembered \in BOOLEAN
  /\ commands \in 0 .. MaxCommands
  /\ torn \in BOOLEAN /\ skipped \in BOOLEAN

LEMMA PairingShape ==
  ASSUME NEW hello, pairing \in {None} \cup 0 .. MaxAttempts
  PROVE  PairingAfter(hello) \in {None} \cup 0 .. MaxAttempts
  BY BridgeAssumption DEF PairingAfter

LEMMA CommandShape ==
  ASSUME commands \in 0 .. MaxCommands, Command \/ UNCHANGED commands
  PROVE  commands' \in 0 .. MaxCommands
  BY BridgeAssumption DEF Command

LEMMA CountedKeeps ==
  ASSUME Counted, [Next]_vars PROVE Counted'
<1>1. commands' \in 0 .. MaxCommands
  <2>1. Command \/ UNCHANGED commands
    BY DEF Next, Browser, Extension, vars, BeginPairing, PairingExpires, SessionExpires, FallsSilent, HeldUp,
           DisconnectBrowser, RefuseHello, AcceptHello, HandleFrame, RefuseFrame, HandshakeTimesOut, NearCloses,
           Request, TimeOut, Leave, Reconnect, Tick, BusyOver, Open, Pair, ReadWelcome, Stored, ReadRequest,
           Notify, WelcomeTimesOut, Respond, FarCloses
  <2> QED BY <2>1, CommandShape DEF Counted
<1>2. CASE UNCHANGED vars
  BY <1>2 DEF vars, Counted
<1>3. CASE Extension
  <2>1. UNCHANGED <<pairing, error, torn>>
    BY <1>3 DEF Extension, Leave, Reconnect, Tick, BusyOver, Open, Pair, ReadWelcome, Stored, ReadRequest,
                Notify, WelcomeTimesOut, Respond, FarCloses, Disconnect, browser
  <2>2. remembered' \in {remembered, TRUE} /\ skipped' \in {skipped, TRUE}
    BY <1>3 DEF Extension, Leave, Reconnect, Tick, BusyOver, Open, Pair, ReadWelcome, Stored, ReadRequest,
                Notify, WelcomeTimesOut, Respond, FarCloses, Disconnect
  <2> QED BY <1>1, <2>1, <2>2 DEF Counted
<1>4. CASE BeginPairing \/ PairingExpires \/ SessionExpires \/ FallsSilent \/ HeldUp
           \/ \E revoke \in BOOLEAN : DisconnectBrowser(revoke)
  <2>1. 0 \in 0 .. MaxAttempts
    BY BridgeAssumption
  <2> QED BY <1>1, <1>4, <2>1 DEF BeginPairing, PairingExpires, SessionExpires, FallsSilent, HeldUp, Quiet,
                                  DisconnectBrowser, Counted
<1>5. CASE \E s \in Sockets : RefuseHello(s) \/ AcceptHello(s)
  BY <1>1, <1>5, PairingShape DEF RefuseHello, AcceptHello, Counted
<1>6. CASE \E s \in Sockets : HandleFrame(s) \/ RefuseFrame(s) \/ HandshakeTimesOut(s) \/ NearCloses(s)
  BY <1>1, <1>6 DEF HandleFrame, RefuseFrame, HandshakeTimesOut, NearCloses, browser, Counted
<1>7. CASE \E r \in Requests : Request(r) \/ TimeOut(r)
  BY <1>1, <1>7 DEF Request, TimeOut, Counted
<1> QED BY <1>2, <1>3, <1>4, <1>5, <1>6, <1>7 DEF Next, Browser

(* A frame the browser refuses is the answer to a request it forgot.       *)
LEMMA SurvivesKeeps ==
  ASSUME WireInv, ExpiredOK, SessionSurvives, [Next]_vars PROVE SessionSurvives'
<1>1. \A r \in Requests : request[r] = "expired" => request'[r] = "expired"
  BY GivenUpStays DEF WireInv, TypeOK, SessionOK
<1>2. TooMany => TooMany'
  BY <1>1, ManyStay
<1>3. CASE UNCHANGED torn
  BY <1>2, <1>3 DEF SessionSurvives, TooMany
<1>4. ASSUME NEW s \in Sockets, RefuseFrame(s) PROVE TooMany
  <2> DEFINE u == conn[s].up  f == Head(u)
  <2>1. session # None /\ session.sock = s /\ ~Acceptable(f) /\ conn[s].near = "ready" /\ u # <<>>
    BY <1>4 DEF RefuseFrame, WireInv, SocketInv
  <2>2. u \in Seq(Frame) /\ session.in \in Nat
    BY <2>1, SocketFields DEF WireInv, TypeOK, Session
  <2>3. UpInv(conn[s])
    BY <2>1 DEF WireInv, ReadyInv
  <2>4. f = u[1] /\ 1 \in 1 .. Len(u)
    BY <2>1, <2>2
  <2>5. f.no = session.in
    <3>1. u[1].no = session.in + 1 - 1
      BY <2>3, <2>4 DEF UpInv
    <3> QED BY <2>2, <2>4, <3>1
  <2>6. f.kind = "answer" /\ f.req \notin Pending \cup Range(expired)
    BY <2>1, <2>5 DEF Acceptable
  <2>7. Asked(f.req)
    <3>1. 1 \in Answers(conn[s]) /\ f.req \in Answered(conn[s])
      BY <2>4, <2>6 DEF Answers, Answered
    <3> QED BY <2>3, <3>1 DEF UpInv
  <2> QED BY <2>6, <2>7 DEF Asked, Pending
<1>5. CASE \E s \in Sockets : RefuseFrame(s)
  BY <1>2, <1>4, <1>5 DEF SessionSurvives, TooMany
<1>6. UNCHANGED torn \/ \E s \in Sockets : RefuseFrame(s)
  BY DEF Next, Browser, Extension, vars, BeginPairing, PairingExpires, SessionExpires, FallsSilent, HeldUp, Quiet,
         DisconnectBrowser, RefuseHello, AcceptHello, HandleFrame, HandshakeTimesOut, NearCloses,
         Request, TimeOut, Leave, Reconnect, Tick, BusyOver, Open, Pair, ReadWelcome, Stored, ReadRequest,
         Notify, WelcomeTimesOut, Respond, FarCloses, Disconnect
<1> QED BY <1>3, <1>5, <1>6

-----------------------------------------------------------------------------

LEMMA ErrorStays ==
  ASSUME ErrorIsReal, UNCHANGED error,
         \/ session' = None
         \/ /\ session # None /\ session'.sock = session.sock
            /\ conn[session.sock].near = "closing" => conn'[session.sock].near = "closing"
  PROVE  ErrorIsReal'
  BY DEF ErrorIsReal

(* An end of the extension never moves the browser's end of a socket that  *)
(* the browser still holds.                                                *)
LEMMA NearStays ==
  ASSUME WireInv, Extension, NEW x \in Sockets
  PROVE  conn[x].near = "gone" \/ conn'[x].near = conn[x].near
<1>1. conn \in [Sockets -> Socket] /\ client \in [Windows -> Client]
  BY DEF WireInv, TypeOK
<1>2. \A d \in Socket : FarDestroyed(d).near = d.near
  BY DEF FarDestroyed, Socket
<1>3. \A d \in Socket : \A f : Written(d, f) = d \/ \E q : Written(d, f) = [d EXCEPT !.up = q]
  BY DEF Written
<1>4. \A d \in Socket : \A q : [d EXCEPT !.up = q].near = d.near /\ [d EXCEPT !.down = q].near = d.near
  BY DEF Socket
<1>5. \A d \in Socket : \A f : Written(d, f).near = d.near
  <2> SUFFICES ASSUME NEW d \in Socket, NEW f PROVE Written(d, f).near = d.near OBVIOUS
  <2>1. Written(d, f) = d \/ \E q : Written(d, f) = [d EXCEPT !.up = q]
    BY <1>3
  <2> HIDE DEF Written
  <2> QED BY <1>4, <2>1
<1>6. \A d \in Socket : \A f : FarDestroyed(Written(d, f)).near = d.near
  <2>1. \A d \in Socket : \A q : FarDestroyed([d EXCEPT !.up = q]).near = d.near
    BY DEF FarDestroyed, Socket
  <2> QED BY <1>2, <1>3, <2>1
<1>7. CASE UNCHANGED conn
  BY <1>7
<1>8. ASSUME NEW s, NEW d, conn' = [conn EXCEPT ![s] = d], s = x => conn[x].near = "gone" \/ d.near = conn[x].near
      PROVE  conn'[x].near = conn[x].near \/ conn[x].near = "gone"
  BY <1>1, <1>8
<1>9. \A w \in Windows : \A c : Disconnect(w, c) => UNCHANGED conn \/ conn' = [conn EXCEPT ![c.sock] = FarDestroyed(conn[c.sock])]
  BY DEF Disconnect
<1>10. CASE \E w \in Windows : Leave(w) \/ Reconnect(w) \/ \E hello \in Codes : Pair(w, hello)
  <2>1. PICK w \in Windows : \E c : Disconnect(w, c)
    BY <1>10 DEF Leave, Reconnect, Pair
  <2> QED BY <1>1, <1>2, <1>7, <1>8, <1>9, <2>1
<1>11. CASE \E w \in Windows : Tick(w) \/ BusyOver(w)
  BY <1>7, <1>11 DEF Tick, BusyOver
<1>12. CASE \E w \in Windows : Open(w)
  <2>1. PICK w \in Windows : Open(w) BY <1>12
  <2>2. UNCHANGED conn \/ \E s, d : conn[s] = NoConn /\ conn' = [conn EXCEPT ![s] = d]
    BY <2>1 DEF Open
  <2>3. ASSUME NEW s, NEW d, conn[s] = NoConn, conn' = [conn EXCEPT ![s] = d]
        PROVE  conn'[x].near = conn[x].near \/ conn[x].near = "gone"
    <3>1. s = x => conn[x].near = "gone"
      BY <2>3 DEF NoConn
    <3> QED BY <1>8, <2>3, <3>1
  <2> QED BY <1>7, <2>2, <2>3
<1>13. CASE \E w \in Windows, n \in 1 .. MaxRequests + 1 : ReadWelcome(w, n)
  <2>1. PICK w \in Windows, n \in 1 .. MaxRequests + 1 : ReadWelcome(w, n) BY <1>13
  <2>2. PICK s, q : conn' = [conn EXCEPT ![s] = [conn[s] EXCEPT !.down = q]]
    BY <2>1 DEF ReadWelcome
  <2> QED BY <1>1, <1>4, <1>8, <2>2
<1>14. CASE \E w \in Windows : Stored(w)
  <2>1. PICK w \in Windows : Stored(w) BY <1>14
  <2>2. \/ UNCHANGED conn
        \/ \E s, f : conn' = [conn EXCEPT ![s] = Written(conn[s], f)]
        \/ \E s, f : conn' = [conn EXCEPT ![s] = FarDestroyed(Written(conn[s], f))]
    BY <2>1 DEF Stored
  <2> QED BY <1>1, <1>5, <1>6, <1>7, <1>8, <2>2
<1>15. CASE \E w \in Windows : ReadRequest(w)
  <2>1. PICK w \in Windows : ReadRequest(w) BY <1>15
  <2>2. \/ \E s, q : conn' = [conn EXCEPT ![s] = [conn[s] EXCEPT !.down = q]]
        \/ \E s : conn' = [conn EXCEPT ![s] = FarDestroyed(conn[s])]
    BY <2>1 DEF ReadRequest
  <2>3. CASE \E s, q : conn' = [conn EXCEPT ![s] = [conn[s] EXCEPT !.down = q]]
    BY <1>1, <1>4, <1>8, <2>3
  <2>4. CASE \E s : conn' = [conn EXCEPT ![s] = FarDestroyed(conn[s])]
    BY <1>1, <1>2, <1>8, <2>4
  <2> QED BY <2>2, <2>3, <2>4
<1>16. CASE \E w \in Windows : Notify(w) \/ \E h \in client[w].work : Respond(w, h)
  <2>1. PICK w \in Windows : Notify(w) \/ \E h \in client[w].work : Respond(w, h) BY <1>16
  <2>2. UNCHANGED conn \/ \E s, f : conn' = [conn EXCEPT ![s] = Written(conn[s], f)]
    BY <2>1 DEF Notify, Respond
  <2> QED BY <1>1, <1>5, <1>7, <1>8, <2>2
<1>17. CASE \E w \in Windows : WelcomeTimesOut(w)
  <2>1. PICK w \in Windows : WelcomeTimesOut(w) BY <1>17
  <2>2. PICK s : conn' = [conn EXCEPT ![s] = FarDestroyed(conn[s])]
    BY <2>1 DEF WelcomeTimesOut
  <2> QED BY <1>1, <1>2, <1>8, <2>2
<1>18. CASE \E s \in Sockets : FarCloses(s)
  <2>1. PICK s \in Sockets : FarCloses(s) BY <1>18
  <2>2. conn' = [conn EXCEPT ![s] = Freed([conn[s] EXCEPT !.far = "gone", !.down = <<>>])]
    BY <2>1 DEF FarCloses
  <2>3. Freed([conn[s] EXCEPT !.far = "gone", !.down = <<>>]).near = conn[s].near
    BY <1>1, FarGoneShape
  <2> QED BY <1>8, <2>2, <2>3
<1> QED BY <1>10, <1>11, <1>12, <1>13, <1>14, <1>15, <1>16, <1>17, <1>18 DEF Extension

LEMMA ErrorKeeps ==
  ASSUME WireInv, ErrorIsReal, [Next]_vars PROVE ErrorIsReal'
<1>1. /\ conn \in [Sockets -> Socket]
      /\ session # None => session.sock \in Sockets
      /\ session # None => conn[session.sock].near \in {"ready", "closing"}
  BY DEF WireInv, TypeOK, Session, SocketInv
<1>2. CASE UNCHANGED vars
  BY <1>2 DEF vars, ErrorIsReal
<1>3. CASE Extension
  <2>1. UNCHANGED browser
    BY <1>3 DEF Extension, Leave, Reconnect, Tick, BusyOver, Open, Pair, ReadWelcome, Stored, ReadRequest,
                Notify, WelcomeTimesOut, Respond, FarCloses, Disconnect
  <2>2. session # None => conn'[session.sock].near = conn[session.sock].near
    BY <1>1, <1>3, NearStays
  <2> QED BY <2>1, <2>2, ErrorStays DEF browser
<1>4. CASE BeginPairing \/ \E s \in Sockets : AcceptHello(s)
  BY <1>4 DEF BeginPairing, AcceptHello, ErrorIsReal
<1>5. CASE SessionExpires \/ \E revoke \in BOOLEAN : DisconnectBrowser(revoke)
  BY <1>5, ErrorStays DEF SessionExpires, DisconnectBrowser, CloseSession
<1>6. CASE PairingExpires \/ FallsSilent \/ HeldUp \/ \E r \in Requests : TimeOut(r)
  <2>1. UNCHANGED <<conn, error>>
    BY <1>6 DEF PairingExpires, FallsSilent, HeldUp, Quiet, TimeOut
  <2>2. UNCHANGED session \/ (session # None /\ session \in Session /\ session' = [session EXCEPT !.fresh = FALSE])
    BY <1>6 DEF PairingExpires, FallsSilent, HeldUp, Quiet, TimeOut, WireInv, TypeOK
  <2>3. (session = None /\ session' = None) \/ session'.sock = session.sock
    BY <2>2 DEF Session
  <2> QED BY <2>1, <2>2, <2>3, ErrorStays
<1>7. CASE \E s \in Sockets : HandleFrame(s)
  <2>1. PICK s \in Sockets : HandleFrame(s) BY <1>7
  <2>2. session # None /\ conn[session.sock].near = "ready" /\ UNCHANGED error
    BY <2>1 DEF HandleFrame
  <2> QED BY <2>2 DEF ErrorIsReal
<1>8. CASE \E r \in Requests : Request(r)
  <2>1. session # None /\ conn[session.sock].near = "ready" /\ UNCHANGED error
    BY <1>8 DEF Request
  <2> QED BY <2>1 DEF ErrorIsReal
<1>9. CASE \E s \in Sockets : RefuseHello(s)
  <2>1. PICK s \in Sockets : RefuseHello(s) BY <1>9
  <2>2. /\ session # None => session.sock # s /\ conn'[session.sock] = conn[session.sock]
        /\ UNCHANGED session /\ (error' => error \/ ~SessionWorks(s))
    BY <1>1, <2>1 DEF RefuseHello, WireInv, TypeOK
  <2> QED BY <1>1, <2>2 DEF ErrorIsReal, SessionWorks
<1>10. CASE \E s \in Sockets : RefuseFrame(s)
  <2>1. PICK s \in Sockets : RefuseFrame(s) BY <1>10
  <2>2. session # None /\ session.sock = s /\ conn[s].near = "ready" /\ UNCHANGED session
    BY <2>1 DEF RefuseFrame, WireInv, SocketInv
  <2>3. conn'[s] = NearDestroyed(conn[s]) /\ conn[s] \in Socket
    BY <1>1, <2>1 DEF RefuseFrame
  <2>4. conn'[s].near = "closing"
    BY <2>2, <2>3, NearDestroyedShape
  <2> QED BY <2>2, <2>4 DEF ErrorIsReal
<1>11. CASE \E s \in Sockets : HandshakeTimesOut(s)
  <2>1. PICK s \in Sockets : HandshakeTimesOut(s) BY <1>11
  <2>2. /\ session # None => session.sock # s /\ conn'[session.sock] = conn[session.sock]
        /\ UNCHANGED <<session, error>>
    BY <1>1, <2>1 DEF HandshakeTimesOut, browser
  <2> QED BY <2>2 DEF ErrorIsReal
<1>12. CASE \E s \in Sockets : NearCloses(s)
  <2>1. PICK s \in Sockets : NearCloses(s) BY <1>12
  <2>2. CASE session # None /\ session.sock = s
    <3>1. session' = None
      BY <2>1, <2>2 DEF NearCloses
    <3> QED BY <3>1 DEF ErrorIsReal
  <2>3. CASE ~(session # None /\ session.sock = s)
    <3>1. /\ session # None => conn'[session.sock] = conn[session.sock]
          /\ UNCHANGED <<session, error>>
      BY <1>1, <2>1, <2>3 DEF NearCloses
    <3> QED BY <3>1 DEF ErrorIsReal
  <2> QED BY <2>2, <2>3
<1> QED BY <1>2, <1>3, <1>4, <1>5, <1>6, <1>7, <1>8, <1>9, <1>10, <1>11, <1>12 DEF Next, Browser

-----------------------------------------------------------------------------
(* The inductive invariant of both sides.                                  *)
BothInv == WireInv /\ ExpiredInv /\ SessionSurvives /\ ErrorIsReal

LEMMA InitBoth == Init => BothInv
<1> SUFFICES ASSUME Init PROVE BothInv OBVIOUS
<1>1. /\ conn = [s \in Sockets |-> NoConn] /\ session = None /\ client = [w \in Windows |-> NoClient]
      /\ expired = <<>> /\ torn = FALSE /\ error = FALSE
  BY DEF Init
<1>2. NoClient \in Client /\ NoClient.sock = None /\ ~NoClient.keyed /\ NoClient.stage = None
      /\ NoClient.chunk = None /\ NoClient.work = {}
  BY DEF NoClient, Client
<1>3. NoConn \in Socket /\ NoConn.near = "gone" /\ NoConn.far = "gone"
  BY NoConnShape DEF NoConn
<1>4. expired \in Seq(Requests) /\ Len(expired) = 0
  BY <1>1
<1>5. TypeOK
  <2>1. Len(expired) <= MaxExpired /\ 0 \in 0 .. MaxCommands
    BY <1>4, BridgeAssumption
  <2>2. conn \in [Sockets -> Socket] /\ client \in [Windows -> Client]
    BY <1>1, <1>2, <1>3
  <2> QED BY <1>4, <2>1, <2>2 DEF Init, TypeOK
<1>6. SocketInv /\ FrameInv /\ ReadyInv
  <2>1. \A s \in Sockets : conn[s].near = "gone" /\ conn[s].far = "gone"
    BY <1>1, <1>3
  <2>2. \A w \in Windows : Chunked(client[w]) = {}
    BY <1>1, <1>2 DEF Chunked
  <2> QED BY <1>1, <2>1, <2>2 DEF SocketInv, FrameInv, ReadyInv
<1>7. ClientInv
  BY <1>1, <1>2 DEF ClientInv
<1>8. ExpiredInv
  BY <1>4 DEF ExpiredInv
<1> QED BY <1>1, <1>5, <1>6, <1>7, <1>8 DEF BothInv, WireInv, SessionSurvives, ErrorIsReal

LEMMA NextBoth == BothInv /\ BridgeInv' /\ [Next]_vars => BothInv'
<1> SUFFICES ASSUME BothInv, BridgeInv', [Next]_vars PROVE BothInv' OBVIOUS
<1>1. WireInv /\ ExpiredInv /\ SessionSurvives /\ ErrorIsReal /\ SessionOK /\ ExpiredOK /\ Counted
  BY DEF BothInv, WireInv, TypeOK, SessionOK, ExpiredOK, Counted
<1>2. Wired'
  BY <1>1, WiresKeep
<1>3. ExpiredOK' /\ Counted'
  BY <1>1, GivenUpStays, CountedKeeps
<1>4. SessionOK'
  BY DEF BridgeInv
<1>5. TypeOK'
  BY <1>2, <1>3, <1>4 DEF TypeOK, Wired, ExpiredOK, Counted, SessionOK
<1>6. SessionSurvives' /\ ErrorIsReal'
  BY <1>1, SurvivesKeeps, ErrorKeeps
<1> QED BY <1>2, <1>3, <1>5, <1>6 DEF BothInv, WireInv, Wired, ExpiredOK

LEMMA AlwaysBoth == Spec => []BothInv
<1> HIDE DEF BothInv, BridgeInv
<1> QED BY InitBoth, NextBoth, AlwaysBridge, PTL DEF Spec

(* Every variable of the bridge keeps its type; the browser remembers at   *)
(* most MAX_EXPIRED_IDS given-up requests (vscode-bridge.ts).               *)
THEOREM BridgeTypeCorrect == Spec => []TypeOK
<1>1. BothInv => TypeOK BY DEF BothInv, WireInv
<1> HIDE DEF BothInv, TypeOK
<1> QED BY <1>1, AlwaysBoth, PTL

(* What an honest window writes never tears its session down, late answers *)
(* included, unless more requests were given up than the browser remembers *)
(* (handleSecure(), request(), the extension's write queue).               *)
THEOREM HonestPeersSurvive == Spec => []SessionSurvives
<1>1. BothInv => SessionSurvives BY DEF BothInv
<1> HIDE DEF BothInv, SessionSurvives
<1> QED BY <1>1, AlwaysBoth, PTL

(* The browser shows an error only without a session or over one that is   *)
(* ending: a refused socket never hides a working one (accept()).          *)
THEOREM ErrorShownIsReal == Spec => []ErrorIsReal
<1>1. BothInv => ErrorIsReal BY DEF BothInv
<1> HIDE DEF BothInv, ErrorIsReal
<1> QED BY <1>1, AlwaysBoth, PTL
=============================================================================
