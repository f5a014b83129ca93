--------------------------- MODULE DownloadLinks ---------------------------
(***************************************************************************)
(* The links by which the download service (cloudflare/src/index.ts) gives *)
(* out the installer.  A page or a manifest carries a link signed for the  *)
(* release that is active then, for a limited time; a file is fetched      *)
(* through its link in one request or, resumed, in several, each for a     *)
(* range of bytes.  Meanwhile releases are published and put back, and an  *)
(* object of the bucket is written again (see ReleasePipeline).  The       *)
(* handler of a file waits for the database, for the head of the object    *)
(* and for its bytes.                                                      *)
(*                                                                         *)
(* Signatures are taken as unforgeable: a client holds no link but one     *)
(* that it was given.  A content has a size; a position in it stands for   *)
(* its bytes there.                                                        *)
(***************************************************************************)
EXTENDS Integers, FiniteSets, Absent

CONSTANTS
  Clients,
  TokenHolders,   \* the clients that know DOWNLOAD_ACCESS_TOKEN
  Editions,       \* identifiers of releases; each has an object of its own
  Installers,     \* bound: what an object may hold
  SizeOf,         \* bytes of each content
  MinTtl, MaxTtl, \* 60 and MAX_LINK_TTL_SECONDS, scaled
  DefaultTtl,     \* DEFAULT_LINK_TTL_SECONDS, scaled
  Configured,     \* bound: values of LINK_TTL_SECONDS; None: no integer
  MaxTime,        \* bound: the clock
  MaxByte         \* bound: positions that a range names

ASSUME DownloadAssumption ==
  /\ TokenHolders \subseteq Clients
  /\ \A c \in Installers : SizeOf[c] \in Nat \ {0}
  /\ MinTtl \in Nat \ {0} /\ DefaultTtl \in Nat /\ MaxTtl \in Nat
  /\ MinTtl <= DefaultTtl /\ DefaultTtl <= MaxTtl
  /\ Configured \subseteq Int \cup {None}
  /\ MaxByte \in Nat
  /\ None \notin Installers /\ None \notin [start : Int, length : Int]

VARIABLES
  environment,  \* of the deployment: secrets set, LINK_TTL_SECONDS
  rows,         \* the releases table: the content whose checksum and size a row names
  serving,      \* the identifier of the active row
  objects,      \* the bucket
  clock,
  fetching      \* of each client: its link, its request, and what came through the link

downloadVars == <<environment, rows, serving, objects, clock, fetching>>

(* The Range header: "bytes=first-last", either part may be missing.       *)
Part    == 0 .. MaxByte \cup {None}
Headers == [first : Part, last : Part]
Routes  == {"/update.json", "/api/v1/releases/public/latest", "/", "/download/<token>"}

NoRequest == [step |-> "none", release |-> None, range |-> None, bytes |-> None]

NoFetch == [link |-> None, request |-> NoRequest, got |-> {}, mixed |-> FALSE]

DownloadsInit ==
  /\ environment \in [ready : BOOLEAN, ttl : Configured]
  /\ rows = [r \in Editions |-> None]
  /\ objects = [r \in Editions |-> None]
  /\ serving = None
  /\ clock = 0
  /\ fetching = [c \in Clients |-> NoFetch]

-----------------------------------------------------------------------------
(* What the admin routes and an upload do, as far as a download can tell.  *)

\* "wrangler r2 object put"; a client that fetched from the object is told apart
UploadObject(r, content) ==
  /\ objects' = [objects EXCEPT ![r] = content]
  /\ fetching' = [c \in Clients |->
       [fetching[c] EXCEPT !.mixed =
          @ \/ (fetching[c].link # None /\ fetching[c].link.release = r)
            \/ fetching[c].request.release = r]]
  /\ UNCHANGED <<environment, rows, serving, clock>>

\* handlePublish(): the row of what is in the bucket, made the active one
PublishRow(r) ==
  /\ environment.ready /\ objects[r] # None
  /\ rows' = [rows EXCEPT ![r] = objects[r]]
  /\ serving' = r
  /\ UNCHANGED <<environment, objects, clock, fetching>>

\* handleActivate(): only while the object has the size of the row
ActivateRow(r) ==
  /\ environment.ready /\ rows[r] # None /\ objects[r] # None
  /\ SizeOf[objects[r]] = SizeOf[rows[r]]
  /\ serving' = r
  /\ UNCHANGED <<environment, rows, objects, clock, fetching>>

Pass == clock < MaxTime /\ clock' = clock + 1
        /\ UNCHANGED <<environment, rows, serving, objects, fetching>>

-----------------------------------------------------------------------------
(* Links.                                                                  *)

(* A variant of NormalizeTtl without the upper bound.                      *)
UnboundedTtl(v) == IF v = None THEN DefaultTtl ELSE IF v < MinTtl THEN MinTtl ELSE v

NormalizeTtl(v) ==
  IF v = None THEN DefaultTtl
  ELSE IF v < MinTtl THEN MinTtl ELSE IF v > MaxTtl THEN MaxTtl ELSE v

\* signedManifest() and both pages
SignedLink == [release |-> serving, expires |-> clock + NormalizeTtl(environment.ttl)]

\* isLiveExpiry()
IsLive(l) == clock < l.expires /\ l.expires <= clock + MaxTtl

(* A variant of VerifySigned that does not look for which release.         *)
AnyRelease(l) == TRUE

\* the signature covers the identifier of the active release
VerifySigned(l) == l.release = serving

\* handleLatest() and the private page ask for the token, the public ones do not
Admits(route, c) ==
  environment.ready /\ (route \in {"/update.json", "/download/<token>"} => c \in TokenHolders)

\* the handlers of the manifests and of the pages
Visit(c, route) ==
  /\ Admits(route, c) /\ serving # None
  /\ fetching[c].request.step \notin {"found", "measured"}
  /\ fetching' = [fetching EXCEPT ![c] = [NoFetch EXCEPT !.link = SignedLink]]
  /\ UNCHANGED <<environment, rows, serving, objects, clock>>

-----------------------------------------------------------------------------
(* handleBinary().                                                         *)

(* A variant of EndOf that does not stop at the end of the file.           *)
EndAsAsked(range, size) == IF range.last = None THEN size - 1 ELSE range.last

EndOf(range, size) ==
  IF range.last = None \/ range.last > size - 1 THEN size - 1 ELSE range.last

\* parseSingleRange(): first position and length, or None: "416"
ParseRange(range, size) ==
  IF range = None THEN [start |-> 0, length |-> size]
  ELSE IF range.first = None
    THEN IF range.last = None \/ range.last = 0 THEN None
         ELSE LET length == IF range.last < size THEN range.last ELSE size
              IN  [start |-> size - length, length |-> length]
    ELSE IF range.first >= size \/ (range.last # None /\ range.last < range.first) THEN None
         ELSE [start |-> range.first, length |-> EndOf(range, size) - range.first + 1]

Requests(c, request) == fetching' = [fetching EXCEPT ![c].request = request]

(* The link is alive and signed for the release that is active.            *)
Ask(c, range) ==
  /\ fetching[c].link # None
  /\ fetching[c].request.step \notin {"found", "measured"}
  /\ environment.ready /\ IsLive(fetching[c].link)
  /\ serving # None /\ VerifySigned(fetching[c].link)
  /\ Requests(c, [step |-> "found", release |-> serving, range |-> range, bytes |-> None])
  /\ UNCHANGED <<environment, rows, serving, objects, clock>>

(* The head of the object, whose size must be that of the row read before. *)
Measure(c) ==
  LET q == fetching[c].request
      size == SizeOf[objects[q.release]]
  IN  /\ q.step = "found"
      /\ Requests(c,
           IF size # SizeOf[rows[q.release]] THEN NoRequest
           ELSE IF ParseRange(q.range, size) = None THEN [q EXCEPT !.step = "unsatisfiable"]
           ELSE [q EXCEPT !.step = "measured", !.bytes = ParseRange(q.range, size)])
      /\ UNCHANGED <<environment, rows, serving, objects, clock>>

(* The bytes of whatever the object holds by now.                          *)
Deliver(c) ==
  LET q == fetching[c].request
  IN  /\ q.step = "measured"
      /\ fetching' = [fetching EXCEPT ![c].request = NoRequest,
                        ![c].got = @ \cup {<<q.release, objects[q.release]>>}]
      /\ UNCHANGED <<environment, rows, serving, objects, clock>>

DownloadsNext ==
  \/ \E r \in Editions : PublishRow(r) \/ ActivateRow(r) \/ \E x \in Installers : UploadObject(r, x)
  \/ Pass
  \/ \E c \in Clients : Measure(c) \/ Deliver(c)
  \/ \E c \in Clients, route \in Routes : Visit(c, route)
  \/ \E c \in Clients, range \in Headers \cup {None} : Ask(c, range)

DownloadsSpec == DownloadsInit /\ [][DownloadsNext]_downloadVars

-----------------------------------------------------------------------------
(* The positions that a Range header names in a file (RFC 9110, 14.1.2).   *)
Named(range, size) ==
  {i \in 0 .. size - 1 :
     /\ range.first # None => i >= range.first
     /\ range.first # None /\ range.last # None => i <= range.last
     /\ range.first = None => range.last # None /\ i >= size - range.last}

WorksUntilItExpires ==
  \A c \in Clients : LET l == fetching[c].link IN l # None => (IsLive(l) <=> clock < l.expires)

OneFilePerLink ==
  \A c \in Clients : ~fetching[c].mixed => Cardinality(fetching[c].got) <= 1

RangesExact ==
  \A c \in Clients :
    LET q     == fetching[c].request
        named == Named(q.range, SizeOf[objects[q.release]])
    IN  q.range # None /\ ~fetching[c].mixed =>
          /\ q.step = "measured" => named = q.bytes.start .. q.bytes.start + q.bytes.length - 1
          /\ q.step = "unsatisfiable" => named = {}

(* A download that is resumed through its link becomes one file.  The link *)
(* works from when it is given out until it expires: what the service      *)
(* signs (normalizeTtl) is never more than it accepts (isLiveExpiry).  All *)
(* answers to it are of one release and one content, however often         *)
(* releases are published and put back between the requests; each carries  *)
(* exactly the positions its Range header names, and one is refused only   *)
(* when it names none.  Excepted is an object that is written again        *)
(* meanwhile.                                                              *)
LinkGivesOneFile == WorksUntilItExpires /\ OneFilePerLink /\ RangesExact
=============================================================================
