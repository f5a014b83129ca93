-------------------------- MODULE ReleasePipeline --------------------------
(***************************************************************************)
(* How an installer becomes the release that users are served: the publish *)
(* job of .github/workflows/ci.yml with the scripts it runs, and the admin *)
(* routes of the download service (cloudflare/src/index.ts) with their     *)
(* table and bucket.                                                       *)
(*                                                                         *)
(* One job runs at a time.  A script waits 30 seconds for the service; the *)
(* service may take the request later all the same.  A route of the        *)
(* service is cut where it waits for the database: what it read before its *)
(* batch may be old by then.  There is one channel, the one the scripts    *)
(* use, and a version is its rank among x.y.z.                             *)
(***************************************************************************)
EXTENDS Integers, FiniteSets, Absent

CONSTANTS
  MaxBuild,    \* bound: workflow runs, numbered by GITHUB_RUN_NUMBER
  MaxVersion,  \* bound: versions
  MaxAttempt   \* bound: times a publish job is started, each run's first included

Builds   == 1 .. MaxBuild
Versions == 1 .. MaxVersion
Attempts == 1 .. MaxAttempt

(* The scripts name a release, and its object in the bucket, by its        *)
(* version and its build; its content by the attempt that built it.        *)
Ids == [version : Versions, build : Builds]
Row == [content : Attempts, active : BOOLEAN]

ASSUME ReleaseAssumption ==
  /\ MaxBuild \in Nat /\ MaxVersion \in Nat /\ MaxAttempt \in Nat
  /\ None \notin Ids /\ None \notin Attempts /\ None \notin Row

VARIABLES
  declared,  \* the version in package.json at the commit of each run
  table,     \* the releases table: content and is_active of each identifier
  bucket,    \* content of each object
  calls,     \* admin requests the service has not finished
  run,       \* the job of each workflow run
  attempt,   \* attempts so far
  verified,  \* history: releases that passed the live verification
  exposed    \* history: a job ended without knowing what became of a request

vars == <<declared, table, bucket, calls, run, attempt, verified, exposed>>

Call == [kind : {"publish", "activate"}, id : Ids, content : Attempts \cup {None},
         by : Attempts, checked : BOOLEAN]

Ended   == {"none", "verified", "restored", "failed"}
Running == {"built", "recorded", "uploaded", "publishing", "published", "restoring"}

Job == [step : Ended \cup Running, version : Versions, content : Attempts \cup {None},
        by : Attempts \cup {None}, previous : Ids \cup {None}]

NoJob == [step |-> "none", version |-> 1, content |-> None, by |-> None, previous |-> None]

Init ==
  /\ declared \in [Builds -> Versions]
  /\ table = [i \in Ids |-> None]
  /\ bucket = [i \in Ids |-> None]
  /\ calls = {}
  /\ run = [b \in Builds |-> NoJob]
  /\ attempt = 0
  /\ verified = {}
  /\ exposed = FALSE

-----------------------------------------------------------------------------
(* The service.                                                            *)

Active == {i \in Ids : table[i] # None /\ table[i].active}

\* latestRelease(): the active row with the highest build
Latest ==
  IF Active = {} THEN None ELSE CHOOSE i \in Active : \A j \in Active : j.build <= i.build

\* handlePublish(): "release_downgrade_rejected"
Downgrade(id) ==
  Latest # None /\ (Latest.build > id.build \/ (Latest.build = id.build /\ Latest # id))

(* A variant of NotBumped that accepts every version.                      *)
AnyVersion(id) == FALSE

\* handlePublish(): "release_version_not_bumped"
NotBumped(id) == Latest # None /\ Latest # id /\ id.version <= Latest.version

\* the content that the object of the release must have the size of
Wanted(c) ==
  IF c.kind = "publish" THEN c.content
  ELSE IF table[c.id] = None THEN None ELSE table[c.id].content

Stored(c) == Wanted(c) # None /\ bucket[c.id] # None

Rejected(c) == c.kind = "publish" /\ (Downgrade(c.id) \/ NotBumped(c.id))

\* the job whose script waits for the answer
Step(kind) == IF kind = "publish" THEN "publishing" ELSE "restoring"
WaitsFor(b, c) == run[b].by = c.by /\ run[b].step = Step(c.kind)

Answered(c, step) ==
  run' = [b \in Builds |-> IF WaitsFor(b, c) THEN [run[b] EXCEPT !.step = step] ELSE run[b]]

(* handlePublish() and handleActivate() up to their batch.  Contents that  *)
(* differ may have the same size.                                          *)
Check(c) ==
  /\ ~c.checked /\ Stored(c) /\ ~Rejected(c)
  /\ calls' = (calls \ {c}) \cup {[c EXCEPT !.checked = TRUE]}
  /\ UNCHANGED <<declared, table, bucket, run, attempt, verified, exposed>>

Refuse(c) ==
  /\ ~c.checked
  /\ ~Stored(c) \/ Rejected(c) \/ bucket[c.id] # Wanted(c)
  /\ calls' = calls \ {c}
  /\ Answered(c, "failed") \/ UNCHANGED run
  /\ UNCHANGED <<declared, table, bucket, attempt, verified, exposed>>

(* The batch.  The triggers let no row become active under one with a      *)
(* higher build; to activate, the others are deactivated first.            *)
Above(id) == \E i \in Active : i # id /\ i.build > id.build

(* Variants of Aborts: without the triggers, and for an activation that    *)
(* does not deactivate the others first.                                   *)
NeverAborts(c) == FALSE
ActivatesFirst(c) == Above(c.id)

Aborts(c) == c.kind = "publish" /\ Above(c.id)

(* A variant of OnlyActive that leaves the other rows alone.               *)
AlsoActive(id, content) == [table EXCEPT ![id] = [content |-> content, active |-> TRUE]]

OnlyActive(id, content) ==
  [i \in Ids |-> IF i = id THEN [content |-> content, active |-> TRUE]
                 ELSE IF table[i] = None THEN None ELSE [table[i] EXCEPT !.active = FALSE]]

Commit(c) ==
  /\ c.checked /\ ~Aborts(c)
  /\ table' = OnlyActive(c.id, Wanted(c))
  /\ calls' = calls \ {c}
  /\ \/ Answered(c, IF c.kind = "publish" THEN "published" ELSE "restored")
     \/ UNCHANGED run
  /\ exposed' = (exposed \/ \A b \in Builds : ~WaitsFor(b, c))
  /\ UNCHANGED <<declared, bucket, attempt, verified>>

Abort(c) ==
  /\ c.checked /\ Aborts(c)
  /\ calls' = calls \ {c}
  /\ Answered(c, "failed") \/ UNCHANGED run
  /\ UNCHANGED <<declared, table, bucket, attempt, verified, exposed>>

-----------------------------------------------------------------------------
(* The jobs.                                                               *)

Idle == \A b \in Builds : run[b].step \in Ended

IdOf(b) == [version |-> run[b].version, build |-> b]

Goes(b, step) == run' = [run EXCEPT ![b].step = step]

\* prepare-release-version.mjs
Selected(b) ==
  IF Latest # None /\ declared[b] <= Latest.version THEN Latest.version + 1 ELSE declared[b]

NextAttempt == Idle /\ attempt < MaxAttempt /\ attempt' = attempt + 1

(* A run is started, or all of its jobs are run again.                     *)
Build(b) ==
  /\ NextAttempt
  /\ \A x \in 1 .. b - 1 : run[x].step # "none"
  /\ Selected(b) \in Versions
  /\ run' = [run EXCEPT ![b] = [step |-> "built", version |-> Selected(b),
                                content |-> attempt', by |-> attempt', previous |-> None]]
  /\ UNCHANGED <<declared, table, bucket, calls, verified, exposed>>

(* The publish job alone is run again, on the artifact of the build.       *)
Republish(b) ==
  /\ NextAttempt
  /\ run[b].step # "none"
  /\ run' = [run EXCEPT ![b].step = "built", ![b].by = attempt', ![b].previous = None]
  /\ UNCHANGED <<declared, table, bucket, calls, verified, exposed>>

\* "Record the release being replaced"; a failure to read it goes unnoticed
Record(b) ==
  /\ run[b].step = "built"
  /\ \E previous \in {Latest, None} :
       run' = [run EXCEPT ![b].step = "recorded", ![b].previous = previous]
  /\ UNCHANGED <<declared, table, bucket, calls, attempt, verified, exposed>>

Upload(b) ==
  /\ run[b].step = "recorded"
  /\ bucket' = [bucket EXCEPT ![IdOf(b)] = run[b].content]
  /\ Goes(b, "uploaded")
  /\ UNCHANGED <<declared, table, calls, attempt, verified, exposed>>

\* publish-release.mjs
Publish(b) ==
  /\ run[b].step = "uploaded"
  /\ calls' = calls \cup {[kind |-> "publish", id |-> IdOf(b), content |-> run[b].content,
                           by |-> run[b].by, checked |-> FALSE]}
  /\ Goes(b, "publishing")
  /\ UNCHANGED <<declared, table, bucket, attempt, verified, exposed>>

\* verify-live-release.mjs: the manifest, the pages and the file are what was built
VerifyPasses(b) ==
  /\ run[b].step = "published"
  /\ Latest = IdOf(b)
  /\ table[Latest].content = run[b].content /\ bucket[Latest] = run[b].content
  /\ verified' = verified \cup {<<Latest, run[b].content>>}
  /\ exposed' = FALSE
  /\ Goes(b, "verified")
  /\ UNCHANGED <<declared, table, bucket, calls, attempt>>

(* A variant of Restorable that does not look whether one was recorded.    *)
AlwaysRestorable(b) == TRUE

Restorable(b) == run[b].previous # None

(* A check fails, for whatever reason: activate-release.mjs.               *)
VerifyFails(b) ==
  /\ run[b].step = "published"
  /\ \/ /\ ~Restorable(b)
        /\ Goes(b, "failed")
        /\ exposed' = TRUE
        /\ UNCHANGED calls
     \/ /\ Restorable(b)
        /\ Goes(b, "restoring")
        /\ calls' = calls \cup {[kind |-> "activate", id |-> run[b].previous,
                                 content |-> None, by |-> run[b].by, checked |-> FALSE]}
        /\ UNCHANGED exposed
  /\ UNCHANGED <<declared, table, bucket, attempt, verified>>

(* A script gives up waiting, or the runner is lost.                       *)
Fails(b) ==
  /\ run[b].step \in Running
  /\ Goes(b, "failed")
  /\ exposed' = (exposed \/ run[b].step \in {"publishing", "published", "restoring"})
  /\ UNCHANGED <<declared, table, bucket, calls, attempt, verified>>

-----------------------------------------------------------------------------
Service == \E c \in calls : Check(c) \/ Refuse(c) \/ Commit(c) \/ Abort(c)

Jobs ==
  \/ \E b \in Builds : Build(b) \/ Republish(b) \/ Record(b) \/ Upload(b) \/ Publish(b)
  \/ \E b \in Builds : VerifyPasses(b) \/ VerifyFails(b) \/ Fails(b)

Next == Service \/ Jobs

Spec == Init /\ [][Next]_vars

-----------------------------------------------------------------------------
TypeOK ==
  /\ declared \in [Builds -> Versions]
  /\ table \in [Ids -> Row \cup {None}]
  /\ bucket \in [Ids -> Attempts \cup {None}]
  /\ calls \subseteq Call
  /\ run \in [Builds -> Job]
  /\ attempt \in 0 .. MaxAttempt
  /\ verified \subseteq Ids \X Attempts
  /\ exposed \in BOOLEAN

(* Once something was published, exactly one release is served.            *)
OneServed == (\E i \in Ids : table[i] # None) => Cardinality(Active) = 1

(* Between jobs users are served an installer that passed the live         *)
(* verification, from an object nobody overwrote, unless a job ended       *)
(* without learning what became of its last request: the previous release  *)
(* can always be restored (handleActivate and the triggers agree).         *)
ServesVerified ==
  Idle /\ ~exposed /\ Latest # None =>
    /\ <<Latest, table[Latest].content>> \in verified
    /\ bucket[Latest] = table[Latest].content

(* An active release is never replaced by a lower build, but by an         *)
(* activation (docs/systems/release-and-updates.md, invariant 3).          *)
Activates == \E c \in calls \ calls' : c.kind = "activate"
NoDowngrade ==
  [][\A i \in Active, j \in Active' : j.build < i.build => Activates]_vars

(* What a job publishes over the active release has a higher version, or   *)
(* installed browsers would never be offered it (cloudflare/src/index.ts,  *)
(* the comment at line 255); unless a job ended before its request did.    *)
VersionsRise ==
  [][~exposed' /\ Latest # None /\ Latest' # Latest =>
       Latest'.version > Latest.version \/ Activates]_vars

(* The service implements one served release (module ServedRelease): what  *)
(* latestRelease() finds is what was published or restored last, whatever  *)
(* requests overlapped, and nothing else changes it.                       *)
Published == {i \in Ids : table[i] # None}
Served == INSTANCE ServedRelease WITH Releases <- Ids, served <- Latest, published <- Published
ImplementsServed == Served!Spec
=============================================================================
