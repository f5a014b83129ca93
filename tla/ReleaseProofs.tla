--------------------------- MODULE ReleaseProofs ---------------------------
(***************************************************************************)
(* One release is served, the verified one, and it only goes up unless it  *)
(* is restored: for any number of workflow runs, publish jobs and versions.*)
(***************************************************************************)
EXTENDS ReleasePipeline, FiniteSetTheorems, TLAPS

(* One row is active once there are rows.                                  *)
OneActive ==
  /\ \A i, j \in Active : i = j
  /\ Published # {} => Active # {}

(* A started run has a build; the running job is the last one started.     *)
JobsInv ==
  /\ \A b \in Builds : run[b].step # "none" =>
       run[b].content \in Attempts /\ run[b].by \in Attempts /\ run[b].by <= attempt
  /\ \A b \in Builds : run[b].step \in Running => run[b].by = attempt
  /\ \A a, b \in Builds : run[a].step \in Running /\ run[b].step \in Running => a = b

(* A job makes each request once, for its own release or the one recorded, *)
(* and a request that was checked names a row.                             *)
Young == {"built", "recorded", "uploaded"}

Sensible(c) ==
  /\ c.by <= attempt
  /\ c.kind = "publish" => c.content # None
  /\ c.checked => Wanted(c) # None

CallsInv ==
  /\ \A c \in calls : Sensible(c)
  /\ \A c, d \in calls : c.by = d.by /\ c.kind = d.kind => c = d
  /\ \A b \in Builds, c \in calls : c.by = run[b].by =>
       /\ run[b].step \notin Young
       /\ run[b].step \in {"publishing", "published"} => c.kind = "publish"
  /\ \A b \in Builds, c \in calls : WaitsFor(b, c) =>
       /\ c.kind = "publish" => c.id = IdOf(b) /\ c.content = run[b].content
       /\ c.kind = "activate" => c.id = run[b].previous

ReleaseInv == TypeOK /\ OneActive /\ JobsInv /\ CallsInv

(* What a publish that somebody waits for was checked against still holds, *)
(* unless some request committed that nobody waited for.                   *)
StillAllowed ==
  \A b \in Builds, c \in calls :
    WaitsFor(b, c) /\ c.kind = "publish" /\ c.checked /\ ~exposed => ~Rejected(c)

(* A release that passed the live verification and can be served as it is. *)
Sound(i) ==
  /\ table[i] # None
  /\ <<i, table[i].content>> \in verified
  /\ bucket[i] = table[i].content

(* The last build of its run agrees with the row of the release.           *)
Agrees(i) ==
  \A b \in Builds : IdOf(b) = i /\ run[b].step # "none" => table[i].content = run[b].content

(* Nothing of the running job has committed yet.                           *)
Before(b) ==
  \/ run[b].step \in Ended \cup Young
  \/ \E c \in calls : c.kind = "publish" /\ WaitsFor(b, c)

VerifiedInv ==
  ~exposed => \A i \in Ids :
    /\ Latest = i => Agrees(i)
    /\ Latest = i /\ (\A b \in Builds : Before(b)) => Sound(i)
    /\ \A b \in Builds : run[b].step \in Running /\ run[b].previous = i => Sound(i) /\ Agrees(i)

-----------------------------------------------------------------------------
(* Facts about the table.                                                  *)

(* latestRelease() finds the one active row.                               *)
LEMMA LatestIsActive ==
  ASSUME TypeOK, OneActive
  PROVE  \/ Active = {} /\ Latest = None
         \/ Latest \in Ids /\ Active = {Latest}
<1>1. CASE Active = {}
  BY <1>1 DEF Latest
<1>2. CASE Active # {}
  <2>1. PICK i \in Active : TRUE
    BY <1>2
  <2>2. Active = {i} /\ i \in Ids
    BY <2>1 DEF OneActive, Active
  <2>3. i.build \in Int
    BY <2>2 DEF Ids, Builds
  <2>4. \A x \in {i} : (\A j \in {i} : j.build <= x.build) /\ x = i
    BY <2>3
  <2>5. Latest = i
    BY <2>2, <2>4 DEF Latest
  <2> QED BY <2>2, <2>5
<1> QED BY <1>1, <1>2

(* Identifiers are determined by their version and build.                  *)
LEMMA IdFacts ==
  /\ \A i \in Ids : i.version \in Versions /\ i.build \in Builds /\ i.build \in Int
                    /\ i.version \in Int /\ i # None
  /\ \A i, j \in Ids : i.version = j.version /\ i.build = j.build => i = j
  BY ReleaseAssumption DEF Ids, Builds, Versions

(* A batch leaves exactly its release active, with the content checked.    *)
LEMMA CommitTable ==
  ASSUME TypeOK, NEW c \in calls, Commit(c), Wanted(c) # None
  PROVE  /\ c.id \in Ids /\ Wanted(c) \in Attempts
         /\ table'[c.id] = [content |-> Wanted(c), active |-> TRUE]
         /\ \A i \in Ids : i # c.id =>
              table'[i] = IF table[i] = None THEN None ELSE [table[i] EXCEPT !.active = FALSE]
         /\ table' \in [Ids -> Row \cup {None}]
<1>1. c.id \in Ids
  BY DEF TypeOK, Call
<1>2. Wanted(c) \in Attempts
  BY DEF TypeOK, Call, Wanted, Row
<1>3. table' = [i \in Ids |-> IF i = c.id THEN [content |-> Wanted(c), active |-> TRUE]
                 ELSE IF table[i] = None THEN None ELSE [table[i] EXCEPT !.active = FALSE]]
  BY DEF Commit, OnlyActive
<1>4. \A i \in Ids : table[i] # None => [table[i] EXCEPT !.active = FALSE] \in Row
  BY DEF TypeOK, Row
<1> QED BY <1>1, <1>2, <1>3, <1>4 DEF Row

LEMMA CommitActive ==
  ASSUME TypeOK, NEW c \in calls, Commit(c), Wanted(c) # None
  PROVE  /\ Active' = {c.id} /\ Latest' = c.id
         /\ Published' = Published \cup {c.id}
         /\ \A i \in Published : table'[i].content = IF i = c.id THEN Wanted(c) ELSE table[i].content
<1>0. /\ c.id \in Ids /\ Wanted(c) \in Attempts
      /\ table'[c.id] = [content |-> Wanted(c), active |-> TRUE]
      /\ \A i \in Ids : i # c.id =>
           table'[i] = IF table[i] = None THEN None ELSE [table[i] EXCEPT !.active = FALSE]
  BY CommitTable
<1>1. table'[c.id] \in Row /\ table'[c.id].active = TRUE /\ table'[c.id].content = Wanted(c)
  BY <1>0 DEF Row
<1>2. ASSUME NEW i \in Ids, i # c.id
      PROVE  \/ table[i] = None /\ table'[i] = None
             \/ /\ table[i] # None /\ table'[i] \in Row
                /\ table'[i].active = FALSE /\ table'[i].content = table[i].content
  <2>1. CASE table[i] = None
    BY <1>0, <1>2, <2>1
  <2>2. CASE table[i] # None
    <3>1. table[i] \in Row
      BY <2>2 DEF TypeOK
    <3>2. table'[i] = [table[i] EXCEPT !.active = FALSE]
      BY <1>0, <1>2, <2>2
    <3> QED BY <2>2, <3>1, <3>2 DEF Row
  <2> QED BY <2>1, <2>2
<1>3. None \notin Row
  BY ReleaseAssumption
<1>a. \A i \in Ids : table'[i] # None <=> (i = c.id \/ table[i] # None)
  <2> SUFFICES ASSUME NEW i \in Ids PROVE table'[i] # None <=> (i = c.id \/ table[i] # None)
    OBVIOUS
  <2>1. CASE i = c.id
    BY <1>1, <1>3, <2>1
  <2>2. CASE i # c.id
    BY <1>2, <1>3, <2>2
  <2> QED BY <2>1, <2>2
<1>b. \A i \in Ids : (table'[i] # None /\ table'[i].active) <=> i = c.id
  <2> SUFFICES ASSUME NEW i \in Ids PROVE (table'[i] # None /\ table'[i].active) <=> i = c.id
    OBVIOUS
  <2>1. CASE i = c.id
    BY <1>1, <1>3, <2>1
  <2>2. CASE i # c.id
    BY <1>2, <2>2
  <2> QED BY <2>1, <2>2
<1>4. Active' = {c.id}
  BY <1>0, <1>b DEF Active
<1>5. c.id.build \in Int
  BY <1>0, IdFacts
<1>6. \A x \in {c.id} : (\A j \in {c.id} : j.build <= x.build) /\ x = c.id
  BY <1>5
<1>7. Latest' = c.id
  BY <1>4, <1>6 DEF Latest
<1>8. Published' = Published \cup {c.id}
  BY <1>0, <1>a DEF Published
<1>9. \A i \in Published : table'[i].content = IF i = c.id THEN Wanted(c) ELSE table[i].content
  BY <1>1, <1>2 DEF Published
<1> QED BY <1>4, <1>7, <1>8, <1>9

(* What does not touch the table leaves what is served as it is.           *)
LEMMA SameTable ==
  ASSUME table' = table
  PROVE  /\ Active' = Active /\ Latest' = Latest /\ Published' = Published
         /\ \A c : Wanted(c)' = Wanted(c)
<1>1. Active' = Active
  BY DEF Active
<1> QED BY <1>1 DEF Latest, Published, Wanted

-----------------------------------------------------------------------------
(* Every step keeps the types.                                             *)

(* An answer moves at most the job that waits for it.                      *)
LEMMA AnsweredTypes ==
  ASSUME TypeOK, NEW c \in calls, NEW step \in Ended \cup Running, Answered(c, step)
  PROVE  run' \in [Builds -> Job]
<1>1. \A b \in Builds : run[b] \in Job /\ [run[b] EXCEPT !.step = step] \in Job
  BY DEF TypeOK, Job
<1> QED BY <1>1 DEF Answered

LEMMA TypesStep ==
  ASSUME ReleaseInv, [Next]_vars
  PROVE  TypeOK'
<1> USE DEF ReleaseInv
<1>0. run \in [Builds -> Job] /\ calls \subseteq Call
  BY DEF TypeOK
<1>1. ASSUME NEW c \in calls, Check(c) PROVE TypeOK'
  <2>1. [c EXCEPT !.checked = TRUE] \in Call
    BY <1>0 DEF Call
  <2> QED BY <1>1, <2>1 DEF TypeOK, Check
<1>2. ASSUME NEW c \in calls, Refuse(c) PROVE TypeOK'
  <2>1. run' \in [Builds -> Job]
    BY <1>0, <1>2, AnsweredTypes DEF Refuse, Ended
  <2> QED BY <1>2, <2>1 DEF TypeOK, Refuse
<1>3. ASSUME NEW c \in calls, Commit(c) PROVE TypeOK'
  <2>1. run' \in [Builds -> Job]
    BY <1>0, <1>3, AnsweredTypes DEF Commit, Ended, Running
  <2>2. Wanted(c) # None
    BY <1>3 DEF Commit, CallsInv, Sensible
  <2>3. table' \in [Ids -> Row \cup {None}]
    BY <1>3, <2>2, CommitTable
  <2>4. exposed' \in BOOLEAN
    BY <1>3 DEF Commit
  <2> QED BY <1>3, <2>1, <2>3, <2>4 DEF TypeOK, Commit
<1>4. ASSUME NEW c \in calls, Abort(c) PROVE TypeOK'
  <2>1. run' \in [Builds -> Job]
    BY <1>0, <1>4, AnsweredTypes DEF Abort, Ended
  <2> QED BY <1>4, <2>1 DEF TypeOK, Abort
<1>5. ASSUME NEW b \in Builds, Build(b) PROVE TypeOK'
  <2>1. attempt' \in Attempts
    BY <1>5, ReleaseAssumption DEF Build, NextAttempt, TypeOK, Attempts
  <2>2. run' \in [Builds -> Job]
    BY <1>0, <1>5, <2>1 DEF Build, Job, Running
  <2> QED BY <1>5, <2>1, <2>2 DEF TypeOK, Build, Attempts
<1>6. ASSUME NEW b \in Builds, Republish(b) PROVE TypeOK'
  <2>1. attempt' \in Attempts
    BY <1>6, ReleaseAssumption DEF Republish, NextAttempt, TypeOK, Attempts
  <2>2. run' \in [Builds -> Job]
    BY <1>0, <1>6, <2>1 DEF Republish, Job, Running
  <2> QED BY <1>6, <2>1, <2>2 DEF TypeOK, Republish, Attempts
<1>7. ASSUME NEW b \in Builds, Record(b) PROVE TypeOK'
  <2>1. Latest \in Ids \cup {None}
    BY <1>7, LatestIsActive
  <2>2. run' \in [Builds -> Job]
    <3>1. PICK previous \in {Latest, None} :
            run' = [run EXCEPT ![b].step = "recorded", ![b].previous = previous]
      BY <1>7 DEF Record
    <3> QED BY <1>0, <2>1, <3>1 DEF Job, Running
  <2> QED BY <1>7, <2>2 DEF TypeOK, Record
<1>8. ASSUME NEW b \in Builds, Upload(b) PROVE TypeOK'
  <2>1. run' \in [Builds -> Job]
    BY <1>0, <1>8 DEF Upload, Goes, Job, Running
  <2>2. IdOf(b) \in Ids /\ run[b].content \in Attempts \cup {None}
    BY <1>0 DEF IdOf, Ids, Job
  <2> QED BY <1>8, <2>1, <2>2 DEF TypeOK, Upload
<1>9. ASSUME NEW b \in Builds, Publish(b) PROVE TypeOK'
  <2>1. run' \in [Builds -> Job]
    BY <1>0, <1>9 DEF Publish, Goes, Job, Running
  <2>2. IdOf(b) \in Ids
    BY <1>0 DEF IdOf, Ids, Job
  <2>3. run[b].by \in Attempts /\ run[b].content \in Attempts
    BY <1>9 DEF Publish, JobsInv
  <2>4. [kind |-> "publish", id |-> IdOf(b), content |-> run[b].content,
         by |-> run[b].by, checked |-> FALSE] \in Call
    BY <2>2, <2>3 DEF Call
  <2> QED BY <1>9, <2>1, <2>4 DEF TypeOK, Publish
<1>10. ASSUME NEW b \in Builds, VerifyPasses(b) PROVE TypeOK'
  <2>1. run' \in [Builds -> Job]
    BY <1>0, <1>10 DEF VerifyPasses, Goes, Job, Ended
  <2>2. <<Latest, run[b].content>> \in Ids \X Attempts
    BY <1>0, <1>10 DEF VerifyPasses, IdOf, Ids, Job, JobsInv
  <2> QED BY <1>10, <2>1, <2>2 DEF TypeOK, VerifyPasses
<1>11. ASSUME NEW b \in Builds, VerifyFails(b) PROVE TypeOK'
  <2>1. run' \in [Builds -> Job]
    BY <1>0, <1>11 DEF VerifyFails, Goes, Job, Ended, Running
  <2>2. run[b].by \in Attempts
    BY <1>11 DEF VerifyFails, JobsInv
  <2>3. run[b].previous \in Ids \cup {None}
    BY <1>0 DEF Job
  <2>4. Restorable(b) => [kind |-> "activate", id |-> run[b].previous, content |-> None,
                          by |-> run[b].by, checked |-> FALSE] \in Call
    BY <2>2, <2>3 DEF Call, Restorable
  <2>5. calls' \subseteq Call /\ exposed' \in BOOLEAN
    BY <1>0, <1>11, <2>4 DEF VerifyFails, TypeOK
  <2> QED BY <1>11, <2>1, <2>5 DEF TypeOK, VerifyFails
<1>12. ASSUME NEW b \in Builds, Fails(b) PROVE TypeOK'
  <2>1. run' \in [Builds -> Job]
    BY <1>0, <1>12 DEF Fails, Goes, Job, Ended
  <2> QED BY <1>12, <2>1 DEF TypeOK, Fails
<1>13. CASE UNCHANGED vars
  BY <1>13 DEF TypeOK, vars
<1> QED BY <1>1, <1>2, <1>3, <1>4, <1>5, <1>6, <1>7, <1>8, <1>9, <1>10, <1>11, <1>12, <1>13
        DEF Next, Service, Jobs

-----------------------------------------------------------------------------
(* Every step keeps one active row.                                        *)

(* Only a batch writes to the table.                                       *)
LEMMA OnlyCommitWrites ==
  ASSUME [Next]_vars
  PROVE  table' = table \/ \E c \in calls : Commit(c)
BY DEF Next, Service, Jobs, vars, Check, Refuse, Abort, Build, Republish, Record, Upload,
       Publish, VerifyPasses, VerifyFails, Fails

LEMMA OneActiveStep ==
  ASSUME ReleaseInv, [Next]_vars
  PROVE  OneActive'
<1>1. CASE table' = table
  BY <1>1, SameTable DEF ReleaseInv, OneActive
<1>2. ASSUME NEW c \in calls, Commit(c) PROVE OneActive'
  <2>1. Wanted(c) # None
    BY <1>2 DEF ReleaseInv, Commit, CallsInv, Sensible
  <2>2. Active' = {c.id}
    BY <1>2, <2>1, CommitActive DEF ReleaseInv
  <2> QED BY <2>2 DEF OneActive
<1> QED BY <1>1, <1>2, OnlyCommitWrites

-----------------------------------------------------------------------------
(* Every step keeps what is known of the jobs.                             *)

(* A step of the service or of a job that is under way keeps what the jobs *)
(* are about.                                                              *)
SameJob(b) ==
  /\ run'[b].version = run[b].version /\ run'[b].content = run[b].content
  /\ run'[b].by = run[b].by /\ run'[b].previous = run[b].previous

LEMMA AnsweredJobs ==
  ASSUME TypeOK, NEW c \in calls, NEW step, Answered(c, step) \/ UNCHANGED run, NEW b \in Builds
  PROVE  /\ SameJob(b)
         /\ run'[b].step = run[b].step \/ (WaitsFor(b, c) /\ run'[b].step = step)
<1>1. run[b] \in Job
  BY DEF TypeOK
<1>2. run'[b] = run[b] \/ (WaitsFor(b, c) /\ run'[b] = [run[b] EXCEPT !.step = step])
  BY DEF Answered
<1> QED BY <1>1, <1>2 DEF SameJob, Job

LEMMA GoesJobs ==
  ASSUME TypeOK, NEW x \in Builds, NEW step, Goes(x, step), NEW b \in Builds
  PROVE  /\ SameJob(b)
         /\ run'[b].step = IF b = x THEN step ELSE run[b].step
<1>1. run[b] \in Job /\ run[x] \in Job
  BY DEF TypeOK
<1>2. run'[b] = IF b = x THEN [run[x] EXCEPT !.step = step] ELSE run[b]
  BY DEF Goes, TypeOK
<1> QED BY <1>1, <1>2 DEF SameJob, Job

(* What a step of the service does to the jobs.                            *)
Done(kind) == IF kind = "publish" THEN "published" ELSE "restored"

LEMMA ServiceJobs ==
  ASSUME TypeOK, NEW c \in calls, Check(c) \/ Refuse(c) \/ Commit(c) \/ Abort(c), NEW b \in Builds
  PROVE  /\ SameJob(b)
         /\ \/ run'[b].step = run[b].step
            \/ /\ WaitsFor(b, c) /\ run[b].step \in Running
               /\ run'[b].step \in {"failed", Done(c.kind)}
<1>1. WaitsFor(b, c) => run[b].step \in Running
  BY DEF WaitsFor, Step, Running
<1>2. CASE Check(c)
  BY <1>2 DEF Check, SameJob
<1>3. CASE Refuse(c)
  BY <1>1, <1>3, AnsweredJobs DEF Refuse
<1>4. CASE Commit(c)
  BY <1>1, <1>4, AnsweredJobs DEF Commit, Done
<1>5. CASE Abort(c)
  BY <1>1, <1>5, AnsweredJobs DEF Abort
<1> QED BY <1>2, <1>3, <1>4, <1>5

(* A running job goes on by itself; nobody else can start meanwhile.       *)
Goals == {"uploaded", "publishing", "verified", "restoring", "failed"}

LEMMA JobMoves ==
  ASSUME TypeOK, NEW x \in Builds,
         Upload(x) \/ Publish(x) \/ VerifyPasses(x) \/ VerifyFails(x) \/ Fails(x)
  PROVE  /\ run[x].step \in Running
         /\ \A b \in Builds : SameJob(b) /\ (b # x => run'[b].step = run[b].step)
         /\ run'[x].step \in Goals
<1>1. PICK step \in Goals : Goes(x, step)
  BY DEF Upload, Publish, VerifyPasses, VerifyFails, Fails, Goals
<1>2. run[x].step \in Running
  BY DEF Upload, Publish, VerifyPasses, VerifyFails, Fails, Running
<1> QED BY <1>1, <1>2, GoesJobs

LEMMA RecordMoves ==
  ASSUME TypeOK, NEW x \in Builds, Record(x)
  PROVE  /\ run[x].step = "built" /\ run'[x].step = "recorded"
         /\ run'[x].previous \in {Latest, None}
         /\ \A b \in Builds : /\ run'[b].by = run[b].by /\ run'[b].content = run[b].content
                              /\ run'[b].version = run[b].version
                              /\ b # x => run'[b] = run[b]
<1>1. PICK previous \in {Latest, None} :
        run' = [run EXCEPT ![x].step = "recorded", ![x].previous = previous]
  BY DEF Record
<1>2. \A b \in Builds : run[b] \in Job
  BY DEF TypeOK
<1>3. run'[x] = [run[x] EXCEPT !.step = "recorded", !.previous = previous]
  BY <1>1 DEF TypeOK
<1>4. \A b \in Builds : b # x => run'[b] = run[b]
  BY <1>1 DEF TypeOK
<1>5. /\ run'[x].step = "recorded" /\ run'[x].previous = previous
      /\ run'[x].by = run[x].by /\ run'[x].content = run[x].content
      /\ run'[x].version = run[x].version
  BY <1>2, <1>3 DEF Job
<1>6. run[x].step = "built" /\ previous \in {Latest, None}
  BY DEF Record
<1> QED BY <1>4, <1>5, <1>6

(* What the start of a job does.                                           *)
LEMMA StartMoves ==
  ASSUME TypeOK, NEW x \in Builds, Build(x) \/ Republish(x)
  PROVE  /\ Idle /\ attempt' = attempt + 1 /\ attempt' \in Attempts
         /\ run'[x].step = "built" /\ run'[x].by = attempt' /\ run'[x].previous = None
         /\ \/ run'[x].content = attempt' /\ run'[x].version = Selected(x)
            \/ /\ run[x].step # "none"
               /\ run'[x].content = run[x].content /\ run'[x].version = run[x].version
         /\ \A b \in Builds : b # x => run'[b] = run[b]
<1>1. Idle /\ attempt' = attempt + 1 /\ attempt' \in Attempts
  BY ReleaseAssumption DEF Build, Republish, NextAttempt, TypeOK, Attempts
<1>2. run[x] \in Job
  BY DEF TypeOK
<1>3. CASE Build(x)
  <2>1. run'[x] = [step |-> "built", version |-> Selected(x), content |-> attempt',
                   by |-> attempt', previous |-> None]
    BY <1>3 DEF Build, TypeOK
  <2>2. \A b \in Builds : b # x => run'[b] = run[b]
    BY <1>3 DEF Build, TypeOK
  <2> QED BY <1>1, <2>1, <2>2
<1>4. CASE Republish(x)
  <2>1. run'[x] = [run[x] EXCEPT !.step = "built", !.by = attempt', !.previous = None]
    BY <1>4 DEF Republish, TypeOK
  <2>2. \A b \in Builds : b # x => run'[b] = run[b]
    BY <1>4 DEF Republish, TypeOK
  <2>3. /\ run'[x].step = "built" /\ run'[x].by = attempt' /\ run'[x].previous = None
        /\ run'[x].content = run[x].content /\ run'[x].version = run[x].version
    BY <1>2, <2>1 DEF Job
  <2>4. run[x].step # "none"
    BY <1>4 DEF Republish
  <2> QED BY <1>1, <2>2, <2>3, <2>4
<1> QED BY <1>3, <1>4

LEMMA JobsStep ==
  ASSUME ReleaseInv, [Next]_vars
  PROVE  JobsInv'
<1> USE DEF ReleaseInv
<1>a. attempt \in Nat /\ \A b \in Builds : run[b] \in Job
  BY DEF TypeOK
<1>1. ASSUME NEW c \in calls, Check(c) \/ Refuse(c) \/ Commit(c) \/ Abort(c) PROVE JobsInv'
  <2>1. attempt' = attempt
    BY <1>1 DEF Check, Refuse, Commit, Abort
  <2>2. \A b \in Builds : /\ SameJob(b)
                          /\ run'[b].step = run[b].step \/ run[b].step \in Running
    BY <1>1, ServiceJobs
  <2> QED BY <2>1, <2>2 DEF JobsInv, SameJob, Running
<1>2. ASSUME NEW x \in Builds,
             Upload(x) \/ Publish(x) \/ VerifyPasses(x) \/ VerifyFails(x) \/ Fails(x)
      PROVE  JobsInv'
  <2>1. attempt' = attempt
    BY <1>2 DEF Upload, Publish, VerifyPasses, VerifyFails, Fails
  <2>2. /\ run[x].step \in Running
        /\ \A b \in Builds : SameJob(b) /\ (b # x => run'[b].step = run[b].step)
    BY <1>2, JobMoves
  <2> QED BY <2>1, <2>2 DEF JobsInv, SameJob, Running
<1>3. ASSUME NEW x \in Builds, Record(x) PROVE JobsInv'
  <2>1. attempt' = attempt
    BY <1>3 DEF Record
  <2>2. /\ run[x].step \in Running
        /\ \A b \in Builds : /\ run'[b].by = run[b].by /\ run'[b].content = run[b].content
                             /\ b # x => run'[b] = run[b]
    BY <1>3, RecordMoves DEF Running
  <2> QED BY <2>1, <2>2 DEF JobsInv, Running
<1>4. ASSUME NEW x \in Builds, Build(x) \/ Republish(x) PROVE JobsInv'
  <2>1. \A b \in Builds : run[b].step \notin Running
    BY <1>4, StartMoves DEF Idle, Ended, Running
  <2>2. /\ run'[x].by = attempt' /\ attempt' = attempt + 1 /\ attempt' \in Attempts
        /\ run'[x].content = attempt' \/ (run[x].step # "none" /\ run'[x].content = run[x].content)
        /\ \A b \in Builds : b # x => run'[b] = run[b]
    BY <1>4, StartMoves
  <2>3. attempt \in Int /\ \A b \in Attempts : b \in Int
    BY <1>a DEF Attempts
  <2>4. run'[x].content \in Attempts
    BY <2>2 DEF JobsInv
  <2>5. ASSUME NEW b \in Builds, run'[b].step # "none"
        PROVE  run'[b].content \in Attempts /\ run'[b].by \in Attempts /\ run'[b].by <= attempt'
    <3>1. CASE b = x
      BY <2>2, <2>3, <2>4, <3>1
    <3>2. CASE b # x
      <4>1. run[b].step # "none" /\ run'[b] = run[b]
        BY <2>2, <2>5, <3>2
      <4>2. run[b].content \in Attempts /\ run[b].by \in Attempts /\ run[b].by <= attempt
        BY <4>1 DEF JobsInv
      <4>3. run[b].by \in Int
        BY <2>3, <4>2
      <4> QED BY <2>2, <2>3, <4>1, <4>2, <4>3
    <3> QED BY <3>1, <3>2
  <2>6. \A b \in Builds : run'[b].step \in Running => b = x
    BY <2>1, <2>2
  <2> QED BY <2>2, <2>5, <2>6 DEF JobsInv
<1>5. CASE UNCHANGED vars
  BY <1>5 DEF JobsInv, vars
<1> QED BY <1>1, <1>2, <1>3, <1>4, <1>5 DEF Next, Service, Jobs

-----------------------------------------------------------------------------
(* Every step keeps what is known of the requests.                         *)

(* A row is never deleted, so what a checked request wants stays there.    *)
LEMMA WantedStays ==
  ASSUME ReleaseInv, [Next]_vars, NEW d \in calls, Wanted(d) # None
  PROVE  Wanted(d)' # None
<1>1. CASE table' = table
  BY <1>1, SameTable
<1>2. ASSUME NEW c \in calls, Commit(c) PROVE Wanted(d)' # None
  <2>1. Wanted(c) # None
    BY <1>2 DEF ReleaseInv, Commit, CallsInv, Sensible
  <2>2. /\ \A i \in Published : table'[i].content = IF i = c.id THEN Wanted(c) ELSE table[i].content
        /\ Published' = Published \cup {c.id}
    BY <1>2, <2>1, CommitActive DEF ReleaseInv
  <2>3. d.id \in Ids
    BY DEF ReleaseInv, TypeOK, Call
  <2>4. CASE d.kind = "publish"
    BY <2>4 DEF Wanted
  <2>5. CASE d.kind # "publish"
    <3>1. d.id \in Published /\ Wanted(d) = table[d.id].content
      BY <2>3, <2>5 DEF Wanted, Published
    <3>2. table'[d.id] # None
      BY <2>2, <2>3, <3>1 DEF Published
    <3>3. Wanted(d)' = table'[d.id].content
      BY <2>5, <3>2 DEF Wanted
    <3> QED BY <2>1, <2>2, <3>1, <3>3
  <2> QED BY <2>4, <2>5
<1> QED BY <1>1, <1>2, OnlyCommitWrites

(* The same request, as far as jobs and attempts are concerned.            *)
Alike(c, d) == c.kind = d.kind /\ c.id = d.id /\ c.content = d.content /\ c.by = d.by

LEMMA CallsStep ==
  ASSUME ReleaseInv, [Next]_vars
  PROVE  CallsInv'
<1> USE DEF ReleaseInv
<1>a. attempt \in Int /\ (\A b \in Builds : run[b] \in Job) /\ calls \subseteq Call
  BY DEF TypeOK
<1>b. \A c \in calls : c.by \in Int
  BY <1>a DEF Call, Attempts
<1>1. ASSUME NEW c \in calls, Check(c) \/ Refuse(c) \/ Commit(c) \/ Abort(c) PROVE CallsInv'
  <2> DEFINE e == [c EXCEPT !.checked = TRUE]
  <2>1. attempt' = attempt
    BY <1>1 DEF Check, Refuse, Commit, Abort
  <2>2. c \in Call
    BY <1>a
  <2>3. Alike(e, c) /\ e.checked
    BY <2>2 DEF Alike, Call
  <2> HIDE DEF e
  <2>4. \/ calls' = calls \ {c}
        \/ calls' = (calls \ {c}) \cup {e} /\ Check(c)
    BY <1>1 DEF Check, Refuse, Commit, Abort, e
  <2>5. \A d \in calls' : (d \in calls /\ d # c) \/ (d = e /\ Check(c))
    <3>1. CASE calls' = calls \ {c}
      BY <3>1
    <3>2. CASE calls' = (calls \ {c}) \cup {e} /\ Check(c)
      BY <3>2
    <3> QED BY <2>4, <3>1, <3>2
  <2>6. \A d \in calls' : \E f \in calls : Alike(d, f)
    BY <2>3, <2>5 DEF Alike
  <2>7. ASSUME NEW d \in calls' PROVE Sensible(d)'
    <3>1. CASE d \in calls
      <4>1. Wanted(d) # None => Wanted(d)' # None
        BY <3>1, WantedStays
      <4> QED BY <2>1, <3>1, <4>1 DEF CallsInv, Sensible
    <3>2. CASE d = e /\ Check(c)
      <4>1. Wanted(c) # None /\ table' = table
        BY <3>2 DEF Check, Stored
      <4>2. Wanted(d)' = Wanted(c)
        BY <2>3, <3>2, <4>1 DEF Wanted, Alike
      <4> QED BY <2>1, <2>3, <3>2, <4>1, <4>2 DEF CallsInv, Sensible, Alike
    <3> QED BY <2>5, <3>1, <3>2
  <2>8. \A d, f \in calls' : d.by = f.by /\ d.kind = f.kind => d = f
    BY <2>3, <2>5 DEF CallsInv, Alike
  <2>9. ASSUME NEW b \in Builds, NEW d \in calls', d.by = run'[b].by
        PROVE  /\ run'[b].step \notin Young
               /\ run'[b].step \in {"publishing", "published"} => d.kind = "publish"
    <3>1. PICK f \in calls : Alike(d, f)
      BY <2>6
    <3>2. f.by = run[b].by
      BY <1>1, <2>9, <3>1, ServiceJobs DEF SameJob, Alike
    <3>3. /\ run[b].step \notin Young
          /\ run[b].step \in {"publishing", "published"} => f.kind = "publish"
      BY <3>2 DEF CallsInv
    <3>4. \/ run'[b].step = run[b].step
          \/ WaitsFor(b, c) /\ run'[b].step \in {"failed", Done(c.kind)}
      BY <1>1, ServiceJobs
    <3>5. CASE run'[b].step = run[b].step
      BY <3>1, <3>3, <3>5 DEF Alike
    <3>6. CASE WaitsFor(b, c) /\ run'[b].step = Done(c.kind)
      <4>1. c.kind = "publish" => run[b].step = "publishing"
        BY <3>6 DEF WaitsFor, Step
      <4> QED BY <3>1, <3>3, <3>6, <4>1 DEF Alike, Young, Done
    <3>7. CASE run'[b].step = "failed"
      BY <3>7 DEF Young
    <3> QED BY <3>4, <3>5, <3>6, <3>7
  <2>10. ASSUME NEW b \in Builds, NEW d \in calls', WaitsFor(b, d)'
         PROVE  /\ d.kind = "publish" => d.id = IdOf(b)' /\ d.content = run'[b].content
                /\ d.kind = "activate" => d.id = run'[b].previous
    <3>1. PICK f \in calls : Alike(d, f)
      BY <2>6
    <3>2. SameJob(b)
      BY <1>1, ServiceJobs
    <3>3. run'[b].step = run[b].step
      BY <1>1, <2>10, ServiceJobs DEF WaitsFor, Step, Done
    <3>4. WaitsFor(b, f)
      BY <2>10, <3>1, <3>2, <3>3 DEF WaitsFor, SameJob, Alike
    <3> QED BY <3>1, <3>2, <3>4 DEF CallsInv, Alike, SameJob, IdOf
  <2> QED BY <2>7, <2>8, <2>9, <2>10 DEF CallsInv
<1>2. ASSUME NEW x \in Builds, UNCHANGED <<table, attempt>>,
             run[x].step \in Running, \A b \in Builds : SameJob(b),
             \A b \in Builds : b # x => run'[b].step = run[b].step,
             NEW n, n \notin calls => /\ n.by = run[x].by /\ Sensible(n)
                                      /\ \A c \in calls : c.by = n.by => c.kind # n.kind,
             calls' = calls \/ (calls' = calls \cup {n} /\ n \notin calls),
             \A c \in calls' : c.by = run[x].by =>
               /\ run'[x].step \notin Young
               /\ run'[x].step \in {"publishing", "published"} => c.kind = "publish",
             \A c \in calls' : WaitsFor(x, c)' =>
               /\ c.kind = "publish" => c.id = IdOf(x) /\ c.content = run[x].content
               /\ c.kind = "activate" => c.id = run[x].previous
      PROVE  CallsInv'
  <2>1. \A c \in calls' : c \in calls \/ (c = n /\ n \notin calls)
    BY <1>2
  <2>2. \A c \in calls' : Sensible(c)'
    <3>1. \A c \in calls' : Sensible(c)
      BY <1>2, <2>1 DEF CallsInv
    <3>2. \A c : Wanted(c)' = Wanted(c)
      BY <1>2, SameTable
    <3> QED BY <1>2, <3>1, <3>2 DEF Sensible
  <2>3. \A c, d \in calls' : c.by = d.by /\ c.kind = d.kind => c = d
    BY <1>2, <2>1 DEF CallsInv
  <2>4. ASSUME NEW b \in Builds, NEW c \in calls', c.by = run'[b].by
        PROVE  /\ run'[b].step \notin Young
               /\ run'[b].step \in {"publishing", "published"} => c.kind = "publish"
    <3>1. CASE b = x
      BY <1>2, <2>4, <3>1 DEF SameJob
    <3>2. CASE b # x
      <4>1. run[b].step \notin Running /\ run'[b].step = run[b].step
        BY <1>2, <3>2 DEF JobsInv
      <4> QED BY <4>1 DEF Running, Young
    <3> QED BY <3>1, <3>2
  <2>5. ASSUME NEW b \in Builds, NEW c \in calls', WaitsFor(b, c)'
        PROVE  /\ c.kind = "publish" => c.id = IdOf(b)' /\ c.content = run'[b].content
               /\ c.kind = "activate" => c.id = run'[b].previous
    <3>1. IdOf(b)' = IdOf(b) /\ run'[b].content = run[b].content
          /\ run'[b].previous = run[b].previous
      BY <1>2 DEF SameJob, IdOf
    <3>2. CASE b = x
      BY <1>2, <2>5, <3>1, <3>2
    <3>3. CASE b # x
      <4>1. run[b].step \notin Running /\ run'[b].step = run[b].step
        BY <1>2, <3>3 DEF JobsInv
      <4> QED BY <2>5, <4>1 DEF WaitsFor, Step, Running
    <3> QED BY <3>2, <3>3
  <2> QED BY <2>2, <2>3, <2>4, <2>5 DEF CallsInv
<1>3. ASSUME NEW x \in Builds, Upload(x) \/ VerifyPasses(x) \/ Fails(x) PROVE CallsInv'
  <2>1. PICK step \in {"uploaded", "verified", "failed"} :
          Goes(x, step) /\ (step = "uploaded" => run[x].step \in Young)
    BY <1>3 DEF Upload, VerifyPasses, Fails, Young
  <2>2. run'[x].step = step
    BY <2>1, GoesJobs
  <2>3. run[x].step \in Running /\ \A b \in Builds : SameJob(b) /\ (b # x => run'[b].step = run[b].step)
    BY <1>3, JobMoves
  <2>4. UNCHANGED <<table, attempt, calls>>
    BY <1>3 DEF Upload, VerifyPasses, Fails
  <2>5. \A c \in calls : c.by = run[x].by => run'[x].step \notin Young
    BY <2>1, <2>2 DEF CallsInv, Young
  <2>6. \A c \in calls : ~WaitsFor(x, c)'
    BY <2>2 DEF WaitsFor, Step
  <2>7. CASE calls = {}
    BY <2>4, <2>7 DEF CallsInv
  <2>8. CASE calls # {}
    <3>1. PICK n \in calls : TRUE
      BY <2>8
    <3> QED BY <1>2, <2>2, <2>3, <2>4, <2>5, <2>6, <3>1
  <2> QED BY <2>7, <2>8
<1>4. ASSUME NEW x \in Builds, Publish(x) PROVE CallsInv'
  <2> DEFINE n == [kind |-> "publish", id |-> IdOf(x), content |-> run[x].content,
                   by |-> run[x].by, checked |-> FALSE]
  <2>1. run[x].step = "uploaded" /\ calls' = calls \cup {n} /\ UNCHANGED <<table, attempt>>
    BY <1>4 DEF Publish
  <2>2. n.kind = "publish" /\ n.id = IdOf(x) /\ n.content = run[x].content
        /\ n.by = run[x].by /\ ~n.checked
    OBVIOUS
  <2> HIDE DEF n
  <2>3. \A c \in calls : c.by # n.by
    BY <2>1, <2>2 DEF CallsInv, Young
  <2>4. Sensible(n)
    BY <2>1, <2>2, ReleaseAssumption DEF JobsInv, Sensible
  <2>5. run'[x].step = "publishing"
    BY <1>4, GoesJobs DEF Publish
  <2>6. run[x].step \in Running /\ \A b \in Builds : SameJob(b) /\ (b # x => run'[b].step = run[b].step)
    BY <1>4, JobMoves
  <2>7. \A c \in calls' : c.by = run[x].by => c = n
    BY <2>1, <2>2, <2>3
  <2>8. \A c \in calls' : WaitsFor(x, c)' => c = n
    BY <2>6, <2>7 DEF WaitsFor, SameJob
  <2>9. n \notin calls
    BY <2>3
  <2>10. \A c \in calls' : c.by = run[x].by =>
           /\ run'[x].step \notin Young
           /\ run'[x].step \in {"publishing", "published"} => c.kind = "publish"
    BY <2>2, <2>5, <2>7 DEF Young
  <2>11. \A c \in calls' : WaitsFor(x, c)' =>
           /\ c.kind = "publish" => c.id = IdOf(x) /\ c.content = run[x].content
           /\ c.kind = "activate" => c.id = run[x].previous
    BY <2>2, <2>8
  <2> QED BY <1>2, <2>1, <2>2, <2>3, <2>4, <2>6, <2>9, <2>10, <2>11
<1>5. ASSUME NEW x \in Builds, VerifyFails(x) PROVE CallsInv'
  <2> DEFINE n == [kind |-> "activate", id |-> run[x].previous, content |-> None,
                   by |-> run[x].by, checked |-> FALSE]
  <2>1. /\ run[x].step = "published" /\ UNCHANGED <<table, attempt>>
        /\ \/ calls' = calls /\ Goes(x, "failed")
           \/ calls' = calls \cup {n} /\ Goes(x, "restoring")
    BY <1>5 DEF VerifyFails
  <2>2. n.kind = "activate" /\ n.id = run[x].previous /\ n.by = run[x].by /\ ~n.checked
    OBVIOUS
  <2> HIDE DEF n
  <2>3. \A c \in calls : c.by = n.by => c.kind = "publish"
    BY <2>1, <2>2 DEF CallsInv
  <2>4. Sensible(n)
    BY <2>1, <2>2 DEF JobsInv, Sensible
  <2>5. run'[x].step \in {"failed", "restoring"}
    BY <2>1, GoesJobs
  <2>6. run[x].step \in Running /\ \A b \in Builds : SameJob(b) /\ (b # x => run'[b].step = run[b].step)
    BY <1>5, JobMoves
  <2>7. n \notin calls
    BY <2>2, <2>3
  <2>8. \A c \in calls' : WaitsFor(x, c)' => c = n
    BY <2>1, <2>2, <2>3, <2>5, <2>6 DEF WaitsFor, SameJob, Step
  <2>9. \A c \in calls' : WaitsFor(x, c)' =>
           /\ c.kind = "publish" => c.id = IdOf(x) /\ c.content = run[x].content
           /\ c.kind = "activate" => c.id = run[x].previous
    BY <2>2, <2>8
  <2>10. run'[x].step \notin Young /\ run'[x].step \notin {"publishing", "published"}
    BY <2>5 DEF Young
  <2>11. calls' = calls \/ calls' = calls \cup {n}
    BY <2>1
  <2> QED BY <1>2, <2>1, <2>2, <2>3, <2>4, <2>6, <2>7, <2>9, <2>10, <2>11
<1>6. ASSUME NEW x \in Builds, Record(x) PROVE CallsInv'
  <2>1. UNCHANGED <<table, attempt, calls>>
    BY <1>6 DEF Record
  <2>2. /\ run[x].step = "built" /\ run'[x].step = "recorded" /\ run'[x].by = run[x].by
        /\ \A b \in Builds : b # x => run'[b] = run[b]
    BY <1>6, RecordMoves
  <2>3. \A c \in calls : Sensible(c)'
    BY <2>1, SameTable DEF CallsInv, Sensible
  <2>4. \A c \in calls : c.by # run[x].by
    BY <2>2 DEF CallsInv, Young
  <2>5. \A b \in Builds, c \in calls : c.by = run'[b].by => b # x
    BY <2>2, <2>4
  <2>6. \A b \in Builds, c \in calls : WaitsFor(b, c)' => b # x /\ WaitsFor(b, c)
    BY <2>2, <2>5 DEF WaitsFor
  <2>7. \A b \in Builds : b # x => IdOf(b)' = IdOf(b)
    BY <2>2 DEF IdOf
  <2> QED BY <2>1, <2>2, <2>3, <2>5, <2>6, <2>7 DEF CallsInv
<1>7. ASSUME NEW x \in Builds, Build(x) \/ Republish(x) PROVE CallsInv'
  <2>1. UNCHANGED <<table, calls>>
    BY <1>7 DEF Build, Republish
  <2>2. /\ attempt' = attempt + 1 /\ run'[x].by = attempt'
        /\ \A b \in Builds : b # x => run'[b] = run[b]
    BY <1>7, StartMoves
  <2>3. \A c \in calls : Sensible(c)'
    BY <1>a, <1>b, <2>1, <2>2, SameTable DEF CallsInv, Sensible
  <2>4. \A c \in calls : c.by # run'[x].by
    BY <1>a, <1>b, <2>2 DEF CallsInv, Sensible
  <2>5. \A b \in Builds, c \in calls : c.by = run'[b].by => b # x
    BY <2>4
  <2>6. \A b \in Builds, c \in calls : WaitsFor(b, c)' => b # x /\ WaitsFor(b, c)
    BY <2>2, <2>5 DEF WaitsFor
  <2>7. \A b \in Builds : b # x => IdOf(b)' = IdOf(b)
    BY <2>2 DEF IdOf
  <2> QED BY <2>1, <2>2, <2>3, <2>5, <2>6, <2>7 DEF CallsInv
<1>8. CASE UNCHANGED vars
  <2>1. \A c \in calls : Sensible(c)'
    BY <1>8, SameTable DEF vars, CallsInv, Sensible
  <2> QED BY <1>8, <2>1 DEF vars, CallsInv, WaitsFor, IdOf
<1> QED BY <1>1, <1>3, <1>4, <1>5, <1>6, <1>7, <1>8 DEF Next, Service, Jobs

-----------------------------------------------------------------------------
(* The invariant and what follows from it.                                 *)

LEMMA ReleaseInit == Init => ReleaseInv
<1> SUFFICES ASSUME Init PROVE ReleaseInv
  OBVIOUS
<1>1. \A b \in Builds : run[b] = NoJob
  BY DEF Init
<1>2. TypeOK
  <2>1. run \in [Builds -> Job]
    <3>1. run = [b \in Builds |-> NoJob]
      BY DEF Init
    <3>2. ASSUME NEW b \in Builds PROVE NoJob \in Job
      <4>1. declared[b] \in Versions
        BY DEF Init
      <4>2. 1 \in Versions
        BY <4>1, ReleaseAssumption DEF Versions
      <4> QED BY <4>2 DEF NoJob, Job, Ended
    <3> QED BY <3>1, <3>2
  <2>2. attempt \in 0 .. MaxAttempt
    BY ReleaseAssumption DEF Init
  <2>3. /\ declared \in [Builds -> Versions] /\ table \in [Ids -> Row \cup {None}]
        /\ bucket \in [Ids -> Attempts \cup {None}]
    BY DEF Init
  <2> QED BY <2>1, <2>2, <2>3 DEF Init, TypeOK
<1>3. OneActive
  BY DEF Init, OneActive, Active, Published
<1>4. JobsInv
  BY <1>1 DEF JobsInv, NoJob, Running
<1>5. CallsInv
  BY DEF Init, CallsInv
<1> QED BY <1>2, <1>3, <1>4, <1>5 DEF ReleaseInv

LEMMA ReleaseInductive == ReleaseInv /\ [Next]_vars => ReleaseInv'
  BY TypesStep, OneActiveStep, JobsStep, CallsStep DEF ReleaseInv

THEOREM ReleaseInvariance == Spec => []ReleaseInv
  BY ReleaseInit, ReleaseInductive, PTL DEF Spec

(* Every variable of the pipeline keeps its type.                          *)
THEOREM ReleaseTypeCorrect == Spec => []TypeOK
<1>1. ReleaseInv => TypeOK
  BY DEF ReleaseInv
<1> QED BY <1>1, ReleaseInvariance, PTL

(* Once something was published one release is served, whatever requests   *)
(* of whatever jobs overlap in the service.                                *)
THEOREM OneIsServed == Spec => []OneServed
<1>1. ReleaseInv => OneServed
  <2> SUFFICES ASSUME ReleaseInv, \E i \in Ids : table[i] # None
               PROVE  Cardinality(Active) = 1
    BY DEF OneServed
  <2>1. Active # {}
    BY DEF ReleaseInv, OneActive, Published
  <2>2. Active = {Latest}
    BY <2>1, LatestIsActive DEF ReleaseInv
  <2> QED BY <2>2, FS_Singleton
<1> QED BY <1>1, ReleaseInvariance, PTL

(* A step that changes what is served is one batch of one request.         *)
LEMMA ServedChanges ==
  ASSUME ReleaseInv, [Next]_vars, Active' # Active \/ Latest' # Latest
  PROVE  \E c \in calls :
           /\ Commit(c) /\ c \in calls \ calls' /\ c.id \in Ids
           /\ Active' = {c.id} /\ Latest' = c.id
<1>1. table' # table
  BY SameTable
<1>2. PICK c \in calls : Commit(c)
  BY <1>1, OnlyCommitWrites
<1>3. Wanted(c) # None
  BY <1>2 DEF ReleaseInv, Commit, CallsInv, Sensible
<1>4. Active' = {c.id} /\ Latest' = c.id
  BY <1>2, <1>3, CommitActive DEF ReleaseInv
<1>5. c \notin calls' /\ c.id \in Ids
  BY <1>2 DEF Commit, ReleaseInv, TypeOK, Call
<1> QED BY <1>2, <1>4, <1>5

(* No lower build replaces an active one but by an activation, however old *)
(* what the route read is when it writes.                                  *)
THEOREM NeverDowngraded == Spec => NoDowngrade
<1> DEFINE Kept == \A i \in Active, j \in Active' : j.build < i.build => Activates
<1>1. ReleaseInv /\ [Next]_vars => Kept
  <2> SUFFICES ASSUME ReleaseInv, [Next]_vars, NEW i \in Active, NEW j \in Active',
                      j.build < i.build, ~Activates
               PROVE  FALSE
    OBVIOUS
  <2>1. i \in Ids /\ i.build \in Int /\ ~(i.build < i.build)
    BY IdFacts DEF Active
  <2>2. Active' # Active
    BY <2>1 DEF ReleaseInv, OneActive
  <2>3. PICK c \in calls : Commit(c) /\ c \in calls \ calls' /\ Active' = {c.id}
    BY <2>2, ServedChanges
  <2>4. c.kind = "publish"
    BY <2>3 DEF Activates, ReleaseInv, TypeOK, Call
  <2>5. j = c.id /\ c.id # i
    BY <2>1, <2>3
  <2>6. i.build > c.id.build
    BY <2>5
  <2> QED BY <2>3, <2>4, <2>5, <2>6 DEF Commit, Aborts, Above
<1>2. ReleaseInv /\ [Next]_vars => [Kept]_vars
  BY <1>1
<1> HIDE DEF Kept
<1>3. Spec => [][Kept]_vars
  BY <1>2, ReleaseInvariance, PTL DEF Spec
<1> QED BY <1>3 DEF NoDowngrade, Kept

(* The service implements one served release: a publish or an activation   *)
(* that commits is a step of ServedRelease, everything else a stutter.     *)
THEOREM ServesOneRelease == Spec => ImplementsServed
<1>1. Init => Served!Init
  BY DEF Init, Served!Init, Latest, Active, Published
<1>2. ReleaseInv /\ [Next]_vars => [Served!Next]_<<Latest, Published>>
  <2> SUFFICES ASSUME ReleaseInv, [Next]_vars, <<Latest, Published>>' # <<Latest, Published>>
               PROVE  Served!Next
    OBVIOUS
  <2>1. table' # table
    BY SameTable
  <2>2. PICK c \in calls : Commit(c)
    BY <2>1, OnlyCommitWrites
  <2>3. Wanted(c) # None /\ c.id \in Ids /\ c.kind \in {"publish", "activate"}
    BY <2>2 DEF ReleaseInv, Commit, CallsInv, Sensible, TypeOK, Call
  <2>4. Latest' = c.id /\ Published' = Published \cup {c.id}
    BY <2>2, <2>3, CommitActive DEF ReleaseInv
  <2>5. CASE c.kind = "publish"
    <3>1. Latest # None => Latest \in Active /\ Latest \in Ids
      BY LatestIsActive DEF ReleaseInv
    <3>2. Latest # None => ~(Latest # c.id /\ Latest.build > c.id.build)
      BY <2>2, <2>5, <3>1 DEF Commit, Aborts, Above
    <3>3. Latest # None => Latest.build <= c.id.build
      BY <2>3, <3>1, <3>2, IdFacts
    <3>4. Served!Publish(c.id)
      BY <2>4, <3>3 DEF Served!Publish
    <3> QED BY <2>3, <3>4 DEF Served!Next
  <2>6. CASE c.kind = "activate"
    <3>1. c.id \in Published
      BY <2>3, <2>6 DEF Wanted, Published
    <3>2. Published' = Published
      BY <2>4, <3>1
    <3>3. Served!Restore(c.id)
      BY <2>4, <3>1, <3>2 DEF Served!Restore
    <3> QED BY <2>3, <3>3 DEF Served!Next
  <2> QED BY <2>3, <2>5, <2>6
<1> QED BY <1>1, <1>2, ReleaseInvariance, PTL DEF Spec, ImplementsServed, Served!Spec

-----------------------------------------------------------------------------
(* What was checked for a job that waits still holds when it is written.   *)

(* Nobody starts to wait for a request that is already there.              *)
LEMMA WaitedBefore ==
  ASSUME ReleaseInv, [Next]_vars, NEW b \in Builds, NEW d \in calls, WaitsFor(b, d)'
  PROVE  WaitsFor(b, d)
<1> USE DEF ReleaseInv
<1>0. run'[b].step \in {"publishing", "restoring"} /\ run'[b].by = d.by
  BY DEF WaitsFor, Step
<1>1. ASSUME NEW c \in calls, Check(c) \/ Refuse(c) \/ Commit(c) \/ Abort(c)
      PROVE  WaitsFor(b, d)
  <2>1. SameJob(b) /\ run'[b].step = run[b].step
    BY <1>0, <1>1, ServiceJobs DEF Done
  <2> QED BY <2>1 DEF WaitsFor, SameJob
<1>2. ASSUME NEW x \in Builds,
             Upload(x) \/ Publish(x) \/ VerifyPasses(x) \/ VerifyFails(x) \/ Fails(x)
      PROVE  WaitsFor(b, d)
  <2>1. run[x].step \in Running /\ SameJob(b) /\ (b # x => run'[b].step = run[b].step)
    BY <1>2, JobMoves
  <2>2. CASE b # x
    BY <2>1, <2>2 DEF WaitsFor, SameJob
  <2>3. CASE b = x /\ Publish(x)
    BY <1>0, <2>1, <2>3 DEF CallsInv, SameJob, Publish, Young
  <2>4. CASE b = x /\ VerifyFails(x)
    <3>1. d.kind = "publish"
      BY <1>0, <2>1, <2>4 DEF CallsInv, SameJob, VerifyFails
    <3>2. run'[b].step # "publishing"
      BY <2>4, GoesJobs DEF VerifyFails
    <3> QED BY <3>1, <3>2 DEF WaitsFor, Step
  <2>5. CASE b = x /\ (Upload(x) \/ VerifyPasses(x) \/ Fails(x))
    BY <1>0, <2>5, GoesJobs DEF Upload, VerifyPasses, Fails
  <2> QED BY <1>2, <2>2, <2>3, <2>4, <2>5
<1>3. ASSUME NEW x \in Builds, Record(x) PROVE WaitsFor(b, d)
  BY <1>0, <1>3, RecordMoves DEF WaitsFor
<1>4. ASSUME NEW x \in Builds, Build(x) \/ Republish(x) PROVE WaitsFor(b, d)
  BY <1>0, <1>4, StartMoves DEF WaitsFor
<1>5. CASE UNCHANGED vars
  BY <1>5 DEF vars, WaitsFor
<1> QED BY <1>1, <1>2, <1>3, <1>4, <1>5 DEF Next, Service, Jobs

(* Two requests that somebody waits for are the same.                      *)
LEMMA OneIsWaitedFor ==
  ASSUME ReleaseInv, NEW a \in Builds, NEW b \in Builds, NEW c \in calls, NEW d \in calls,
         WaitsFor(a, c), WaitsFor(b, d)
  PROVE  a = b /\ c = d /\ run[a].step \in Running
<1>1. run[a].step \in Running /\ run[b].step \in Running
  BY DEF WaitsFor, Step, Running
<1>2. a = b
  BY <1>1 DEF ReleaseInv, JobsInv
<1>3. c.kind \in {"publish", "activate"} /\ d.kind \in {"publish", "activate"}
  BY DEF ReleaseInv, TypeOK, Call
<1>4. c.kind = d.kind /\ c.by = d.by
  BY <1>2, <1>3 DEF WaitsFor, Step
<1> QED BY <1>1, <1>2, <1>4 DEF ReleaseInv, CallsInv

(* As long as nothing is uncertain, only a request somebody waits for is   *)
(* written, and certainty comes back only with the end of a job.           *)
LEMMA WrittenIsWaitedFor ==
  ASSUME NEW c \in calls, Commit(c), ~exposed'
  PROVE  ~exposed /\ \E b \in Builds : WaitsFor(b, c)
  BY DEF Commit

LEMMA CertainBefore ==
  ASSUME ReleaseInv, [Next]_vars, ~exposed', NEW b \in Builds, run'[b].step \in Running
  PROVE  ~exposed
<1>1. CASE exposed' = exposed
  BY <1>1
<1>2. ASSUME NEW c \in calls, Commit(c) PROVE ~exposed
  BY <1>2, WrittenIsWaitedFor
<1>3. ASSUME NEW x \in Builds, VerifyPasses(x) PROVE ~exposed
  <2>1. run[x].step \in Running /\ run'[x].step = "verified"
    BY <1>3, JobMoves, GoesJobs DEF ReleaseInv, VerifyPasses
  <2>2. b # x
    BY <2>1 DEF Running
  <2>3. run[b].step \in Running
    BY <1>3, <2>2, JobMoves DEF ReleaseInv
  <2> QED BY <2>1, <2>2, <2>3 DEF ReleaseInv, JobsInv
<1>4. ASSUME NEW x \in Builds, VerifyFails(x) \/ Fails(x) PROVE ~exposed
  BY <1>4 DEF VerifyFails, Fails
<1>5. exposed' = exposed \/ (\E c \in calls : Commit(c))
      \/ (\E x \in Builds : VerifyPasses(x) \/ VerifyFails(x) \/ Fails(x))
  BY DEF Next, Service, Jobs, vars, Check, Refuse, Abort, Build, Republish, Record, Upload, Publish
<1> QED BY <1>1, <1>2, <1>3, <1>4, <1>5

(* A request that appears is one a job makes, not checked yet, or one that *)
(* has just been checked.                                                  *)
LEMMA NewCalls ==
  ASSUME ReleaseInv, [Next]_vars, NEW d \in calls', d \notin calls
  PROVE  \/ ~d.checked
         \/ \E c \in calls : Check(c) /\ d.id = c.id /\ d.kind = c.kind
<1>1. ASSUME NEW c \in calls, Check(c)
      PROVE  \E f \in calls : Check(f) /\ d.id = f.id /\ d.kind = f.kind
  <2>1. c \in Call
    BY DEF ReleaseInv, TypeOK
  <2>2. d = [c EXCEPT !.checked = TRUE]
    BY <1>1 DEF Check
  <2>3. d.id = c.id /\ d.kind = c.kind
    BY <2>1, <2>2 DEF Call
  <2> QED BY <1>1, <2>3
<1>2. ASSUME NEW x \in Builds, Publish(x) \/ VerifyFails(x) PROVE ~d.checked
  BY <1>2 DEF Publish, VerifyFails
<1>3. calls' \subseteq calls \/ (\E c \in calls : Check(c)) \/ (\E x \in Builds : Publish(x) \/ VerifyFails(x))
  BY DEF Next, Service, Jobs, vars, Refuse, Commit, Abort, Build, Republish, Record, Upload,
         VerifyPasses, Fails
<1> QED BY <1>1, <1>2, <1>3

LEMMA AllowedStep ==
  ASSUME ReleaseInv, StillAllowed, [Next]_vars
  PROVE  StillAllowed'
<1> SUFFICES ASSUME NEW b \in Builds, NEW d \in calls', WaitsFor(b, d)',
                    d.kind = "publish", d.checked, ~exposed'
             PROVE  ~Rejected(d)'
  BY DEF StillAllowed
<1>1. ~exposed
  BY CertainBefore DEF WaitsFor, Step, Running
<1>2. CASE d \in calls
  <2>1. WaitsFor(b, d)
    BY <1>2, WaitedBefore
  <2>2. ~Rejected(d)
    BY <1>1, <1>2, <2>1 DEF StillAllowed
  <2>3. CASE Latest' = Latest
    BY <2>2, <2>3 DEF Rejected, Downgrade, NotBumped
  <2>4. CASE Latest' # Latest
    <3>1. PICK c \in calls : Commit(c) /\ c \in calls \ calls'
      BY <2>4, ServedChanges
    <3>2. PICK a \in Builds : WaitsFor(a, c)
      BY <3>1, WrittenIsWaitedFor
    <3>3. c = d
      BY <1>2, <2>1, <3>2, OneIsWaitedFor
    <3> QED BY <3>1, <3>3
  <2> QED BY <2>3, <2>4
<1>3. CASE d \notin calls
  <2>1. PICK c \in calls : Check(c) /\ d.id = c.id /\ d.kind = c.kind
    BY <1>3, NewCalls
  <2>2. Latest' = Latest
    BY <2>1, SameTable DEF Check
  <2>3. ~Rejected(c)
    BY <2>1 DEF Check
  <2> QED BY <2>1, <2>2, <2>3 DEF Rejected, Downgrade, NotBumped
<1> QED BY <1>2, <1>3

(* A job never publishes over a release of an equal or higher version, so  *)
(* whoever has the old release is offered the new one.                     *)
THEOREM VersionsAlwaysRise == Spec => VersionsRise
<1> DEFINE Rises == ~exposed' /\ Latest # None /\ Latest' # Latest =>
                      Latest'.version > Latest.version \/ Activates
<1>1. Init => StillAllowed
  BY DEF Init, StillAllowed
<1>2. ReleaseInv /\ StillAllowed /\ [Next]_vars => StillAllowed'
  BY AllowedStep
<1>3. ReleaseInv /\ StillAllowed /\ [Next]_vars => Rises
  <2> SUFFICES ASSUME ReleaseInv, StillAllowed, [Next]_vars, ~exposed', Latest # None,
                      Latest' # Latest, ~Activates
               PROVE  Latest'.version > Latest.version
    OBVIOUS
  <2>1. PICK c \in calls : /\ Commit(c) /\ c \in calls \ calls' /\ c.id \in Ids
                           /\ Latest' = c.id
    BY ServedChanges
  <2>2. c.kind = "publish" /\ c.checked
    BY <2>1 DEF Activates, Commit, ReleaseInv, TypeOK, Call
  <2>3. ~exposed /\ \E b \in Builds : WaitsFor(b, c)
    BY <2>1, WrittenIsWaitedFor
  <2>4. ~NotBumped(c.id)
    BY <2>2, <2>3 DEF StillAllowed, Rejected
  <2>5. Latest \in Ids
    BY LatestIsActive DEF ReleaseInv
  <2>6. c.id.version \in Int /\ Latest.version \in Int
    BY <2>1, <2>5, IdFacts
  <2> QED BY <2>1, <2>4, <2>6 DEF NotBumped
<1>4. ReleaseInv /\ StillAllowed /\ [Next]_vars => [Rises]_vars
  BY <1>3
<1> HIDE DEF Rises
<1>5. Spec => [][Rises]_vars
  BY <1>1, <1>2, <1>4, ReleaseInvariance, PTL DEF Spec
<1> QED BY <1>5 DEF VersionsRise, Rises

-----------------------------------------------------------------------------
(* What is served between jobs passed the live verification.               *)

(* What keeps the files and the builds keeps what is known of a release.   *)
LEMMA SoundStays ==
  ASSUME TypeOK, UNCHANGED <<table, bucket>>, verified \subseteq verified',
         \A b \in Builds : SameJob(b) /\ (run'[b].step # "none" => run[b].step # "none")
  PROVE  \A i \in Ids : (Sound(i) => Sound(i)') /\ (Agrees(i) => Agrees(i)')
BY DEF Sound, Agrees, SameJob, IdOf

(* The running job alone can have committed something.                     *)
LEMMA AllBefore ==
  ASSUME ReleaseInv, NEW x \in Builds, run[x].step \in Running, Before(x), NEW b \in Builds
  PROVE  Before(b)
<1>1. CASE b = x
  BY <1>1
<1>2. CASE b # x
  <2>1. run[b].step \notin Running
    BY <1>2 DEF ReleaseInv, JobsInv
  <2>2. run[b].step \in Ended \cup Running
    BY DEF ReleaseInv, TypeOK, Job
  <2> QED BY <2>1, <2>2 DEF Before
<1> QED BY <1>1, <1>2

LEMMA IdOfBuild ==
  ASSUME TypeOK, NEW a \in Builds, NEW b \in Builds
  PROVE  IdOf(a) \in Ids /\ IdOf(a) # None /\ (IdOf(a) = IdOf(b) => a = b)
<1>1. IdOf(a) \in Ids
  BY DEF TypeOK, Job, IdOf, Ids
<1>2. IdOf(a).build = a /\ IdOf(b).build = b
  BY DEF IdOf
<1> QED BY <1>1, <1>2, IdFacts

(* A step that leaves the files alone, and after which nothing is certain  *)
(* that was not certain before.                                            *)
LEMMA VerifiedStays ==
  ASSUME ReleaseInv, VerifiedInv, ~exposed,
         UNCHANGED <<table, bucket>>, verified \subseteq verified',
         \A b \in Builds : SameJob(b) /\ (run'[b].step # "none" => run[b].step # "none"),
         \A b \in Builds : run'[b].step \in Running => run[b].step \in Running,
         (\A b \in Builds : Before(b)') => \A b \in Builds : Before(b)
  PROVE  VerifiedInv'
<1>1. Latest' = Latest
  BY SameTable
<1>2. \A i \in Ids : (Sound(i) => Sound(i)') /\ (Agrees(i) => Agrees(i)')
  BY SoundStays DEF ReleaseInv
<1>3. \A b \in Builds : run'[b].previous = run[b].previous
  BY DEF SameJob
<1> QED BY <1>1, <1>2, <1>3 DEF VerifiedInv

LEMMA VerifiedByRefusal ==
  ASSUME ReleaseInv, VerifiedInv, [Next]_vars, ~exposed',
         NEW c \in calls, Check(c) \/ Refuse(c) \/ Abort(c)
  PROVE  VerifiedInv'
<1> USE DEF ReleaseInv
<1>1. UNCHANGED <<table, bucket, verified, exposed>>
  BY DEF Check, Refuse, Abort
<1>2. \A b \in Builds : /\ SameJob(b)
                        /\ run'[b].step \in Running => run[b].step \in Running
                        /\ run'[b].step # "none" => run[b].step # "none"
  BY ServiceJobs DEF Running
<1>3. ASSUME NEW b \in Builds, Before(b)' PROVE Before(b)
  <2>1. CASE run'[b].step = run[b].step
    <3>1. CASE run'[b].step \in Ended \cup Young
      BY <2>1, <3>1 DEF Before
    <3>2. CASE \E d \in calls' : d.kind = "publish" /\ WaitsFor(b, d)'
      <4>1. PICK d \in calls' : d.kind = "publish" /\ WaitsFor(b, d)'
        BY <3>2
      <4>2. CASE d \in calls
        BY <4>1, <4>2, WaitedBefore DEF Before
      <4>3. CASE d \notin calls
        <5>1. Check(c) /\ d = [c EXCEPT !.checked = TRUE]
          BY <4>3 DEF Check, Refuse, Abort
        <5>2. c \in Call
          BY DEF TypeOK
        <5>3. d.kind = c.kind /\ d.by = c.by
          BY <5>1, <5>2 DEF Call
        <5>4. WaitsFor(b, c)
          BY <1>2, <2>1, <4>1, <5>3 DEF WaitsFor, SameJob
        <5> QED BY <4>1, <5>3, <5>4 DEF Before
      <4> QED BY <4>2, <4>3
    <3> QED BY <1>3, <3>1, <3>2 DEF Before
  <2>2. CASE run'[b].step # run[b].step
    <3>1. WaitsFor(b, c) /\ run[b].step \in Running
      BY <2>2, ServiceJobs
    <3>2. CASE c.kind = "publish"
      BY <3>1, <3>2 DEF Before
    <3>3. CASE c.kind = "activate"
      <4>1. run[b].previous = c.id /\ c.id \in Ids
        BY <3>1, <3>3 DEF CallsInv, TypeOK, Call
      <4>2. Sound(c.id)
        BY <1>1, <3>1, <4>1 DEF VerifiedInv
      <4>3. Wanted(c) = bucket[c.id] /\ bucket[c.id] = table[c.id].content /\ table[c.id] # None
        BY <3>3, <4>2 DEF Sound, Wanted
      <4>4. bucket[c.id] # None
        <5>1. table[c.id] \in Row
          BY <4>1, <4>3 DEF TypeOK
        <5> QED BY <4>3, <5>1, ReleaseAssumption DEF Row
      <4>5. ~Refuse(c)
        BY <3>3, <4>3, <4>4 DEF Refuse, Stored, Rejected
      <4>6. ~Abort(c)
        BY <3>3 DEF Abort, Aborts
      <4>7. UNCHANGED run
        BY <4>5, <4>6 DEF Check
      <4> QED BY <2>2, <4>7
    <3>4. c.kind \in {"publish", "activate"}
      BY DEF TypeOK, Call
    <3> QED BY <3>2, <3>3, <3>4
  <2> QED BY <2>1, <2>2
<1> QED BY <1>1, <1>2, <1>3, VerifiedStays

LEMMA VerifiedByCommit ==
  ASSUME ReleaseInv, VerifiedInv, [Next]_vars, ~exposed', NEW c \in calls, Commit(c)
  PROVE  VerifiedInv'
<1> USE DEF ReleaseInv
<1>1. ~exposed /\ UNCHANGED <<bucket, verified>>
  BY WrittenIsWaitedFor DEF Commit
<1>2. PICK x \in Builds : WaitsFor(x, c)
  BY WrittenIsWaitedFor
<1>3. /\ Wanted(c) # None /\ c.id \in Ids /\ c.kind \in {"publish", "activate"}
      /\ c.checked /\ c \notin calls'
  BY DEF Commit, CallsInv, Sensible, TypeOK, Call
<1>4. /\ Latest' = c.id
      /\ \A i \in Published : table'[i].content = IF i = c.id THEN Wanted(c) ELSE table[i].content
      /\ Published' = Published \cup {c.id}
  BY <1>3, CommitActive
<1>5. table'[c.id].content = Wanted(c)
  <2>1. table'[c.id] = [content |-> Wanted(c), active |-> TRUE]
    BY <1>3, CommitTable
  <2> QED BY <2>1
<1>6. \A b \in Builds : /\ SameJob(b) /\ IdOf(b)' = IdOf(b)
                        /\ run'[b].step \in Running => run[b].step \in Running
                        /\ run'[b].step # "none" => run[b].step # "none"
  BY ServiceJobs DEF Running, SameJob, IdOf
<1>7. run[x].step \in Running /\ \A b \in Builds : run[b].step \in Running => b = x
  BY <1>2, OneIsWaitedFor DEF JobsInv
<1>8. CASE c.kind = "publish"
  <2>1. c.id = IdOf(x) /\ c.content = run[x].content /\ Wanted(c) = run[x].content
    BY <1>2, <1>8 DEF CallsInv, Wanted
  <2>2. Agrees(c.id)'
    <3>1. \A b \in Builds : IdOf(b) = c.id => b = x
      BY <2>1, IdOfBuild
    <3> QED BY <1>5, <1>6, <2>1, <3>1 DEF Agrees, SameJob
  <2>3. ~Before(x)'
    <3>1. run'[x].step \notin Ended \cup Young
      <4>1. run[x].step = "publishing"
        BY <1>2, <1>8 DEF WaitsFor, Step
      <4>2. run'[x].step = run[x].step \/ run'[x].step = "published"
        BY <1>8, AnsweredJobs DEF Commit
      <4> QED BY <4>1, <4>2 DEF Ended, Young
    <3>2. ASSUME NEW d \in calls', WaitsFor(x, d)' PROVE FALSE
      <4>1. d \in calls
        BY <3>2 DEF Commit
      <4>2. d = c
        BY <1>2, <3>2, <4>1, WaitedBefore, OneIsWaitedFor
      <4> QED BY <1>3, <3>2, <4>2
    <3> QED BY <3>1, <3>2 DEF Before
  <2>4. ASSUME NEW i \in Ids, NEW b \in Builds, run'[b].step \in Running, run'[b].previous = i
        PROVE  Sound(i)' /\ Agrees(i)'
    <3>1. b = x /\ run[x].previous = i
      BY <1>6, <1>7, <2>4 DEF SameJob
    <3>2. Sound(i) /\ Agrees(i)
      BY <1>1, <1>7, <3>1 DEF VerifiedInv
    <3>3. i = c.id => table[i].content = run[x].content
      BY <1>7, <2>1, <3>2 DEF Agrees, Running
    <3>4. i \in Published /\ table'[i].content = table[i].content /\ table'[i] # None
      BY <1>4, <2>1, <3>2, <3>3 DEF Sound, Published
    <3> QED BY <1>1, <1>6, <3>2, <3>4 DEF Sound, Agrees, SameJob
  <2> QED BY <1>4, <2>2, <2>3, <2>4 DEF VerifiedInv
<1>9. CASE c.kind = "activate"
  <2>1. run[x].previous = c.id
    BY <1>2, <1>9 DEF CallsInv
  <2>2. Sound(c.id) /\ Agrees(c.id)
    BY <1>1, <1>3, <1>7, <2>1 DEF VerifiedInv
  <2>3. Wanted(c) = table[c.id].content
    BY <1>9, <2>2 DEF Sound, Wanted
  <2>4. \A i \in Published : table'[i].content = table[i].content /\ table'[i] # None
    BY <1>4, <2>3 DEF Published
  <2>5. \A i \in Published : (Sound(i) => Sound(i)') /\ (Agrees(i) => Agrees(i)')
    BY <1>1, <1>6, <2>4 DEF Sound, Agrees, SameJob
  <2>6. Sound(c.id)' /\ Agrees(c.id)'
    BY <1>3, <2>2, <2>5 DEF Sound, Published
  <2>7. \A b \in Builds : run'[b].step \in Running => b = x /\ run'[b].previous = c.id
    BY <1>6, <1>7, <2>1 DEF SameJob
  <2> QED BY <1>4, <2>6, <2>7 DEF VerifiedInv
<1> QED BY <1>3, <1>8, <1>9

(* Before the running job commits anything, what is served can be restored *)
(* as it is; so the end of a job that did not get that far loses nothing.  *)
LEMMA VerifiedByCall ==
  ASSUME ReleaseInv, VerifiedInv, [Next]_vars, ~exposed', NEW x \in Builds,
         Publish(x) \/ VerifyFails(x) \/ Fails(x)
  PROVE  VerifiedInv'
<1> USE DEF ReleaseInv
<1>1. ~exposed /\ UNCHANGED <<table, bucket, verified>>
  <2>1. CASE Publish(x)
    BY <2>1 DEF Publish
  <2>2. CASE VerifyFails(x)
    BY <2>2 DEF VerifyFails
  <2>3. CASE Fails(x)
    BY <2>3 DEF Fails
  <2> QED BY <2>1, <2>2, <2>3
<1>2. /\ run[x].step \in Running
      /\ \A b \in Builds : SameJob(b) /\ (b # x => run'[b].step = run[b].step)
  BY JobMoves
<1>3. \A b \in Builds : /\ run'[b].step \in Running => run[b].step \in Running
                        /\ run'[b].step # "none" => run[b].step # "none"
  BY <1>2 DEF Running
<1>4. (\A b \in Builds : Before(b)') => \A b \in Builds : Before(b)
  <2>1. CASE run[x].step \in Young
    BY <1>2, <2>1, AllBefore DEF Before
  <2>2. CASE VerifyFails(x)
    <3>1. Goes(x, "restoring")
      BY <1>1, <2>2 DEF VerifyFails
    <3>2. run'[x].step = "restoring"
      BY <3>1, GoesJobs
    <3>3. ~Before(x)'
      BY <3>2 DEF Before, Ended, Young, WaitsFor, Step
    <3> QED BY <3>3
  <2>3. CASE Publish(x)
    BY <2>1, <2>3 DEF Publish, Young
  <2>4. CASE Fails(x)
    BY <1>1, <1>2, <2>1, <2>4 DEF Fails, Running, Young
  <2> QED BY <2>2, <2>3, <2>4
<1> QED BY <1>1, <1>2, <1>3, <1>4, VerifiedStays

LEMMA VerifiedByPass ==
  ASSUME ReleaseInv, NEW x \in Builds, VerifyPasses(x)
  PROVE  VerifiedInv'
<1> USE DEF ReleaseInv
<1>1. /\ Latest = IdOf(x) /\ UNCHANGED <<table, bucket>>
      /\ table[Latest].content = run[x].content /\ bucket[Latest] = run[x].content
      /\ <<Latest, run[x].content>> \in verified'
  BY DEF VerifyPasses
<1>2. Latest \in Ids /\ table[Latest] # None
  BY <1>1, LatestIsActive, IdOfBuild DEF Active
<1>3. Latest' = Latest
  BY <1>1, SameTable
<1>4. /\ run[x].step \in Running /\ run'[x].step = "verified"
      /\ \A b \in Builds : SameJob(b) /\ (b # x => run'[b].step = run[b].step)
  BY JobMoves, GoesJobs DEF VerifyPasses
<1>5. \A b \in Builds : run'[b].step \notin Running
  <2>1. \A b \in Builds : b # x => run[b].step \notin Running
    BY <1>4 DEF JobsInv
  <2> QED BY <1>4, <2>1 DEF Running
<1>6. \A i \in Ids : Latest = i => Sound(i)'
  BY <1>1, <1>2 DEF Sound
<1>7. ASSUME NEW i \in Ids, Latest = i PROVE Agrees(i)'
  <2>1. ASSUME NEW b \in Builds, IdOf(b)' = i PROVE table'[i].content = run'[b].content
    <3>1. IdOf(b) = IdOf(x)
      BY <1>1, <1>4, <1>7, <2>1 DEF SameJob, IdOf
    <3>2. b = x
      BY <3>1, IdOfBuild
    <3> QED BY <1>1, <1>4, <1>7, <3>2 DEF SameJob
  <2> QED BY <2>1 DEF Agrees
<1> QED BY <1>3, <1>5, <1>6, <1>7 DEF VerifiedInv

(* The object a job overwrites is that of no served release, or it gets    *)
(* the content it had.                                                     *)
LEMMA VerifiedByUpload ==
  ASSUME ReleaseInv, VerifiedInv, ~exposed', NEW x \in Builds, Upload(x)
  PROVE  VerifiedInv'
<1> USE DEF ReleaseInv
<1>1. /\ ~exposed /\ UNCHANGED <<table, verified>> /\ run[x].step = "recorded"
      /\ bucket' = [bucket EXCEPT ![IdOf(x)] = run[x].content]
  BY DEF Upload
<1>2. run[x].step \in Running /\ run[x].step # "none" /\ Before(x)
  BY <1>1 DEF Running, Before, Young
<1>3. \A b \in Builds : SameJob(b) /\ (b # x => run'[b].step = run[b].step)
  BY JobMoves
<1>4. ASSUME NEW i \in Ids, Sound(i), Agrees(i) PROVE Sound(i)' /\ Agrees(i)'
  <2>1. bucket'[i] = bucket[i] \/ (i = IdOf(x) /\ bucket'[i] = run[x].content)
    BY <1>1 DEF TypeOK
  <2>2. bucket'[i] = table[i].content
    BY <1>2, <1>4, <2>1 DEF Sound, Agrees
  <2>3. Sound(i)'
    BY <1>1, <1>4, <2>2 DEF Sound
  <2>4. \A b \in Builds : IdOf(b)' = IdOf(b) /\ (run'[b].step # "none" => run[b].step # "none")
    BY <1>2, <1>3 DEF SameJob, IdOf
  <2> QED BY <1>1, <1>3, <1>4, <2>3, <2>4 DEF Agrees, SameJob
<1>5. Latest' = Latest
  BY <1>1, SameTable
<1>6. \A i \in Ids : Latest = i => Sound(i) /\ Agrees(i)
  BY <1>1, <1>2, AllBefore DEF VerifiedInv
<1>7. \A b \in Builds : run'[b].step \in Running =>
        run[b].step \in Running /\ run'[b].previous = run[b].previous
  BY <1>2, <1>3 DEF SameJob
<1>8. \A i \in Ids, b \in Builds : run'[b].step \in Running /\ run'[b].previous = i => Sound(i) /\ Agrees(i)
  BY <1>1, <1>7 DEF VerifiedInv
<1> QED BY <1>4, <1>5, <1>6, <1>8 DEF VerifiedInv

LEMMA VerifiedByRecord ==
  ASSUME ReleaseInv, VerifiedInv, ~exposed', NEW x \in Builds, Record(x)
  PROVE  VerifiedInv'
<1> USE DEF ReleaseInv
<1>1. ~exposed /\ UNCHANGED <<table, bucket, verified>>
  BY DEF Record
<1>2. /\ run[x].step = "built" /\ run'[x].previous \in {Latest, None}
      /\ \A b \in Builds : /\ run'[b].content = run[b].content /\ run'[b].version = run[b].version
                           /\ b # x => run'[b] = run[b]
  BY RecordMoves
<1>3. run[x].step \in Running /\ run[x].step # "none" /\ Before(x)
  BY <1>2 DEF Running, Before, Young
<1>4. Latest' = Latest
  BY <1>1, SameTable
<1>5. ASSUME NEW i \in Ids PROVE (Sound(i) => Sound(i)') /\ (Agrees(i) => Agrees(i)')
  <2>1. \A b \in Builds : IdOf(b)' = IdOf(b) /\ (run'[b].step # "none" => run[b].step # "none")
    BY <1>2, <1>3 DEF IdOf
  <2> QED BY <1>1, <1>2, <2>1 DEF Sound, Agrees
<1>6. \A i \in Ids : Latest = i => Sound(i) /\ Agrees(i)
  BY <1>1, <1>3, AllBefore DEF VerifiedInv
<1>7. ASSUME NEW i \in Ids, NEW b \in Builds, run'[b].step \in Running, run'[b].previous = i
      PROVE  Sound(i) /\ Agrees(i)
  <2>1. CASE b = x
    BY <1>2, <1>6, <1>7, <2>1, IdFacts
  <2>2. CASE b # x
    BY <1>1, <1>2, <1>7, <2>2 DEF VerifiedInv
  <2> QED BY <2>1, <2>2
<1> QED BY <1>4, <1>5, <1>6, <1>7 DEF VerifiedInv

(* A new build takes a version above the one that is served, so it is      *)
(* another release.                                                        *)
LEMMA VerifiedByStart ==
  ASSUME ReleaseInv, VerifiedInv, ~exposed', NEW x \in Builds, Build(x) \/ Republish(x)
  PROVE  VerifiedInv'
<1> USE DEF ReleaseInv
<1>1. ~exposed /\ UNCHANGED <<table, bucket, verified>>
  BY DEF Build, Republish
<1>2. /\ Idle /\ run'[x].previous = None
      /\ \/ run'[x].version = Selected(x) /\ Build(x)
         \/ /\ run[x].step # "none"
            /\ run'[x].content = run[x].content /\ run'[x].version = run[x].version
      /\ \A b \in Builds : b # x => run'[b] = run[b]
  <2>1. CASE Build(x)
    <3>1. run'[x].version = Selected(x)
      BY <2>1, ReleaseAssumption DEF Build, TypeOK
    <3> QED BY <2>1, <3>1, StartMoves
  <2>2. CASE Republish(x)
    <3>1. run[x].step # "none"
      BY <2>2 DEF Republish
    <3>2. run'[x] = [run[x] EXCEPT !.step = "built", !.by = attempt', !.previous = None]
      BY <2>2 DEF Republish, TypeOK
    <3>3. run'[x].content = run[x].content /\ run'[x].version = run[x].version
      BY <3>2 DEF TypeOK, Job
    <3> QED BY <2>2, <3>1, <3>3, StartMoves
  <2> QED BY <2>1, <2>2
<1>3. \A b \in Builds : Before(b) /\ run[b].step \notin Running
  BY <1>2 DEF Idle, Before, Ended, Running
<1>4. Latest' = Latest
  BY <1>1, SameTable
<1>5. \A i \in Ids : Latest = i => Sound(i) /\ Agrees(i)
  BY <1>1, <1>3 DEF VerifiedInv
<1>6. \A i \in Ids : Sound(i) => Sound(i)'
  BY <1>1 DEF Sound
<1>7. ASSUME NEW i \in Ids, Latest = i PROVE Agrees(i)'
  <2>1. ASSUME NEW b \in Builds, IdOf(b)' = i, run'[b].step # "none"
        PROVE  table[i].content = run'[b].content
    <3>1. CASE b # x
      <4>1. IdOf(b) = i /\ run[b].step # "none" /\ run'[b] = run[b]
        BY <1>2, <2>1, <3>1 DEF IdOf
      <4> QED BY <1>5, <1>7, <4>1 DEF Agrees
    <3>2. CASE b = x /\ run[x].step # "none" /\ run'[x].content = run[x].content
                     /\ run'[x].version = run[x].version
      <4>1. IdOf(x) = i
        BY <2>1, <3>2 DEF IdOf
      <4> QED BY <1>5, <1>7, <3>2, <4>1 DEF Agrees
    <3>3. CASE b = x /\ run'[x].version = Selected(x)
      <4>1. i.version \in Int /\ i # None /\ declared[x] \in Int
        BY IdFacts DEF TypeOK, Versions
      <4>2. i.version = Selected(x)
        BY <2>1, <3>3 DEF IdOf
      <4>3. Selected(x) # Latest.version
        BY <1>7, <4>1 DEF Selected
      <4> QED BY <1>7, <4>2, <4>3
    <3> QED BY <1>2, <3>1, <3>2, <3>3
  <2> QED BY <1>1, <2>1 DEF Agrees
<1>8. \A i \in Ids, b \in Builds : ~(run'[b].step \in Running /\ run'[b].previous = i)
  <2>1. \A b \in Builds : b # x => run'[b].step \notin Running
    BY <1>2, <1>3
  <2> QED BY <1>2, <2>1, IdFacts
<1> QED BY <1>4, <1>5, <1>6, <1>7, <1>8 DEF VerifiedInv

LEMMA VerifiedStep ==
  ASSUME ReleaseInv, VerifiedInv, [Next]_vars
  PROVE  VerifiedInv'
<1> SUFFICES ASSUME ~exposed' PROVE VerifiedInv'
  BY DEF VerifiedInv
<1>1. ASSUME NEW c \in calls, Check(c) \/ Refuse(c) \/ Commit(c) \/ Abort(c) PROVE VerifiedInv'
  BY <1>1, VerifiedByRefusal, VerifiedByCommit
<1>2. ASSUME NEW x \in Builds, Publish(x) \/ VerifyFails(x) \/ Fails(x) PROVE VerifiedInv'
  BY <1>2, VerifiedByCall
<1>3. ASSUME NEW x \in Builds, VerifyPasses(x) PROVE VerifiedInv'
  BY <1>3, VerifiedByPass
<1>4. ASSUME NEW x \in Builds, Upload(x) \/ Record(x) PROVE VerifiedInv'
  BY <1>4, VerifiedByUpload, VerifiedByRecord
<1>5. ASSUME NEW x \in Builds, Build(x) \/ Republish(x) PROVE VerifiedInv'
  BY <1>5, VerifiedByStart
<1>6. CASE UNCHANGED vars
  <2>1. \A b \in Builds : SameJob(b) /\ run'[b].step = run[b].step /\ (Before(b)' => Before(b))
    BY <1>6 DEF vars, SameJob, Before, WaitsFor
  <2> QED BY <1>6, <2>1, VerifiedStays DEF vars
<1> QED BY <1>1, <1>2, <1>3, <1>4, <1>5, <1>6 DEF Next, Service, Jobs

(* Between jobs the installer users are served passed the live             *)
(* verification, and its object is the one that passed, unless a job ended *)
(* without learning what became of its last request.                       *)
THEOREM VerifiedIsServed == Spec => []ServesVerified
<1>1. Init => VerifiedInv
  <2> SUFFICES ASSUME Init, NEW i \in Ids PROVE Latest # i /\ \A b \in Builds : run[b].step \notin Running
    BY DEF VerifiedInv
  <2>1. Active = {}
    BY DEF Init, Active
  <2>2. Latest = None
    BY <2>1 DEF Latest
  <2> QED BY <2>2, IdFacts DEF Init, NoJob, Running
<1>2. ReleaseInv /\ VerifiedInv /\ [Next]_vars => VerifiedInv'
  BY VerifiedStep
<1>3. ReleaseInv /\ VerifiedInv => ServesVerified
  <2> SUFFICES ASSUME ReleaseInv, VerifiedInv, Idle, ~exposed, NEW i \in Ids, Latest = i
               PROVE  <<i, table[i].content>> \in verified /\ bucket[i] = table[i].content
    BY LatestIsActive DEF ServesVerified, ReleaseInv
  <2>1. \A b \in Builds : Before(b)
    BY DEF Idle, Before
  <2> QED BY <2>1 DEF VerifiedInv, Sound
<1> QED BY <1>1, <1>2, <1>3, ReleaseInvariance, PTL DEF Spec
=============================================================================
