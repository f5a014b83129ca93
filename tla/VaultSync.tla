----------------------------- MODULE VaultSync -----------------------------
(***************************************************************************)
(* One MyVault device and its cloud vault: the handlers of the main        *)
(* process (electron/main.ts 1796-1954), the sync controller               *)
(* (electron/myvault/sync-controller.ts), its client (vault-sync.ts) and   *)
(* the broker's write queue, interleaved at their awaits.  Other devices   *)
(* push to the same cloud vault; requests time out; the process crashes.   *)
(*                                                                         *)
(* Each handler is cut at its awaits and nowhere else.  What it captured   *)
(* before an await is kept in job, unlocking, pairing, sync or choice.     *)
(***************************************************************************)
EXTENDS VaultBroker

(* A device without a vault, or one paired before with nothing unsynced.   *)
Init ==
  /\ diskEnv \in {None, {}}
  /\ conn = IF diskEnv = None THEN NoConnection ELSE [version |-> 1, dirty |-> FALSE]
  /\ blocked = FALSE
  /\ env = diskEnv
  /\ payload = None
  /\ lifecycle = IF env = None THEN "unconfigured" ELSE "locked"
  /\ syncState = SyncStateOf(conn)
  /\ conflict = NoRemote
  /\ queue = <<>>
  /\ job = NoJob
  /\ unlocking = [k \in Unlocks |-> None]
  /\ pairing = [p \in Pairings |-> NoPairing]
  /\ sync = NoOp
  /\ choice = NoOp
  /\ timer = FALSE
  /\ cloud = [version |-> 1, items |-> {}]
  /\ late = NoPush
  /\ issued = {} /\ known = {} /\ setAside = {} /\ exposed = {}

-----------------------------------------------------------------------------
(* Lock and unlock.                                                        *)

(* lockVault().  A pending conflict is kept.  The panel offers Lock only   *)
(* after an unlock, so never while recovery is pending.                    *)
Lock ==
  /\ lifecycle # "recovery-required"
  /\ ReleaseSecrets
  /\ lifecycle' = IF env = None THEN "unconfigured" ELSE "locked"
  /\ timer' = FALSE
  /\ UNCHANGED <<store, env, syncState, conflict, queue, unlocking, pairing,
                 sync, choice, cloud, late, history>>

(* A variant of UnlockAdmitted that forgets a pending recovery.            *)
UnlockAnyState == env # None

(* unlock() and unlockWithPlatform() up to the key derivation or the Hello *)
(* prompt.  Nothing refuses a second request while one is in progress.     *)
UnlockAdmitted == lifecycle # "recovery-required" /\ env # None

RequestUnlock(k) ==
  /\ unlocking[k] = None
  /\ UnlockAdmitted
  /\ unlocking' = [unlocking EXCEPT ![k] = env]
  /\ UNCHANGED <<store, memory, tasks, pairing, sync, choice, timer, cloud, late, history>>

FailUnlock(k) ==
  /\ unlocking[k] # None
  /\ unlocking' = [unlocking EXCEPT ![k] = None]
  /\ UNCHANGED <<store, memory, tasks, pairing, sync, choice, timer, cloud, late, history>>

(* perform() up to its first await, for an envelope e.                     *)
CanSync == sync = NoOp /\ payload # None /\ env # None /\ Paired

StartSync(e) ==
  /\ sync' = [NoOp EXCEPT !.pc = IF conn.dirty THEN "push" ELSE "fetch",
                          !.items = e, !.base = conn.version]
  /\ syncState' = "syncing"

(* The rest of unlock().  Only the Hello path looks again whether the      *)
(* envelope it decrypted is still the vault's.  An unlock from the panel   *)
(* then starts a sync; the one that ends a pairing does not.               *)
FinishUnlock(k) ==
  /\ unlocking[k] # None
  /\ k = "hello" => unlocking[k] = env
  /\ unlocking' = [unlocking EXCEPT ![k] = None]
  /\ payload' = unlocking[k]
  /\ lifecycle' = "unlocked"
  /\ job' = [job EXCEPT !.live = FALSE]
  /\ IF k \notin Pairings /\ sync = NoOp /\ Paired
       THEN StartSync(env)
       ELSE UNCHANGED <<sync, syncState>>
  /\ known' = known \cup unlocking[k]
  /\ exposed' = IF unlocking[k] = env THEN exposed ELSE exposed \cup {"stale"}
  /\ UNCHANGED <<store, env, conflict, queue, pairing, choice, cloud, late, issued, setAside>>
  /\ Changed

-----------------------------------------------------------------------------
(* The write queue: one task at a time, cut at its one await.              *)

(* saveLogin, importLogins, deleteEntry, appendImmutablePasskey.           *)
AskMutation(e) ==
  /\ payload # None
  /\ e \notin issued
  /\ Enqueue(Mutation(e))
  /\ issued' = issued \cup {e}
  /\ UNCHANGED <<store, memory, job, unlocking, pairing, sync, choice, timer, cloud, late,
                 known, setAside, exposed>>

MayStart ==
  \/ HeadIs({"mutate"}) /\ MayMutate
  \/ HeadIs({"pull", "cloud"}) /\ MayAccept /\ ~BasisMoved(Head(queue))

TaskStarts ==
  /\ queue # <<>> /\ ~job.running
  /\ MayStart
  /\ job' = [running |-> TRUE, live |-> TRUE, base |-> payload]
  /\ UNCHANGED <<store, memory, queue, unlocking, pairing, sync, choice, timer, cloud,
                 late, history>>

(* A variant of AfterRejection for a queue without its catch().            *)
RejectionStays(q) == q

(* A task that rejects leaves the queue all the same; the pull reports the *)
(* failure to perform(), which marks it.                                   *)
AfterRejection(q) == Tail(q)

Rejected ==
  /\ queue' = AfterRejection(queue)
  /\ job' = NoJob
  /\ UNCHANGED <<conn, blocked, env, payload, lifecycle, conflict, unlocking, pairing,
                 choice, cloud, late, issued, known, setAside>>
  /\ IF HeadIs({"pull"})
       THEN sync' = NoOp /\ MarkSyncError /\ Changed
       ELSE UNCHANGED <<sync, syncState, timer>>

TaskRefused ==
  /\ queue # <<>> /\ ~job.running
  /\ HeadIs({"mutate"}) => ~MayMutate
  /\ HeadIs({"pull", "cloud"}) => ~MayAccept
  /\ Rejected
  /\ UNCHANGED <<diskEnv, exposed>>

PullMeetsChange ==
  /\ HeadIs({"pull"}) /\ ~job.running
  /\ MayAccept /\ BasisMoved(Head(queue))
  /\ SetConflict(Head(queue).remote)
  /\ queue' = Tail(queue)
  /\ sync' = NoOp
  /\ UNCHANGED <<store, env, payload, job, unlocking, pairing, choice, cloud, late, history>>
  /\ Changed

(* persistMutation() after the encryption.  A save asked for before a lock *)
(* is kept on disk, and the lock keeps the payload released.               *)
MutationPersists ==
  /\ HeadIs({"mutate"}) /\ job.running /\ ~blocked
  /\ diskEnv' = Result
  /\ env' = Result
  /\ conn' = [conn EXCEPT !.dirty = TRUE]
  /\ payload' = IF SessionCurrent THEN Result ELSE payload
  /\ syncState' = "dirty"
  /\ queue' = Tail(queue)
  /\ job' = NoJob
  /\ known' = known \cup Head(queue).items
  /\ exposed' = IF job.live \/ payload = None THEN exposed ELSE exposed \cup {"stale"}
  /\ UNCHANGED <<blocked, lifecycle, conflict, unlocking, pairing, sync, choice, cloud,
                 late, issued, setAside>>
  /\ Changed

(* acceptRemote() after the decryption; the caller of a pull then ends.    *)
AcceptPersists ==
  /\ HeadIs({"pull", "cloud"}) /\ job.running /\ ~blocked
  /\ SessionCurrent
  /\ diskEnv' = Result
  /\ env' = Result
  /\ payload' = Result
  /\ conn' = [version |-> Head(queue).remote.version, dirty |-> FALSE]
  /\ lifecycle' = "unlocked"
  /\ syncState' = "synced"
  /\ conflict' = NoRemote
  /\ sync' = IF HeadIs({"pull"}) THEN NoOp ELSE sync
  /\ setAside' = IF HeadIs({"cloud"}) THEN setAside \cup (env \ Result) ELSE setAside
  /\ known' = known \cup Result
  /\ queue' = Tail(queue)
  /\ job' = NoJob
  /\ UNCHANGED <<blocked, unlocking, pairing, choice, cloud, late, issued, exposed>>
  /\ Changed

AcceptMeetsLock ==
  /\ HeadIs({"pull", "cloud"}) /\ job.running
  /\ ~SessionCurrent
  /\ Rejected
  /\ UNCHANGED <<diskEnv, exposed>>

(* The encryption, the decryption or the envelope write fails.             *)
TaskFails ==
  /\ job.running
  /\ Rejected
  /\ UNCHANGED <<diskEnv, exposed>>

(* The envelope is written and the connection write then fails.            *)
Writes == job.running /\ ~blocked /\ (HeadIs({"mutate"}) \/ SessionCurrent)

TaskTorn ==
  /\ Writes
  /\ Rejected
  /\ diskEnv' = Result
  /\ exposed' = exposed \cup {"torn"}

-----------------------------------------------------------------------------
(* Synchronization.                                                        *)

(* syncVaultNow(); a call while one is under way joins it.                 *)
SyncNow ==
  /\ CanSync
  /\ StartSync(env)
  /\ UNCHANGED <<store, env, payload, lifecycle, conflict, tasks, unlocking, pairing,
                 choice, cloud, late, history>>
  /\ Changed

(* The dirty timer.  It is disarmed first, so markSyncing() arms it again. *)
TimerFires ==
  /\ timer
  /\ IF CanSync
       THEN StartSync(env) /\ timer' = (lifecycle = "unlocked" /\ conn.dirty)
       ELSE timer' = FALSE /\ UNCHANGED <<sync, syncState>>
  /\ UNCHANGED <<store, env, payload, lifecycle, conflict, tasks, unlocking, pairing,
                 choice, cloud, late, history>>

(* The service: compare-and-swap on the version, whole envelopes only.     *)
CloudTakes(op) ==
  IF op.base = cloud.version
    THEN /\ cloud.version < MaxVersion
         /\ cloud' = [version |-> cloud.version + 1, items |-> op.items]
    ELSE UNCHANGED cloud

Answered(op) ==
  IF op.base = cloud.version
    THEN [op EXCEPT !.pc = "pushed", !.reply = [version |-> cloud.version + 1, items |-> op.items]]
    ELSE [op EXCEPT !.pc = "refused", !.reply = cloud]

(* What an explicit "keep local" replaces, when the service takes it.      *)
Replaced(expected, items) == IF expected = cloud.version THEN cloud.items \ items ELSE {}

ServiceAnswersSync ==
  /\ \/ sync.pc = "push" /\ CloudTakes(sync) /\ sync' = Answered(sync)
     \/ /\ sync.pc = "fetch"
        /\ sync' = [sync EXCEPT !.pc = "fetched", !.reply = cloud]
        /\ UNCHANGED cloud
  /\ UNCHANGED <<store, memory, tasks, unlocking, pairing, choice, timer, late, history>>

ServiceAnswersChoice ==
  /\ choice.pc = "push"
  /\ CloudTakes(choice)
  /\ choice' = Answered(choice)
  /\ setAside' = setAside \cup Replaced(choice.base, choice.items)
  /\ UNCHANGED <<store, memory, tasks, unlocking, pairing, sync, timer, late,
                 issued, known, exposed>>

(* A push whose sender stopped waiting reaches the service after all.      *)
ServiceTakesLate ==
  /\ late # NoPush
  /\ IF late.expected = cloud.version
       THEN /\ cloud.version < MaxVersion
            /\ cloud' = [version |-> cloud.version + 1, items |-> late.items]
       ELSE UNCHANGED cloud
  /\ setAside' = IF late.chosen THEN setAside \cup Replaced(late.expected, late.items)
                                ELSE setAside
  /\ late' = NoPush
  /\ UNCHANGED <<store, memory, tasks, unlocking, pairing, sync, choice, timer,
                 issued, known, exposed>>

(* The rest of perform(), for each answer.                                 *)
SyncPushed ==
  /\ sync.pc = "pushed"
  /\ MarkPushSucceeded(sync.items, sync.reply.version)
  /\ sync' = NoOp
  /\ UNCHANGED <<diskEnv, blocked, env, payload, tasks, unlocking, pairing, choice, cloud,
                 late, history>>
  /\ Changed

SyncRefused ==
  /\ sync.pc = "refused"
  /\ SetConflict(sync.reply)
  /\ sync' = NoOp
  /\ UNCHANGED <<store, env, payload, tasks, unlocking, pairing, choice, cloud, late, history>>
  /\ Changed

FetchedNothingNew ==
  /\ sync.pc = "fetched"
  /\ sync.reply.version <= sync.base
  /\ MarkPushSucceeded(sync.items, sync.base)
  /\ sync' = NoOp
  /\ UNCHANGED <<diskEnv, blocked, env, payload, tasks, unlocking, pairing, choice, cloud,
                 late, history>>
  /\ Changed

FetchedNewer ==
  /\ sync.pc = "fetched"
  /\ sync.reply.version > sync.base
  /\ Enqueue(Pull(sync.reply, sync.items))
  /\ sync' = [sync EXCEPT !.pc = "accepting"]
  /\ UNCHANGED <<store, memory, job, unlocking, pairing, choice, timer, cloud, late, history>>

(* A refused connection, a bad answer, a failed metadata write or the 12 s *)
(* timeout.  An aborted push may still be on its way to the service.       *)
MaybeLate(op, chosen) ==
  late' \in {late} \cup IF op.pc = "push"
                          THEN {[expected |-> op.base, items |-> op.items, chosen |-> chosen]}
                          ELSE {}

SyncFails ==
  /\ sync.pc \notin {"idle", "accepting"}
  /\ MaybeLate(sync, FALSE)
  /\ MarkSyncError
  /\ sync' = NoOp
  /\ UNCHANGED <<store, env, payload, lifecycle, conflict, tasks, unlocking, pairing, choice,
                 cloud, history>>
  /\ Changed

(* chooseCloud() and chooseLocal(), for the conflict that is pending.      *)
ChooseCloud ==
  /\ conflict # NoRemote
  /\ Enqueue(KeepCloud(conflict))
  /\ UNCHANGED <<store, memory, job, unlocking, pairing, sync, choice, timer, cloud, late,
                 history>>

ChooseLocal ==
  /\ conflict # NoRemote
  /\ payload # None /\ env # None /\ Paired
  /\ choice = NoOp
  /\ choice' = [NoOp EXCEPT !.pc = "push", !.items = env, !.base = conflict.version]
  /\ syncState' = "syncing"
  /\ UNCHANGED <<store, env, payload, lifecycle, conflict, tasks, unlocking, pairing, sync,
                 cloud, late, history>>
  /\ Changed

ChoicePushed ==
  /\ choice.pc = "pushed"
  /\ MarkPushSucceeded(choice.items, choice.reply.version)
  /\ choice' = NoOp
  /\ UNCHANGED <<diskEnv, blocked, env, payload, tasks, unlocking, pairing, sync, cloud,
                 late, history>>
  /\ Changed

(* A second 409 too: the conflict that is pending is not brought up to date. *)
ChoiceFails ==
  /\ choice # NoOp
  /\ MaybeLate(choice, TRUE)
  /\ MarkSyncError
  /\ choice' = NoOp
  /\ UNCHANGED <<store, env, payload, lifecycle, conflict, tasks, unlocking, pairing, sync,
                 cloud, history>>
  /\ Changed

-----------------------------------------------------------------------------
(* Pairing: the lifecycle is looked at when the dialog opens, the vault is *)
(* installed when the service has answered twice.                          *)
PairAsk(p) ==
  /\ lifecycle = "unconfigured"
  /\ pairing[p].pc = "idle" /\ unlocking[p] = None
  /\ pairing' = [pairing EXCEPT ![p].pc = "asked"]
  /\ UNCHANGED <<store, memory, tasks, unlocking, sync, choice, timer, cloud, late, history>>

PairFetch(p) ==
  /\ pairing[p].pc = "asked"
  /\ pairing' = [pairing EXCEPT ![p] = [pc |-> "fetched", reply |-> cloud]]
  /\ UNCHANGED <<store, memory, tasks, unlocking, sync, choice, timer, cloud, late, history>>

PairFail(p) ==
  /\ pairing[p].pc # "idle"
  /\ pairing' = [pairing EXCEPT ![p] = NoPairing]
  /\ UNCHANGED <<store, memory, tasks, unlocking, sync, choice, timer, cloud, late, history>>

(* installEncryptedVault(), then unlock() up to its await.                 *)
MayInstall(p) == pairing[p].pc = "fetched" /\ lifecycle # "recovery-required" /\ ~blocked

PairInstall(p) ==
  /\ MayInstall(p)
  /\ diskEnv' = pairing[p].reply.items
  /\ env' = pairing[p].reply.items
  /\ conn' = [version |-> pairing[p].reply.version, dirty |-> FALSE]
  /\ ReleaseSecrets
  /\ lifecycle' = "locked"
  /\ syncState' = "idle"
  /\ unlocking' = [unlocking EXCEPT ![p] = pairing[p].reply.items]
  /\ pairing' = [pairing EXCEPT ![p] = NoPairing]
  /\ exposed' = IF env = None THEN exposed ELSE exposed \cup {"paired"}
  /\ UNCHANGED <<blocked, conflict, queue, sync, choice, cloud, late, issued, known, setAside>>
  /\ Changed

(* The envelope is written and the connection is not.                      *)
PairTorn(p) ==
  /\ MayInstall(p)
  /\ diskEnv' = pairing[p].reply.items
  /\ pairing' = [pairing EXCEPT ![p] = NoPairing]
  /\ exposed' = exposed \cup {"torn"}
  /\ UNCHANGED <<conn, blocked, memory, tasks, unlocking, sync, choice, timer, cloud, late,
                 issued, known, setAside>>

-----------------------------------------------------------------------------
(* The environment.                                                        *)

(* Another device saves an edit on top of the cloud vault.                 *)
OtherDevicePushes(e) ==
  /\ e \notin issued
  /\ cloud.version < MaxVersion
  /\ cloud' = [version |-> cloud.version + 1, items |-> cloud.items \cup {e}]
  /\ issued' = issued \cup {e}
  /\ known' = known \cup {e}
  /\ UNCHANGED <<store, memory, tasks, unlocking, pairing, sync, choice, timer, late,
                 setAside, exposed>>

(* The process stops at any point and starts again.  load() may find one   *)
(* of the files unreadable: it is then kept under a recovery name.         *)
Restart(corrupt) ==
  /\ corrupt = "envelope" => diskEnv # None
  /\ corrupt = "connection" => Paired
  /\ diskEnv' = IF corrupt = "envelope" THEN None ELSE diskEnv
  /\ setAside' = IF corrupt = "envelope" THEN setAside \cup OnDisk ELSE setAside
  /\ Initialized(diskEnv', IF corrupt = "connection" THEN NoConnection ELSE conn,
                 corrupt # "nothing")
  /\ MaybeLate(sync, FALSE) \/ MaybeLate(choice, TRUE)
  /\ UNCHANGED <<cloud, issued, known, exposed>>

AcknowledgeRecovery ==
  /\ lifecycle = "recovery-required"
  /\ blocked' = FALSE
  /\ lifecycle' = IF env = None THEN "unconfigured" ELSE "locked"
  /\ UNCHANGED <<diskEnv, conn, env, payload, syncState, conflict, tasks, unlocking, pairing,
                 sync, choice, cloud, late, history>>
  /\ Changed

-----------------------------------------------------------------------------
Unlocking ==
  \/ \E k \in Prompts : RequestUnlock(k)
  \/ \E k \in Unlocks : FinishUnlock(k) \/ FailUnlock(k)

TaskBegins == TaskStarts \/ TaskRefused \/ PullMeetsChange
TaskEnds   == MutationPersists \/ AcceptPersists \/ AcceptMeetsLock \/ TaskFails \/ TaskTorn
SyncEnds   == SyncPushed \/ SyncRefused \/ FetchedNothingNew \/ FetchedNewer \/ SyncFails
Choosing   == ChooseCloud \/ ChooseLocal \/ ChoicePushed \/ ChoiceFails
Service    == ServiceAnswersSync \/ ServiceAnswersChoice \/ ServiceTakesLate

PairingSteps == \E p \in Pairings :
  PairAsk(p) \/ PairFetch(p) \/ PairFail(p) \/ PairInstall(p) \/ PairTorn(p)

Next ==
  \/ Lock \/ Unlocking
  \/ \E e \in Edits : AskMutation(e) \/ OtherDevicePushes(e)
  \/ TaskBegins \/ TaskEnds
  \/ SyncNow \/ TimerFires \/ SyncEnds \/ Choosing
  \/ Service
  \/ PairingSteps
  \/ \E corrupt \in {"nothing", "envelope", "connection"} : Restart(corrupt)
  \/ AcknowledgeRecovery

Spec == Init /\ [][Next]_vars

(* The queue's tasks are promises the event loop runs; the crypto and the  *)
(* disk calls they await return.  The timer fires and every request ends,  *)
(* by its timeout if not before.  A push tried for ever gets through.      *)
Fairness ==
  /\ WF_vars(TaskBegins) /\ WF_vars(TaskEnds)
  /\ WF_vars(TimerFires) /\ WF_vars(SyncEnds)
  /\ SF_vars(ServiceAnswersSync) /\ SF_vars(SyncPushed) /\ SF_vars(SyncRefused)

FairSpec == Spec /\ Fairness

-----------------------------------------------------------------------------
(* Properties.                                                             *)

(* Every variable has its type: a running task has a decrypted payload to  *)
(* work on, no push or pull is without an envelope.                        *)
TypeOK ==
  /\ diskEnv \in {None} \cup Envelope
  /\ conn \in Connection
  /\ blocked \in BOOLEAN
  /\ env \in {None} \cup Envelope
  /\ payload \in {None} \cup Envelope
  /\ lifecycle \in Lifecycles
  /\ syncState \in SyncStates
  /\ conflict \in Remote
  /\ queue \in Seq(Task)
  /\ job \in Job
  /\ unlocking \in [Unlocks -> {None} \cup Envelope]
  /\ pairing \in [Pairings -> Pairing]
  /\ sync \in Op
  /\ choice \in Op
  /\ timer \in BOOLEAN
  /\ cloud \in Remote
  /\ late \in Push
  /\ issued \in SUBSET Edits /\ known \in SUBSET Edits /\ setAside \in SUBSET Edits
  /\ exposed \in SUBSET Windows

(* No edit that was reported as saved, or that anyone has seen, disappears *)
(* silently: it is in the vault file, in the cloud vault, or in something  *)
(* an explicit choice or a recovery replaced.  This is what the write      *)
(* queue, the basis of a pull and the compare-and-swap are for, through    *)
(* timeouts, pushes applied after their sender gave up, locks and crashes. *)
(* It holds as long as none of the three windows that lose edits is hit:   *)
(* a write torn between the two files, an unlock that finishes on an older *)
(* envelope than the one on disk, a pairing over an existing vault.        *)
NothingSilentlyLost ==
  exposed = {} => known \subseteq OnDisk \cup cloud.items \cup setAside

(* A vault that says it has nothing to send has nothing to send.           *)
(* markPushSucceeded() may therefore never clear the mark for an edit that *)
(* landed while the push was under way.                                    *)
CleanMeansSynced ==
  exposed = {} =>
    (Paired /\ ~conn.dirty => OnDisk \subseteq cloud.items \cup setAside)

(* The broker holds decrypted state exactly while it says that the vault   *)
(* is open: a lock wins over every conflict, pull, choice and installation *)
(* that ends after it.                                                     *)
OpenIffSession == lifecycle \in {"unlocked", "conflict"} <=> payload # None

(* An unlocked vault with unsynced changes always has a sync under way or  *)
(* scheduled, whichever way earlier syncs ended.                           *)
DirtyIsScheduled ==
  lifecycle = "unlocked" /\ conn.dirty => timer \/ sync # NoOp

(* While a pull decrypts, the envelope it compared with its basis is still *)
(* the vault's: what acceptRemote() checked before its await holds after.  *)
PullBasisHolds ==
  "paired" \notin exposed /\ HeadIs({"pull"}) /\ job.running => env = Head(queue).items

(* Until a recovery is acknowledged nothing opens, installs or writes the  *)
(* vault.                                                                  *)
RecoveryPending ==
  blocked => /\ lifecycle = "recovery-required"
             /\ payload = None
             /\ env = diskEnv

(* An inductive invariant for the properties that hold in every window:    *)
(* what a task, an unlock or a request still relies on when it resumes.    *)
SessionInv ==
  /\ OpenIffSession
  /\ payload # None => env # None
  /\ \A k \in Unlocks : unlocking[k] # None => env # None /\ ~blocked
  /\ job.live => payload # None
  /\ job.running => env # None /\ queue # <<>>

VersionInv ==
  /\ cloud.version > 0
  /\ conn.dirty => Paired
  /\ job.running /\ HeadIs({"mutate"}) => Paired
  /\ sync # NoOp => sync.base > 0
  /\ sync.pc \in {"pushed", "refused", "fetched", "accepting"} => sync.reply.version > 0
  /\ choice.pc = "pushed" => choice.reply.version > 0
  /\ \A p \in Pairings : pairing[p].pc = "fetched" => pairing[p].reply.version > 0

BrokerInv ==
  /\ TypeOK
  /\ SessionInv
  /\ VersionInv
  /\ DirtyIsScheduled
  /\ PullBasisHolds
  /\ RecoveryPending

(* An inductive invariant for NothingSilentlyLost and CleanMeansSynced.    *)
(* A remote envelope held anywhere is what the cloud holds or held, and a  *)
(* push of some items on a version that is still the cloud's drops nothing *)
(* that no choice has replaced.                                            *)
CopyOfCloud(r) ==
  /\ r.version <= cloud.version
  /\ r.items \subseteq cloud.items \cup setAside
  /\ r.version = cloud.version => r.items = cloud.items

Covers(items, version) ==
  /\ version <= cloud.version
  /\ version = cloud.version => cloud.items \subseteq items \cup setAside

LocalInv ==
  /\ env = diskEnv
  /\ payload # None => payload = env
  /\ job.running => job.base = env
  /\ Covers(OnDisk, conn.version)
  /\ sync.items \subseteq OnDisk \cup setAside
  /\ choice.items \subseteq OnDisk \cup setAside
  /\ late.items \subseteq OnDisk \cup setAside

CopiesInv ==
  /\ CopyOfCloud(sync.reply) /\ CopyOfCloud(choice.reply) /\ CopyOfCloud(conflict)
  /\ \A i \in DOMAIN queue : CopyOfCloud(queue[i].remote)
  /\ \A p \in Pairings : CopyOfCloud(pairing[p].reply)

RequestsInv ==
  /\ Covers(sync.items, sync.base)
  /\ choice.base <= cloud.version
  /\ late.expected <= cloud.version
  /\ ~late.chosen => Covers(late.items, late.expected)
  /\ sync.pc = "pushed" => sync.reply.items = sync.items
  /\ choice.pc = "pushed" => choice.reply.items = choice.items
  /\ sync.pc = "fetch" => sync.items \subseteq cloud.items \cup setAside
  /\ sync.pc = "fetched" => sync.items \subseteq sync.reply.items \cup setAside
  /\ \A i \in DOMAIN queue : queue[i].kind = "pull" =>
       queue[i].items \subseteq queue[i].remote.items \cup setAside

DataInv ==
  /\ NothingSilentlyLost
  /\ CleanMeansSynced
  /\ exposed = {} => LocalInv /\ CopiesInv /\ RequestsInv

(* The device, its cloud vault and all that is under way between them      *)
(* implement a vault without any of it (module SyncedVault): every step    *)
(* saves, pushes, pulls, sets aside, opens or closes as a whole, or none   *)
(* of these, as long as none of the three windows is hit; and a vault that *)
(* was locked in the middle of a pull or a choice stays locked when it     *)
(* ends (vault-broker.ts, sync-controller.ts).                             *)
Whole == INSTANCE SyncedVault
  WITH device <- OnDisk, cloud <- cloud.items, aside <- setAside, known <- known,
       clean <- Paired /\ ~conn.dirty, open <- payload # None, lossy <- exposed # {}

ImplementsSyncedVault == Whole!Spec

(* What the code's own words promise without the exceptions above.         *)

(* vault-broker.ts 99: each task of the queue reads the current payload    *)
(* and envelope, so that no change is silently dropped.                    *)
SaveBuildsOnCurrent ==
  HeadIs({"mutate"}) /\ job.running /\ "paired" \notin exposed => env \subseteq job.base

(* Secrets come back only through an unlock: no sync, pull, choice or save *)
(* that finishes after a lock opens the vault again.                       *)
OnlyUnlockOpens ==
  [][payload = None /\ payload' # None =>
       \E k \in Unlocks : unlocking[k] # None /\ unlocking'[k] = None
                          /\ payload' = unlocking[k]]_vars

(* Every save that enters the queue leaves it, whatever happens to the     *)
(* tasks ahead of it.                                                      *)
Queued(e) == \E i \in DOMAIN queue : queue[i] = Mutation(e)
SavesAnswered == \A e \in Edits : Queued(e) ~> ~Queued(e)

(* While the vault stays unlocked, its unsynced changes reach the cloud or *)
(* become a conflict the user sees.                                        *)
DirtySettles ==
  (lifecycle = "unlocked" /\ conn.dirty) ~>
    (lifecycle # "unlocked" \/ ~conn.dirty \/ cloud.version = MaxVersion)
=============================================================================
