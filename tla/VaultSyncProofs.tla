-------------------------- MODULE VaultSyncProofs --------------------------
(***************************************************************************)
(* BrokerInv of VaultSync is inductive, so everything the broker promises  *)
(* in every window holds for any number of edits, unlocks, pairings,       *)
(* versions and queued tasks.  One lemma per action; a lemma splits the    *)
(* invariant where the provers need it.                                    *)
(***************************************************************************)
EXTENDS VaultSync, SequenceTheorems, TLAPS

USE BoundsAssumption, NoneAssumption, PromptsAssumption

(* The empty values have their types.                                      *)
LEMMA Constants ==
  /\ NoRemote \in Remote /\ NoConnection \in Connection /\ NoPush \in Push
  /\ NoJob \in Job /\ NoOp \in Op /\ NoPairing \in Pairing
  BY DEF NoRemote, Remote, NoConnection, Connection, NoPush, Push, NoJob, Job, NoOp, Op,
         NoPairing, Pairing, Envelope

(* No envelope is the absence of one.                                      *)
LEMMA EnvelopeNotNone == ASSUME NEW e \in Envelope PROVE e # None
  BY DEF Envelope

(* What the head of the queue holds, and what it would write.              *)
LEMMA HeadTask ==
  ASSUME TypeOK, queue # <<>>
  PROVE  /\ Head(queue) \in Task /\ Tail(queue) \in Seq(Task)
         /\ Head(queue).items \in Envelope /\ Head(queue).remote \in Remote
         /\ Result \in Envelope
<1>1. Head(queue) \in Task /\ Tail(queue) \in Seq(Task)
  BY HeadTailProperties DEF TypeOK
<1>2. Head(queue).items \in Envelope /\ Head(queue).remote \in Remote
  BY <1>1 DEF Task
<1>3. job.base \in Envelope
  BY DEF TypeOK, Job
<1> QED BY <1>1, <1>2, <1>3 DEF Result, Envelope, Remote

(* What a sync that starts has captured.                                   *)
LEMMA StartedSync ==
  ASSUME TypeOK, NEW e \in Envelope, StartSync(e)
  PROVE  /\ sync' \in Op /\ syncState' \in SyncStates
         /\ sync'.pc \in {"push", "fetch"} /\ sync'.base = conn.version /\ sync' # NoOp
<1>1. conn.version \in Nat
  BY DEF TypeOK, Connection
<1> QED BY <1>1 DEF StartSync, NoOp, NoRemote, Op, Remote, Envelope, SyncStates

(* A push given up on keeps its type.                                      *)
LEMMA LateIsPush ==
  ASSUME TypeOK, NEW op \in Op, NEW chosen \in BOOLEAN, MaybeLate(op, chosen)
  PROVE  late' \in Push
  BY DEF TypeOK, MaybeLate, Op, Push

(* The service answers with a version it holds.                            *)
LEMMA ServiceAnswer ==
  ASSUME TypeOK, cloud.version > 0, NEW op \in Op, CloudTakes(op)
  PROVE  /\ Answered(op) \in Op /\ Answered(op).base = op.base
         /\ Answered(op).pc \in {"pushed", "refused"} /\ Answered(op).reply.version > 0
         /\ cloud' \in Remote /\ cloud'.version > 0
<1>1. cloud \in Remote /\ cloud.version \in Nat /\ op.items \in Envelope
  BY DEF TypeOK, Remote, Op
<1>2. CASE op.base = cloud.version
  <2> DEFINE taken == [version |-> cloud.version + 1, items |-> op.items]
  <2>1. taken \in Remote /\ taken.version > 0
    BY <1>1 DEF Remote
  <2>2. cloud' = taken /\ Answered(op) = [op EXCEPT !.pc = "pushed", !.reply = taken]
    BY <1>2 DEF CloudTakes, Answered
  <2> HIDE DEF taken
  <2> QED BY <2>1, <2>2 DEF Op
<1>3. CASE op.base # cloud.version
  BY <1>1, <1>3 DEF CloudTakes, Answered, Remote, Op
<1> QED BY <1>2, <1>3

(* The initial states.                                                     *)
LEMMA BrokerInit == Init => BrokerInv
<1> SUFFICES ASSUME Init PROVE BrokerInv
  OBVIOUS
<1> USE DEF Init
<1>1. TypeOK
  <2>1. conn \in Connection /\ {} \in Envelope
    BY Constants DEF Connection, Envelope
  <2>2. cloud \in Remote /\ lifecycle \in Lifecycles /\ syncState \in SyncStates
    BY DEF Remote, Envelope, Lifecycles, SyncStates, SyncStateOf
  <2>3. queue \in Seq(Task) /\ job \in Job /\ sync \in Op /\ choice \in Op /\ late \in Push
    BY Constants, EmptySeq
  <2>4. /\ unlocking \in [Unlocks -> {None} \cup Envelope]
        /\ pairing \in [Pairings -> Pairing]
    BY Constants
  <2>5. diskEnv \in {None} \cup Envelope /\ payload \in {None} \cup Envelope
    BY <2>1
  <2> QED BY <2>1, <2>2, <2>3, <2>4, <2>5, Constants DEF TypeOK
<1> USE DEF NoRemote, NoConnection, NoPush, NoJob, NoOp, NoPairing, Paired, OnDisk, HeadIs
<1>2. SessionInv
  BY DEF SessionInv, OpenIffSession
<1>3. VersionInv
  BY DEF VersionInv
<1>4. DirtyIsScheduled /\ PullBasisHolds /\ RecoveryPending
  BY DEF DirtyIsScheduled, PullBasisHolds, RecoveryPending
<1> QED BY <1>1, <1>2, <1>3, <1>4 DEF BrokerInv

USE DEF BrokerInv, SessionInv, VersionInv, OpenIffSession, DirtyIsScheduled, PullBasisHolds,
        RecoveryPending, HeadIs, Paired, store, memory, tasks, history

(* A lock releases the session and disarms the timer.                      *)
LEMMA LockStep ==
  ASSUME BrokerInv, Lock PROVE BrokerInv'
  BY DEF TypeOK, Lock, ReleaseSecrets, Job, Lifecycles

(* An unlock begins only on an envelope, outside recovery.                 *)
LEMMA RequestUnlockStep ==
  ASSUME BrokerInv, NEW k \in Prompts, RequestUnlock(k) PROVE BrokerInv'
  BY DEF TypeOK, RequestUnlock, UnlockAdmitted, Unlocks

(* A failed unlock only gives its slot back.                               *)
LEMMA FailUnlockStep ==
  ASSUME BrokerInv, NEW k \in Unlocks, FailUnlock(k) PROVE BrokerInv'
  BY DEF TypeOK, FailUnlock

(* An unlock opens the vault, arms the timer and may start a sync.         *)
LEMMA FinishUnlockStep ==
  ASSUME BrokerInv, NEW k \in Unlocks, FinishUnlock(k) PROVE BrokerInv'
<1> USE DEF FinishUnlock, Changed
<1>1. /\ env \in Envelope /\ payload' # None
      /\ \/ UNCHANGED <<sync, syncState>>
         \/ /\ Paired /\ sync' \in Op /\ syncState' \in SyncStates
            /\ sync'.pc \in {"push", "fetch"} /\ sync'.base = conn.version /\ sync' # NoOp
  BY StartedSync DEF TypeOK
<1>2. TypeOK'
  BY <1>1 DEF TypeOK, Job, Lifecycles, Connection, Envelope, Windows
<1>3. (SessionInv /\ VersionInv)'
  BY <1>1 DEF TypeOK, Job, Connection
<1>4. (DirtyIsScheduled /\ PullBasisHolds /\ RecoveryPending)'
  BY DEF TypeOK, Job
<1> QED BY <1>2, <1>3, <1>4

(* A task added at the back leaves the head alone.                         *)
LEMMA AskMutationStep ==
  ASSUME BrokerInv, NEW e \in Edits, AskMutation(e) PROVE BrokerInv'
<1> USE DEF AskMutation, Enqueue, Mutation
<1>1. TypeOK'
  BY Constants, AppendProperties DEF TypeOK, Task, Envelope
<1>2. (SessionInv /\ VersionInv)'
  BY AppendProperties, HeadTailAppend DEF TypeOK, Task
<1>3. (DirtyIsScheduled /\ PullBasisHolds /\ RecoveryPending)'
  BY AppendProperties, HeadTailAppend DEF TypeOK, Task
<1> QED BY <1>1, <1>2, <1>3

(* Other devices touch only the cloud vault.                               *)
LEMMA OtherDevicePushesStep ==
  ASSUME BrokerInv, NEW e \in Edits, OtherDevicePushes(e) PROVE BrokerInv'
  BY DEF TypeOK, OtherDevicePushes, Remote, Envelope

(* A task starts with a session, so its base is a payload.                 *)
LEMMA TaskStartsStep ==
  ASSUME BrokerInv, TaskStarts PROVE BrokerInv'
<1> USE DEF TaskStarts, MayStart, MayMutate, MayAccept, Unlocked, BasisMoved
<1>1. TypeOK'
  BY DEF TypeOK, Job
<1>2. (SessionInv /\ VersionInv)'
  BY DEF TypeOK, Job
<1>3. (DirtyIsScheduled /\ PullBasisHolds /\ RecoveryPending)'
  BY DEF TypeOK, Job
<1> QED BY <1>1, <1>2, <1>3

(* A refused pull ends its sync and arms the timer again.                  *)
LEMMA TaskRefusedStep ==
  ASSUME BrokerInv, TaskRefused PROVE BrokerInv'
<1> USE DEF TaskRefused, Rejected, AfterRejection, MarkSyncError, Changed
<1>1. TypeOK'
  BY Constants, HeadTask DEF TypeOK, SyncStates
<1>2. (SessionInv /\ VersionInv)'
  BY DEF TypeOK, NoJob, NoOp
<1>3. (DirtyIsScheduled /\ PullBasisHolds /\ RecoveryPending)'
  BY DEF TypeOK, NoJob, NoOp
<1> QED BY <1>1, <1>2, <1>3

(* A conflict found while locked leaves the vault locked.                  *)
LEMMA PullMeetsChangeStep ==
  ASSUME BrokerInv, PullMeetsChange PROVE BrokerInv'
<1> USE DEF PullMeetsChange, SetConflict, MarkConflict, MayAccept, Changed
<1>1. TypeOK'
  BY Constants, HeadTask DEF TypeOK, SyncStates, Lifecycles
<1>2. (SessionInv /\ VersionInv)'
  BY DEF TypeOK, NoJob, NoOp, Job
<1>3. (DirtyIsScheduled /\ PullBasisHolds /\ RecoveryPending)'
  BY DEF TypeOK, NoJob, NoOp, Job
<1> QED BY <1>1, <1>2, <1>3

(* A pull that meets a lock ends its sync.                                 *)
LEMMA AcceptMeetsLockStep ==
  ASSUME BrokerInv, AcceptMeetsLock PROVE BrokerInv'
<1> USE DEF AcceptMeetsLock, Rejected, AfterRejection, MarkSyncError, Changed
<1>1. TypeOK'
  BY Constants, HeadTask DEF TypeOK, SyncStates
<1>2. (SessionInv /\ VersionInv)'
  BY DEF TypeOK, NoJob, NoOp
<1>3. (DirtyIsScheduled /\ PullBasisHolds /\ RecoveryPending)'
  BY DEF TypeOK, NoJob, NoOp
<1> QED BY <1>1, <1>2, <1>3

(* So does one that fails.                                                 *)
LEMMA TaskFailsStep ==
  ASSUME BrokerInv, TaskFails PROVE BrokerInv'
<1> USE DEF TaskFails, Rejected, AfterRejection, MarkSyncError, Changed
<1>1. TypeOK'
  BY Constants, HeadTask DEF TypeOK, SyncStates
<1>2. (SessionInv /\ VersionInv)'
  BY DEF TypeOK, NoJob, NoOp
<1>3. (DirtyIsScheduled /\ PullBasisHolds /\ RecoveryPending)'
  BY DEF TypeOK, NoJob, NoOp
<1> QED BY <1>1, <1>2, <1>3

(* So does one whose second write fails.                                   *)
LEMMA TaskTornStep ==
  ASSUME BrokerInv, TaskTorn PROVE BrokerInv'
<1> USE DEF TaskTorn, Writes, Rejected, AfterRejection, MarkSyncError, Changed
<1>1. TypeOK'
  BY Constants, HeadTask DEF TypeOK, SyncStates, Windows
<1>2. (SessionInv /\ VersionInv)'
  BY DEF TypeOK, NoJob, NoOp
<1>3. (DirtyIsScheduled /\ PullBasisHolds /\ RecoveryPending)'
  BY DEF TypeOK, NoJob, NoOp
<1> QED BY <1>1, <1>2, <1>3

(* A save that outlives its session shows nothing.                         *)
LEMMA MutationPersistsStep ==
  ASSUME BrokerInv, MutationPersists PROVE BrokerInv'
<1> USE DEF MutationPersists, Changed, SessionCurrent
<1>1. TypeOK'
  BY Constants, HeadTask DEF TypeOK, Connection, Envelope, Windows, SyncStates
<1>2. (SessionInv /\ VersionInv)'
  BY HeadTask, EnvelopeNotNone DEF TypeOK, NoJob, Connection
<1>3. (DirtyIsScheduled /\ PullBasisHolds /\ RecoveryPending)'
  BY HeadTask, EnvelopeNotNone DEF TypeOK, NoJob, Connection
<1> QED BY <1>1, <1>2, <1>3

(* An accepted pull has a session still, so the vault was open.            *)
LEMMA AcceptPersistsStep ==
  ASSUME BrokerInv, AcceptPersists PROVE BrokerInv'
<1> USE DEF AcceptPersists, Changed, SessionCurrent
<1>1. TypeOK'
  BY Constants, HeadTask DEF TypeOK, Connection, Envelope, Remote, Lifecycles, SyncStates
<1>2. (SessionInv /\ VersionInv)'
  BY HeadTask, EnvelopeNotNone DEF TypeOK, NoJob, NoOp
<1>3. (DirtyIsScheduled /\ PullBasisHolds /\ RecoveryPending)'
  BY HeadTask, EnvelopeNotNone DEF TypeOK, NoJob, NoOp
<1> QED BY <1>1, <1>2, <1>3

(* A sync starts with a session and a version.                             *)
LEMMA SyncNowStep ==
  ASSUME BrokerInv, SyncNow PROVE BrokerInv'
<1> USE DEF SyncNow, CanSync, Changed
<1>1. \/ UNCHANGED <<sync, syncState>>
      \/ /\ Paired /\ sync' \in Op /\ syncState' \in SyncStates
         /\ sync'.pc \in {"push", "fetch"} /\ sync'.base = conn.version /\ sync' # NoOp
  BY StartedSync DEF TypeOK
<1>2. TypeOK'
  BY <1>1 DEF TypeOK, Connection
<1>3. (SessionInv /\ VersionInv)'
  BY <1>1 DEF TypeOK, Connection
<1>4. (DirtyIsScheduled /\ PullBasisHolds /\ RecoveryPending)'
  BY <1>1 DEF TypeOK
<1> QED BY <1>2, <1>3, <1>4

(* The timer starts a sync, or one is under way already.                   *)
LEMMA TimerFiresStep ==
  ASSUME BrokerInv, TimerFires PROVE BrokerInv'
<1> USE DEF TimerFires, CanSync
<1>1. \/ UNCHANGED <<sync, syncState>>
      \/ /\ Paired /\ sync' \in Op /\ syncState' \in SyncStates
         /\ sync'.pc \in {"push", "fetch"} /\ sync'.base = conn.version /\ sync' # NoOp
  BY StartedSync DEF TypeOK
<1>2. TypeOK'
  BY <1>1 DEF TypeOK, Connection
<1>3. (SessionInv /\ VersionInv)'
  BY <1>1 DEF TypeOK, Connection
<1>4. (DirtyIsScheduled /\ PullBasisHolds /\ RecoveryPending)'
  BY <1>1 DEF TypeOK
<1> QED BY <1>2, <1>3, <1>4

(* A push that ends arms the timer for what landed meanwhile.              *)
LEMMA SyncPushedStep ==
  ASSUME BrokerInv, SyncPushed PROVE BrokerInv'
<1> USE DEF SyncPushed, MarkPushSucceeded, ChangedDuringSync, Changed
<1>1. TypeOK'
  BY Constants DEF TypeOK, Op, Remote, Connection, Lifecycles, SyncStates
<1>2. (SessionInv /\ VersionInv)'
  BY DEF TypeOK, NoOp, Op, Remote
<1>3. (DirtyIsScheduled /\ PullBasisHolds /\ RecoveryPending)'
  BY DEF TypeOK, NoOp, Op, Remote
<1> QED BY <1>1, <1>2, <1>3

(* A 409 found while locked leaves the vault locked.                       *)
LEMMA SyncRefusedStep ==
  ASSUME BrokerInv, SyncRefused PROVE BrokerInv'
<1> USE DEF SyncRefused, SetConflict, MarkConflict, Changed
<1>1. TypeOK'
  BY Constants DEF TypeOK, Op, SyncStates, Lifecycles
<1>2. (SessionInv /\ VersionInv)'
  BY DEF TypeOK, NoOp
<1>3. (DirtyIsScheduled /\ PullBasisHolds /\ RecoveryPending)'
  BY DEF TypeOK, NoOp
<1> QED BY <1>1, <1>2, <1>3

(* A fetch of nothing new reopens nothing.                                 *)
LEMMA FetchedNothingNewStep ==
  ASSUME BrokerInv, FetchedNothingNew PROVE BrokerInv'
<1> USE DEF FetchedNothingNew, MarkPushSucceeded, ChangedDuringSync, Changed
<1>1. TypeOK'
  BY Constants DEF TypeOK, Op, Remote, Connection, Lifecycles, SyncStates
<1>2. (SessionInv /\ VersionInv)'
  BY DEF TypeOK, NoOp, Op, Remote
<1>3. (DirtyIsScheduled /\ PullBasisHolds /\ RecoveryPending)'
  BY DEF TypeOK, NoOp, Op, Remote
<1> QED BY <1>1, <1>2, <1>3

(* A pull waits in the queue.                                              *)
LEMMA FetchedNewerStep ==
  ASSUME BrokerInv, FetchedNewer PROVE BrokerInv'
<1> USE DEF FetchedNewer, Enqueue, Pull
<1>1. TypeOK'
  BY AppendProperties DEF TypeOK, Task, Op
<1>2. (SessionInv /\ VersionInv)'
  BY AppendProperties, HeadTailAppend DEF TypeOK, Task, NoOp, Op
<1>3. (DirtyIsScheduled /\ PullBasisHolds /\ RecoveryPending)'
  BY AppendProperties, HeadTailAppend DEF TypeOK, Task, NoOp, Op
<1> QED BY <1>1, <1>2, <1>3

(* A failed sync arms the timer.                                           *)
LEMMA SyncFailsStep ==
  ASSUME BrokerInv, SyncFails PROVE BrokerInv'
<1> USE DEF SyncFails, MarkSyncError, Changed
<1>1. late' \in Push
  BY LateIsPush DEF TypeOK
<1>2. TypeOK'
  BY <1>1, Constants DEF TypeOK, SyncStates
<1>3. (SessionInv /\ VersionInv)'
  BY DEF NoOp
<1>4. (DirtyIsScheduled /\ PullBasisHolds /\ RecoveryPending)'
  OBVIOUS
<1> QED BY <1>2, <1>3, <1>4

(* Keeping the cloud vault waits in the queue.                             *)
LEMMA ChooseCloudStep ==
  ASSUME BrokerInv, ChooseCloud PROVE BrokerInv'
<1> USE DEF ChooseCloud, Enqueue, KeepCloud
<1>1. TypeOK'
  BY AppendProperties DEF TypeOK, Task, Envelope
<1>2. (SessionInv /\ VersionInv)'
  BY AppendProperties, HeadTailAppend DEF TypeOK, Task
<1>3. (DirtyIsScheduled /\ PullBasisHolds /\ RecoveryPending)'
  BY AppendProperties, HeadTailAppend DEF TypeOK, Task
<1> QED BY <1>1, <1>2, <1>3

(* Keeping the local vault needs a session.                                *)
LEMMA ChooseLocalStep ==
  ASSUME BrokerInv, ChooseLocal PROVE BrokerInv'
<1> USE DEF ChooseLocal, Changed, NoOp
<1>1. TypeOK'
  BY Constants DEF TypeOK, Op, Remote, SyncStates
<1>2. (SessionInv /\ VersionInv)'
  BY DEF TypeOK, Op
<1>3. (DirtyIsScheduled /\ PullBasisHolds /\ RecoveryPending)'
  BY DEF TypeOK, Op
<1> QED BY <1>1, <1>2, <1>3

(* A chosen push that ends opens a conflicting vault, not a locked one.    *)
LEMMA ChoicePushedStep ==
  ASSUME BrokerInv, ChoicePushed PROVE BrokerInv'
<1> USE DEF ChoicePushed, MarkPushSucceeded, ChangedDuringSync, Changed
<1>1. TypeOK'
  BY Constants DEF TypeOK, Op, Remote, Connection, Lifecycles, SyncStates
<1>2. (SessionInv /\ VersionInv)'
  BY DEF TypeOK, NoOp, Op, Remote
<1>3. (DirtyIsScheduled /\ PullBasisHolds /\ RecoveryPending)'
  BY DEF TypeOK, NoOp, Op, Remote
<1> QED BY <1>1, <1>2, <1>3

(* A failed choice leaves the conflict.                                    *)
LEMMA ChoiceFailsStep ==
  ASSUME BrokerInv, ChoiceFails PROVE BrokerInv'
<1> USE DEF ChoiceFails, MarkSyncError, Changed
<1>1. late' \in Push
  BY LateIsPush DEF TypeOK
<1>2. TypeOK'
  BY <1>1, Constants DEF TypeOK, SyncStates
<1>3. (SessionInv /\ VersionInv)'
  BY DEF NoOp
<1>4. (DirtyIsScheduled /\ PullBasisHolds /\ RecoveryPending)'
  OBVIOUS
<1> QED BY <1>2, <1>3, <1>4

(* The service touches only the cloud vault and its answer.                *)
LEMMA ServiceAnswersSyncStep ==
  ASSUME BrokerInv, ServiceAnswersSync PROVE BrokerInv'
<1> USE DEF ServiceAnswersSync
<1>1. sync \in Op /\ sync # NoOp /\ cloud \in Remote
  BY DEF TypeOK, NoOp
<1>2. CASE sync.pc = "push" /\ CloudTakes(sync) /\ sync' = Answered(sync)
  <2>1. /\ sync' \in Op /\ sync'.base = sync.base /\ sync'.reply.version > 0
        /\ cloud' \in Remote /\ cloud'.version > 0 /\ sync' # NoOp
    BY <1>1, <1>2, ServiceAnswer DEF NoOp
  <2> QED BY <1>1, <1>2, <2>1 DEF TypeOK
<1>3. CASE sync' = [sync EXCEPT !.pc = "fetched", !.reply = cloud] /\ UNCHANGED cloud
  <2>1. sync' \in Op /\ sync'.base = sync.base /\ sync'.reply.version > 0 /\ sync' # NoOp
    BY <1>1, <1>3 DEF Op, NoOp
  <2> QED BY <1>1, <1>3, <2>1 DEF TypeOK
<1> QED BY <1>2, <1>3

(* The same for a choice.                                                  *)
LEMMA ServiceAnswersChoiceStep ==
  ASSUME BrokerInv, ServiceAnswersChoice PROVE BrokerInv'
<1> USE DEF ServiceAnswersChoice
<1>1. /\ choice' \in Op /\ choice'.reply.version > 0
      /\ cloud' \in Remote /\ cloud'.version > 0
  BY ServiceAnswer DEF TypeOK
<1>2. setAside' \in SUBSET Edits
  BY DEF TypeOK, Replaced, Remote, Envelope
<1> QED BY <1>1, <1>2 DEF TypeOK

(* The same for a late push.                                               *)
LEMMA ServiceTakesLateStep ==
  ASSUME BrokerInv, ServiceTakesLate PROVE BrokerInv'
<1> USE DEF ServiceTakesLate, Replaced
<1>1. TypeOK'
  BY Constants DEF TypeOK, Push, Remote, Envelope
<1>2. (SessionInv /\ VersionInv)'
  BY DEF TypeOK, Remote
<1>3. (DirtyIsScheduled /\ PullBasisHolds /\ RecoveryPending)'
  BY DEF TypeOK, Remote
<1> QED BY <1>1, <1>2, <1>3

(* A pairing that begins touches only its slot.                            *)
LEMMA PairAskStep ==
  ASSUME BrokerInv, NEW p \in Pairings, PairAsk(p) PROVE BrokerInv'
  BY DEF TypeOK, PairAsk, Pairing

(* So does one that was answered.                                          *)
LEMMA PairFetchStep ==
  ASSUME BrokerInv, NEW p \in Pairings, PairFetch(p) PROVE BrokerInv'
  BY DEF TypeOK, PairFetch, Pairing, Remote

(* So does one that fails.                                                 *)
LEMMA PairFailStep ==
  ASSUME BrokerInv, NEW p \in Pairings, PairFail(p) PROVE BrokerInv'
<1> USE DEF PairFail
<1>1. TypeOK'
  BY Constants DEF TypeOK, Pairing
<1>2. (SessionInv /\ VersionInv)'
  BY DEF TypeOK, NoPairing
<1>3. (DirtyIsScheduled /\ PullBasisHolds /\ RecoveryPending)'
  BY DEF TypeOK, NoPairing
<1> QED BY <1>1, <1>2, <1>3

(* An installation closes the vault.                                       *)
LEMMA PairInstallStep ==
  ASSUME BrokerInv, NEW p \in Pairings, PairInstall(p) PROVE BrokerInv'
<1> USE DEF PairInstall, MayInstall, ReleaseSecrets, Changed
<1>1. TypeOK'
  BY Constants DEF TypeOK, Pairing, Remote, Connection, Job, Lifecycles, SyncStates, Windows, Unlocks
<1>2. (SessionInv /\ VersionInv)'
  BY EnvelopeNotNone DEF TypeOK, Pairing, Remote, Connection, NoPairing, Job, Unlocks
<1>3. (DirtyIsScheduled /\ PullBasisHolds /\ RecoveryPending)'
  BY EnvelopeNotNone DEF TypeOK, Pairing, Remote, Connection, NoPairing, Job, Unlocks
<1> QED BY <1>1, <1>2, <1>3

(* A torn installation changes no memory.                                  *)
LEMMA PairTornStep ==
  ASSUME BrokerInv, NEW p \in Pairings, PairTorn(p) PROVE BrokerInv'
<1> USE DEF PairTorn, MayInstall
<1>1. TypeOK'
  BY Constants DEF TypeOK, Pairing, Remote, Windows
<1>2. (SessionInv /\ VersionInv)'
  BY DEF TypeOK, NoPairing
<1>3. (DirtyIsScheduled /\ PullBasisHolds /\ RecoveryPending)'
  BY DEF TypeOK, NoPairing
<1> QED BY <1>1, <1>2, <1>3

(* A restart loads a vault that is closed.                                 *)
LEMMA RestartStep ==
  ASSUME BrokerInv, NEW c \in {"nothing", "envelope", "connection"}, Restart(c) PROVE BrokerInv'
<1> USE DEF Restart, Initialized
<1>1. late' \in Push
  BY LateIsPush DEF TypeOK
<1>2. /\ conn' \in Connection /\ (conn'.dirty => conn'.version # 0)
      /\ lifecycle' \in Lifecycles /\ syncState' \in SyncStates
      /\ diskEnv' \in {None} \cup Envelope /\ setAside' \in SUBSET Edits
  <2>1. conn' = conn \/ conn' = NoConnection
    OBVIOUS
  <2>2. setAside' \in SUBSET Edits /\ diskEnv' \in {None} \cup Envelope
    BY DEF TypeOK, OnDisk, Envelope
  <2>3. conn' \in Connection /\ (conn'.dirty => conn'.version # 0)
    BY <2>1, Constants DEF TypeOK, NoConnection, Connection
  <2> QED BY <2>2, <2>3 DEF Lifecycles, SyncStates, SyncStateOf
<1>3. TypeOK'
  BY <1>1, <1>2, Constants, EmptySeq DEF TypeOK
<1>4. SessionInv'
  BY DEF NoJob
<1>5. VersionInv'
  <2>1. /\ sync' = NoOp /\ ~NoOp.pc \in {"pushed", "refused", "fetched", "accepting"}
        /\ choice'.pc # "pushed" /\ ~job'.running /\ cloud' = cloud
    BY DEF NoOp, NoJob
  <2>2. \A p \in Pairings : pairing'[p].pc # "fetched"
    BY DEF NoPairing
  <2> QED BY <1>2, <2>1, <2>2
<1>6. (DirtyIsScheduled /\ PullBasisHolds /\ RecoveryPending)'
  BY <1>2
<1> QED BY <1>3, <1>4, <1>5, <1>6

(* An acknowledgement leaves the vault closed.                             *)
LEMMA AcknowledgeRecoveryStep ==
  ASSUME BrokerInv, AcknowledgeRecovery PROVE BrokerInv'
<1> USE DEF AcknowledgeRecovery, Changed
<1>1. TypeOK'
  BY DEF TypeOK, Lifecycles
<1>2. (SessionInv /\ VersionInv)'
  BY DEF TypeOK, Job
<1>3. (DirtyIsScheduled /\ PullBasisHolds /\ RecoveryPending)'
  BY DEF TypeOK, Job
<1> QED BY <1>1, <1>2, <1>3

-----------------------------------------------------------------------------
(* The broker's invariant is inductive.                                    *)
LEMMA BrokerInductive == BrokerInv /\ [Next]_vars => BrokerInv'
<1> SUFFICES ASSUME BrokerInv, [Next]_vars PROVE BrokerInv'
  OBVIOUS
<1>1. CASE Lock \/ Unlocking \/ AcknowledgeRecovery
  BY <1>1, LockStep, RequestUnlockStep, FinishUnlockStep, FailUnlockStep,
     AcknowledgeRecoveryStep DEF Unlocking
<1>2. CASE TaskBegins
  BY <1>2, TaskStartsStep, TaskRefusedStep, PullMeetsChangeStep DEF TaskBegins
<1>3. CASE TaskEnds
  BY <1>3, MutationPersistsStep, AcceptPersistsStep, AcceptMeetsLockStep, TaskFailsStep,
     TaskTornStep DEF TaskEnds
<1>4. CASE SyncNow \/ TimerFires \/ SyncEnds
  BY <1>4, SyncNowStep, TimerFiresStep, SyncPushedStep, SyncRefusedStep,
     FetchedNothingNewStep, FetchedNewerStep, SyncFailsStep DEF SyncEnds
<1>5. CASE Choosing
  BY <1>5, ChooseCloudStep, ChooseLocalStep, ChoicePushedStep, ChoiceFailsStep DEF Choosing
<1>6. CASE Service
  BY <1>6, ServiceAnswersSyncStep, ServiceAnswersChoiceStep, ServiceTakesLateStep DEF Service
<1>7. CASE PairingSteps
  BY <1>7, PairAskStep, PairFetchStep, PairFailStep, PairInstallStep, PairTornStep
     DEF PairingSteps
<1>8. CASE \E e \in Edits : AskMutation(e) \/ OtherDevicePushes(e)
  BY <1>8, AskMutationStep, OtherDevicePushesStep
<1>9. CASE \E c \in {"nothing", "envelope", "connection"} : Restart(c)
  BY <1>9, RestartStep
<1>10. CASE UNCHANGED vars
  BY <1>10 DEF vars, TypeOK
<1> QED
  BY <1>1, <1>2, <1>3, <1>4, <1>5, <1>6, <1>7, <1>8, <1>9, <1>10 DEF Next

HIDE DEF BrokerInv, SessionInv, VersionInv, OpenIffSession, DirtyIsScheduled, PullBasisHolds,
         RecoveryPending, HeadIs, Paired, store, memory, tasks, history

(* It holds in every reachable state.                                      *)
THEOREM BrokerInvariance == Spec => []BrokerInv
  BY BrokerInit, BrokerInductive, PTL DEF Spec
(* Every variable has its type.                                            *)
THEOREM TypeCorrect == Spec => []TypeOK
<1>1. BrokerInv => TypeOK
  BY DEF BrokerInv
<1> QED BY <1>1, BrokerInvariance, PTL

(* Decrypted state is held exactly while the vault says it is open.        *)
THEOREM SessionMatchesLifecycle == Spec => []OpenIffSession
<1>1. BrokerInv => OpenIffSession
  BY DEF BrokerInv, SessionInv
<1> QED BY <1>1, BrokerInvariance, PTL

(* An unlocked vault with unsynced changes has a sync under way or planned. *)
THEOREM DirtyVaultIsScheduled == Spec => []DirtyIsScheduled
<1>1. BrokerInv => DirtyIsScheduled
  BY DEF BrokerInv
<1> QED BY <1>1, BrokerInvariance, PTL

(* What acceptRemote() compared before its await still holds after it.     *)
THEOREM PullBasisIsCurrent == Spec => []PullBasisHolds
<1>1. BrokerInv => PullBasisHolds
  BY DEF BrokerInv
<1> QED BY <1>1, BrokerInvariance, PTL

(* Nothing opens or writes the vault before a recovery is acknowledged.    *)
THEOREM RecoveryIsTotal == Spec => []RecoveryPending
<1>1. BrokerInv => RecoveryPending
  BY DEF BrokerInv
<1> QED BY <1>1, BrokerInvariance, PTL

-----------------------------------------------------------------------------
(* Only an unlock brings secrets back.                                     *)
OpensByUnlock ==
  payload = None /\ payload' # None =>
    \E k \in Unlocks : unlocking[k] # None /\ unlocking'[k] = None /\ payload' = unlocking[k]

(* A task that shows something has a session, so the vault was open before *)
(* it: only an unlock that finishes opens it.                              *)
LEMMA OpensInUnlock ==
  ASSUME BrokerInv, [Next]_vars, payload = None, payload' # None
  PROVE  \E k \in Unlocks : FinishUnlock(k)
<1>1. ~job.live
  BY DEF BrokerInv, SessionInv
<1>2. CASE \E k \in Unlocks : FinishUnlock(k)
  BY <1>2
<1>3. ASSUME UNCHANGED payload PROVE FALSE
  BY <1>3
<1>4. CASE MutationPersists \/ AcceptPersists
  BY <1>1, <1>3, <1>4 DEF MutationPersists, AcceptPersists, SessionCurrent
<1>5. CASE Lock \/ AcknowledgeRecovery \/ (\E k \in Prompts : RequestUnlock(k))
           \/ (\E k \in Unlocks : FailUnlock(k))
  BY <1>3, <1>5 DEF Lock, ReleaseSecrets, AcknowledgeRecovery, RequestUnlock, FailUnlock, memory
<1>6. CASE TaskBegins \/ TaskFails \/ TaskTorn \/ AcceptMeetsLock
  BY <1>3, <1>6 DEF TaskBegins, TaskStarts, TaskRefused, PullMeetsChange, TaskFails, TaskTorn,
     AcceptMeetsLock, Rejected, memory
<1>7. CASE SyncNow \/ TimerFires \/ SyncEnds
  BY <1>3, <1>7 DEF SyncEnds, SyncNow, TimerFires, SyncPushed, SyncRefused, FetchedNothingNew,
     FetchedNewer, SyncFails, memory
<1>8. CASE Choosing
  BY <1>3, <1>8 DEF Choosing, ChooseCloud, ChooseLocal, ChoicePushed, ChoiceFails, memory
<1>9. CASE Service
  BY <1>3, <1>9 DEF Service, ServiceAnswersSync, ServiceAnswersChoice, ServiceTakesLate, memory
<1>10. CASE PairingSteps
  BY <1>3, <1>10 DEF PairingSteps, PairAsk, PairFetch, PairFail, PairInstall, PairTorn,
     ReleaseSecrets, memory
<1>11. CASE \E e \in Edits : AskMutation(e) \/ OtherDevicePushes(e)
  BY <1>3, <1>11 DEF AskMutation, OtherDevicePushes, memory
<1>12. CASE (\E c \in {"nothing", "envelope", "connection"} : Restart(c)) \/ UNCHANGED vars
  BY <1>3, <1>12 DEF Restart, Initialized, vars
<1> QED
  BY <1>2, <1>4, <1>5, <1>6, <1>7, <1>8, <1>9, <1>10, <1>11, <1>12
     DEF Next, Unlocking, TaskEnds

(* It gives its slot back and shows what it held.                          *)
LEMMA OnlyUnlockStep == BrokerInv /\ [Next]_vars => OpensByUnlock
<1> SUFFICES ASSUME BrokerInv, [Next]_vars, payload = None, payload' # None
             PROVE  OpensByUnlock
  BY DEF OpensByUnlock
<1>1. PICK k \in Unlocks : FinishUnlock(k)
  BY OpensInUnlock
<1>2. unlocking \in [Unlocks -> {None} \cup Envelope]
  BY DEF BrokerInv, TypeOK
<1>3. unlocking[k] # None /\ unlocking'[k] = None /\ payload' = unlocking[k]
  BY <1>1, <1>2 DEF FinishUnlock
<1> QED BY <1>3 DEF OpensByUnlock

(* No sync, pull, choice or save that ends after a lock opens the vault.   *)
THEOREM SyncNeverReopens == Spec => OnlyUnlockOpens
<1>1. BrokerInv /\ [Next]_vars => [OpensByUnlock]_vars
  BY OnlyUnlockStep
<1>2. OnlyUnlockOpens <=> [][OpensByUnlock]_vars
  BY DEF OnlyUnlockOpens, OpensByUnlock
<1> QED BY <1>1, <1>2, BrokerInvariance, PTL DEF Spec

-----------------------------------------------------------------------------
(***************************************************************************)
(* No edit is silently lost: DataInv of VaultSync is inductive, relative   *)
(* to BrokerInv.  A step after which a window was hit proves nothing, so   *)
(* each lemma below takes one action that leaves exposed empty and shows   *)
(* the parts of DataInv one by one.                                        *)
(***************************************************************************)

(* Every version is a number and every copy of the cloud is a remote.      *)
LEMMA Numbers ==
  ASSUME TypeOK
  PROVE  /\ cloud.version \in Nat /\ conn.version \in Nat /\ late.expected \in Nat
         /\ sync.base \in Nat /\ sync.reply.version \in Nat
         /\ choice.base \in Nat /\ choice.reply.version \in Nat
         /\ conflict.version \in Nat /\ conflict \in Remote
         /\ sync.reply \in Remote /\ choice.reply \in Remote
         /\ \A i \in DOMAIN queue : queue[i] \in Task /\ queue[i].remote \in Remote
         /\ \A p \in Pairings : pairing[p].reply \in Remote
<1>1. \A i \in DOMAIN queue : queue[i] \in Task
  BY ElementOfSeq DEF TypeOK
<1> QED BY <1>1 DEF TypeOK, Remote, Connection, Push, Op, Task, Pairing

(* Removing the first task moves the others up by one.                     *)
LEMMA HeadIsFirst ==
  ASSUME TypeOK, queue # <<>>
  PROVE  /\ 1 \in DOMAIN queue /\ queue[1] = Head(queue)
         /\ \A i \in DOMAIN Tail(queue) : i + 1 \in DOMAIN queue /\ Tail(queue)[i] = queue[i + 1]
  BY HeadTailProperties, LenProperties, EmptySeq DEF TypeOK

(* A task added to the queue is its last one.                              *)
LEMMA LastOfAppend ==
  ASSUME TypeOK, NEW t \in Task, queue' = Append(queue, t)
  PROVE  \A i \in DOMAIN queue' : (i \in DOMAIN queue /\ queue'[i] = queue[i]) \/ queue'[i] = t
  BY AppendProperties, LenProperties DEF TypeOK

(* What a sync captures before its first await.                            *)
LEMMA StartedOp ==
  ASSUME NEW e \in Envelope, StartSync(e)
  PROVE  /\ sync'.items = e /\ sync'.base = conn.version /\ sync'.reply = NoRemote
         /\ (sync'.pc = "push" /\ conn.dirty) \/ (sync'.pc = "fetch" /\ ~conn.dirty)
  BY DEF StartSync, NoOp

(* "No remote" counts as an outdated copy of the cloud vault.              *)
LEMMA NoRemoteIsCopy == ASSUME TypeOK, cloud.version > 0 PROVE CopyOfCloud(NoRemote)
  BY Numbers DEF CopyOfCloud, NoRemote

(* A request that is not under way covers everything.                      *)
LEMMA NoOpIsCovered ==
  ASSUME TypeOK, cloud.version > 0
  PROVE  /\ Covers(NoOp.items, NoOp.base) /\ NoOp.items = {} /\ NoOp.pc = "idle"
         /\ NoOp.reply = NoRemote
  BY Numbers DEF Covers, NoOp

(* What every step does to the cloud vault, as far as the proof needs it.  *)
CloudGrows ==
  /\ setAside \subseteq setAside'
  /\ \/ cloud' = cloud
     \/ /\ cloud'.version = cloud.version + 1
        /\ cloud.items \subseteq cloud'.items \cup setAside'

(* A copy of the cloud vault stays one when the cloud vault grows.         *)
LEMMA CopyStays ==
  ASSUME TypeOK, TypeOK', CloudGrows, NEW r \in Remote, CopyOfCloud(r)
  PROVE  /\ r.version <= cloud'.version
         /\ r.items \subseteq cloud'.items \cup setAside'
         /\ r.version = cloud'.version => r.items = cloud'.items
<1>1. cloud.version \in Nat /\ r.version \in Nat
  BY DEF TypeOK, Remote
<1> QED BY <1>1 DEF CopyOfCloud, CloudGrows

(* A push that loses nothing still loses nothing after the cloud grew.     *)
LEMMA CoverStays ==
  ASSUME TypeOK, CloudGrows, NEW items, NEW version \in Nat, Covers(items, version)
  PROVE  /\ version <= cloud'.version
         /\ version = cloud'.version => cloud'.items \subseteq items \cup setAside'
<1>1. cloud.version \in Nat
  BY DEF TypeOK, Remote
<1> QED BY <1>1 DEF Covers, CloudGrows

USE DEF BrokerInv, DataInv, SessionInv, VersionInv, OpenIffSession, HeadIs, Paired, store, memory, tasks, history

(* A lock drops the payload and touches no file.                           *)
LEMMA LockData ==
  ASSUME BrokerInv, DataInv, Lock, exposed' = {} PROVE DataInv'
<1> USE DEF Lock, ReleaseSecrets
<1>1. LocalInv'
  BY DEF LocalInv, Covers, OnDisk
<1>2. CopiesInv'
  BY DEF CopiesInv, CopyOfCloud, OnDisk
<1>3. RequestsInv'
  BY DEF RequestsInv, Covers, OnDisk
<1>4. NothingSilentlyLost'
  BY DEF NothingSilentlyLost, LocalInv, OnDisk
<1>5. CleanMeansSynced'
  BY DEF CleanMeansSynced, LocalInv, OnDisk
<1> QED BY <1>1, <1>2, <1>3, <1>4, <1>5

(* An unlock that begins changes nothing yet.                              *)
LEMMA RequestUnlockData ==
  ASSUME BrokerInv, DataInv, NEW k \in Prompts, RequestUnlock(k), exposed' = {} PROVE DataInv'
<1> USE DEF RequestUnlock
<1>1. LocalInv'
  BY DEF LocalInv, Covers, OnDisk
<1>2. CopiesInv'
  BY DEF CopiesInv, CopyOfCloud, OnDisk
<1>3. RequestsInv'
  BY DEF RequestsInv, Covers, OnDisk
<1>4. NothingSilentlyLost'
  BY DEF NothingSilentlyLost, LocalInv, OnDisk
<1>5. CleanMeansSynced'
  BY DEF CleanMeansSynced, LocalInv, OnDisk
<1> QED BY <1>1, <1>2, <1>3, <1>4, <1>5

(* Nor does one that fails.                                                *)
LEMMA FailUnlockData ==
  ASSUME BrokerInv, DataInv, NEW k \in Unlocks, FailUnlock(k), exposed' = {} PROVE DataInv'
<1> USE DEF FailUnlock
<1>1. LocalInv'
  BY DEF LocalInv, Covers, OnDisk
<1>2. CopiesInv'
  BY DEF CopiesInv, CopyOfCloud, OnDisk
<1>3. RequestsInv'
  BY DEF RequestsInv, Covers, OnDisk
<1>4. NothingSilentlyLost'
  BY DEF NothingSilentlyLost, LocalInv, OnDisk
<1>5. CleanMeansSynced'
  BY DEF CleanMeansSynced, LocalInv, OnDisk
<1> QED BY <1>1, <1>2, <1>3, <1>4, <1>5

(* An unlock of the current envelope shows what is on disk.                *)
LEMMA FinishUnlockData ==
  ASSUME BrokerInv, DataInv, NEW k \in Unlocks, FinishUnlock(k), exposed' = {} PROVE DataInv'
<1> USE DEF FinishUnlock
<1>1. /\ env \in Envelope /\ exposed = {}
      /\ \/ sync' = sync
         \/ /\ sync'.items = env /\ sync'.base = conn.version /\ sync'.reply = NoRemote
            /\ (sync'.pc = "push" /\ conn.dirty) \/ (sync'.pc = "fetch" /\ ~conn.dirty)
            /\ conn.version # 0
  BY StartedOp DEF TypeOK
<1>2. env = diskEnv /\ OnDisk = env /\ OnDisk' = env
  BY <1>1, EnvelopeNotNone DEF LocalInv, OnDisk
<1>3. LocalInv'
  BY <1>1, <1>2 DEF LocalInv, Covers
<1>4. CopiesInv'
  BY <1>1, NoRemoteIsCopy DEF CopiesInv, CopyOfCloud
<1>5. RequestsInv'
  BY <1>1, <1>2 DEF RequestsInv, LocalInv, CleanMeansSynced, Covers
<1>6. NothingSilentlyLost' /\ CleanMeansSynced'
  BY <1>1, <1>2 DEF NothingSilentlyLost, CleanMeansSynced
<1> QED BY <1>3, <1>4, <1>5, <1>6

(* A sync captures the envelope and the version it is based on.            *)
LEMMA SyncNowData ==
  ASSUME BrokerInv, DataInv, SyncNow, exposed' = {} PROVE DataInv'
<1> USE DEF SyncNow, CanSync
<1>1. /\ env \in Envelope /\ exposed = {}
      /\ \/ sync' = sync
         \/ /\ sync'.items = env /\ sync'.base = conn.version /\ sync'.reply = NoRemote
            /\ (sync'.pc = "push" /\ conn.dirty) \/ (sync'.pc = "fetch" /\ ~conn.dirty)
            /\ conn.version # 0
  BY StartedOp DEF TypeOK
<1>2. env = diskEnv /\ OnDisk = env /\ OnDisk' = env
  BY <1>1, EnvelopeNotNone DEF LocalInv, OnDisk
<1>3. LocalInv'
  BY <1>1, <1>2 DEF LocalInv, Covers
<1>4. CopiesInv'
  BY <1>1, NoRemoteIsCopy DEF CopiesInv, CopyOfCloud
<1>5. RequestsInv'
  BY <1>1, <1>2 DEF RequestsInv, LocalInv, CleanMeansSynced, Covers
<1>6. NothingSilentlyLost' /\ CleanMeansSynced'
  BY <1>1, <1>2 DEF NothingSilentlyLost, CleanMeansSynced
<1> QED BY <1>3, <1>4, <1>5, <1>6

(* So does the one the timer starts.                                       *)
(* So does the one the timer starts.                                       *)
LEMMA TimerFiresData ==
  ASSUME BrokerInv, DataInv, TimerFires, exposed' = {} PROVE DataInv'
<1>1. CASE CanSync
  <2> USE DEF TimerFires, CanSync
  <2>1. /\ env \in Envelope /\ exposed = {}
        /\ sync'.items = env /\ sync'.base = conn.version /\ sync'.reply = NoRemote
        /\ (sync'.pc = "push" /\ conn.dirty) \/ (sync'.pc = "fetch" /\ ~conn.dirty)
        /\ conn.version # 0
    BY <1>1, StartedOp DEF TypeOK
  <2>2. env = diskEnv /\ OnDisk = env /\ OnDisk' = env
    BY <2>1, EnvelopeNotNone DEF LocalInv, OnDisk
  <2>3. LocalInv'
    BY <2>1, <2>2 DEF LocalInv, Covers
  <2>4. CopiesInv'
    BY <2>1, NoRemoteIsCopy DEF CopiesInv, CopyOfCloud
  <2>5. RequestsInv'
    BY <2>1, <2>2 DEF RequestsInv, LocalInv, CleanMeansSynced, Covers
  <2>6. NothingSilentlyLost' /\ CleanMeansSynced'
    BY <2>1, <2>2 DEF NothingSilentlyLost, CleanMeansSynced
  <2> QED BY <2>3, <2>4, <2>5, <2>6
<1>2. CASE ~CanSync
  BY <1>2 DEF TimerFires, LocalInv, CopiesInv, RequestsInv, NothingSilentlyLost,
     CleanMeansSynced, OnDisk, Covers, CopyOfCloud
<1> QED BY <1>1, <1>2

(* An edit that waits in the queue is not saved yet.                       *)
LEMMA AskMutationData ==
  ASSUME BrokerInv, DataInv, NEW e \in Edits, AskMutation(e), exposed' = {} PROVE DataInv'
<1> USE DEF AskMutation, Enqueue, Mutation
<1>1. LocalInv'
  BY LastOfAppend, NoRemoteIsCopy DEF LocalInv, Covers, OnDisk, Task, Envelope, CopyOfCloud
<1>2. CopiesInv'
  BY LastOfAppend, NoRemoteIsCopy DEF CopiesInv, CopyOfCloud, OnDisk, Task, Envelope, CopyOfCloud
<1>3. RequestsInv'
  BY LastOfAppend, NoRemoteIsCopy DEF RequestsInv, Covers, OnDisk, Task, Envelope, CopyOfCloud
<1>4. NothingSilentlyLost'
  BY LastOfAppend, NoRemoteIsCopy DEF NothingSilentlyLost, LocalInv, OnDisk, Task, Envelope, CopyOfCloud
<1>5. CleanMeansSynced'
  BY LastOfAppend, NoRemoteIsCopy DEF CleanMeansSynced, LocalInv, OnDisk, Task, Envelope, CopyOfCloud
<1> QED BY <1>1, <1>2, <1>3, <1>4, <1>5

(* Another device only adds to the cloud vault.                            *)
LEMMA OtherDevicePushesData ==
  ASSUME BrokerInv, DataInv, NEW e \in Edits, OtherDevicePushes(e), exposed' = {} PROVE DataInv'
<1> USE DEF OtherDevicePushes
<1>0. CloudGrows /\ TypeOK'
  BY OtherDevicePushesStep DEF CloudGrows
<1>1. LocalInv'
  BY <1>0, Numbers, CopyStays, CoverStays DEF LocalInv, Covers, OnDisk
<1>2. CopiesInv'
  BY <1>0, Numbers, CopyStays, CoverStays DEF CopiesInv, CopyOfCloud, OnDisk
<1>3. RequestsInv'
  BY <1>0, Numbers, CopyStays, CoverStays DEF RequestsInv, Covers, OnDisk
<1>4. NothingSilentlyLost'
  BY <1>0, Numbers, CopyStays, CoverStays DEF NothingSilentlyLost, LocalInv, OnDisk
<1>5. CleanMeansSynced'
  BY <1>0, Numbers, CopyStays, CoverStays DEF CleanMeansSynced, LocalInv, OnDisk
<1> QED BY <1>1, <1>2, <1>3, <1>4, <1>5

(* A task starts from the payload, which is the envelope's.                *)
LEMMA TaskStartsData ==
  ASSUME BrokerInv, DataInv, TaskStarts, exposed' = {} PROVE DataInv'
<1> USE DEF TaskStarts, MayStart, MayMutate, MayAccept, Unlocked
<1>1. LocalInv'
  BY DEF LocalInv, Covers, OnDisk
<1>2. CopiesInv'
  BY DEF CopiesInv, CopyOfCloud, OnDisk
<1>3. RequestsInv'
  BY DEF RequestsInv, Covers, OnDisk
<1>4. NothingSilentlyLost'
  BY DEF NothingSilentlyLost, LocalInv, OnDisk
<1>5. CleanMeansSynced'
  BY DEF CleanMeansSynced, LocalInv, OnDisk
<1> QED BY <1>1, <1>2, <1>3, <1>4, <1>5

(* A refused task leaves the queue and nothing else.                       *)
LEMMA TaskRefusedData ==
  ASSUME BrokerInv, DataInv, TaskRefused, exposed' = {} PROVE DataInv'
<1> USE DEF TaskRefused, Rejected, AfterRejection
<1>0. sync' \in {sync, NoOp} /\ queue' = Tail(queue) /\ queue # <<>>
  OBVIOUS
<1>1. LocalInv'
  BY <1>0, HeadIsFirst, NoRemoteIsCopy, NoOpIsCovered DEF LocalInv, Covers, OnDisk, NoJob
<1>2. CopiesInv'
  BY <1>0, HeadIsFirst, NoRemoteIsCopy, NoOpIsCovered DEF CopiesInv, CopyOfCloud, OnDisk, NoJob
<1>3. RequestsInv'
  BY <1>0, HeadIsFirst, NoRemoteIsCopy, NoOpIsCovered DEF RequestsInv, Covers, OnDisk, NoJob
<1>4. NothingSilentlyLost'
  BY <1>0, HeadIsFirst, NoRemoteIsCopy, NoOpIsCovered DEF NothingSilentlyLost, LocalInv, OnDisk, NoJob
<1>5. CleanMeansSynced'
  BY <1>0, HeadIsFirst, NoRemoteIsCopy, NoOpIsCovered DEF CleanMeansSynced, LocalInv, OnDisk, NoJob
<1> QED BY <1>1, <1>2, <1>3, <1>4, <1>5

(* So does a pull that finds the vault locked after its await.             *)
LEMMA AcceptMeetsLockData ==
  ASSUME BrokerInv, DataInv, AcceptMeetsLock, exposed' = {} PROVE DataInv'
<1> USE DEF AcceptMeetsLock, Rejected, AfterRejection
<1>0. sync' \in {sync, NoOp} /\ queue' = Tail(queue) /\ queue # <<>>
  OBVIOUS
<1>1. LocalInv'
  BY <1>0, HeadIsFirst, NoRemoteIsCopy, NoOpIsCovered DEF LocalInv, Covers, OnDisk, NoJob
<1>2. CopiesInv'
  BY <1>0, HeadIsFirst, NoRemoteIsCopy, NoOpIsCovered DEF CopiesInv, CopyOfCloud, OnDisk, NoJob
<1>3. RequestsInv'
  BY <1>0, HeadIsFirst, NoRemoteIsCopy, NoOpIsCovered DEF RequestsInv, Covers, OnDisk, NoJob
<1>4. NothingSilentlyLost'
  BY <1>0, HeadIsFirst, NoRemoteIsCopy, NoOpIsCovered DEF NothingSilentlyLost, LocalInv, OnDisk, NoJob
<1>5. CleanMeansSynced'
  BY <1>0, HeadIsFirst, NoRemoteIsCopy, NoOpIsCovered DEF CleanMeansSynced, LocalInv, OnDisk, NoJob
<1> QED BY <1>1, <1>2, <1>3, <1>4, <1>5

(* So does a task that fails.                                              *)
LEMMA TaskFailsData ==
  ASSUME BrokerInv, DataInv, TaskFails, exposed' = {} PROVE DataInv'
<1> USE DEF TaskFails, Rejected, AfterRejection
<1>0. sync' \in {sync, NoOp} /\ queue' = Tail(queue) /\ queue # <<>>
  OBVIOUS
<1>1. LocalInv'
  BY <1>0, HeadIsFirst, NoRemoteIsCopy, NoOpIsCovered DEF LocalInv, Covers, OnDisk, NoJob
<1>2. CopiesInv'
  BY <1>0, HeadIsFirst, NoRemoteIsCopy, NoOpIsCovered DEF CopiesInv, CopyOfCloud, OnDisk, NoJob
<1>3. RequestsInv'
  BY <1>0, HeadIsFirst, NoRemoteIsCopy, NoOpIsCovered DEF RequestsInv, Covers, OnDisk, NoJob
<1>4. NothingSilentlyLost'
  BY <1>0, HeadIsFirst, NoRemoteIsCopy, NoOpIsCovered DEF NothingSilentlyLost, LocalInv, OnDisk, NoJob
<1>5. CleanMeansSynced'
  BY <1>0, HeadIsFirst, NoRemoteIsCopy, NoOpIsCovered DEF CleanMeansSynced, LocalInv, OnDisk, NoJob
<1> QED BY <1>1, <1>2, <1>3, <1>4, <1>5

(* A torn write opens a window.                                            *)
LEMMA TaskTornData ==
  ASSUME BrokerInv, DataInv, TaskTorn, exposed' = {} PROVE DataInv'
  BY DEF TaskTorn

(* A pull that meets a change only records the conflict.                   *)
LEMMA PullMeetsChangeData ==
  ASSUME BrokerInv, DataInv, PullMeetsChange, exposed' = {} PROVE DataInv'
<1> USE DEF PullMeetsChange, SetConflict
<1>1. LocalInv'
  BY HeadIsFirst, NoRemoteIsCopy, NoOpIsCovered DEF LocalInv, Covers, OnDisk, NoJob
<1>2. CopiesInv'
  BY HeadIsFirst, NoRemoteIsCopy, NoOpIsCovered DEF CopiesInv, CopyOfCloud, OnDisk, NoJob
<1>3. RequestsInv'
  BY HeadIsFirst, NoRemoteIsCopy, NoOpIsCovered DEF RequestsInv, Covers, OnDisk, NoJob
<1>4. NothingSilentlyLost'
  BY HeadIsFirst, NoRemoteIsCopy, NoOpIsCovered DEF NothingSilentlyLost, LocalInv, OnDisk, NoJob
<1>5. CleanMeansSynced'
  BY HeadIsFirst, NoRemoteIsCopy, NoOpIsCovered DEF CleanMeansSynced, LocalInv, OnDisk, NoJob
<1> QED BY <1>1, <1>2, <1>3, <1>4, <1>5

(* A save extends the envelope it started from.                            *)
LEMMA MutationPersistsData ==
  ASSUME BrokerInv, DataInv, MutationPersists, exposed' = {} PROVE DataInv'
<1> USE DEF MutationPersists, SessionCurrent
<1>0. /\ env' = env \cup Head(queue).items /\ diskEnv' = env'
      /\ OnDisk = env /\ OnDisk' = env'
  BY HeadTask, EnvelopeNotNone DEF LocalInv, OnDisk, Result
<1>1. LocalInv'
  <2>1. OnDisk \cup setAside \subseteq OnDisk' \cup setAside'  BY <1>0
  <2>2. UNCHANGED <<sync, choice, late, cloud>> /\ conn'.version = conn.version
    BY DEF TypeOK, Connection
  <2>3. payload' # None => payload' = env'
    BY <1>0
  <2>4. Covers(OnDisk, conn.version)'
    BY <1>0, <2>1, <2>2 DEF LocalInv, Covers
  <2>5. ~job'.running
    BY DEF NoJob
  <2> QED BY <1>0, <2>1, <2>2, <2>3, <2>4, <2>5 DEF LocalInv
<1>2. CopiesInv'
  BY <1>0, HeadIsFirst DEF CopiesInv, CopyOfCloud, CopyOfCloud, NoJob
<1>3. RequestsInv'
  BY <1>0, HeadIsFirst DEF RequestsInv, Covers, CopyOfCloud, NoJob
<1>4. NothingSilentlyLost'
  BY <1>0, HeadIsFirst DEF NothingSilentlyLost, LocalInv, CopyOfCloud, NoJob
<1>5. CleanMeansSynced'
  BY <1>0, HeadIsFirst DEF CleanMeansSynced, LocalInv, CopyOfCloud, NoJob
<1> QED BY <1>1, <1>2, <1>3, <1>4, <1>5

(* A pull replaces what the cloud has; a choice sets aside the rest.       *)
LEMMA AcceptPersistsData ==
  ASSUME BrokerInv, DataInv, AcceptPersists, exposed' = {} PROVE DataInv'
<1> USE DEF AcceptPersists, SessionCurrent
<1>0. /\ env' = Head(queue).remote.items /\ diskEnv' = env'
      /\ OnDisk = env /\ OnDisk' = env' /\ setAside \subseteq setAside'
      /\ env \subseteq env' \cup setAside' /\ cloud' = cloud
      /\ Head(queue).remote \in Remote /\ CopyOfCloud(Head(queue).remote)
  BY HeadTask, HeadIsFirst, EnvelopeNotNone
     DEF LocalInv, OnDisk, Result, RequestsInv, CopiesInv, PullBasisHolds
<1>1. LocalInv'
  BY <1>0, HeadIsFirst, HeadTask, Numbers, NoRemoteIsCopy DEF LocalInv, Covers, NoJob, NoOp, NoRemote, CopyOfCloud
<1>2. CopiesInv'
  BY <1>0, HeadIsFirst, HeadTask, Numbers, NoRemoteIsCopy DEF CopiesInv, CopyOfCloud, NoJob, NoOp, NoRemote, CopyOfCloud
<1>3. RequestsInv'
  BY <1>0, HeadIsFirst, HeadTask, Numbers, NoRemoteIsCopy DEF RequestsInv, Covers, NoJob, NoOp, NoRemote, CopyOfCloud
<1>4. NothingSilentlyLost'
  BY <1>0, HeadIsFirst, HeadTask, Numbers, NoRemoteIsCopy DEF NothingSilentlyLost, LocalInv, NoJob, NoOp, NoRemote, CopyOfCloud
<1>5. CleanMeansSynced'
  BY <1>0, HeadIsFirst, HeadTask, Numbers, NoRemoteIsCopy DEF CleanMeansSynced, LocalInv, NoJob, NoOp, NoRemote, CopyOfCloud
<1> QED BY <1>1, <1>2, <1>3, <1>4, <1>5

(* A push that the cloud took clears the mark for what it sent.            *)
LEMMA SyncPushedData ==
  ASSUME BrokerInv, DataInv, SyncPushed, exposed' = {} PROVE DataInv'
<1> USE DEF SyncPushed, MarkPushSucceeded, ChangedDuringSync
<1>1. LocalInv'
  BY Numbers, NoRemoteIsCopy DEF LocalInv, Covers, OnDisk, CopyOfCloud, NoRemote, NoOp, CopiesInv, RequestsInv
<1>2. CopiesInv'
  BY Numbers, NoRemoteIsCopy DEF CopiesInv, CopyOfCloud, OnDisk, CopyOfCloud, NoRemote, NoOp, CopiesInv, RequestsInv
<1>3. RequestsInv'
  BY Numbers, NoRemoteIsCopy DEF RequestsInv, Covers, OnDisk, CopyOfCloud, NoRemote, NoOp, CopiesInv, RequestsInv
<1>4. NothingSilentlyLost'
  BY Numbers, NoRemoteIsCopy DEF NothingSilentlyLost, LocalInv, OnDisk, CopyOfCloud, NoRemote, NoOp, CopiesInv, RequestsInv
<1>5. CleanMeansSynced'
  BY Numbers, NoRemoteIsCopy DEF CleanMeansSynced, LocalInv, OnDisk, CopyOfCloud, NoRemote, NoOp, CopiesInv, RequestsInv
<1> QED BY <1>1, <1>2, <1>3, <1>4, <1>5

(* So does a chosen push.                                                  *)
LEMMA ChoicePushedData ==
  ASSUME BrokerInv, DataInv, ChoicePushed, exposed' = {} PROVE DataInv'
<1> USE DEF ChoicePushed, MarkPushSucceeded, ChangedDuringSync
<1>1. LocalInv'
  BY Numbers, NoRemoteIsCopy DEF LocalInv, Covers, OnDisk, CopyOfCloud, NoRemote, NoOp, CopiesInv, RequestsInv
<1>2. CopiesInv'
  BY Numbers, NoRemoteIsCopy DEF CopiesInv, CopyOfCloud, OnDisk, CopyOfCloud, NoRemote, NoOp, CopiesInv, RequestsInv
<1>3. RequestsInv'
  BY Numbers, NoRemoteIsCopy DEF RequestsInv, Covers, OnDisk, CopyOfCloud, NoRemote, NoOp, CopiesInv, RequestsInv
<1>4. NothingSilentlyLost'
  BY Numbers, NoRemoteIsCopy DEF NothingSilentlyLost, LocalInv, OnDisk, CopyOfCloud, NoRemote, NoOp, CopiesInv, RequestsInv
<1>5. CleanMeansSynced'
  BY Numbers, NoRemoteIsCopy DEF CleanMeansSynced, LocalInv, OnDisk, CopyOfCloud, NoRemote, NoOp, CopiesInv, RequestsInv
<1> QED BY <1>1, <1>2, <1>3, <1>4, <1>5

(* A fetch of nothing new confirms the version it was based on.            *)
LEMMA FetchedNothingNewData ==
  ASSUME BrokerInv, DataInv, FetchedNothingNew, exposed' = {} PROVE DataInv'
<1> USE DEF FetchedNothingNew, MarkPushSucceeded, ChangedDuringSync
<1>1. LocalInv'
  BY Numbers, NoRemoteIsCopy DEF LocalInv, Covers, OnDisk, CopyOfCloud, NoRemote, NoOp, CopiesInv, RequestsInv
<1>2. CopiesInv'
  BY Numbers, NoRemoteIsCopy DEF CopiesInv, CopyOfCloud, OnDisk, CopyOfCloud, NoRemote, NoOp, CopiesInv, RequestsInv
<1>3. RequestsInv'
  BY Numbers, NoRemoteIsCopy DEF RequestsInv, Covers, OnDisk, CopyOfCloud, NoRemote, NoOp, CopiesInv, RequestsInv
<1>4. NothingSilentlyLost'
  BY Numbers, NoRemoteIsCopy DEF NothingSilentlyLost, LocalInv, OnDisk, CopyOfCloud, NoRemote, NoOp, CopiesInv, RequestsInv
<1>5. CleanMeansSynced'
  BY Numbers, NoRemoteIsCopy DEF CleanMeansSynced, LocalInv, OnDisk, CopyOfCloud, NoRemote, NoOp, CopiesInv, RequestsInv
<1> QED BY <1>1, <1>2, <1>3, <1>4, <1>5

(* A 409 only records the conflict.                                        *)
LEMMA SyncRefusedData ==
  ASSUME BrokerInv, DataInv, SyncRefused, exposed' = {} PROVE DataInv'
<1> USE DEF SyncRefused, SetConflict
<1>1. LocalInv'
  BY Numbers, NoRemoteIsCopy DEF LocalInv, Covers, OnDisk, NoRemote, NoOp
<1>2. CopiesInv'
  BY Numbers, NoRemoteIsCopy DEF CopiesInv, CopyOfCloud, OnDisk, NoRemote, NoOp
<1>3. RequestsInv'
  BY Numbers, NoRemoteIsCopy DEF RequestsInv, Covers, OnDisk, NoRemote, NoOp
<1>4. NothingSilentlyLost'
  BY Numbers, NoRemoteIsCopy DEF NothingSilentlyLost, LocalInv, OnDisk, NoRemote, NoOp
<1>5. CleanMeansSynced'
  BY Numbers, NoRemoteIsCopy DEF CleanMeansSynced, LocalInv, OnDisk, NoRemote, NoOp
<1> QED BY <1>1, <1>2, <1>3, <1>4, <1>5

(* A pull enters the queue with its basis.                                 *)
LEMMA FetchedNewerData ==
  ASSUME BrokerInv, DataInv, FetchedNewer, exposed' = {} PROVE DataInv'
<1> USE DEF FetchedNewer, Enqueue, Pull
<1>1. LocalInv'
  BY LastOfAppend DEF LocalInv, Covers, OnDisk, Task, TypeOK, Op, CopyOfCloud, CopiesInv
<1>2. CopiesInv'
  BY LastOfAppend DEF CopiesInv, CopyOfCloud, OnDisk, Task, TypeOK, Op, CopyOfCloud, CopiesInv
<1>3. RequestsInv'
  BY LastOfAppend DEF RequestsInv, Covers, OnDisk, Task, TypeOK, Op, CopyOfCloud, CopiesInv
<1>4. NothingSilentlyLost'
  BY LastOfAppend DEF NothingSilentlyLost, LocalInv, OnDisk, Task, TypeOK, Op, CopyOfCloud, CopiesInv
<1>5. CleanMeansSynced'
  BY LastOfAppend DEF CleanMeansSynced, LocalInv, OnDisk, Task, TypeOK, Op, CopyOfCloud, CopiesInv
<1> QED BY <1>1, <1>2, <1>3, <1>4, <1>5

(* A push given up on may become late, with its base.                      *)
LEMMA SyncFailsData ==
  ASSUME BrokerInv, DataInv, SyncFails, exposed' = {} PROVE DataInv'
<1> USE DEF SyncFails, MaybeLate
<1>1. LocalInv'
  BY Numbers, NoRemoteIsCopy DEF LocalInv, Covers, OnDisk, NoRemote, NoOp
<1>2. CopiesInv'
  BY Numbers, NoRemoteIsCopy DEF CopiesInv, CopyOfCloud, OnDisk, NoRemote, NoOp
<1>3. RequestsInv'
  BY Numbers, NoRemoteIsCopy DEF RequestsInv, Covers, OnDisk, NoRemote, NoOp
<1>4. NothingSilentlyLost'
  BY Numbers, NoRemoteIsCopy DEF NothingSilentlyLost, LocalInv, OnDisk, NoRemote, NoOp
<1>5. CleanMeansSynced'
  BY Numbers, NoRemoteIsCopy DEF CleanMeansSynced, LocalInv, OnDisk, NoRemote, NoOp
<1> QED BY <1>1, <1>2, <1>3, <1>4, <1>5

(* So may a chosen push.                                                   *)
LEMMA ChoiceFailsData ==
  ASSUME BrokerInv, DataInv, ChoiceFails, exposed' = {} PROVE DataInv'
<1> USE DEF ChoiceFails, MaybeLate
<1>1. LocalInv'
  BY Numbers, NoRemoteIsCopy DEF LocalInv, Covers, OnDisk, NoRemote, NoOp
<1>2. CopiesInv'
  BY Numbers, NoRemoteIsCopy DEF CopiesInv, CopyOfCloud, OnDisk, NoRemote, NoOp
<1>3. RequestsInv'
  BY Numbers, NoRemoteIsCopy DEF RequestsInv, Covers, OnDisk, NoRemote, NoOp
<1>4. NothingSilentlyLost'
  BY Numbers, NoRemoteIsCopy DEF NothingSilentlyLost, LocalInv, OnDisk, NoRemote, NoOp
<1>5. CleanMeansSynced'
  BY Numbers, NoRemoteIsCopy DEF CleanMeansSynced, LocalInv, OnDisk, NoRemote, NoOp
<1> QED BY <1>1, <1>2, <1>3, <1>4, <1>5

(* Keeping the cloud vault enters the queue.                               *)
LEMMA ChooseCloudData ==
  ASSUME BrokerInv, DataInv, ChooseCloud, exposed' = {} PROVE DataInv'
<1> USE DEF ChooseCloud, Enqueue, KeepCloud
<1>1. LocalInv'
  BY LastOfAppend, Numbers DEF LocalInv, Covers, OnDisk, Task, Envelope, CopyOfCloud, CopiesInv
<1>2. CopiesInv'
  BY LastOfAppend, Numbers DEF CopiesInv, CopyOfCloud, OnDisk, Task, Envelope, CopyOfCloud, CopiesInv
<1>3. RequestsInv'
  BY LastOfAppend, Numbers DEF RequestsInv, Covers, OnDisk, Task, Envelope, CopyOfCloud, CopiesInv
<1>4. NothingSilentlyLost'
  BY LastOfAppend, Numbers DEF NothingSilentlyLost, LocalInv, OnDisk, Task, Envelope, CopyOfCloud, CopiesInv
<1>5. CleanMeansSynced'
  BY LastOfAppend, Numbers DEF CleanMeansSynced, LocalInv, OnDisk, Task, Envelope, CopyOfCloud, CopiesInv
<1> QED BY <1>1, <1>2, <1>3, <1>4, <1>5

(* Keeping the local vault captures the envelope.                          *)
LEMMA ChooseLocalData ==
  ASSUME BrokerInv, DataInv, ChooseLocal, exposed' = {} PROVE DataInv'
<1> USE DEF ChooseLocal, NoOp
<1>1. LocalInv'
  BY Numbers, NoRemoteIsCopy, EnvelopeNotNone DEF LocalInv, Covers, OnDisk, TypeOK, CopiesInv, CopyOfCloud
<1>2. CopiesInv'
  BY Numbers, NoRemoteIsCopy, EnvelopeNotNone DEF CopiesInv, CopyOfCloud, OnDisk, TypeOK, CopiesInv, CopyOfCloud
<1>3. RequestsInv'
  BY Numbers, NoRemoteIsCopy, EnvelopeNotNone DEF RequestsInv, Covers, OnDisk, TypeOK, CopiesInv, CopyOfCloud
<1>4. NothingSilentlyLost'
  BY Numbers, NoRemoteIsCopy, EnvelopeNotNone DEF NothingSilentlyLost, LocalInv, OnDisk, TypeOK, CopiesInv, CopyOfCloud
<1>5. CleanMeansSynced'
  BY Numbers, NoRemoteIsCopy, EnvelopeNotNone DEF CleanMeansSynced, LocalInv, OnDisk, TypeOK, CopiesInv, CopyOfCloud
<1> QED BY <1>1, <1>2, <1>3, <1>4, <1>5

(* A push of a covered envelope makes the cloud grow.                      *)
LEMMA ServiceAnswersSyncData ==
  ASSUME BrokerInv, DataInv, ServiceAnswersSync, exposed' = {} PROVE DataInv'
<1> USE DEF ServiceAnswersSync
<1>0. CloudGrows /\ TypeOK'
  BY ServiceAnswersSyncStep DEF CloudGrows, CloudTakes, RequestsInv, Covers
<1>1. /\ UNCHANGED <<diskEnv, conn, env, payload, job, choice, late, conflict, queue, pairing>>
      /\ UNCHANGED <<known, setAside>> /\ OnDisk' = OnDisk /\ exposed = {}
  BY DEF OnDisk
<1>2. /\ sync'.items = sync.items /\ sync'.base = sync.base
      /\ CopyOfCloud(sync.reply)' /\ sync'.pc # "fetch"
      /\ sync'.pc = "pushed" => sync'.reply.items = sync'.items
      /\ sync'.pc = "fetched" => sync'.items \subseteq sync'.reply.items \cup setAside'
  <2>1. CASE sync.pc = "push" /\ CloudTakes(sync) /\ sync' = Answered(sync)
    BY <1>1, <2>1, Numbers DEF CloudTakes, Answered, CopyOfCloud, TypeOK, Op
  <2>2. CASE /\ sync.pc = "fetch" /\ UNCHANGED cloud
             /\ sync' = [sync EXCEPT !.pc = "fetched", !.reply = cloud]
    BY <1>1, <2>2, Numbers DEF CopyOfCloud, TypeOK, Op, RequestsInv
  <2> QED BY <2>1, <2>2
<1>3. LocalInv'
  BY <1>0, <1>1, <1>2, Numbers, CoverStays DEF LocalInv, Covers
<1>4. CopiesInv'
  BY <1>0, <1>1, <1>2, Numbers, CopyStays DEF CopiesInv, CopyOfCloud
<1>5. RequestsInv'
  BY <1>0, <1>1, <1>2, Numbers, CoverStays DEF RequestsInv, Covers, CloudGrows
<1>6. NothingSilentlyLost' /\ CleanMeansSynced'
  BY <1>0, <1>1 DEF NothingSilentlyLost, CleanMeansSynced, CloudGrows
<1> QED BY <1>3, <1>4, <1>5, <1>6

(* A chosen push sets aside what it replaces.                              *)
LEMMA ServiceAnswersChoiceData ==
  ASSUME BrokerInv, DataInv, ServiceAnswersChoice, exposed' = {} PROVE DataInv'
<1> USE DEF ServiceAnswersChoice, CloudTakes, Answered, Replaced
<1>0. CloudGrows /\ TypeOK'
  BY ServiceAnswersChoiceStep DEF CloudGrows
<1>1. LocalInv'
  BY <1>0, Numbers, CopyStays, CoverStays DEF LocalInv, Covers, OnDisk
<1>2. CopiesInv'
  BY <1>0, Numbers, CopyStays, CoverStays DEF CopiesInv, CopyOfCloud, OnDisk
<1>3. RequestsInv'
  BY <1>0, Numbers, CopyStays, CoverStays DEF RequestsInv, Covers, OnDisk
<1>4. NothingSilentlyLost'
  BY <1>0, Numbers, CopyStays, CoverStays DEF NothingSilentlyLost, LocalInv, OnDisk
<1>5. CleanMeansSynced'
  BY <1>0, Numbers, CopyStays, CoverStays DEF CleanMeansSynced, LocalInv, OnDisk
<1> QED BY <1>1, <1>2, <1>3, <1>4, <1>5

(* A late push still meets the version it was based on, or nothing.        *)
LEMMA ServiceTakesLateData ==
  ASSUME BrokerInv, DataInv, ServiceTakesLate, exposed' = {} PROVE DataInv'
<1> USE DEF ServiceTakesLate, Replaced
<1>0. CloudGrows /\ TypeOK'
  BY ServiceTakesLateStep DEF CloudGrows, RequestsInv, Covers
<1>1. OnDisk' = OnDisk /\ exposed = {}
  BY DEF OnDisk
<1>2. LocalInv'
  BY <1>0, <1>1, Numbers, CoverStays DEF LocalInv, Covers, CloudGrows, NoPush
<1>3. CopiesInv'
  BY <1>0, Numbers, CopyStays DEF CopiesInv, CopyOfCloud
<1>4. RequestsInv'
  BY <1>0, Numbers, CoverStays DEF RequestsInv, Covers, CloudGrows, NoPush
<1>5. NothingSilentlyLost' /\ CleanMeansSynced'
  BY <1>0, <1>1 DEF NothingSilentlyLost, CleanMeansSynced, CloudGrows
<1> QED BY <1>2, <1>3, <1>4, <1>5

(* Opening the pairing dialog changes nothing.                             *)
LEMMA PairAskData ==
  ASSUME BrokerInv, DataInv, NEW p \in Pairings, PairAsk(p), exposed' = {} PROVE DataInv'
<1> USE DEF PairAsk
<1>1. LocalInv'
  BY DEF LocalInv, Covers, OnDisk, TypeOK, Pairing
<1>2. CopiesInv'
  BY DEF CopiesInv, CopyOfCloud, OnDisk, TypeOK, Pairing
<1>3. RequestsInv'
  BY DEF RequestsInv, Covers, OnDisk, TypeOK, Pairing
<1>4. NothingSilentlyLost'
  BY DEF NothingSilentlyLost, LocalInv, OnDisk, TypeOK, Pairing
<1>5. CleanMeansSynced'
  BY DEF CleanMeansSynced, LocalInv, OnDisk, TypeOK, Pairing
<1> QED BY <1>1, <1>2, <1>3, <1>4, <1>5

(* The device to be paired gets a copy of the cloud vault.                 *)
LEMMA PairFetchData ==
  ASSUME BrokerInv, DataInv, NEW p \in Pairings, PairFetch(p), exposed' = {} PROVE DataInv'
<1> USE DEF PairFetch
<1>1. LocalInv'
  BY Numbers DEF LocalInv, Covers, OnDisk, TypeOK, CopyOfCloud
<1>2. CopiesInv'
  BY Numbers DEF CopiesInv, CopyOfCloud, OnDisk, TypeOK, CopyOfCloud
<1>3. RequestsInv'
  BY Numbers DEF RequestsInv, Covers, OnDisk, TypeOK, CopyOfCloud
<1>4. NothingSilentlyLost'
  BY Numbers DEF NothingSilentlyLost, LocalInv, OnDisk, TypeOK, CopyOfCloud
<1>5. CleanMeansSynced'
  BY Numbers DEF CleanMeansSynced, LocalInv, OnDisk, TypeOK, CopyOfCloud
<1> QED BY <1>1, <1>2, <1>3, <1>4, <1>5

(* A pairing that ends early changes nothing.                              *)
LEMMA PairFailData ==
  ASSUME BrokerInv, DataInv, NEW p \in Pairings, PairFail(p), exposed' = {} PROVE DataInv'
<1> USE DEF PairFail
<1>1. LocalInv'
  BY Numbers, NoRemoteIsCopy DEF LocalInv, Covers, OnDisk, TypeOK, NoPairing
<1>2. CopiesInv'
  BY Numbers, NoRemoteIsCopy DEF CopiesInv, CopyOfCloud, OnDisk, TypeOK, NoPairing
<1>3. RequestsInv'
  BY Numbers, NoRemoteIsCopy DEF RequestsInv, Covers, OnDisk, TypeOK, NoPairing
<1>4. NothingSilentlyLost'
  BY Numbers, NoRemoteIsCopy DEF NothingSilentlyLost, LocalInv, OnDisk, TypeOK, NoPairing
<1>5. CleanMeansSynced'
  BY Numbers, NoRemoteIsCopy DEF CleanMeansSynced, LocalInv, OnDisk, TypeOK, NoPairing
<1> QED BY <1>1, <1>2, <1>3, <1>4, <1>5

(* A pairing without an earlier vault installs a copy of the cloud.        *)
LEMMA PairInstallData ==
  ASSUME BrokerInv, DataInv, NEW p \in Pairings, PairInstall(p), exposed' = {} PROVE DataInv'
<1> USE DEF PairInstall, MayInstall, ReleaseSecrets
<1>1. pairing[p].reply \in Remote /\ CopyOfCloud(pairing[p].reply) /\ exposed = {} /\ env = None
  BY Numbers DEF CopiesInv
<1>2. /\ env' = pairing[p].reply.items /\ diskEnv' = env' /\ OnDisk = {} /\ OnDisk' = env'
      /\ cloud' = cloud /\ setAside' = setAside /\ known' = known
      /\ UNCHANGED <<sync, choice, late, conflict, queue>>
      /\ payload' = None /\ ~job'.running
  BY <1>1, EnvelopeNotNone DEF LocalInv, OnDisk, Remote, TypeOK, Job
<1>3. LocalInv'
  BY <1>1, <1>2 DEF LocalInv, Covers, CopyOfCloud
<1>4. CopiesInv'
  BY <1>1, <1>2, NoRemoteIsCopy DEF CopiesInv, CopyOfCloud, NoPairing, TypeOK
<1>5. RequestsInv'
  BY <1>1, <1>2 DEF RequestsInv, Covers
<1>6. NothingSilentlyLost' /\ CleanMeansSynced'
  BY <1>1, <1>2 DEF NothingSilentlyLost, CleanMeansSynced, CopyOfCloud
<1> QED BY <1>3, <1>4, <1>5, <1>6

(* A torn installation opens a window.                                     *)
LEMMA PairTornData ==
  ASSUME BrokerInv, DataInv, NEW p \in Pairings, PairTorn(p), exposed' = {} PROVE DataInv'
  BY DEF PairTorn

(* A restart keeps the files, or sets an unreadable envelope aside.        *)
LEMMA RestartData ==
  ASSUME BrokerInv, DataInv, NEW c \in {"nothing", "envelope", "connection"}, Restart(c), exposed' = {} PROVE DataInv'
<1> USE DEF Restart, Initialized, MaybeLate
<1>1. LocalInv'
  BY Numbers, NoRemoteIsCopy DEF LocalInv, Covers, OnDisk, NoConnection, NoJob, NoOp, NoPairing, NoRemote, CopyOfCloud, TypeOK
<1>2. CopiesInv'
  BY Numbers, NoRemoteIsCopy DEF CopiesInv, CopyOfCloud, OnDisk, NoConnection, NoJob, NoOp, NoPairing, NoRemote, CopyOfCloud, TypeOK
<1>3. RequestsInv'
  BY Numbers, NoRemoteIsCopy DEF RequestsInv, Covers, OnDisk, NoConnection, NoJob, NoOp, NoPairing, NoRemote, CopyOfCloud, TypeOK
<1>4. NothingSilentlyLost'
  BY Numbers, NoRemoteIsCopy DEF NothingSilentlyLost, LocalInv, OnDisk, NoConnection, NoJob, NoOp, NoPairing, NoRemote, CopyOfCloud, TypeOK
<1>5. CleanMeansSynced'
  BY Numbers, NoRemoteIsCopy DEF CleanMeansSynced, LocalInv, OnDisk, NoConnection, NoJob, NoOp, NoPairing, NoRemote, CopyOfCloud, TypeOK
<1> QED BY <1>1, <1>2, <1>3, <1>4, <1>5

(* An acknowledgement changes no file.                                     *)
LEMMA AcknowledgeRecoveryData ==
  ASSUME BrokerInv, DataInv, AcknowledgeRecovery, exposed' = {} PROVE DataInv'
<1> USE DEF AcknowledgeRecovery
<1>1. LocalInv'
  BY DEF LocalInv, Covers, OnDisk
<1>2. CopiesInv'
  BY DEF CopiesInv, CopyOfCloud, OnDisk
<1>3. RequestsInv'
  BY DEF RequestsInv, Covers, OnDisk
<1>4. NothingSilentlyLost'
  BY DEF NothingSilentlyLost, LocalInv, OnDisk
<1>5. CleanMeansSynced'
  BY DEF CleanMeansSynced, LocalInv, OnDisk
<1> QED BY <1>1, <1>2, <1>3, <1>4, <1>5

-----------------------------------------------------------------------------
(* Nothing is saved, sent or copied at the start.                          *)
LEMMA DataInit == Init => DataInv
<1> SUFFICES ASSUME Init PROVE DataInv
  OBVIOUS
<1>1. /\ OnDisk = {} /\ env = diskEnv /\ payload = None /\ ~job.running /\ queue = <<>>
      /\ known = {} /\ cloud.version = 1 /\ cloud.items = {}
      /\ conn.version \in {0, 1}
      /\ conflict = NoRemote /\ \A p \in Pairings : pairing[p].reply = NoRemote
  BY DEF Init, OnDisk, NoJob, NoConnection, NoPairing
<1>2. sync = NoOp /\ choice = NoOp /\ late = NoPush
  BY DEF Init
<1>3. LocalInv
  BY <1>1, <1>2 DEF LocalInv, Covers, NoOp, NoPush
<1>4. CopiesInv
  BY <1>1, <1>2 DEF CopiesInv, CopyOfCloud, NoOp, NoRemote
<1>5. RequestsInv
  BY <1>1, <1>2 DEF RequestsInv, Covers, NoOp, NoPush
<1> QED BY <1>1, <1>3, <1>4, <1>5 DEF NothingSilentlyLost, CleanMeansSynced

(* The windows are history: no step clears one.                            *)
LEMMA WindowsStay == ASSUME BrokerInv, [Next]_vars PROVE exposed \subseteq exposed'
<1>2. CASE UNCHANGED vars
  BY <1>2 DEF vars
<1>3. CASE Lock \/ Unlocking \/ AcknowledgeRecovery
  BY <1>3 DEF Lock, Unlocking, AcknowledgeRecovery, RequestUnlock, FinishUnlock, FailUnlock
<1>4. CASE TaskBegins
  BY <1>4 DEF TaskBegins, TaskStarts, TaskRefused, PullMeetsChange
<1>5. CASE TaskEnds
  BY <1>5 DEF TaskEnds, MutationPersists, AcceptPersists, AcceptMeetsLock, TaskFails, TaskTorn
<1>6. CASE SyncNow \/ TimerFires \/ SyncEnds
  BY <1>6 DEF SyncEnds, SyncNow, TimerFires, SyncPushed, SyncRefused, FetchedNothingNew,
     FetchedNewer, SyncFails
<1>7. CASE Choosing
  BY <1>7 DEF Choosing, ChooseCloud, ChooseLocal, ChoicePushed, ChoiceFails
<1>8. CASE Service
  BY <1>8 DEF Service, ServiceAnswersSync, ServiceAnswersChoice, ServiceTakesLate
<1>9. CASE PairingSteps
  BY <1>9 DEF PairingSteps, PairAsk, PairFetch, PairFail, PairInstall, PairTorn
<1>10. CASE \E e \in Edits : AskMutation(e) \/ OtherDevicePushes(e)
  BY <1>10 DEF AskMutation, OtherDevicePushes
<1>11. CASE \E c \in {"nothing", "envelope", "connection"} : Restart(c)
  BY <1>11 DEF Restart
<1> QED
  BY <1>2, <1>3, <1>4, <1>5, <1>6, <1>7, <1>8, <1>9, <1>10, <1>11 DEF Next

(* DataInv is inductive relative to BrokerInv.                             *)
LEMMA DataInductive == BrokerInv /\ DataInv /\ [Next]_vars => DataInv'
<1> SUFFICES ASSUME BrokerInv, DataInv, [Next]_vars PROVE DataInv'
  OBVIOUS
<1>1. CASE exposed' # {}
  BY <1>1, WindowsStay DEF NothingSilentlyLost, CleanMeansSynced
<1>2. CASE exposed' = {}
  <2>1. CASE Lock \/ Unlocking \/ AcknowledgeRecovery
    BY <1>2, <2>1, LockData, RequestUnlockData, FinishUnlockData, FailUnlockData,
       AcknowledgeRecoveryData DEF Unlocking
  <2>2. CASE TaskBegins
    BY <1>2, <2>2, TaskStartsData, TaskRefusedData, PullMeetsChangeData DEF TaskBegins
  <2>3. CASE TaskEnds
    BY <1>2, <2>3, MutationPersistsData, AcceptPersistsData, AcceptMeetsLockData,
       TaskFailsData, TaskTornData DEF TaskEnds
  <2>4. CASE SyncNow \/ TimerFires \/ SyncEnds
    BY <1>2, <2>4, SyncNowData, TimerFiresData, SyncPushedData, SyncRefusedData,
       FetchedNothingNewData, FetchedNewerData, SyncFailsData DEF SyncEnds
  <2>5. CASE Choosing
    BY <1>2, <2>5, ChooseCloudData, ChooseLocalData, ChoicePushedData, ChoiceFailsData
       DEF Choosing
  <2>6. CASE Service
    BY <1>2, <2>6, ServiceAnswersSyncData, ServiceAnswersChoiceData, ServiceTakesLateData
       DEF Service
  <2>7. CASE PairingSteps
    BY <1>2, <2>7, PairAskData, PairFetchData, PairFailData, PairInstallData, PairTornData
       DEF PairingSteps
  <2>8. CASE \E e \in Edits : AskMutation(e) \/ OtherDevicePushes(e)
    BY <1>2, <2>8, AskMutationData, OtherDevicePushesData
  <2>9. CASE \E c \in {"nothing", "envelope", "connection"} : Restart(c)
    BY <1>2, <2>9, RestartData
  <2>10. CASE UNCHANGED vars
    BY <2>10 DEF vars, NothingSilentlyLost, CleanMeansSynced, LocalInv, CopiesInv,
       RequestsInv, OnDisk, Covers, CopyOfCloud
  <2> QED
    BY <2>1, <2>2, <2>3, <2>4, <2>5, <2>6, <2>7, <2>8, <2>9, <2>10 DEF Next
<1> QED BY <1>1, <1>2

HIDE DEF BrokerInv, DataInv, SessionInv, VersionInv, OpenIffSession, HeadIs, Paired,
         store, memory, tasks, history

(* Outside the three windows no edit that was reported as saved, or that   *)
(* anyone has seen, disappears from the vault file, the cloud vault and    *)
(* what an explicit choice or a recovery replaced.                         *)
THEOREM NothingIsSilentlyLost == Spec => []NothingSilentlyLost
<1>1. DataInv => NothingSilentlyLost
  BY DEF DataInv
<1> QED BY <1>1, DataInit, DataInductive, BrokerInvariance, PTL DEF Spec

(* Outside the three windows a vault that is not marked dirty holds        *)
(* nothing the cloud vault lacks.                                          *)
THEOREM CleanVaultIsSynced == Spec => []CleanMeansSynced
<1>1. DataInv => CleanMeansSynced
  BY DEF DataInv
<1> QED BY <1>1, DataInit, DataInductive, BrokerInvariance, PTL DEF Spec

-----------------------------------------------------------------------------
(***************************************************************************)
(* The refinement of SyncedVault.  Outside the windows a step changes the  *)
(* data of the abstract vault in one of nine ways, each a lemma below, and *)
(* every other step is a Mark: CleanMeansSynced is what a Mark needs.  A   *)
(* step after which a window was hit is a Loses.                           *)
(***************************************************************************)

(* What a conflict or a queued pull will install has a version, so that    *)
(* installing it leaves the vault paired.                                  *)
RemotesInv ==
  /\ conflict # NoRemote => conflict.version > 0
  /\ \A i \in DOMAIN queue : queue[i].kind # "mutate" => queue[i].remote.version > 0

LEMMA QueueShrinks ==
  ASSUME BrokerInv, RemotesInv, queue # <<>>, queue' = Tail(queue),
         conflict' \in {NoRemote, conflict} \/ (HeadIs({"pull"}) /\ conflict' = Head(queue).remote)
  PROVE  RemotesInv'
<1>1. HeadIs({"pull"}) => Head(queue).kind = "pull"
  BY DEF HeadIs
<1>2. /\ \A i \in DOMAIN queue' : i + 1 \in DOMAIN queue /\ queue'[i] = queue[i + 1]
      /\ 1 \in DOMAIN queue /\ queue[1] = Head(queue)
  BY HeadIsFirst DEF BrokerInv
<1> QED BY <1>1, <1>2 DEF RemotesInv

LEMMA QueueGrows ==
  ASSUME BrokerInv, RemotesInv, NEW t \in Task, queue' = Append(queue, t),
         conflict' = conflict, t.kind # "mutate" => t.remote.version > 0
  PROVE  RemotesInv'
  BY LastOfAppend DEF RemotesInv, BrokerInv

LEMMA RemotesInductive == BrokerInv /\ RemotesInv /\ [Next]_vars => RemotesInv'
<1> SUFFICES ASSUME BrokerInv, RemotesInv, [Next]_vars PROVE RemotesInv'
  OBVIOUS
<1>0. TypeOK
  BY DEF BrokerInv
<1>1. ASSUME UNCHANGED <<queue, conflict>> PROVE RemotesInv'
  BY <1>1 DEF RemotesInv
<1>2. CASE TaskRefused \/ PullMeetsChange
  <2>1. queue # <<>> /\ queue' = Tail(queue)
        /\ (conflict' = conflict \/ (HeadIs({"pull"}) /\ conflict' = Head(queue).remote))
    BY <1>2 DEF TaskRefused, PullMeetsChange, Rejected, AfterRejection, SetConflict, HeadIs
  <2> QED BY <2>1, QueueShrinks
<1>3. CASE TaskEnds
  <2>1. queue # <<>> /\ queue' = Tail(queue) /\ conflict' \in {NoRemote, conflict}
    BY <1>3 DEF TaskEnds, MutationPersists, AcceptPersists, AcceptMeetsLock, TaskFails,
       TaskTorn, Writes, Rejected, AfterRejection, HeadIs, BrokerInv, SessionInv
  <2> QED BY <2>1, QueueShrinks
<1>4. CASE TaskStarts
  BY <1>1, <1>4 DEF TaskStarts, memory
<1>5. CASE SyncPushed \/ SyncRefused \/ FetchedNothingNew \/ ChoicePushed
  <2>1. UNCHANGED queue /\ conflict' \in {NoRemote, sync.reply}
        /\ (conflict' = sync.reply => conflict' = NoRemote \/ sync.pc = "refused")
    BY <1>5 DEF SyncPushed, SyncRefused, FetchedNothingNew, ChoicePushed, MarkPushSucceeded, SetConflict, tasks
  <2> QED BY <2>1 DEF RemotesInv, BrokerInv, VersionInv
<1>6. CASE FetchedNewer
  <2>1. Pull(sync.reply, sync.items) \in Task /\ sync.reply.version > 0
    BY <1>0, <1>6 DEF FetchedNewer, TypeOK, Op, Task, Pull, BrokerInv, VersionInv
  <2> QED BY <1>6, <2>1, QueueGrows DEF FetchedNewer, Enqueue, Pull, memory
<1>7. CASE ChooseCloud
  <2>1. KeepCloud(conflict) \in Task /\ conflict.version > 0
    BY <1>0, <1>7 DEF ChooseCloud, TypeOK, Task, KeepCloud, RemotesInv, Envelope
  <2> QED BY <1>7, <2>1, QueueGrows DEF ChooseCloud, Enqueue, KeepCloud, memory
<1>8. CASE \E e \in Edits : AskMutation(e)
  <2>1. PICK e \in Edits : AskMutation(e)
    BY <1>8
  <2>2. Mutation(e) \in Task /\ Mutation(e).kind = "mutate"
    BY DEF Mutation, Task, Envelope, NoRemote, Remote
  <2> QED BY <2>1, <2>2, QueueGrows DEF AskMutation, Enqueue, memory
<1>9. CASE \E c \in {"nothing", "envelope", "connection"} : Restart(c)
  BY <1>9 DEF Restart, Initialized, RemotesInv
<1>10. CASE Lock \/ Unlocking \/ AcknowledgeRecovery
  BY <1>1, <1>10 DEF Lock, Unlocking, AcknowledgeRecovery, RequestUnlock, FinishUnlock, FailUnlock,
     memory, tasks
<1>11. CASE SyncNow \/ TimerFires \/ SyncFails
  BY <1>1, <1>11 DEF SyncNow, TimerFires, SyncFails, memory, tasks
<1>12. CASE ChooseLocal \/ ChoiceFails \/ Service
  BY <1>1, <1>12 DEF Service, ServiceAnswersSync, ServiceAnswersChoice, ServiceTakesLate,
     ChooseLocal, ChoiceFails, memory, tasks
<1>13. CASE PairingSteps
  BY <1>1, <1>13 DEF PairingSteps, PairAsk, PairFetch, PairFail, PairInstall, PairTorn, memory, tasks
<1>14. CASE (\E e \in Edits : OtherDevicePushes(e)) \/ UNCHANGED vars
  BY <1>1, <1>14 DEF OtherDevicePushes, vars, memory, tasks
<1> QED
  BY <1>2, <1>3, <1>4, <1>5, <1>6, <1>7, <1>8, <1>9, <1>10, <1>11, <1>12, <1>13, <1>14
     DEF Next, TaskBegins, SyncEnds, Choosing

LEMMA RemotesInit == Init => RemotesInv
  BY EmptySeq DEF Init, RemotesInv

(* A step after which a window was hit.                                    *)
LEMMA LosingStep ==
  ASSUME BrokerInv, [Next]_vars, exposed' # {}
  PROVE  Whole!Loses
<1>1. CASE payload = None /\ payload' # None
  <2>1. PICK k \in Unlocks : FinishUnlock(k)
    BY <1>1, OpensInUnlock
  <2>2. UNCHANGED <<OnDisk, cloud.items, setAside, Paired /\ ~conn.dirty>>
    BY <2>1 DEF FinishUnlock, store, OnDisk, Paired
  <2> QED BY <2>2 DEF Whole!Loses
<1> QED BY <1>1 DEF Whole!Loses

(* A step that leaves the data alone may still change the mark, which then *)
(* tells the truth.                                                        *)
LEMMA MarkingStep ==
  ASSUME DataInv', exposed' = {}, UNCHANGED <<OnDisk, cloud.items, setAside>>
  PROVE  Whole!Synchronizes
  BY DEF Whole!Synchronizes, Whole!Mark, DataInv, CleanMeansSynced

(* An unlock that ends on the envelope that is on disk.                    *)
LEMMA UnlockingStep ==
  ASSUME BrokerInv, DataInv, exposed = {}, exposed' = {}, NEW k \in Unlocks, FinishUnlock(k)
  PROVE  Whole!Tells /\ Whole!Unlock
<1>1. UNCHANGED <<OnDisk, cloud.items, setAside, Paired /\ ~conn.dirty>>
  BY DEF FinishUnlock, store, OnDisk, Paired
<1>2. unlocking[k] = env /\ env = diskEnv /\ unlocking[k] # None
  BY DEF FinishUnlock, DataInv, LocalInv
<1>3. known' = known \cup OnDisk
  BY <1>2 DEF FinishUnlock, OnDisk
<1>4. payload' # None
  BY <1>2 DEF FinishUnlock
<1> QED BY <1>1, <1>3, <1>4 DEF Whole!Tells, Whole!Unlock

(* The steps that leave the data of the vault alone.                       *)
Quiet == UNCHANGED <<OnDisk, cloud.items, setAside, known>>

LEMMA QuietIsMark ==
  ASSUME DataInv', exposed' = {}, Quiet
  PROVE  Whole!Tells /\ Whole!Synchronizes
  BY MarkingStep DEF Quiet, Whole!Tells

(* A save adds its edit to the vault of the device.                        *)
LEMMA MutationPersistsSaves ==
  ASSUME BrokerInv, DataInv, exposed = {}, exposed' = {}, MutationPersists
  PROVE  Whole!Tells /\ Whole!Synchronizes
<1> DEFINE new == Head(queue).items
<1>1. new \in SUBSET Edits
  BY HeadTask DEF MutationPersists, HeadIs, BrokerInv, Envelope
<1>2. OnDisk' = OnDisk \cup new
  BY HeadTask, EnvelopeNotNone
     DEF MutationPersists, HeadIs, BrokerInv, SessionInv, DataInv, LocalInv, OnDisk, Result
<1>3. UNCHANGED <<cloud, setAside>> /\ known' = known \cup new
  BY DEF MutationPersists
<1>4. conn'.dirty
  BY DEF MutationPersists, BrokerInv, TypeOK, Connection
<1>5. Whole!Save(new)
  BY <1>2, <1>3, <1>4 DEF Whole!Save
<1>6. Whole!Tells
  BY <1>2, <1>3 DEF Whole!Tells
<1> QED BY <1>1, <1>5, <1>6 DEF Whole!Synchronizes

(* A pull, or a choice for the cloud, takes what the cloud has or had.     *)
LEMMA AcceptPersistsTakes ==
  ASSUME BrokerInv, DataInv, RemotesInv, exposed = {}, exposed' = {}, AcceptPersists
  PROVE  Whole!Tells /\ Whole!Synchronizes
<1> DEFINE got == Head(queue).remote.items
<1>0. queue # <<>> /\ Head(queue).kind \in {"pull", "cloud"} /\ job.running /\ TypeOK
  BY DEF AcceptPersists, HeadIs, BrokerInv
<1>1. got \in SUBSET Edits /\ got # None /\ CopyOfCloud(Head(queue).remote)
  BY <1>0, HeadTask, HeadIsFirst, EnvelopeNotNone DEF Remote, Envelope, DataInv, CopiesInv
<1>2. got \subseteq cloud.items \cup setAside
  BY <1>1 DEF CopyOfCloud
<1>3. OnDisk' = got /\ known' = known \cup got /\ OnDisk = env /\ UNCHANGED cloud
  BY <1>0, <1>1 DEF AcceptPersists, Result, OnDisk, BrokerInv, SessionInv, DataInv, LocalInv
<1>4. Paired' /\ ~conn'.dirty
  <2>1. Head(queue).remote.version > 0
    BY <1>0, HeadIsFirst DEF RemotesInv
  <2> QED BY <1>0, <2>1 DEF AcceptPersists, Paired
<1>5. Whole!Tells
  BY <1>3 DEF Whole!Tells
<1>6. CASE Head(queue).kind = "pull"
  <2>1. env \subseteq got \cup setAside
    BY <1>0, <1>6, HeadIsFirst DEF BrokerInv, PullBasisHolds, HeadIs, DataInv, RequestsInv
  <2>2. UNCHANGED setAside
    BY <1>0, <1>6 DEF AcceptPersists, HeadIs
  <2>3. Whole!Pull(got)
    BY <1>2, <1>3, <1>4, <2>1, <2>2 DEF Whole!Pull
  <2> QED BY <1>1, <1>5, <2>3 DEF Whole!Synchronizes
<1>7. CASE Head(queue).kind = "cloud"
  <2>1. setAside' = setAside \cup (env \ got)
    BY <1>0, <1>7 DEF AcceptPersists, HeadIs, Result
  <2>2. Whole!KeepTheirs(got)
    BY <1>2, <1>3, <1>4, <2>1 DEF Whole!KeepTheirs
  <2> QED BY <1>1, <1>5, <2>2 DEF Whole!Synchronizes
<1> QED BY <1>0, <1>6, <1>7

(* The cloud takes a push that loses nothing, or refuses it.               *)
LEMMA ServicePushes ==
  ASSUME DataInv', exposed' = {}, UNCHANGED <<OnDisk, known, Paired /\ ~conn.dirty>>,
         NEW sent \in Envelope, sent \subseteq OnDisk \cup setAside,
         \/ UNCHANGED <<cloud, setAside>>
         \/ /\ cloud'.items = sent /\ UNCHANGED setAside
            /\ cloud.items \subseteq sent \cup setAside
         \/ cloud'.items = sent /\ setAside' = setAside \cup (cloud.items \ sent)
  PROVE  Whole!Tells /\ Whole!Synchronizes
<1>1. CASE UNCHANGED <<cloud, setAside>>
  BY <1>1, QuietIsMark DEF Quiet
<1>2. CASE /\ cloud'.items = sent /\ UNCHANGED setAside
           /\ cloud.items \subseteq sent \cup setAside
  <2>1. Whole!Push(sent)
    BY <1>2 DEF Whole!Push
  <2> QED BY <2>1 DEF Whole!Synchronizes, Whole!Tells, Envelope
<1>3. CASE cloud'.items = sent /\ setAside' = setAside \cup (cloud.items \ sent)
  <2>1. Whole!KeepMine(sent)
    BY <1>3 DEF Whole!KeepMine
  <2> QED BY <2>1 DEF Whole!Synchronizes, Whole!Tells, Envelope
<1> QED BY <1>1, <1>2, <1>3

LEMMA ServiceAnswersPushes ==
  ASSUME BrokerInv, DataInv, DataInv', exposed = {}, exposed' = {}, Service
  PROVE  Whole!Tells /\ Whole!Synchronizes
<1>0. TypeOK
  BY DEF BrokerInv
<1>1. CASE ServiceAnswersSync
  <2>1. UNCHANGED <<OnDisk, known, Paired /\ ~conn.dirty, setAside>>
    BY <1>1 DEF ServiceAnswersSync, store, history, OnDisk, Paired
  <2>2. sync.items \in Envelope /\ sync.items \subseteq OnDisk \cup setAside
    BY <1>0 DEF TypeOK, Op, DataInv, LocalInv
  <2>3. \/ UNCHANGED cloud
        \/ cloud'.items = sync.items /\ cloud.items \subseteq sync.items \cup setAside
    BY <1>1 DEF ServiceAnswersSync, CloudTakes, DataInv, RequestsInv, Covers
  <2> QED BY <2>1, <2>2, <2>3, ServicePushes
<1>2. CASE ServiceAnswersChoice
  <2>1. UNCHANGED <<OnDisk, known, Paired /\ ~conn.dirty>>
    BY <1>2 DEF ServiceAnswersChoice, store, OnDisk, Paired
  <2>2. choice.items \in Envelope /\ choice.items \subseteq OnDisk \cup setAside
    BY <1>0 DEF TypeOK, Op, DataInv, LocalInv
  <2>3. \/ UNCHANGED <<cloud, setAside>>
        \/ cloud'.items = choice.items /\ setAside' = setAside \cup (cloud.items \ choice.items)
    BY <1>2 DEF ServiceAnswersChoice, CloudTakes, Replaced
  <2> QED BY <2>1, <2>2, <2>3, ServicePushes
<1>3. CASE ServiceTakesLate
  <2>1. UNCHANGED <<OnDisk, known, Paired /\ ~conn.dirty>>
    BY <1>3 DEF ServiceTakesLate, store, OnDisk, Paired
  <2>2. late.items \in Envelope /\ late.items \subseteq OnDisk \cup setAside
    BY <1>0 DEF TypeOK, Push, DataInv, LocalInv
  <2>3. \/ UNCHANGED <<cloud, setAside>>
        \/ /\ cloud'.items = late.items /\ UNCHANGED setAside
           /\ cloud.items \subseteq late.items \cup setAside
        \/ cloud'.items = late.items /\ setAside' = setAside \cup (cloud.items \ late.items)
    BY <1>3 DEF ServiceTakesLate, Replaced, DataInv, RequestsInv, Covers
  <2> QED BY <2>1, <2>2, <2>3, ServicePushes
<1> QED BY <1>1, <1>2, <1>3 DEF Service

(* A pairing installs the vault of the cloud where there was none.         *)
LEMMA PairInstallPulls ==
  ASSUME BrokerInv, DataInv, exposed = {}, exposed' = {}, NEW p \in Pairings, PairInstall(p)
  PROVE  Whole!Tells /\ Whole!Synchronizes
<1> DEFINE got == pairing[p].reply.items
<1>1. got \in SUBSET Edits /\ got # None
  BY EnvelopeNotNone DEF BrokerInv, TypeOK, Pairing, Remote, Envelope
<1>2. got \subseteq cloud.items \cup setAside
  BY DEF DataInv, CopiesInv, CopyOfCloud
<1>3. OnDisk = {} /\ OnDisk' = got /\ UNCHANGED <<cloud, known, setAside>>
  BY <1>1 DEF PairInstall, OnDisk, DataInv, LocalInv
<1>4. Paired' /\ ~conn'.dirty
  BY DEF PairInstall, MayInstall, Paired, BrokerInv, VersionInv
<1>5. Whole!Pull(got)
  BY <1>2, <1>3, <1>4 DEF Whole!Pull
<1> QED BY <1>1, <1>3, <1>5 DEF Whole!Synchronizes, Whole!Tells

(* Another device saves an edit in the cloud vault.                        *)
LEMMA OtherDeviceSaves ==
  ASSUME exposed' = {}, NEW e \in Edits, OtherDevicePushes(e)
  PROVE  Whole!Tells /\ Whole!Synchronizes
<1>1. UNCHANGED <<OnDisk, setAside, Paired /\ ~conn.dirty>>
      /\ cloud'.items = cloud.items \cup {e} /\ known' = known \cup {e}
  BY DEF OtherDevicePushes, store, OnDisk, Paired
<1>2. Whole!SaveElsewhere({e})
  BY <1>1 DEF Whole!SaveElsewhere
<1>3. {e} \in SUBSET Edits
  OBVIOUS
<1> QED BY <1>1, <1>2, <1>3 DEF Whole!Synchronizes, Whole!Tells

(* A restart that finds the vault file unreadable sets its vault aside.    *)
LEMMA RestartRecovers ==
  ASSUME DataInv', exposed' = {}, NEW corrupt \in {"nothing", "envelope", "connection"},
         Restart(corrupt)
  PROVE  Whole!Tells /\ Whole!Synchronizes
<1>1. CASE corrupt = "envelope"
  <2>1. OnDisk' = {} /\ setAside' = setAside \cup OnDisk /\ UNCHANGED <<cloud, known>>
    BY <1>1 DEF Restart, OnDisk
  <2>2. payload' = None /\ conn' = conn
    BY <1>1 DEF Restart, Initialized
  <2>3. Whole!Recover
    BY <2>1, <2>2 DEF Whole!Recover, Paired
  <2> QED BY <2>1, <2>3 DEF Whole!Synchronizes, Whole!Tells
<1>2. CASE corrupt # "envelope"
  BY <1>2, QuietIsMark DEF Restart, Quiet, OnDisk
<1> QED BY <1>1, <1>2

(* Every other step leaves the data alone: a lock, a task that does not    *)
(* start or ends without writing, the answers to requests, a choice that   *)
(* is made or fails, the dialogs.                                          *)
LEMMA QuietSteps ==
  ASSUME exposed' = {},
         \/ Lock \/ AcknowledgeRecovery
         \/ (\E k \in Prompts : RequestUnlock(k)) \/ (\E k \in Unlocks : FailUnlock(k))
         \/ TaskBegins \/ AcceptMeetsLock \/ TaskFails
         \/ SyncNow \/ TimerFires \/ SyncEnds \/ Choosing
         \/ (\E p \in Pairings : PairAsk(p) \/ PairFetch(p) \/ PairFail(p))
         \/ (\E e \in Edits : AskMutation(e))
         \/ UNCHANGED vars
  PROVE  Quiet
<1> USE DEF store, memory, history, Quiet, OnDisk
<1>1. CASE Lock \/ AcknowledgeRecovery \/ (\E k \in Prompts : RequestUnlock(k))
           \/ (\E k \in Unlocks : FailUnlock(k))
  BY <1>1 DEF Lock, AcknowledgeRecovery, RequestUnlock, FailUnlock
<1>2. CASE TaskBegins \/ AcceptMeetsLock \/ TaskFails
  BY <1>2 DEF TaskBegins, TaskStarts, TaskRefused, PullMeetsChange, AcceptMeetsLock, TaskFails, Rejected
<1>3. CASE SyncNow \/ TimerFires \/ SyncEnds
  BY <1>3 DEF SyncEnds, SyncNow, TimerFires, SyncPushed, SyncRefused, FetchedNothingNew,
     FetchedNewer, SyncFails
<1>4. CASE Choosing
  BY <1>4 DEF Choosing, ChooseCloud, ChooseLocal, ChoicePushed, ChoiceFails
<1>5. CASE \E p \in Pairings : PairAsk(p) \/ PairFetch(p) \/ PairFail(p)
  BY <1>5 DEF PairAsk, PairFetch, PairFail
<1>6. CASE \E e \in Edits : AskMutation(e)
  BY <1>6 DEF AskMutation
<1>7. CASE UNCHANGED vars
  BY <1>7 DEF vars
<1> QED BY <1>1, <1>2, <1>3, <1>4, <1>5, <1>6, <1>7

(* A step that hits no window keeps every promise of the abstract vault.   *)
LEMMA KeepingStep ==
  ASSUME BrokerInv, DataInv, DataInv', RemotesInv, [Next]_vars, exposed' = {}
  PROVE  Whole!Keeps
<1>0. exposed = {}
  BY WindowsStay
<1>1. CASE \E k \in Unlocks : FinishUnlock(k)
  BY <1>0, <1>1, UnlockingStep DEF Whole!Keeps
<1>2. CASE ~ \E k \in Unlocks : FinishUnlock(k)
  <2>1. payload' # None => payload # None
    BY <1>2, OpensInUnlock
  <2>2. Whole!Tells /\ Whole!Synchronizes
    <3>1. CASE MutationPersists \/ AcceptPersists
      BY <1>0, <3>1, MutationPersistsSaves, AcceptPersistsTakes
    <3>2. CASE Service
      BY <1>0, <3>2, ServiceAnswersPushes
    <3>3. CASE \E p \in Pairings : PairInstall(p)
      BY <1>0, <3>3, PairInstallPulls
    <3>4. CASE \E e \in Edits : OtherDevicePushes(e)
      BY <1>0, <3>4, OtherDeviceSaves
    <3>5. CASE \E c \in {"nothing", "envelope", "connection"} : Restart(c)
      BY <1>0, <3>5, RestartRecovers
    <3>6. CASE TaskTorn \/ \E p \in Pairings : PairTorn(p)
      BY <3>6 DEF TaskTorn, PairTorn
    <3>7. CASE Quiet
      BY <3>7, QuietIsMark
    <3> QED
      BY <1>2, <3>1, <3>2, <3>3, <3>4, <3>5, <3>6, <3>7, QuietSteps
         DEF Next, Unlocking, TaskEnds, PairingSteps
  <2> QED BY <1>0, <2>1, <2>2 DEF Whole!Keeps
<1> QED BY <1>1, <1>2

(* The device, its cloud vault and all that is under way between them      *)
(* implement the vault of SyncedVault, for any number of edits, unlocks,   *)
(* pairings and queued tasks: vault-broker.ts and sync-controller.ts keep  *)
(* their promises at every await.                                          *)
THEOREM VaultIsSynced == Spec => ImplementsSyncedVault
<1>1. Init => Whole!Init
  BY EnvelopeNotNone DEF Init, Whole!Init, OnDisk, Paired, NoConnection, Envelope
<1>2. BrokerInv /\ DataInv /\ DataInv' /\ RemotesInv /\ [Next]_vars => [Whole!Next]_Whole!vaultVars
  BY KeepingStep, LosingStep DEF Whole!Next
<1>3. Spec => [](BrokerInv /\ DataInv /\ RemotesInv)
  BY BrokerInvariance, DataInit, DataInductive, RemotesInit, RemotesInductive, PTL DEF Spec
<1> QED BY <1>1, <1>2, <1>3, PTL DEF Spec, ImplementsSyncedVault, Whole!Spec
=============================================================================
