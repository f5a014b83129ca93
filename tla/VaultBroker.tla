---------------------------- MODULE VaultBroker ----------------------------
(***************************************************************************)
(* The MyVault broker: its disk store, its in-memory state and its write   *)
(* queue (electron/myvault/vault-broker.ts and vault-store.ts), together   *)
(* with the state of the sync controller, the cloud vault and the device's *)
(* requests to it.  This module declares the state and the broker's        *)
(* methods; VaultSync composes them into the handlers of the main process. *)
(*                                                                         *)
(* An envelope is the encrypted vault file.  What the properties tell      *)
(* apart is which changes it holds, so an envelope is the set of edits     *)
(* applied to it: a save, an import, a deletion and a new passkey are all  *)
(* one edit.  Every encryption applies a fresh edit, so two envelopes are  *)
(* the same object exactly when they hold the same edits.                  *)
(***************************************************************************)
EXTENDS Naturals, Sequences

CONSTANTS
  Edits,      \* the changes the devices of this vault can make
  Prompts,    \* the ways to unlock: the password dialog, Windows Hello
  Pairings,   \* pairing requests that can be in progress at one time
  MaxVersion, \* bound: no device pushes a cloud version above this one
  MaxQueue,   \* bound: the write queue holds at most this many tasks
  None        \* no envelope, no decrypted payload

ASSUME BoundsAssumption == MaxVersion \in Nat /\ MaxQueue \in Nat
ASSUME NoneAssumption == \A e \in SUBSET Edits : e # None
ASSUME PromptsAssumption ==
  /\ Prompts \subseteq {"password", "hello"}
  /\ Prompts \cap Pairings = {}

VARIABLES
  diskEnv,    \* the envelope file
  conn,       \* connection file and its copy in memory: CAS version, dirty
  blocked,    \* the store refuses writes until recovery is acknowledged
  env,        \* this.envelope
  payload,    \* this.payload and this.session: set and cleared together
  lifecycle,
  syncState,
  conflict,   \* this.conflictRemote
  queue,      \* this.writeQueue: the tasks not finished yet, head first
  job,        \* what the head task captured before its await
  unlocking,  \* the envelope each unlock in progress is decrypting
  pairing,    \* VaultSyncController.pair calls in progress
  sync,       \* VaultSyncController.perform
  choice,     \* VaultSyncController.chooseLocal
  timer,      \* main.ts dirtySyncTimer is armed
  cloud,      \* the cloud vault
  late,       \* a push its sender gave up on and the cloud may still apply
  issued,     \* history: edits some device has started to make
  known,      \* history: edits reported as saved, or shown to someone
  setAside,   \* history: edits an explicit choice or a recovery replaced
  exposed     \* history: which of the three unguarded windows were hit

store   == <<diskEnv, conn, blocked>>
memory  == <<env, payload, lifecycle, syncState, conflict>>
tasks   == <<queue, job>>
history == <<issued, known, setAside, exposed>>
vars    == <<diskEnv, conn, blocked, env, payload, lifecycle, syncState, conflict,
             queue, job, unlocking, pairing, sync, choice, timer, cloud, late,
             issued, known, setAside, exposed>>

-----------------------------------------------------------------------------
(* Types.  A version of 0 means "none": the service numbers vaults from 1. *)

Envelope   == SUBSET Edits
Remote     == [version : Nat, items : Envelope]
Connection == [version : Nat, dirty : BOOLEAN]
Push       == [expected : Nat, items : Envelope, chosen : BOOLEAN]
Task       == [kind : {"mutate", "pull", "cloud"}, items : Envelope, remote : Remote]
Job        == [running : BOOLEAN, live : BOOLEAN, base : Envelope]
Unlocks    == Prompts \cup Pairings
Op         == [pc : {"idle", "push", "fetch", "pushed", "refused", "fetched", "accepting"},
               items : Envelope, base : Nat, reply : Remote]
Pairing    == [pc : {"idle", "asked", "fetched"}, reply : Remote]
Lifecycles == {"unconfigured", "locked", "unlocked", "conflict", "recovery-required"}
SyncStates == {"disabled", "idle", "dirty", "syncing", "synced", "conflict", "error"}
Windows    == {"torn", "stale", "paired"}

NoRemote     == [version |-> 0, items |-> {}]
NoConnection == [version |-> 0, dirty |-> FALSE]
NoPush       == [expected |-> 0, items |-> {}, chosen |-> FALSE]
NoJob        == [running |-> FALSE, live |-> FALSE, base |-> {}]
NoOp         == [pc |-> "idle", items |-> {}, base |-> 0, reply |-> NoRemote]
NoPairing    == [pc |-> "idle", reply |-> NoRemote]

Paired   == conn.version # 0
OnDisk   == IF diskEnv = None THEN {} ELSE diskEnv
Unlocked == lifecycle = "unlocked" /\ payload # None

-----------------------------------------------------------------------------
(* Broker methods.  Each gives the next value of the variables it names.   *)

(* A variant of the next definition that looks at the state the panel      *)
(* shows instead of the dirty mark.                                        *)
ChangedBySyncState ==
  timer' = (timer \/ (lifecycle' = "unlocked" /\ syncState' = "dirty"))

(* changed(): main.ts subscribes to it and arms one 45 s sync timer.       *)
Changed ==
  timer' = (timer \/ (lifecycle' = "unlocked" /\ conn'.dirty))

(* A variant of the next definition that answers for an unpaired device    *)
(* with a word of the lifecycle.                                           *)
UnpairedAsLifecycle(c) == IF c.version = 0 THEN "unconfigured" ELSE "idle"

(* initialize(): what the process holds after it loads these files.        *)
SyncStateOf(c) == IF c.version = 0 THEN "disabled" ELSE IF c.dirty THEN "dirty" ELSE "idle"

Initialized(e, c, b) ==
  /\ env' = e
  /\ conn' = c
  /\ blocked' = b
  /\ lifecycle' = IF b THEN "recovery-required" ELSE IF e # None THEN "locked" ELSE "unconfigured"
  /\ syncState' = SyncStateOf(c)
  /\ payload' = None
  /\ conflict' = NoRemote
  /\ queue' = <<>>
  /\ job' = NoJob
  /\ unlocking' = [k \in Unlocks |-> None]
  /\ pairing' = [p \in Pairings |-> NoPairing]
  /\ sync' = NoOp
  /\ choice' = NoOp
  /\ timer' = FALSE

(* releaseSecrets(): the session object of a running task is now stale.    *)
ReleaseSecrets ==
  /\ payload' = None
  /\ job' = [job EXCEPT !.live = FALSE]

(* A variant of markConflict() that forgets the vault may be locked.       *)
MarkConflictAnyway ==
  /\ syncState' = "conflict"
  /\ lifecycle' = "conflict"

(* markConflict() and setConflict().                                       *)
MarkConflict ==
  /\ syncState' = "conflict"
  /\ lifecycle' = IF payload # None THEN "conflict" ELSE lifecycle

SetConflict(remote) ==
  /\ conflict' = remote
  /\ MarkConflict

(* markSyncError(): says so only while unlocked.                           *)
MarkSyncError ==
  syncState' = IF lifecycle = "unlocked" THEN "error" ELSE syncState

(* A variant of the next comparison that takes every push for the last.    *)
NothingChanged(pushed) == FALSE

(* markPushSucceeded(): metadata only.  The comparison keeps the vault     *)
(* dirty when an edit landed while the push was under way.                 *)
ChangedDuringSync(pushed) == env # pushed

MarkPushSucceeded(pushed, version) ==
  /\ conn' = [version |-> version, dirty |-> ChangedDuringSync(pushed)]
  /\ lifecycle' = IF lifecycle = "conflict" /\ payload # None THEN "unlocked" ELSE lifecycle
  /\ syncState' = IF ChangedDuringSync(pushed) THEN "dirty" ELSE "synced"
  /\ conflict' = NoRemote

(* exclusive(): at the back of the queue.                                  *)
Enqueue(task) ==
  /\ Len(queue) < MaxQueue
  /\ queue' = Append(queue, task)

Mutation(e)        == [kind |-> "mutate", items |-> {e}, remote |-> NoRemote]
Pull(remote, basis) == [kind |-> "pull", items |-> basis, remote |-> remote]
KeepCloud(remote)  == [kind |-> "cloud", items |-> {}, remote |-> remote]

HeadIs(kinds) == queue # <<>> /\ Head(queue).kind \in kinds

(* requireUnlocked() and the first check of persistMutation().             *)
MayMutate == Unlocked /\ env # None /\ Paired

(* acceptRemote(): the first check, and the basis comparison.              *)
MayAccept == payload # None /\ env # None /\ Paired

(* A variant of BasisMoved for an acceptRemote() that ignores its basis.   *)
BasisIgnored(task) == FALSE

BasisMoved(task) == task.kind = "pull" /\ env # task.items

(* A variant of SessionCurrent without the look after the await.           *)
SessionIgnored == TRUE

(* acceptRemote() after its await: a lock during the decryption wins.      *)
SessionCurrent == job.live

(* The envelope the head task is about to write.                           *)
Result == IF Head(queue).kind = "mutate" THEN job.base \cup Head(queue).items
                                         ELSE Head(queue).remote.items
=============================================================================
