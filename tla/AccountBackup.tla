--------------------------- MODULE AccountBackup ---------------------------
(***************************************************************************)
(* The encrypted backup of an Account Space (electron/account-backup.ts)   *)
(* in the app folder of its Google Drive (google-backup-transport.ts),     *)
(* which other devices write too, and its restoration (main.ts).  What a   *)
(* backup contains is abstracted to whose items it holds.                  *)
(***************************************************************************)
EXTENDS Spaces

CONSTANT MaxVersions   \* bound on the versions of the backup

VARIABLES
  drive,      \* the files of that name in the app folder: [etag, items], or None
  version,    \* entity tags handed out
  fileKnown,  \* fileIds: the file this device has seen last, since it started
  etagKept,   \* backup.remoteEtag of the account record
  keyKept,    \* the recovery key: "none", "pending" until re-entered, "wrapped"
  mine,       \* whose items this device has
  backupCall, \* each upload or restoration under way
  written     \* history: how the last version in the folder came about

backupVars == <<drive, version, fileKnown, etagKept, keyKept, mine, backupCall, written>>

Owners == {"here", "there"}
FileIds == {"first", "second"}   \* two devices may each create one
BackupFile == [etag : 1..MaxVersions, items : SUBSET Owners]
NoFile == [etag |-> 0, items |-> {}]
Resolutions == {"none", "merge", "overwrite"}
BackupCall == [kind : Resolutions \cup {"restore"}, etag : 0..MaxVersions,
               seen : BackupFile \cup {NoFile}, items : SUBSET Owners,
               stage : {"read", "body", "write", "over"},
               aborted : {"no", "call", "space"}]

ASSUME BackupAssumption == MaxVersions \in Nat /\ None \notin BackupCall \cup FileIds

BackupTypeOK ==
  /\ drive \in [FileIds -> BackupFile \cup {NoFile}] /\ version \in 0..MaxVersions
  /\ fileKnown \in FileIds \cup {None} /\ etagKept \in 0..MaxVersions
  /\ keyKept \in {"none", "pending", "wrapped"}
  /\ mine \subseteq Owners
  /\ backupCall \in [Calls -> BackupCall \cup {None}]
  /\ written \in [by : Owners, kind : Resolutions, over : BackupFile \cup {NoFile},
                  read : BackupFile \cup {NoFile}] \cup {None}

BackupInit ==
  /\ drive = [f \in FileIds |-> NoFile] /\ version = 0 /\ fileKnown = None /\ etagKept = 0
  /\ keyKept = "none" /\ mine = {"here"}
  /\ backupCall = [c \in Calls |-> None] /\ written = None

(* A call ends done, failed or with a conflict: nothing is left of it.      *)
Over == [kind |-> "none", etag |-> 0, seen |-> NoFile, items |-> {}, stage |-> "over", aborted |-> "no"]
BackupRunning(c) == backupCall[c] \notin {None, Over}
AtStage(c, stage) == backupCall[c] # None /\ backupCall[c].stage = stage
Files == {f \in FileIds : drive[f] # NoFile}

\* a version of file f with these items, and what its writer had read
Writes(f, items, by, kind, read) ==
  /\ version < MaxVersions /\ version' = version + 1
  /\ drive' = [drive EXCEPT ![f] = [etag |-> version + 1, items |-> items]]
  /\ written' = [by |-> by, kind |-> kind, over |-> drive[f], read |-> read]

-----------------------------------------------------------------------------
\* createRecoveryCode(), verifyAndEnable(), disable(), and clearAccount() of a pending code
RecoveryCode(next) ==
  /\ \/ next = "pending" /\ keyKept = "none"
     \/ next = "wrapped" /\ keyKept = "pending"
     \/ next = "none" /\ keyKept # "none"
  /\ keyKept' = next
  /\ etagKept' = IF keyKept = "wrapped" THEN 0 ELSE etagKept
  /\ UNCHANGED <<drive, version, fileKnown, mine, backupCall, written>>

Begin(c, kind, etag, items) ==
  /\ backupCall[c] = None
  /\ backupCall' = [backupCall EXCEPT ![c] = [kind |-> kind, etag |-> etag, seen |-> NoFile,
                      items |-> items, stage |-> "read", aborted |-> "no"]]
  /\ UNCHANGED <<drive, version, fileKnown, etagKept, keyKept, mine, written>>

(* uploadBackup(): the payload is built, and the account record read,      *)
(* before anything is awaited.                                             *)
BeginUpload(c, kind) == keyKept = "wrapped" /\ Begin(c, kind, etagKept, mine)

\* restoreBackup(): with the key of this device or with a code that was typed
BeginRestore(c) == Begin(c, "restore", 0, {})

(* transport.read(): the folder is listed, and the download of the file    *)
(* found first has begun.                                                  *)
ReadBegins(c, f) ==
  /\ AtStage(c, "read")
  /\ f \in Files \/ (f = None /\ Files = {})
  /\ backupCall' = [backupCall EXCEPT ![c] =
       IF f # None THEN [@ EXCEPT !.seen = drive[f], !.stage = "body"]
       ELSE IF @.kind = "restore" THEN Over ELSE [@ EXCEPT !.stage = "write"]]
  /\ fileKnown' = IF f = None THEN fileKnown ELSE f
  /\ UNCHANGED <<drive, version, etagKept, keyKept, mine, written>>

Conflicts(u) == u.seen.etag # u.etag /\ u.kind = "none"

\* mergePayloads()
MergedItems(u) == IF u.kind = "merge" THEN u.items \cup u.seen.items ELSE u.items

(* The bytes are there; the request's signal does not reach this wait.  An *)
(* upload decides.                                                         *)
BodyArrives(c) ==
  /\ AtStage(c, "body") /\ backupCall[c].kind # "restore"
  /\ LET u == backupCall[c] IN
     backupCall' = [backupCall EXCEPT ![c] =
       IF Conflicts(u) THEN Over ELSE [u EXCEPT !.stage = "write", !.items = MergedItems(u)]]
  /\ UNCHANGED <<drive, version, fileKnown, etagKept, keyKept, mine, written>>

\* restorableItems(): what the backup holds, whichever device made it, is stamped as this
\* Account Space's and replaces what the account has
RestoreEnds(c) ==
  /\ AtStage(c, "body") /\ backupCall[c].kind = "restore"
  /\ backupCall' = [backupCall EXCEPT ![c] = Over]
  /\ mine' = backupCall[c].seen.items
  /\ UNCHANGED <<drive, version, fileKnown, etagKept, keyKept, written>>

(* A variant of Condition: the write is not conditional.                   *)
Unconditional(u) == 0

\* If-Match of transport.write(); 0 is none
Condition(u) == IF u.kind # "overwrite" THEN u.seen.etag ELSE 0

(* transport.write(): the file seen last is replaced, where it is gone or  *)
(* has another tag Google refuses; with no file seen yet one is created.   *)
(* The tag is stored when the answer arrives.                              *)
WriteArrives(c, f, answered) ==
  /\ AtStage(c, "write") /\ backupCall[c].aborted # "space"
  /\ f = fileKnown \/ (fileKnown = None /\ f \notin Files)
  /\ LET u == backupCall[c] IN
     /\ drive[f].etag = Condition(u) \/ (Condition(u) = 0 /\ (fileKnown # None => f \in Files))
     /\ Writes(f, u.items, "here", u.kind, u.seen)
  /\ etagKept' = IF answered THEN version + 1 ELSE etagKept
  /\ fileKnown' = IF answered THEN f ELSE fileKnown
  /\ backupCall' = [backupCall EXCEPT ![c] = Over]
  /\ UNCHANGED <<keyKept, mine>>

\* another key sealed it, its bytes were damaged, it holds no backup, or one of another
\* workspace: nothing is uploaded and nothing is restored
Undecipherable(c) ==
  /\ AtStage(c, "body")
  /\ backupCall' = [backupCall EXCEPT ![c] = Over]
  /\ UNCHANGED <<drive, version, fileKnown, etagKept, keyKept, mine, written>>

\* no token, no answer, or refused
BackupFails(c) ==
  /\ BackupRunning(c)
  /\ backupCall' = [backupCall EXCEPT ![c] = Over]
  /\ UNCHANGED <<drive, version, fileKnown, etagKept, keyKept, mine, written>>

(* The operation is cancelled, or its Account Space locked: the wait for a *)
(* body goes on, and a signal aborted before a request does not stop it;   *)
(* the lock also takes the access token.                                   *)
CancelBackup(c, by) ==
  /\ BackupRunning(c) /\ backupCall[c].aborted = "no"
  /\ backupCall' = [backupCall EXCEPT ![c] =
       IF @.stage = "body" THEN [@ EXCEPT !.aborted = by] ELSE Over]
  /\ UNCHANGED <<drive, version, fileKnown, etagKept, keyKept, mine, written>>

-----------------------------------------------------------------------------
(* Another device of the same Google account: it merges, overwrites, or    *)
(* creates a file where it found none.                                     *)
OtherDevice(f, kind) ==
  /\ drive[f] # NoFile \/ kind = "overwrite"
  /\ Writes(f, IF kind = "merge" THEN drive[f].items \cup {"there"} ELSE {"there"}, "there", kind, drive[f])
  /\ UNCHANGED <<fileKnown, etagKept, keyKept, mine, backupCall>>

\* the app's data is removed at Google
DriveEmptied ==
  /\ Files # {} /\ drive' = [f \in FileIds |-> NoFile] /\ written' = None
  /\ UNCHANGED <<version, fileKnown, etagKept, keyKept, mine, backupCall>>

\* the browser starts again: fileIds and the calls are gone
BackupRestart ==
  /\ fileKnown' = None
  /\ keyKept' = IF keyKept = "pending" THEN "none" ELSE keyKept
  /\ backupCall' = [c \in Calls |-> IF BackupRunning(c) THEN Over ELSE backupCall[c]]
  /\ UNCHANGED <<drive, version, etagKept, mine, written>>

BackupNext ==
  \/ \E k \in {"none", "pending", "wrapped"} : RecoveryCode(k)
  \/ \E c \in Calls :
       \/ \E k \in Resolutions : BeginUpload(c, k)
       \/ BeginRestore(c) \/ BodyArrives(c) \/ RestoreEnds(c) \/ Undecipherable(c) \/ BackupFails(c)
       \/ \E f \in FileIds \cup {None} : ReadBegins(c, f)
       \/ \E f \in FileIds, answered \in BOOLEAN : WriteArrives(c, f, answered)
       \/ \E by \in {"call", "space"} : CancelBackup(c, by)
  \/ \E f \in FileIds, k \in {"merge", "overwrite"} : OtherDevice(f, k)
  \/ DriveEmptied \/ BackupRestart

BackupSpec == BackupInit /\ [][BackupNext]_backupVars

-----------------------------------------------------------------------------
(* An upload that read a version and was not told to overwrite replaces    *)
(* only that version, also when another device, or another upload of this  *)
(* one, writes between its read and its write, or its file is another.     *)
ReplacesWhatItRead ==
  written # None /\ written.by = "here" /\ written.kind # "overwrite" /\ written.read # NoFile
    => written.over = written.read

(* "ETags detect conflicts and require explicit merge or overwrite"        *)
(* (docs/systems/google-account-spaces.md): what another device put into   *)
(* the backup leaves it only when the user overwrites it.                  *)
OthersKept ==
  [][\A f \in FileIds : "there" \in drive[f].items /\ "there" \notin drive'[f].items /\ drive'[f] # NoFile
       => written'.kind = "overwrite"]_backupVars
=============================================================================
