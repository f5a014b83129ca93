---------------------------- MODULE AccountFiles ----------------------------
(***************************************************************************)
(* The files of the Account Spaces and everything that reads or writes     *)
(* them: start-up and migration (electron/account-space-state.ts), the     *)
(* encrypted records (account-store.ts), the state in memory               *)
(* (runtime-state-store.ts) and the recovery actions (main.ts 689-707).    *)
(*                                                                         *)
(* All of this code is synchronous, so no two operations interleave; what  *)
(* can go wrong is that one stops in the middle.  Every single write is    *)
(* atomic (temporary file and rename).  An operation is therefore one      *)
(* action that completes, or one that stops after some of its writes,      *)
(* either because a write failed and the process goes on, or because the   *)
(* process ended.  Files that an operation writes in a loop are cut at any *)
(* subset, whatever their order.                                           *)
(*                                                                         *)
(* The contents of a browsing file (tabs, bookmarks, history) are a set of *)
(* items.  The operating system's encryption is available throughout.      *)
(***************************************************************************)
EXTENDS Naturals, FiniteSets, Absent

CONSTANTS
  Workspaces, \* the fixed workspaces
  Spaces,     \* identifiers of Account Spaces
  Default,    \* createStableAccountIds() of the version-1 file
  Items,      \* what a browsing file can hold
  MaxDamage,  \* bound: files that become unreadable in a behaviour
  Bad         \* a file that cannot be read, or is no valid state

ASSUME DefaultAssumption ==
  /\ Default \in [Workspaces -> Spaces]
  /\ \A v, w \in Workspaces : Default[v] = Default[w] => v = w
ASSUME BoundAssumption == MaxDamage \in Nat

VARIABLES
  legacy,     \* browser-state.json, version 1: read, never written
  journal,    \* browser-state-v2.migration.json: none, bad or good
  manifest,   \* browser-state-v2.json
  record,     \* <id>.account.enc
  browsing,   \* account-browsing/<id>.json
  backups,    \* the items in files that preserveFile() copied aside
  pc,         \* the process: stopped, ready, or in read-only recovery
  mem,        \* RuntimeStateStore.state and records
  recovering, \* RuntimeStateStore.recovering
  offered,    \* state.recovery: the one account recovery the user is shown
  corrupt,    \* AccountStore.corruptRecords
  made,       \* history: items the user has made
  saved,      \* history: items whose save was reported and which the user kept
  ruined,     \* history: accounts with a file that was damaged, until reset
  removed,    \* history: accounts the user deleted
  damage,     \* history: how many files have been damaged
  halfFresh   \* history: a fresh start removed the manifest and then stopped

disk    == <<legacy, journal, manifest, record, browsing, backups>>
memory  == <<mem, recovering, offered, corrupt>>
history == <<made, saved, ruined, removed, damage, halfFresh>>
vars    == <<legacy, journal, manifest, record, browsing, backups, pc, mem, recovering,
             offered, corrupt, made, saved, ruined, removed, damage, halfFresh>>

-----------------------------------------------------------------------------
(* Types.                                                                  *)

Legacy   == [Workspaces -> SUBSET Items]
Manifest == [ids : SUBSET Spaces, active : [Workspaces -> Spaces]]
\* v1: the record carries the fingerprint of the version-1 file
Record   == [home : Workspaces, v1 : BOOLEAN]
Browsing == [home : Workspaces, items : SUBSET Items]
Memory   == [spaces : SUBSET Spaces, items : [Spaces -> SUBSET Items],
             active : [Workspaces -> Spaces]]

\* none of these is one of the two words for "no file" and "unreadable"
ASSUME FileAssumption ==
  /\ None # Bad /\ None \notin Spaces
  /\ \A file \in Legacy \cup Manifest \cup Record \cup Browsing : file # None /\ file # Bad

Readable(file) == file # None /\ file # Bad

ItemsIn(file) == IF Readable(file) THEN file.items ELSE {}
LegacyItems   == IF Readable(legacy) THEN UNION {legacy[w] : w \in Workspaces} ELSE {}
BrowsingItems == UNION {ItemsIn(browsing[id]) : id \in Spaces}

(* A variant of NoMemory in which no workspace points at an account.       *)
NoPointers == [spaces |-> {}, items |-> [id \in Spaces |-> {}],
               active |-> [w \in Workspaces |-> None]]

NoMemory == [spaces |-> {}, items |-> [id \in Spaces |-> {}], active |-> Default]

(* What the process forgets when it ends.                                  *)
Stopped ==
  /\ pc' = "stopped"
  /\ mem' = NoMemory
  /\ recovering' = {}
  /\ offered' = None
  /\ corrupt' = {}

(* A new random identifier: one that nothing knows of.                     *)
Unused ==
  {id \in Spaces : /\ record[id] = None /\ browsing[id] = None
                   /\ \A w \in Workspaces : Default[w] # id
                   /\ Readable(manifest) => id \notin manifest.ids
                   /\ id \notin mem.spaces \cup recovering \cup removed}

Init ==
  /\ legacy \in {None} \cup
       {f \in Legacy : \A v, w \in Workspaces : v # w => f[v] \cap f[w] = {}}
  /\ journal = "none"
  /\ manifest = None
  /\ record = [id \in Spaces |-> None]
  /\ browsing = [id \in Spaces |-> None]
  /\ backups = {}
  /\ pc = "stopped"
  /\ mem = NoMemory
  /\ recovering = {}
  /\ offered = None
  /\ corrupt = {}
  /\ made = LegacyItems
  /\ saved = LegacyItems
  /\ ruined = {} /\ removed = {}
  /\ damage = 0
  /\ halfFresh = FALSE
 

-----------------------------------------------------------------------------
(* Start-up: initialize() and the RuntimeStateStore it is handed to.       *)

Ready(spaces, items, active) ==
  /\ pc' = "ready"
  /\ mem' = [spaces |-> spaces, items |-> items, active |-> active]

(* A variant of InOrder() that may write the manifest before the accounts. *)
ManifestAnyTime(R, B, last) == B # {} => R = Workspaces

(* The writes of a first start: a record for every workspace, then a       *)
(* browsing file for every account, then the manifest.  R and B say how    *)
(* far the loops came, last whether the manifest was reached.              *)
InOrder(R, B, last) == (B # {} => R = Workspaces) /\ (last => B = Workspaces)

FirstManifest(ids) == [ids |-> {ids[w] : w \in Workspaces}, active |-> ids]

WriteDefaults(ids, R, B, last, v1, contents) ==
  /\ record' = [id \in Spaces |->
       IF \E w \in R : ids[w] = id
         THEN [home |-> CHOOSE w \in R : ids[w] = id, v1 |-> v1] ELSE record[id]]
  /\ browsing' = [id \in Spaces |->
       IF \E w \in B : ids[w] = id
         THEN LET w == CHOOSE w \in B : ids[w] = id IN [home |-> w, items |-> contents[w]]
         ELSE browsing[id]]
  /\ manifest' = IF last THEN FirstManifest(ids) ELSE manifest

StartMemory(ids, contents) ==
  /\ Ready({ids[w] : w \in Workspaces},
           [id \in Spaces |-> IF \E w \in Workspaces : ids[w] = id
                                THEN contents[CHOOSE w \in Workspaces : ids[w] = id] ELSE {}],
           ids)
  /\ recovering' = {} /\ offered' = None /\ corrupt' = {}

(* createFresh(): no version-1 file and no manifest.                       *)
CreateFresh ==
  /\ pc = "stopped" /\ manifest = None /\ legacy = None
  /\ \E ids \in [Workspaces -> Unused], R, B \in SUBSET Workspaces, last \in BOOLEAN :
       /\ \A v, w \in Workspaces : ids[v] = ids[w] => v = w
       /\ InOrder(R, B, last)
       /\ WriteDefaults(ids, R, B, last, FALSE, [w \in Workspaces |-> {}])
       /\ IF last THEN StartMemory(ids, [w \in Workspaces |-> {}]) ELSE Stopped
  /\ UNCHANGED <<legacy, journal, backups, made, saved, ruined, removed, damage, halfFresh>>

(* Read-only recovery of the whole browser.                                *)
Recovery ==
  /\ pc' = "recovery"
  /\ mem' = NoMemory
  /\ recovering' = {} /\ offered' = None /\ corrupt' = {}

(* migrateLegacy(), when the source or its journal cannot be used.         *)
MigrationRefused ==
  /\ pc = "stopped" /\ manifest = None /\ legacy # None
  /\ legacy = Bad \/ journal = "bad"
  /\ Recovery
  /\ UNCHANGED <<disk, history>>

(* ensureDefaultAccounts(): a record of an earlier attempt is used again   *)
(* only if it carries this migration's fingerprint and workspace.          *)
Reusable(w) == Readable(record[Default[w]]) /\ record[Default[w]] = [home |-> w, v1 |-> TRUE]

Missing == {w \in Workspaces : record[Default[w]] = None}

(* loadOrCreateJournal(): a new journal follows a backup of the source.    *)
Journaled ==
  /\ journal' = "good"
  /\ backups' = IF journal = "none" THEN backups \cup LegacyItems ELSE backups

(* migrateLegacy(): the backup and the journal, the missing records, the   *)
(* browsing files (staged first, published one by one), the manifest last. *)
(* A failed write and an unusable record open recovery.                    *)
Migrate ==
  /\ pc = "stopped" /\ manifest = None /\ Readable(legacy) /\ journal # "bad"
  /\ Journaled
  /\ LET usable == \A w \in Workspaces \ Missing : Reusable(w) IN
     \E R \in SUBSET Missing, B \in SUBSET Workspaces, last \in BOOLEAN :
       /\ B # {} => R = Missing /\ usable
       /\ last => B = Workspaces /\ usable
       /\ WriteDefaults(Default, R, B, last, TRUE, legacy)
       /\ IF last THEN StartMemory(Default, legacy) ELSE Recovery \/ Stopped
  /\ UNCHANGED <<legacy, made, saved, ruined, removed, damage, halfFresh>>

(* loadExistingV2(): an account whose record or browsing file is missing   *)
(* or unreadable is quarantined, the others load.                          *)
RecordsIn(ids) == {id \in ids : Readable(record[id])}

Whole(id) ==
  /\ Readable(record[id]) /\ Readable(browsing[id])
  /\ browsing[id].home = record[id].home

(* validateActiveMembership(): otherwise initialize() throws.              *)
Startable ==
  \A w \in Workspaces :
    LET id == manifest.active[w] IN Whole(id) => record[id].home = w

LoadRefused ==
  /\ pc = "stopped" /\ manifest = Bad
  /\ Recovery
  /\ UNCHANGED <<disk, history>>

Load ==
  /\ pc = "stopped" /\ Readable(manifest) /\ Startable
  /\ LET damaged == {id \in manifest.ids : ~Whole(id)} IN
       /\ Ready(RecordsIn(manifest.ids),
                [id \in Spaces |-> IF id \in manifest.ids \ damaged THEN browsing[id].items ELSE {}],
                manifest.active)
       /\ recovering' = damaged
       /\ offered' \in IF damaged = {} THEN {None} ELSE damaged
       /\ corrupt' = {id \in manifest.ids : record[id] = Bad}
  /\ UNCHANGED <<disk, made, saved, ruined, removed, damage, halfFresh>>

-----------------------------------------------------------------------------
(* Updates: normalizeRuntimeState() and persist().                         *)

Members(recs, spaces, w) == {id \in spaces : recs[id].home = w}

(* A variant of MayNormalize for code without the exception for recovery.  *)
AllHaveMembers(recs, spaces, active) == \A w \in Workspaces : Members(recs, spaces, w) # {}

(* Every workspace needs an account, or one in recovery to point at.       *)
MayNormalize(recs, spaces, active) ==
  \A w \in Workspaces : Members(recs, spaces, w) # {} \/ active[w] \in recovering

(* A workspace that points at no loaded account of its own is re-pointed.  *)
Normalized(recs, spaces, active, f) ==
  \A w \in Workspaces :
    LET members == Members(recs, spaces, w) IN
      IF members = {} \/ active[w] \in members THEN f[w] = active[w] ELSE f[w] \in members

(* A variant of Writable without the check in persist().                   *)
AllWritable(spaces) == spaces

(* persist() leaves the files of a quarantined account alone.              *)
Writable(spaces) == spaces \ recovering

PublishBrowsing(recs, S, items) ==
  browsing' = [id \in Spaces |->
    IF id \in S THEN [home |-> recs[id].home, items |-> items[id]] ELSE browsing[id]]

(* update() that reaches its end.                                          *)
Persisted(recs, spaces, items, active) ==
  /\ MayNormalize(recs, spaces, active)
  /\ PublishBrowsing(recs, Writable(spaces), items)
  /\ \E f \in [Workspaces -> Spaces] :
       /\ Normalized(recs, spaces, active, f)
       /\ manifest' = [ids |-> spaces \cup recovering, active |-> f]
       /\ mem' = [spaces |-> spaces, items |-> items, active |-> f]
  /\ pc' = "ready"
  /\ UNCHANGED <<recovering, offered, corrupt>>

(* The files whose contents change: the others are written as they are.    *)
Rewritten(recs, spaces, items) ==
  {id \in Writable(spaces) : browsing[id] # [home |-> recs[id].home, items |-> items[id]]}

(* update() that stops before its last write: the manifest.  When a write  *)
(* failed, the process goes on with the state it had.                      *)
Unpersisted(recs, spaces, items, active) ==
  /\ MayNormalize(recs, spaces, active)
  /\ \E S \in SUBSET Rewritten(recs, spaces, items) : PublishBrowsing(recs, S, items)
  /\ manifest' = manifest
  /\ \/ UNCHANGED <<pc, memory>>
     \/ Stopped

(* An item is added to account a: a visit, a bookmark, a tab, an import.   *)
(* What is added to a quarantined account stays in memory.                 *)
Save(a, i) ==
  /\ pc = "ready" /\ a \in mem.spaces /\ i \notin made
  /\ made' = made \cup {i}
  /\ LET items == [mem.items EXCEPT ![a] = @ \cup {i}] IN
       \/ /\ Persisted(record, mem.spaces, items, mem.active)
          /\ saved' = IF a \in recovering THEN saved ELSE saved \cup {i}
       \/ /\ Unpersisted(record, mem.spaces, items, mem.active)
          /\ UNCHANGED saved
  /\ UNCHANGED <<legacy, journal, record, backups, ruined, removed, damage, halfFresh>>

(* clearAccountSpaceData(), and deleting what an account holds.            *)
Forget(a) ==
  /\ pc = "ready" /\ a \in mem.spaces
  /\ saved' = saved \ mem.items[a]
  /\ LET items == [mem.items EXCEPT ![a] = {}] IN
       \/ Persisted(record, mem.spaces, items, mem.active)
       \/ Unpersisted(record, mem.spaces, items, mem.active)
  /\ UNCHANGED <<legacy, journal, record, backups, made, ruined, removed, damage, halfFresh>>

(* switchAccountSpace(), activateTab(): the workspace points at account a. *)
SwitchTo(a) ==
  /\ pc = "ready" /\ a \in mem.spaces
  /\ LET active == [mem.active EXCEPT ![record[a].home] = a] IN
       \/ Persisted(record, mem.spaces, mem.items, active)
       \/ Unpersisted(record, mem.spaces, mem.items, active)
  /\ UNCHANGED <<legacy, journal, record, backups, history>>

-----------------------------------------------------------------------------
(* Adding and deleting accounts.                                           *)

(* addLocalAccountSpace(): the record first.  When the update fails the    *)
(* record is deleted again.                                                *)
Add(id, w) ==
  /\ pc = "ready" /\ id \in Unused
  /\ LET spaces == mem.spaces \cup {id}
         active == [mem.active EXCEPT ![w] = id]
         new    == [record EXCEPT ![id] = [home |-> w, v1 |-> FALSE]]
     IN
       \/ Persisted(new, spaces, mem.items, active) /\ record' = new
       \/ Unpersisted(new, spaces, mem.items, active)
          /\ record' = IF pc' = "ready" THEN record ELSE new
  /\ UNCHANGED <<legacy, journal, backups, history>>

(* removeAccount(): refused for the only account of a workspace, and by    *)
(* deleteAccountSpace() for the account whose recovery is shown.           *)
MayRemove(id) ==
  /\ id \in mem.spaces /\ id # offered
  /\ Cardinality(Members(record, mem.spaces, record[id].home)) > 1

(* The account a workspace points at after account id is removed.          *)
Repointed(id, r) ==
  [w \in Workspaces |-> IF mem.active[w] = id /\ record[id].home = w THEN r ELSE mem.active[w]]

(* The manifest no longer lists it, then its two files are deleted.  A     *)
(* quarantined account is still listed until the next update.              *)
Remove(id) ==
  /\ pc = "ready" /\ MayRemove(id)
  /\ saved' = saved \ (mem.items[id] \cup ItemsIn(browsing[id]))
  /\ removed' = removed \cup {id}
  /\ \E r \in Members(record, mem.spaces, record[id].home) \ {id} :
       LET spaces == mem.spaces \ {id}
           items  == [mem.items EXCEPT ![id] = {}]
       IN
         \/ /\ Unpersisted(record, spaces, items, Repointed(id, r))
            /\ UNCHANGED record
         \/ \E gone \in 0 .. 2, f \in [Workspaces -> Spaces], next \in {"ready", "stopped"} :
              /\ MayNormalize(record, spaces, Repointed(id, r))
              /\ Normalized(record, spaces, Repointed(id, r), f)
              /\ manifest' = [ids |-> spaces \cup recovering, active |-> f]
              /\ record' = IF gone >= 1 THEN [record EXCEPT ![id] = None] ELSE record
              /\ browsing' = [x \in Spaces |->
                   IF x = id /\ gone = 2 THEN None
                   ELSE IF x \in Writable(spaces) THEN [home |-> record[x].home, items |-> items[x]]
                   ELSE browsing[x]]
              /\ IF next = "stopped" THEN Stopped ELSE
                   /\ pc' = "ready"
                   /\ mem' = [spaces |-> spaces, items |-> items, active |-> f]
                   /\ recovering' = IF gone = 2 THEN recovering \ {id} ELSE recovering
                   /\ UNCHANGED <<offered, corrupt>>
  /\ UNCHANGED <<legacy, journal, backups, made, ruined, damage, halfFresh>>

-----------------------------------------------------------------------------
(* Recovery actions; each ends with a relaunch.                            *)

(* retry, quitting the browser, and a crash between two operations.        *)
Stop ==
  /\ pc # "stopped"
  /\ Stopped
  /\ UNCHANGED <<disk, history>>

(* prepareFreshStart() of one account: whose it is comes from whichever    *)
(* file can still be read.                                                 *)
OwnerKnown(id) == Readable(browsing[id]) \/ (Readable(record[id]) /\ id \notin corrupt)
Owner(id)      == IF Readable(browsing[id]) THEN browsing[id].home ELSE record[id].home

(* replaceCorrupt() refuses a record that this process did not find        *)
(* unreadable itself.                                                      *)
MayReplace(id) == Readable(record[id]) \/ id \in corrupt

CanFreshStart(id) == OwnerKnown(id) /\ MayReplace(id)

(* A variant of Preserved() that copies nothing.                           *)
NotPreserved(items) == backups

Preserved(items) == backups \cup items

(* The browsing file is copied aside; an unreadable record is deleted and  *)
(* made again; an empty browsing file is written.  steps counts the writes *)
(* that were done.                                                         *)
FreshStart ==
  LET id   == offered
      keep == Readable(record[id])
      new  == [home |-> Owner(id), v1 |-> FALSE]
  IN
  /\ pc = "ready" /\ offered # None /\ CanFreshStart(id)
  /\ backups' = Preserved(ItemsIn(browsing[id]))
  /\ \E steps \in 0 .. 3 :
       /\ keep => steps \in {0, 3}
       /\ record' = CASE keep \/ steps = 0 -> record
                      [] steps = 1 -> [record EXCEPT ![id] = None]
                      [] OTHER -> [record EXCEPT ![id] = new]
       /\ browsing' = IF steps = 3 THEN [browsing EXCEPT ![id] = [home |-> Owner(id), items |-> {}]]
                                   ELSE browsing
       /\ \/ Stopped
          \/ /\ steps < 3
             /\ corrupt' = IF steps > 0 THEN corrupt \ {id} ELSE corrupt
             /\ UNCHANGED <<pc, mem, recovering, offered>>
       /\ ruined' = IF steps = 3 THEN ruined \ {id} ELSE ruined
  /\ UNCHANGED <<legacy, journal, manifest, made, saved, removed, damage, halfFresh>>

(* prepareFreshStart() of the whole browser: the manifest, the version-1   *)
(* file and the journal are copied aside and deleted, in this order.       *)
FreshStartAll ==
  /\ pc = "recovery"
  /\ \E steps \in 0 .. 3 :
       /\ manifest' = IF steps >= 1 THEN None ELSE manifest
       /\ legacy' = IF steps >= 2 THEN None ELSE legacy
       /\ journal' = IF steps = 3 THEN "none" ELSE journal
       /\ backups' = IF steps >= 2 THEN Preserved(LegacyItems) ELSE backups
       /\ halfFresh' = (halfFresh \/ (steps = 1 /\ manifest # None /\ legacy # None))
       /\ \/ Stopped
          \/ steps < 3 /\ UNCHANGED <<pc, memory>>
  /\ UNCHANGED <<record, browsing, made, saved, ruined, removed, damage>>

(* prepareRestoreV1(): offered while there is a version-1 file.            *)
RestoreV1 ==
  /\ pc = "recovery" /\ legacy # None
  /\ backups' = Preserved(BrowsingItems)
  /\ manifest' = None
  /\ Stopped
  /\ UNCHANGED <<legacy, journal, record, browsing, made, saved, ruined, removed, damage, halfFresh>>

(* The environment: a file becomes unreadable while the browser is closed. *)
Damage ==
  /\ pc = "stopped" /\ damage < MaxDamage
  /\ damage' = damage + 1
  /\ \/ /\ Readable(manifest) /\ manifest' = Bad
        /\ UNCHANGED <<legacy, journal, record, browsing, ruined>>
     \/ /\ Readable(legacy) /\ legacy' = Bad
        /\ UNCHANGED <<manifest, journal, record, browsing, ruined>>
     \/ /\ journal = "good" /\ journal' = "bad"
        /\ UNCHANGED <<manifest, legacy, record, browsing, ruined>>
     \/ \E id \in Spaces :
          /\ ruined' = ruined \cup {id}
          /\ \/ /\ Readable(record[id]) /\ record' = [record EXCEPT ![id] = Bad]
                /\ UNCHANGED browsing
             \/ /\ Readable(browsing[id]) /\ browsing' = [browsing EXCEPT ![id] = Bad]
                /\ UNCHANGED record
          /\ UNCHANGED <<manifest, legacy, journal>>
  /\ saved' = saved \cap (backups \cup LegacyItems' \cup BrowsingItems')
  /\ UNCHANGED <<backups, pc, memory, made, removed, halfFresh>>

-----------------------------------------------------------------------------
StartUp == CreateFresh \/ MigrationRefused \/ Migrate \/ LoadRefused \/ Load

Use ==
  \/ \E a \in Spaces, i \in Items : Save(a, i)
  \/ \E a \in Spaces : Forget(a) \/ SwitchTo(a) \/ Remove(a)
  \/ \E id \in Spaces, w \in Workspaces : Add(id, w)

Next == StartUp \/ Use \/ Stop \/ FreshStart \/ FreshStartAll \/ RestoreV1 \/ Damage

Spec == Init /\ [][Next]_vars

-----------------------------------------------------------------------------
TypeOK ==
  /\ legacy \in {None, Bad} \cup Legacy
  /\ journal \in {"none", "bad", "good"}
  /\ manifest \in {None, Bad} \cup Manifest
  /\ record \in [Spaces -> {None, Bad} \cup Record]
  /\ browsing \in [Spaces -> {None, Bad} \cup Browsing]
  /\ backups \in SUBSET Items
  /\ pc \in {"stopped", "ready", "recovery"}
  /\ mem \in Memory
  /\ recovering \in SUBSET Spaces
  /\ offered \in {None} \cup Spaces
  /\ corrupt \in SUBSET Spaces
  /\ made \in SUBSET Items /\ saved \in SUBSET Items
  /\ ruined \in SUBSET Spaces /\ removed \in SUBSET Spaces
  /\ damage \in 0 .. MaxDamage
  /\ halfFresh \in BOOLEAN

(* Whatever was saved and not deleted by the user is in a file: in the     *)
(* version-1 file, in a browsing file or in a copy made before a recovery  *)
(* replaced one.  Crashes in the middle of a migration, a save, a deletion *)
(* or a recovery and the retries after them change nothing about that,     *)
(* unless a fresh start of the browser stopped after its first deletion.   *)
NothingLost == ~halfFresh => saved \subseteq backups \cup LegacyItems \cup BrowsingItems

(* The same without the exception.                                         *)
PreservedFirst == saved \subseteq backups \cup LegacyItems \cup BrowsingItems

(* The manifest is written last, so the accounts it lists are whole: only  *)
(* an account with a file that was damaged is ever quarantined, wherever   *)
(* an operation stopped.                                                   *)
OnlyDamagedQuarantined ==
  Readable(manifest) => \A id \in manifest.ids \ ruined : Whole(id)

(* Every workspace has an account the browser can show or a recovery to    *)
(* offer, so it starts, and a save is possible as long as it runs.         *)
AlwaysUsable ==
  /\ Readable(manifest) => Startable
  /\ pc = "ready" => MayNormalize(record, mem.spaces, mem.active)

(* While an account stays in quarantine nothing writes its browsing file,  *)
(* and only its deletion or the fresh start offered for it its record.     *)
QuarantineHolds ==
  [][\A id \in recovering \cap recovering' :
       /\ browsing'[id] = browsing[id]
       /\ record'[id] = record[id] \/ id \in removed' \/ id = offered]_vars
=============================================================================
