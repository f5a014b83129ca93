--------------------------- MODULE VaultMigration ---------------------------
(***************************************************************************)
(* The passwords of earlier versions and of Chrome come into MyVault       *)
(* (electron/myvault/vault-migration.ts, called by electron/main.ts).  A   *)
(* journal on the disk says how far the migration of the old file is, and  *)
(* the old file may go once the journal says that it is done.  Two calls   *)
(* may run at once, the user edits the vault meanwhile, and the process    *)
(* may stop after any write.  Password and TOTP seed are one secret here.  *)
(***************************************************************************)
EXTENDS Naturals, Sequences, Absent
Seqs == INSTANCE SequencesExt

CONSTANTS
  Logins,     \* items of the old file, each with a secret of its own
  Names,      \* a site and a user name
  NameOf,     \* the name of each item
  Folded,     \* a name with its user name in lower case
  Older,      \* items an older version of the browser may still add
  Migrations, \* calls of migrateLegacyVault()
  MaxEntries  \* bound: entries ever made in the vault

VARIABLES
  oldFile,    \* the items of the legacy vault file, or None
  migration,  \* the journal file, or None
  entries,    \* VaultPayload.items
  lastId,     \* entries made
  importing,  \* each call under way, or None
  turn,       \* the call that runs without a pause, or None
  handled     \* history: items saved, found in the vault or skipped by the user

migrationVars == <<oldFile, migration, entries, lastId, importing, turn, handled>>

Entry == [id : 1..MaxEntries, name : Names, secret : Logins \cup {None}]
Metadata == [id : 1..MaxEntries, name : Names]
Journal == [hash : SUBSET Logins, mapped : SUBSET Logins, skipped : SUBSET Logins,
            phase : {"backed-up", "importing", "validated"}]
Import == [journal : Journal, existing : Seq(Metadata), left : SUBSET Logins,
           conflicts : SUBSET Logins, replace : SUBSET Logins, skip : SUBSET Logins,
           pass : 1..2, saving : Logins \cup {None}, target : 0..MaxEntries, saved : BOOLEAN]

ASSUME MigrationAssumption ==
  /\ NameOf \in [Logins -> Names] /\ Older \subseteq Logins
  /\ None \notin Migrations \cup Import /\ MaxEntries \in Nat \ {0}

MigrationTypeOK ==
  /\ oldFile \in (SUBSET Logins) \cup {None}
  /\ migration \in Journal \cup {None}
  /\ entries \in Seq(Entry) /\ lastId \in 0..MaxEntries
  /\ importing \in [Migrations -> Import \cup {None}]
  /\ turn \in Migrations \cup {None}
  /\ handled \subseteq Logins

\* the vault may hold an entry of the user already
MigrationInit ==
  /\ oldFile \in {Logins \ Older, Logins} /\ migration = None
  /\ \/ entries = <<>> /\ lastId = 0
     \/ \E n \in Names : entries = <<[id |-> 1, name |-> n, secret |-> None]>> /\ lastId = 1
  /\ importing = [c \in Migrations |-> None] /\ turn = None /\ handled = {}

vaultOf == <<entries, lastId>>
metadata == [i \in DOMAIN entries |-> [id |-> entries[i].id, name |-> entries[i].name]]
-----------------------------------------------------------------------------
\* existing.find(): the first entry of the site and user name, whatever its case
Matches(r, l) == SelectSeq(r.existing, LAMBDA e : Folded[e.name] = Folded[NameOf[l]])

\* the entry of an identifier now, as a set of at most one
Now(id) == {entries[i] : i \in {j \in DOMAIN entries : entries[j].id = id}}

Done(j) == j.mapped \cup j.skipped

(* migrateLegacy() up to its loop: an old file that changed since the      *)
(* journal was begun is refused.  The backup, which is verified before     *)
(* there is a journal and which nothing removes, is left out.              *)
Begins(c, pass, replace, skip) ==
  LET j == IF migration # None THEN migration
           ELSE [hash |-> oldFile, mapped |-> {}, skipped |-> {}, phase |-> "backed-up"]
      k == [j EXCEPT !.phase = "importing"]
  IN /\ turn = None /\ oldFile # None /\ j.hash = oldFile
     /\ migration' = k /\ turn' = c
     /\ importing' = [importing EXCEPT ![c] =
          [journal |-> k, existing |-> metadata, left |-> oldFile \ Done(j),
           conflicts |-> {}, replace |-> replace, skip |-> skip, pass |-> pass,
           saving |-> None, target |-> 0, saved |-> FALSE]]
     /\ UNCHANGED <<oldFile, vaultOf, handled>>

MigrateLegacy(c) == importing[c] = None /\ Begins(c, 1, {}, {})

Writes(c, r, j) ==
  /\ importing' = [importing EXCEPT ![c] = [r EXCEPT !.journal = j]]
  /\ migration' = j

\* saveLogin() is called and awaited
Saves(c, r, l, target) ==
  /\ importing' = [importing EXCEPT ![c] = [r EXCEPT !.saving = l, !.target = target]]
  /\ turn' = None /\ UNCHANGED <<migration, handled>>

(* A variant of Skips: whatever is not to be replaced.                     *)
SkipsUnlessReplaced(r, l) == l \notin r.replace

\* decisions[item.id]
Skips(r, l) == l \in r.skip

(* An item of the loop.                                                    *)
Item(c, l) ==
  LET r == [importing[c] EXCEPT !.left = @ \ {l}]
      found == Matches(r, l)
      same == \E e \in Now(Head(found).id) : e.secret = l
  IN /\ turn = c /\ l \in importing[c].left
     /\ \/ found = <<>> /\ Saves(c, r, l, 0)
        \/ /\ found # <<>> /\ same
           /\ Writes(c, r, [r.journal EXCEPT !.mapped = @ \cup {l}])
           /\ handled' = handled \cup {l} /\ UNCHANGED turn
        \/ /\ found # <<>> /\ ~same /\ Now(Head(found).id) # {}
           /\ \/ /\ Skips(r, l)
                 /\ Writes(c, r, [r.journal EXCEPT !.skipped = @ \cup {l}])
                 /\ handled' = IF l \in r.skip THEN handled \cup {l} ELSE handled
                 /\ UNCHANGED turn
              \/ /\ ~Skips(r, l) /\ l \in r.replace
                 /\ Saves(c, r, l, Head(found).id)
              \/ /\ ~Skips(r, l) /\ l \notin r.replace
                 /\ importing' = [importing EXCEPT ![c] = [r EXCEPT !.conflicts = @ \cup {l}]]
                 /\ UNCHANGED <<migration, turn, handled>>
     /\ UNCHANGED <<oldFile, vaultOf>>

(* VaultBroker.saveLogin(): replaces the entry, or adds one in front.      *)
LoginSaved(c) ==
  LET r == importing[c]  e == [id |-> lastId + 1, name |-> NameOf[r.saving], secret |-> r.saving]
  IN /\ turn = None /\ r # None /\ r.saving # None /\ ~r.saved
     /\ IF Now(r.target) # {}
          THEN /\ entries' = [i \in DOMAIN entries |->
                    IF entries[i].id = r.target THEN [e EXCEPT !.id = r.target] ELSE entries[i]]
               /\ UNCHANGED lastId
          ELSE /\ lastId < MaxEntries /\ lastId' = lastId + 1
               /\ entries' = <<e>> \o entries
     /\ importing' = [importing EXCEPT ![c].saved = TRUE]
     /\ handled' = handled \cup {r.saving}
     /\ UNCHANGED <<oldFile, migration, turn>>

\* and only then the journal names it
Noted(c) ==
  LET r == importing[c] IN
  /\ turn = None /\ r # None /\ r.saved /\ turn' = c
  /\ Writes(c, [r EXCEPT !.saving = None, !.saved = FALSE],
            [r.journal EXCEPT !.mapped = @ \cup {r.saving}])
  /\ UNCHANGED <<oldFile, vaultOf, handled>>

(* The end of the loop; conflicts are asked about.                         *)
LoopEnds(c) ==
  LET r == importing[c]
      all == r.conflicts = {} /\ r.journal.hash \subseteq Done(r.journal)
      j == IF all THEN [r.journal EXCEPT !.phase = "validated"] ELSE r.journal
  IN /\ turn = c /\ r.left = {} /\ turn' = None
     /\ migration' = j
     /\ importing' = [importing EXCEPT ![c] =
          IF r.conflicts # {} /\ r.pass = 1 THEN [r EXCEPT !.pass = 2] ELSE None]
     /\ UNCHANGED <<oldFile, vaultOf, handled>>

\* migrateLegacyVault(): one dialog per conflict, then it runs again
Decided(c, replace) ==
  /\ importing[c] # None /\ importing[c].pass = 2 /\ importing[c].conflicts # {}
  /\ importing[c].left = {} /\ importing[c].saving = None
  /\ replace \subseteq importing[c].conflicts
  /\ Begins(c, 2, replace, importing[c].conflicts \ replace)

\* a locked vault, an entry that is gone, a write that fails, a dialog that is busy
MigrationFails(c) ==
  /\ importing[c] # None /\ ~importing[c].saved /\ turn \in {None, c}
  /\ turn' = None /\ importing' = [importing EXCEPT ![c] = None]
  /\ UNCHANGED <<oldFile, migration, vaultOf, handled>>

(* cleanupLegacyVault(), confirmed.                                        *)
Cleanup ==
  /\ turn = None /\ oldFile # None
  /\ migration # None /\ migration.phase = "validated"
  /\ oldFile' = None
  /\ UNCHANGED <<migration, vaultOf, importing, turn, handled>>
-----------------------------------------------------------------------------
(* importChromeCsv() of a row the vault does not name already, case        *)
(* counting; the wait for the broker's queue is left out.                  *)
ChromeCsv(n) ==
  /\ turn = None /\ \A i \in DOMAIN entries : entries[i].name # n
  /\ lastId < MaxEntries /\ lastId' = lastId + 1
  /\ entries' = <<[id |-> lastId + 1, name |-> n, secret |-> None]>> \o entries
  /\ UNCHANGED <<oldFile, migration, importing, turn, handled>>

\* the user, or another device whose changes are pulled
UserEdits(i, removes) ==
  /\ turn = None
  /\ IF removes THEN entries' = Seqs!RemoveAt(entries, i)
     ELSE entries[i].secret # None /\ entries' = [entries EXCEPT ![i].secret = None]
  /\ UNCHANGED <<oldFile, migration, lastId, importing, turn, handled>>

\* the process stops; an older version may run before this one does again
Restarts(more) ==
  /\ importing' = [c \in Migrations |-> None] /\ turn' = None
  /\ more = {} \/ oldFile # None
  /\ oldFile' = IF more = {} THEN oldFile ELSE oldFile \cup more
  /\ UNCHANGED <<migration, vaultOf, handled>>

MigrationNext ==
  \/ \E c \in Migrations :
       \/ MigrateLegacy(c) \/ LoginSaved(c) \/ Noted(c) \/ LoopEnds(c) \/ MigrationFails(c)
       \/ \E l \in Logins : Item(c, l)
       \/ \E replace \in SUBSET Logins : Decided(c, replace)
  \/ Cleanup
  \/ \E n \in Names : ChromeCsv(n)
  \/ \E i \in DOMAIN entries, removes \in BOOLEAN : UserEdits(i, removes)
  \/ \E more \in SUBSET Older : Restarts(more)
-----------------------------------------------------------------------------
(* "validated" is what removes the old passwords for good: every item of   *)
(* the file that was backed up has been in MyVault or was given up by the  *)
(* user, whichever write the process stopped after, whatever two calls     *)
(* wrote over each other, and whatever happened to the entries meanwhile   *)
(* (migrateLegacy(): an item is noted once it is saved).                   *)
ValidatedMeansHandled ==
  migration # None /\ migration.phase = "validated" => migration.hash \subseteq handled

(* The old file goes only when all it holds was handled.  False:           *)
(* cleanupLegacyAfterConfirmation() does not compare it with the journal.  *)
NothingUnseen ==
  [][oldFile # None /\ oldFile' = None => oldFile \subseteq handled]_migrationVars

(* "idempotent" (vault-migration.test.ts:32): no item comes in twice.      *)
(* False: two calls at once each save what neither found.                  *)
ImportedOnce ==
  \A i, j \in DOMAIN entries : i # j /\ entries[i].secret # None => entries[i].secret # entries[j].secret

MigrationSpec == MigrationInit /\ [][MigrationNext]_migrationVars
=============================================================================
