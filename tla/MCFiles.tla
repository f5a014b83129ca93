------------------------------ MODULE MCFiles ------------------------------
(***************************************************************************)
(* What the browser keeps on the disk, for TLC: the Account Space files,   *)
(* the envelope of the vault with its Windows Hello record, and the old    *)
(* file a migration reads.  They share no variable with one another; each  *)
(* behaviour takes the steps of one of them, which a property of one of    *)
(* them cannot tell from behaviours in which the others also take steps.   *)
(***************************************************************************)
EXTENDS MCAccountFiles, VaultEnvelope, VaultMigration

CONSTANTS l1, l2, m1, m2

MCNameOf  == (l1 :> m1) @@ (l2 :> m2)
MCFolded  == [n \in {m1, m2} |-> m1]

VARIABLE part   \* the component whose steps are followed

accountVars == vars
filesVars == <<accountVars, envelopeVars, migrationVars, part>>

First(S) == CHOOSE x \in S : TRUE

(* Where a component starts in several ways, only its own behaviours do.   *)
FilesInit ==
  /\ part \in {"accounts", "envelope", "migration"}
  /\ Init /\ EnvelopeInit /\ MigrationInit
  /\ part # "accounts" => legacy = None /\ made = {}
  /\ part # "envelope" =>
       cloud = Envelope(First(Vaults), First(Passwords), 1, DataKey(1), NewPayload(1))
  /\ part # "migration" => lastId = 0 /\ oldFile = Logins

FilesNext ==
  \/ part = "accounts" /\ Next /\ UNCHANGED <<envelopeVars, migrationVars, part>>
  \/ part = "envelope" /\ EnvelopeNext /\ UNCHANGED <<accountVars, migrationVars, part>>
  \/ part = "migration" /\ MigrationNext /\ UNCHANGED <<accountVars, envelopeVars, part>>

FilesSpec == FilesInit /\ [][FilesNext]_filesVars
=============================================================================
