---------------------------- MODULE SyncedVault ----------------------------
(***************************************************************************)
(* What MyVault promises its user: a vault on this device and one in the   *)
(* cloud, which each other's changes reach whole.  Neither is replaced by  *)
(* one that lacks something of it, unless the user chose to keep the other *)
(* or the file was recovered; what is replaced then is set aside.  Only an *)
(* unlock opens the vault.  There are no requests, versions and queues     *)
(* here, and no moment between the start and the end of anything.          *)
(***************************************************************************)
CONSTANT Edits

VARIABLES
  device,  \* the edits in the vault of this device
  cloud,   \* those in the cloud vault
  aside,   \* those that a choice or a recovery replaced
  known,   \* those the user was told are saved, or has seen
  clean,   \* the device says that it has nothing to send
  open,    \* the vault is open on this device
  lossy    \* something happened of which nothing is promised

vaultVars == <<device, cloud, aside, known, clean, open, lossy>>

Init ==
  /\ device = {} /\ cloud = {} /\ aside = {} /\ known = {}
  /\ clean \in BOOLEAN
  /\ open = FALSE /\ lossy = FALSE

-----------------------------------------------------------------------------
Save(new) ==
  /\ device' = device \cup new /\ new \subseteq known'
  /\ ~clean'
  /\ UNCHANGED <<cloud, aside>>

SaveElsewhere(new) ==
  /\ cloud' = cloud \cup new /\ new \subseteq known'
  /\ UNCHANGED <<device, aside, clean>>

(* The cloud takes a vault of this device, not always its latest one.      *)
Push(sent) ==
  /\ sent \subseteq device \cup aside
  /\ cloud \subseteq sent \cup aside
  /\ cloud' = sent
  /\ UNCHANGED <<device, aside, clean>>

KeepMine(sent) ==
  /\ sent \subseteq device \cup aside
  /\ cloud' = sent
  /\ aside' = aside \cup (cloud \ sent)
  /\ UNCHANGED <<device, clean>>

(* This device takes a vault that the cloud has, or had a while ago.       *)
Pull(got) ==
  /\ got \subseteq cloud \cup aside
  /\ device \subseteq got \cup aside
  /\ device' = got /\ clean'
  /\ UNCHANGED <<cloud, aside>>

KeepTheirs(got) ==
  /\ got \subseteq cloud \cup aside
  /\ device' = got /\ clean'
  /\ aside' = aside \cup (device \ got)
  /\ UNCHANGED cloud

(* The device says whether it has something to send.                       *)
Mark ==
  /\ clean' => device \subseteq cloud \cup aside
  /\ UNCHANGED <<device, cloud, aside>>

Recover ==
  /\ device' = {}
  /\ aside' = aside \cup device
  /\ ~open'
  /\ UNCHANGED <<cloud, clean>>

Unlock ==
  /\ open'
  /\ UNCHANGED <<device, cloud, aside, clean>>

(* What the user is told and shown is there.                               *)
Tells == known \subseteq known' /\ known' \subseteq known \cup device' \cup cloud'

Synchronizes ==
  \/ \E edits \in SUBSET Edits :
       \/ Save(edits) \/ SaveElsewhere(edits)
       \/ Push(edits) \/ KeepMine(edits)
       \/ Pull(edits) \/ KeepTheirs(edits)
  \/ Mark \/ Recover

Keeps ==
  /\ ~lossy' /\ ~lossy
  /\ Tells
  /\ \/ Unlock
     \/ Synchronizes /\ (open' => open)

(* Of the rest only that it does not open the vault by itself.             *)
Loses ==
  /\ lossy'
  /\ open' => open \/ UNCHANGED <<device, cloud, aside, clean>>

Next == Keeps \/ Loses

Spec == Init /\ [][Next]_vaultVars
=============================================================================
