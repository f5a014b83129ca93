--------------------------- MODULE VaultEnvelope ---------------------------
(***************************************************************************)
(* The keys of a vault (electron/myvault/security/vault-crypto.ts) and the *)
(* second way to its data key, Windows Hello (windows-hello.ts and the     *)
(* record of it that vault-broker.ts keeps).  Encryption is symbolic: a    *)
(* box opens with the key and the associated data it was made with, and    *)
(* shows nothing otherwise.  What a vault holds is abstracted to the       *)
(* formats of its contents and its passkeys.  Other devices work on the    *)
(* copy in the cloud with the same functions, in this build or a newer     *)
(* one; the order of edits and the conflicts of devices are VaultSync's.   *)
(***************************************************************************)
EXTENDS Naturals, Absent

CONSTANTS
  Vaults,      \* identities of vaults
  Passwords,   \* master passwords
  ThisBuild,   \* CURRENT_SCHEMA_VERSION of this build
  NewestBuild, \* the newest schema any device writes
  MaxRandom    \* bound: random keys, salts and challenges

ASSUME EnvelopeAssumption ==
  /\ ThisBuild \in Nat /\ NewestBuild \in Nat /\ MaxRandom \in Nat \ {0}
  /\ 1 <= ThisBuild /\ ThisBuild <= NewestBuild

VARIABLES
  local,     \* VaultBroker.envelope, and its file
  cloud,     \* the copy of the MyVault service
  agreed,    \* the copy this device pulled or pushed last
  opened,    \* VaultBroker.session and payload
  hello,     \* the Windows Hello record, a file
  container, \* the Hello key of each vault in Windows: its number, or 0
  enrolling, \* enrollPlatformUnlock() under way
  gesture,   \* unlockWithPlatform() under way
  removing,  \* the vault whose Hello key is being removed
  random,    \* random numbers drawn
  known      \* history: the identities there have been

copies       == <<local, cloud, agreed, opened>>
helloVars    == <<hello, container, enrolling, gesture, removing>>
draws        == <<random, known>>
envelopeVars == <<copies, helloVars, draws>>

Schemas == 1 .. NewestBuild
Draws   == 1 .. MaxRandom

DataKey(n) == <<"data", n>>
PasswordKey(p, salt) == <<"password", p, salt>>
HelloKey(v, n) == <<"hello", v, n>>   \* its challenge and salt are in the record
DataKeys == {DataKey(n) : n \in Draws}

wrapAad(v) == <<v, "wrapped-key">>
payloadAad(v) == <<v, "payload">>
biometricWrapAad(v) == <<v, "biometric-wrapped-key">>

Box(key, aad, content) == [key |-> key, aad |-> aad, content |-> content]
Opens(box, key, aad) == box.key = key /\ box.aad = aad

(* The version it is labelled with and the newest format of what it holds. *)
Payload == [schema : Schemas, format : Schemas]

Envelope(v, p, salt, key, payload) ==
  [vault |-> v, salt |-> salt,
   wrapped |-> Box(PasswordKey(p, salt), wrapAad(v), key),
   payload |-> Box(key, payloadAad(v), payload)]

IsEnvelope(e) ==
  \E v \in Vaults, p \in Passwords, s \in Draws, n \in Draws :
    /\ e.payload.content \in Payload
    /\ e = Envelope(v, p, s, DataKey(n), e.payload.content)
Session == [vault : Vaults, key : DataKeys, payload : Payload]
HelloRecord == [vault : Vaults, key : Draws, data : DataKeys]

EnvelopeTypeOK ==
  /\ \A e \in {local, cloud, agreed} \ {None} : IsEnvelope(e)
  /\ opened \in Session \cup {None}
  /\ hello \in HelloRecord \cup {None}
  /\ container \in [Vaults -> 0..MaxRandom]
  /\ enrolling \in [vault : Vaults, data : DataKeys, key : 0..MaxRandom]
                     \cup {None}
  /\ gesture # None => gesture.record \in HelloRecord /\ IsEnvelope(gesture.envelope)
  /\ removing \in Vaults \cup {None}
  /\ random \in 0..MaxRandom /\ known \subseteq Vaults
-----------------------------------------------------------------------------
(* parsePayload(): forward only.                                           *)
AnythingUnderstood(build, x) == TRUE
Understood(build, x) == x.schema <= build
parsePayload(build, x) == [x EXCEPT !.schema = build]

\* encryptVaultPayload(): the rest of the envelope stays
Reencrypted(e, key, x) == [e EXCEPT !.payload = Box(key, payloadAad(e.vault), x)]

(* changeMasterPassword(): the data key stays, the salt is new.            *)
KeyRenewed(e, n) == DataKey(n)
KeyKept(e, n) == e.wrapped.content
PasswordChanged(e, p, n, build) ==
  Envelope(e.vault, p, n, KeyKept(e, n), parsePayload(build, e.payload.content))

HelloBox(record) ==
  Box(HelloKey(record.vault, record.key), biometricWrapAad(record.vault), record.data)

\* what this build sees of an envelope with a data key
Shows(e, key) ==
  Opens(e.payload, key, payloadAad(e.vault)) /\ Understood(ThisBuild, e.payload.content)
OpenedBy(e, key) ==
  [vault |-> e.vault, key |-> key, payload |-> parsePayload(ThisBuild, e.payload.content)]

NewPayload(schema) == [schema |-> schema, format |-> schema]

EnvelopeInit ==
  /\ local = None /\ agreed = None
  /\ cloud \in {Envelope(v, p, 1, DataKey(1), NewPayload(s)) :
                  v \in Vaults, p \in Passwords, s \in 1..ThisBuild}
  /\ opened = None /\ hello = None /\ container = [v \in Vaults |-> 0]
  /\ enrolling = None /\ gesture = None /\ removing = None
  /\ random = 1 /\ known = {cloud.vault}
-----------------------------------------------------------------------------
(* Other devices.                                                          *)

OtherWrites(e) ==
  /\ cloud' = e
  /\ UNCHANGED <<local, agreed, opened, helloVars>>

\* createVault(): another identity, another data key
CreateVault(v, p) ==
  /\ random < MaxRandom /\ random' = random + 1
  /\ v \notin known /\ known' = known \cup {v}
  /\ OtherWrites(Envelope(v, p, random + 1, DataKey(random + 1), NewPayload(ThisBuild)))

\* a save of a device whose session opens the cloud's copy
OtherSaves(build) ==
  /\ Understood(build, cloud.payload.content)
  /\ OtherWrites(Reencrypted(cloud, cloud.wrapped.content,
                           [schema |-> build, format |-> build]))
  /\ UNCHANGED draws

ChangeMasterPassword(build, p) ==
  /\ Understood(build, cloud.payload.content)
  /\ cloud.wrapped.key # PasswordKey(p, cloud.salt)
  /\ random < MaxRandom /\ random' = random + 1
  /\ OtherWrites(PasswordChanged(cloud, p, random + 1, build))
  /\ UNCHANGED known
-----------------------------------------------------------------------------
(* This device.                                                            *)

(* installEncryptedVault(): the Hello record of another vault is deleted.  *)
Install ==
  /\ local' = cloud /\ agreed' = cloud /\ opened' = None
  /\ hello' = IF local # None /\ local.vault = cloud.vault THEN hello ELSE None
  /\ UNCHANGED <<cloud, container, enrolling, gesture, removing, draws>>

UnlockWith(p) ==
  /\ local # None
  /\ Opens(local.wrapped, PasswordKey(p, local.salt), wrapAad(local.vault))
  /\ Shows(local, local.wrapped.content)
  /\ opened' = OpenedBy(local, local.wrapped.content)
  /\ UNCHANGED <<local, cloud, agreed, helloVars, draws>>

Relock ==
  /\ opened # None /\ opened' = None
  /\ UNCHANGED <<local, cloud, agreed, helloVars, draws>>

\* persistMutation(): what the session shows is written back
SaveVault ==
  /\ opened # None /\ local.vault = opened.vault
  /\ local' = Reencrypted(local, opened.key, opened.payload)
  /\ UNCHANGED <<cloud, agreed, opened, helloVars, draws>>

Push ==
  /\ opened # None /\ cloud = agreed
  /\ cloud' = local /\ agreed' = local
  /\ UNCHANGED <<local, opened, helloVars, draws>>

(* acceptRemote(), decryptWithSession(): another vault or a newer schema   *)
(* is refused.                                                             *)
Pull ==
  /\ opened # None /\ local = agreed /\ cloud # agreed
  /\ cloud.vault = opened.vault /\ Shows(cloud, opened.key)
  /\ local' = cloud /\ agreed' = cloud /\ opened' = OpenedBy(cloud, opened.key)
  /\ UNCHANGED <<cloud, helloVars, draws>>
-----------------------------------------------------------------------------
(* Windows Hello.  A gesture waits for a person.                           *)

\* enrollPlatformUnlock(), prepareBiometricWrap(): the password is checked first
EnrollBegins(p) ==
  /\ opened # None /\ enrolling = None
  /\ Opens(local.wrapped, PasswordKey(p, local.salt), wrapAad(local.vault))
  /\ enrolling' = [vault |-> local.vault, data |-> local.wrapped.content, key |-> 0]
  /\ UNCHANGED <<copies, hello, container, gesture, removing, draws>>

\* Windows replaces the key of that name, then asks for the gesture
KeyCreated ==
  /\ enrolling # None /\ enrolling.key = 0
  /\ random < MaxRandom /\ random' = random + 1
  /\ container' = [container EXCEPT ![enrolling.vault] = random + 1]
  /\ enrolling' = [enrolling EXCEPT !.key = random + 1]
  /\ UNCHANGED <<copies, hello, gesture, removing, known>>

EnrollEnds ==
  /\ enrolling # None /\ enrolling.key # 0
  /\ hello' = enrolling
  /\ enrolling' = None
  /\ UNCHANGED <<copies, container, gesture, removing, draws>>

EnrollFails ==
  /\ enrolling # None /\ enrolling' = None
  /\ UNCHANGED <<copies, hello, container, gesture, removing, draws>>

(* unlockWithPlatform(): a record of another vault is dropped at once.     *)
HelloAsked ==
  /\ local # None /\ hello # None /\ gesture = None
  /\ IF hello.vault = local.vault
     THEN gesture' = [record |-> hello, envelope |-> local] /\ UNCHANGED hello
     ELSE hello' = None /\ UNCHANGED gesture
  /\ UNCHANGED <<copies, container, enrolling, removing, draws>>

HelloSigned ==
  /\ gesture # None /\ gesture' = None
  /\ LET r == gesture.record
         key == HelloKey(r.vault, container[r.vault])
         released == container[r.vault] # 0 /\ Opens(HelloBox(r), key, biometricWrapAad(r.vault))
         shown == released /\ Opens(gesture.envelope.payload, r.data, payloadAad(r.vault))
     IN \/ /\ ~shown            \* a stale record is dropped, whichever is there
           /\ hello' = None /\ UNCHANGED opened
        \/ /\ shown /\ UNCHANGED hello
           /\ opened' = IF local = gesture.envelope /\ Understood(ThisBuild, local.payload.content)
                        THEN OpenedBy(local, r.data) ELSE opened
  /\ UNCHANGED <<local, cloud, agreed, container, enrolling, removing, draws>>

HelloCancelled ==
  /\ gesture # None /\ gesture' = None
  /\ UNCHANGED <<copies, hello, container, enrolling, removing, draws>>

\* removePlatformUnlock(): the record first, the key in Windows later
RemoveHello ==
  /\ hello # None /\ removing = None
  /\ hello' = None /\ removing' = hello.vault
  /\ UNCHANGED <<copies, container, enrolling, gesture, draws>>

KeyRemoved ==
  /\ removing # None /\ removing' = None
  /\ container' = [container EXCEPT ![removing] = 0]
  /\ UNCHANGED <<copies, hello, enrolling, gesture, draws>>

\* the owner of the computer resets Windows Hello
HelloReset ==
  /\ container' = [v \in Vaults |-> 0]
  /\ UNCHANGED <<copies, hello, enrolling, gesture, removing, draws>>

EnvelopeRestart ==
  /\ opened' = None /\ enrolling' = None /\ gesture' = None /\ removing' = None
  /\ UNCHANGED <<local, cloud, agreed, hello, container, draws>>

EnvelopeNext ==
  \/ \E v \in Vaults, p \in Passwords : CreateVault(v, p)
  \/ \E build \in ThisBuild..NewestBuild :
       \/ OtherSaves(build)
       \/ \E p \in Passwords : ChangeMasterPassword(build, p)
  \/ \E p \in Passwords : UnlockWith(p) \/ EnrollBegins(p)
  \/ Install \/ Relock \/ SaveVault \/ Push \/ Pull
  \/ KeyCreated \/ EnrollEnds \/ EnrollFails
  \/ HelloAsked \/ HelloSigned \/ HelloCancelled
  \/ RemoveHello \/ KeyRemoved \/ HelloReset \/ EnvelopeRestart
-----------------------------------------------------------------------------
(* A session opens every later envelope of its vault, wherever its         *)
(* password was changed, and a Windows Hello record the envelope of its    *)
(* vault as long as its key is in Windows: changeMasterPassword() keeps    *)
(* the data key, and installEncryptedVault() and unlockWithPlatform()      *)
(* compare identities.  Nothing a newer build put into a vault is stored   *)
(* under the version number of an older one, whose migration would be      *)
(* applied to it again: parsePayload() refuses it before anything can be   *)
(* written back.                                                           *)
StillReadable ==
  /\ \A e \in {local, cloud} \ {None} :
       opened # None /\ opened.vault = e.vault =>
         Opens(e.payload, opened.key, payloadAad(e.vault))
  /\ hello # None /\ local # None /\ hello.vault = local.vault =>
       Opens(local.payload, hello.data, payloadAad(local.vault))
  /\ \A e \in {local, cloud} \ {None} : e.payload.content.format <= e.payload.content.schema

EnvelopeSpec == EnvelopeInit /\ [][EnvelopeNext]_envelopeVars
=============================================================================
