--------------------------- MODULE ServicesProofs ---------------------------
(***************************************************************************)
(* The components that deal with other programs and services, each proved  *)
(* on its own: they share no variable.                                     *)
(***************************************************************************)
EXTENDS Updates, GoogleOperations, AccountBackup, ControlCenter, ProjectRuns, SideApps,
        DownloadLinks, FiniteSetTheorems, TLAPS

-----------------------------------------------------------------------------
(* The Control Center.                                                     *)

(* Whatever was made was made under the identifier of its call.            *)
LinkInv ==
  /\ LinkTypeOK
  /\ ForgottenIsGone
  /\ \A r \in made : r = RequestId(r[1])

LEMMA LinkNumbers == 0 \in Pairings /\ Pairings \subseteq Nat /\ 1 \in 1..Tries /\ None \notin LinkCall
  BY LinkAssumption DEF Pairings

LEMMA NextTry ==
  ASSUME NEW u \in LinkCall, u.try < Tries
  PROVE  /\ [u EXCEPT !.stage = "retry", !.try = @ + 1, !.app = 0] \in LinkCall
         /\ [u EXCEPT !.stage = "retry", !.try = @ + 1, !.app = 0, !.token = 0] \in LinkCall
<1>1. u.try \in 1..Tries
  BY DEF LinkCall
<1>2. u.try + 1 \in 1..Tries
  BY <1>1, LinkAssumption
<1> QED BY <1>2, LinkNumbers DEF LinkCall

LEMMA LinkInvInit == LinkInit => LinkInv
<1> SUFFICES ASSUME LinkInit PROVE LinkInv
  OBVIOUS
<1>1. LinkTypeOK
  BY LinkNumbers DEF LinkInit, LinkTypeOK
<1> QED BY <1>1 DEF LinkInit, LinkInv, ForgottenIsGone

LEMMA LinkTypes == ASSUME LinkInv, LinkNext PROVE LinkTypeOK'
<1> USE LinkNumbers
<1>0. LinkTypeOK /\ linkCall \in [LinkCalls -> LinkCall \cup {None}]
  BY DEF LinkInv, LinkTypeOK
<1>a. ASSUME NEW c \in LinkCalls, NEW u \in LinkCall, linkCall' = [linkCall EXCEPT ![c] = u]
      PROVE  linkCall' \in [LinkCalls -> LinkCall \cup {None}]
  BY <1>0, <1>a
<1>b. ASSUME NEW c \in LinkCalls, linkCall[c] # None, Finish(c)
      PROVE  linkCall' \in [LinkCalls -> LinkCall \cup {None}]
  <2>1. [linkCall[c] EXCEPT !.stage = "over", !.app = 0, !.token = 0] \in LinkCall
    BY <1>0, <1>b DEF LinkCall, LinkCallKinds
  <2> QED BY <1>0, <1>b, <2>1 DEF Finish
<1>1. ASSUME NEW c \in LinkCalls, BeginPair(c) PROVE LinkTypeOK'
  BY <1>0, <1>1 DEF BeginPair, LinkTypeOK, LinkCall, LinkCallKinds
<1>2. ASSUME NEW c \in LinkCalls, NEW k \in LinkCallKinds, BeginLinkCall(c, k) PROVE LinkTypeOK'
  <2>1. AsksHello([kind |-> k, stage |-> "hello", app |-> 0, token |-> 0, try |-> 1]) \in LinkCall
    BY <1>0 DEF AsksHello, LinkCall, LinkTypeOK
  <2> QED BY <1>0, <1>2, <2>1, <1>a DEF BeginLinkCall, LinkTypeOK
<1>3. ASSUME NEW c \in LinkCalls, NEW a \in BOOLEAN, NEW k \in BOOLEAN, PairAnswered(c, a, k)
      PROVE  LinkTypeOK'
  <2>1. linkCall[c] \in LinkCall
    BY <1>0, <1>3 DEF PairAnswered, LinkAt
  <2>2. paired' \in Pairings /\ accepted' \subseteq 1..paired'
    BY <1>0, <1>3, LinkAssumption DEF PairAnswered, LinkTypeOK, Pairings
  <2>3. [linkCall[c] EXCEPT !.stage = "hello", !.app = paired'] \in LinkCall
    BY <2>1, <2>2 DEF LinkCall
  <2>4. linkCall' \in [LinkCalls -> LinkCall \cup {None}]
    <3>1. CASE Finish(c)
      BY <3>1, <2>1, <1>b
    <3>2. CASE linkCall' = [linkCall EXCEPT ![c].stage = "hello", ![c].app = paired']
      BY <1>0, <3>2, <2>3
    <3> QED BY <1>3, <3>1, <3>2 DEF PairAnswered
  <2> QED BY <1>0, <1>3, <2>2, <2>4 DEF PairAnswered, LinkTypeOK
<1>4. ASSUME NEW c \in LinkCalls, NEW a \in BOOLEAN, HelloAnswered(c, a) PROVE LinkTypeOK'
  <2>1. linkCall[c] \in LinkCall /\ linkCall[c] # None
    BY <1>0, <1>4 DEF HelloAnswered, LinkAt
  <2>2. [linkCall[c] EXCEPT !.stage = "token", !.token = link] \in LinkCall
    BY <1>0, <2>1 DEF LinkCall, LinkTypeOK
  <2>3. linkCall[c].try < Tries
          => [linkCall[c] EXCEPT !.stage = "retry", !.try = @ + 1, !.app = 0] \in LinkCall
    BY <2>1, NextTry
  <2>4. linkCall' \in [LinkCalls -> LinkCall \cup {None}]
    <3>1. CASE Finish(c)
      BY <3>1, <2>1, <1>b
    <3>2. CASE linkCall' = [linkCall EXCEPT ![c].stage = "token", ![c].token = link]
      BY <1>0, <3>2, <2>2
    <3>3. CASE linkCall[c].try < Tries /\ linkCall' =
                 [linkCall EXCEPT ![c].stage = "retry", ![c].try = @ + 1, ![c].app = 0]
      BY <1>0, <3>3, <2>3
    <3> QED BY <1>4, <3>1, <3>2, <3>3 DEF HelloAnswered
  <2>5. UNCHANGED <<link, linkFile, port, paired, accepted, made>> /\ reached' \in BOOLEAN
    BY <1>0, <1>4 DEF HelloAnswered, LinkTypeOK
  <2> QED BY <1>0, <2>4, <2>5 DEF LinkTypeOK
<1>5. ASSUME NEW c \in LinkCalls, TokenCallArrives(c) PROVE LinkTypeOK'
  BY <1>0, <1>5 DEF TokenCallArrives, RequestId, LinkTypeOK
<1>6. ASSUME NEW c \in LinkCalls, TokenAnswered(c) PROVE LinkTypeOK'
  <2>1. linkCall' \in [LinkCalls -> LinkCall \cup {None}]
    BY <1>0, <1>6, <1>b DEF TokenAnswered, LinkAt
  <2> QED BY <1>0, <1>6, <2>1 DEF TokenAnswered, Remembered, LinkTypeOK
<1>7. ASSUME NEW c \in LinkCalls, TokenRefused(c) \/ TokenAnswerRejected(c) PROVE LinkTypeOK'
  <2>1. linkCall' \in [LinkCalls -> LinkCall \cup {None}]
    BY <1>0, <1>7, <1>b DEF TokenRefused, TokenAnswerRejected, LinkAt
  <2> QED BY <1>0, <1>7, <2>1 DEF TokenRefused, TokenAnswerRejected, LinkTypeOK
<1>8. ASSUME NEW c \in LinkCalls, TokenAnswerLost(c) PROVE LinkTypeOK'
  <2>1. linkCall[c] \in LinkCall /\ linkCall[c] # None
    BY <1>0, <1>8 DEF TokenAnswerLost, LinkAt
  <2>2. linkCall[c].try < Tries
          => [linkCall[c] EXCEPT !.stage = "retry", !.try = @ + 1, !.app = 0, !.token = 0] \in LinkCall
    BY <2>1, NextTry
  <2>3. linkCall' \in [LinkCalls -> LinkCall \cup {None}]
    BY <1>0, <1>8, <2>1, <2>2, <1>b DEF TokenAnswerLost
  <2> QED BY <1>0, <1>8, <2>3 DEF TokenAnswerLost, LinkTypeOK
<1>9. ASSUME NEW c \in LinkCalls, TryAgain(c) PROVE LinkTypeOK'
  <2>1. linkCall[c] \in LinkCall /\ linkCall[c] # None
    BY <1>0, <1>9 DEF TryAgain, LinkAt
  <2>2. AsksHello(linkCall[c]) \in LinkCall
    BY <1>0, <2>1 DEF AsksHello, LinkCall, LinkTypeOK
  <2>3. linkCall' \in [LinkCalls -> LinkCall \cup {None}] /\ reached' \in BOOLEAN
    BY <1>0, <1>9, <2>1, <2>2, <1>b DEF TryAgain, LinkTypeOK
  <2> QED BY <1>0, <1>9, <2>3 DEF TryAgain, LinkTypeOK
<1>10. ASSUME RemoveLink PROVE LinkTypeOK'
  BY <1>0, <1>10 DEF RemoveLink, LinkTypeOK
<1>11. ASSUME NEW d \in BOOLEAN, LinkRestart(d) PROVE LinkTypeOK'
  <2>1. \A c \in LinkCalls : linkCall[c] # None =>
          [linkCall[c] EXCEPT !.stage = "over", !.app = 0, !.token = 0] \in LinkCall
    BY <1>0 DEF LinkCall
  <2>2. linkCall' \in [LinkCalls -> LinkCall \cup {None}]
    BY <1>11, <2>1 DEF LinkRestart
  <2> QED BY <1>0, <1>11, <2>2 DEF LinkRestart, LinkTypeOK
<1>12. ASSUME NEW p \in {"center", "other", "nobody"}, PortChanges(p) PROVE LinkTypeOK'
  BY <1>0, <1>12 DEF PortChanges, LinkTypeOK
<1>13. ASSUME NEW n \in Pairings, CenterForgets(n) PROVE LinkTypeOK'
  BY <1>0, <1>13 DEF CenterForgets, LinkTypeOK
<1> QED BY <1>1, <1>2, <1>3, <1>4, <1>5, <1>6, <1>7, <1>8, <1>9, <1>10, <1>11, <1>12, <1>13 DEF LinkNext

(* What is in memory and in the file, when there is no link any more.      *)
LEMMA LinkForgets == ASSUME LinkInv, LinkNext PROVE ForgottenIsGone'
<1> USE DEF LinkInv, LinkTypeOK, ForgottenIsGone, Pairings
<1>1. ASSUME NEW c \in LinkCalls, NEW a \in BOOLEAN, NEW k \in BOOLEAN, PairAnswered(c, a, k)
      PROVE  ForgottenIsGone'
  <2>1. CASE paired' > paired /\ a
    BY <1>1, <2>1, LinkAssumption DEF PairAnswered
  <2>2. CASE ~(paired' > paired /\ a)
    BY <1>1, <2>2 DEF PairAnswered
  <2> QED BY <2>1, <2>2
<1>2. ASSUME NEW c \in LinkCalls, TokenAnswered(c) PROVE ForgottenIsGone'
  BY <1>2 DEF TokenAnswered, Remembered
<1>3. ASSUME NEW c \in LinkCalls, TokenRefused(c) PROVE ForgottenIsGone'
  BY <1>3 DEF TokenRefused
<1>4. ASSUME NEW d \in BOOLEAN, RemoveLink \/ LinkRestart(d) PROVE ForgottenIsGone'
  BY <1>4 DEF RemoveLink, LinkRestart
<1>5. CASE UNCHANGED <<link, linkFile>>
  BY <1>5
<1> QED
  BY <1>1, <1>2, <1>3, <1>4, <1>5
  DEF LinkNext, BeginPair, BeginLinkCall, HelloAnswered, TokenCallArrives, TokenAnswerRejected,
      TokenAnswerLost, TryAgain, PortChanges, CenterForgets

LEMMA LinkMakes == ASSUME LinkInv, LinkNext PROVE \A r \in made' : r = RequestId(r[1])
<1>1. ASSUME NEW c \in LinkCalls, TokenCallArrives(c) PROVE \A r \in made' : r = RequestId(r[1])
  BY <1>1 DEF LinkInv, TokenCallArrives, RequestId
<1>2. CASE UNCHANGED made
  BY <1>2 DEF LinkInv, RequestId
<1> QED
  BY <1>1, <1>2
  DEF LinkNext, BeginPair, BeginLinkCall, HelloAnswered, PairAnswered, TokenAnswered, TokenRefused,
      TokenAnswerRejected, TokenAnswerLost, TryAgain, RemoveLink, LinkRestart, PortChanges, CenterForgets

(* The variables of the link keep their types, and every task is made      *)
(* under the identifier of its call (startTask(), ControlCenterLink).      *)
THEOREM LinkInvariant == LinkSpec => []LinkInv
<1>1. ASSUME LinkInv, [LinkNext]_linkVars PROVE LinkInv'
  <2>1. CASE LinkNext
    BY <1>1, <2>1, LinkTypes, LinkForgets, LinkMakes DEF LinkInv, RequestId
  <2>2. CASE UNCHANGED linkVars
    BY <1>1, <2>2 DEF LinkInv, LinkTypeOK, ForgottenIsGone, linkVars, LinkCall, Pairings, RequestId
  <2> QED BY <1>1, <2>1, <2>2
<1> QED BY LinkInvInit, <1>1, PTL DEF LinkSpec

(* A link that was removed or refused does not come back.                  *)
THEOREM RemovedLinkIsGone == LinkSpec => []ForgottenIsGone
<1>1. LinkInv => ForgottenIsGone
  BY DEF LinkInv
<1> QED BY LinkInvariant, <1>1, PTL

(* A task is made once.                                                    *)
THEOREM SentTaskIsMadeOnce == LinkSpec => []TaskOnce
<1>1. ASSUME LinkInv PROVE TaskOnce
  <2> SUFFICES ASSUME NEW c \in LinkCalls PROVE Cardinality({r \in made : r[1] = c}) <= 1
    BY DEF TaskOnce
  <2>1. {r \in made : r[1] = c} \subseteq {RequestId(c)}
    BY <1>1 DEF LinkInv
  <2>2. IsFiniteSet({RequestId(c)}) /\ Cardinality({RequestId(c)}) = 1
    BY FS_Singleton
  <2> QED BY <2>1, <2>2, FS_Subset
<1> QED BY LinkInvariant, <1>1, PTL

-----------------------------------------------------------------------------
(* The backup.                                                             *)

(* A tag is handed out once: files, and what calls have read, that agree   *)
(* on it agree on everything.                                              *)
Tagged ==
  /\ \A f \in FileIds : drive[f].etag <= version
  /\ \A f, g \in FileIds : drive[f].etag = drive[g].etag => drive[f] = drive[g]
  /\ \A c \in Calls : backupCall[c] # None =>
       /\ backupCall[c].seen.etag <= version
       /\ \A f \in FileIds : backupCall[c].seen.etag = drive[f].etag => backupCall[c].seen = drive[f]

LEMMA BackupConstants ==
  /\ MaxVersions \in Nat /\ 0 \in 0..MaxVersions
  /\ None \notin BackupCall /\ None \notin FileIds
  /\ Over \in BackupCall /\ Over # None
  /\ \A x \in BackupFile \cup {NoFile} : x.etag \in 0..MaxVersions /\ (x.etag = 0 <=> x = NoFile)
<1>1. MaxVersions \in Nat /\ 0 \in 0..MaxVersions /\ None \notin BackupCall /\ None \notin FileIds
  BY BackupAssumption
<1>2. Over \in BackupCall
  BY <1>1 DEF Over, BackupCall, Resolutions
<1>3. \A x \in BackupFile \cup {NoFile} : x.etag \in 0..MaxVersions /\ (x.etag = 0 <=> x = NoFile)
  BY <1>1 DEF BackupFile, NoFile
<1> QED BY <1>1, <1>2, <1>3

(* The steps that write no file: a call begins, reads nothing, or ends.    *)
LEMMA KeepsTags ==
  ASSUME BackupTypeOK, Tagged, UNCHANGED <<drive, version>>,
         \A c \in Calls : backupCall'[c] # None =>
           \/ backupCall'[c].seen = NoFile
           \/ backupCall[c] # None /\ backupCall'[c].seen = backupCall[c].seen
           \/ \E f \in FileIds : backupCall'[c].seen = drive[f]
  PROVE  Tagged'
<1>1. \A f \in FileIds : drive[f] \in BackupFile \cup {NoFile} /\ drive[f].etag <= version
  BY DEF BackupTypeOK, Tagged
<1>2. \A c \in Calls, f \in FileIds : backupCall'[c] # None =>
        /\ backupCall'[c].seen.etag <= version
        /\ backupCall'[c].seen.etag = drive[f].etag => backupCall'[c].seen = drive[f]
  <2> SUFFICES ASSUME NEW c \in Calls, NEW f \in FileIds, backupCall'[c] # None
               PROVE  /\ backupCall'[c].seen.etag <= version
                      /\ backupCall'[c].seen.etag = drive[f].etag => backupCall'[c].seen = drive[f]
    OBVIOUS
  <2>1. CASE backupCall'[c].seen = NoFile
    BY <2>1, <1>1, BackupConstants DEF NoFile, BackupTypeOK
  <2>2. CASE backupCall[c] # None /\ backupCall'[c].seen = backupCall[c].seen
    BY <2>2 DEF Tagged
  <2>3. CASE \E g \in FileIds : backupCall'[c].seen = drive[g]
    BY <2>3 DEF Tagged
  <2> QED BY <2>1, <2>2, <2>3
<1>3. FileIds # {}
  BY DEF FileIds
<1> QED BY <1>2, <1>3 DEF Tagged

(* A version that is written has a tag of its own.                         *)
LEMMA WritesTag ==
  ASSUME BackupTypeOK, Tagged, NEW f \in FileIds, NEW items, NEW by, NEW kind, NEW read,
         Writes(f, items, by, kind, read),
         \A c \in Calls : backupCall'[c] # None =>
           \/ backupCall'[c].seen = NoFile
           \/ backupCall[c] # None /\ backupCall'[c].seen = backupCall[c].seen
  PROVE  Tagged'
<1>0. /\ version \in Nat /\ version' = version + 1
      /\ drive' = [drive EXCEPT ![f] = [etag |-> version + 1, items |-> items]]
      /\ drive \in [FileIds -> BackupFile \cup {NoFile}]
  BY BackupConstants DEF Writes, BackupTypeOK
<1>1. /\ drive'[f].etag = version + 1
      /\ \A g \in FileIds \ {f} : drive'[g] = drive[g]
      /\ \A g \in FileIds : drive[g].etag \in Nat /\ drive[g].etag <= version
  BY <1>0, BackupConstants DEF Tagged
<1>2. \A g \in FileIds : drive'[g].etag <= version'
  BY <1>0, <1>1
<1>3. \A g, h \in FileIds : drive'[g].etag = drive'[h].etag => drive'[g] = drive'[h]
  <2> SUFFICES ASSUME NEW g \in FileIds, NEW h \in FileIds, drive'[g].etag = drive'[h].etag
               PROVE  drive'[g] = drive'[h]
    OBVIOUS
  <2>1. CASE g = f \/ h = f
    BY <2>1, <1>0, <1>1
  <2>2. CASE g # f /\ h # f
    BY <2>2, <1>1 DEF Tagged
  <2> QED BY <2>1, <2>2
<1>4. \A c \in Calls, g \in FileIds : backupCall'[c] # None =>
        /\ backupCall'[c].seen.etag <= version'
        /\ backupCall'[c].seen.etag = drive'[g].etag => backupCall'[c].seen = drive'[g]
  <2> SUFFICES ASSUME NEW c \in Calls, NEW g \in FileIds, backupCall'[c] # None
               PROVE  /\ backupCall'[c].seen.etag <= version'
                      /\ backupCall'[c].seen.etag = drive'[g].etag => backupCall'[c].seen = drive'[g]
    OBVIOUS
  <2>1. CASE backupCall'[c].seen = NoFile
    <3>1. backupCall'[c].seen.etag = 0
      BY <2>1 DEF NoFile
    <3>2. drive'[g].etag = 0 => drive'[g] = NoFile
      BY <1>0, <1>1, BackupConstants
    <3> QED BY <2>1, <3>1, <3>2, <1>0
  <2>2. CASE backupCall[c] # None /\ backupCall'[c].seen = backupCall[c].seen
    <3>1. backupCall[c].seen \in BackupFile \cup {NoFile}
      BY <2>2 DEF BackupTypeOK, BackupCall
    <3>2. backupCall[c].seen.etag \in Nat /\ backupCall[c].seen.etag <= version
      BY <2>2, <3>1, BackupConstants DEF Tagged
    <3>3. CASE g = f
      BY <2>2, <3>2, <3>3, <1>0, <1>1
    <3>4. CASE g # f
      BY <2>2, <3>2, <3>4, <1>0, <1>1 DEF Tagged
    <3> QED BY <3>3, <3>4
  <2> QED BY <2>1, <2>2
<1>5. FileIds # {}
  BY DEF FileIds
<1> QED BY <1>2, <1>3, <1>4, <1>5 DEF Tagged

(* Only an upload writes, and it replaces what it read.                    *)
BackupInv ==
  /\ BackupTypeOK /\ Tagged /\ ReplacesWhatItRead
  /\ \A c \in Calls : AtStage(c, "write") => backupCall[c].kind \in Resolutions

LEMMA BackupInvInit == BackupInit => BackupInv
<1> SUFFICES ASSUME BackupInit PROVE BackupInv
  OBVIOUS
<1>1. \A c \in Calls : backupCall[c] = None
  BY DEF BackupInit
<1>2. \A f \in FileIds : drive[f] = NoFile
  BY DEF BackupInit
<1>3. BackupTypeOK
  BY BackupConstants DEF BackupInit, BackupTypeOK, Owners
<1>4. Tagged
  BY <1>1, <1>2, BackupConstants DEF BackupInit, Tagged, NoFile
<1>5. ReplacesWhatItRead
  BY DEF BackupInit, ReplacesWhatItRead
<1> QED BY <1>1, <1>3, <1>4, <1>5 DEF BackupInv, AtStage

(* What a call becomes is a call.                                          *)
LEMMA BackupCallUpdates ==
  /\ \A u \in BackupCall, r \in BackupFile \cup {NoFile}, t \in {"read", "body", "write", "over"} :
       [u EXCEPT !.seen = r, !.stage = t] \in BackupCall
  /\ \A u \in BackupCall, t \in {"read", "body", "write", "over"} : [u EXCEPT !.stage = t] \in BackupCall
  /\ \A u \in BackupCall, i \in SUBSET Owners : [u EXCEPT !.stage = "write", !.items = i] \in BackupCall
  /\ \A u \in BackupCall, a \in {"no", "call", "space"} : [u EXCEPT !.aborted = a] \in BackupCall
  /\ \A u \in BackupCall : MergedItems(u) \in SUBSET Owners
<1>1. \A u \in BackupCall : MergedItems(u) \in SUBSET Owners
  BY DEF BackupCall, MergedItems, BackupFile, NoFile
<1> QED BY <1>1 DEF BackupCall

LEMMA WritesTypes ==
  ASSUME BackupTypeOK, NEW f \in FileIds, NEW items \in SUBSET Owners, NEW by \in Owners,
         NEW kind \in Resolutions, NEW read \in BackupFile \cup {NoFile}, Writes(f, items, by, kind, read)
  PROVE  /\ drive' \in [FileIds -> BackupFile \cup {NoFile}] /\ version' \in 0..MaxVersions
         /\ written' \in [by : Owners, kind : Resolutions, over : BackupFile \cup {NoFile},
                          read : BackupFile \cup {NoFile}]
<1>1. version \in 0..MaxVersions /\ version < MaxVersions /\ MaxVersions \in Nat
  BY BackupConstants DEF BackupTypeOK, Writes
<1>2. [etag |-> version + 1, items |-> items] \in BackupFile
  BY <1>1 DEF BackupFile
<1>3. drive[f] \in BackupFile \cup {NoFile}
  BY DEF BackupTypeOK
<1> QED BY <1>1, <1>2, <1>3 DEF Writes, BackupTypeOK

LEMMA BackupTypes == ASSUME BackupInv, BackupNext PROVE BackupTypeOK'
<1> USE DEF BackupInv
<1>1. ASSUME NEW k \in {"none", "pending", "wrapped"}, RecoveryCode(k) PROVE BackupTypeOK'
  BY <1>1, BackupConstants DEF RecoveryCode, BackupTypeOK
<1>2. ASSUME NEW c \in Calls, NEW k \in Resolutions \cup {"restore"}, NEW e \in 0..MaxVersions,
             NEW i \in SUBSET Owners, Begin(c, k, e, i)
      PROVE  BackupTypeOK'
  <2>1. [kind |-> k, etag |-> e, seen |-> NoFile, items |-> i, stage |-> "read", aborted |-> "no"] \in BackupCall
    BY DEF BackupCall
  <2> QED BY <1>2, <2>1 DEF Begin, BackupTypeOK
<1>3. ASSUME NEW c \in Calls, BackupRunning(c), backupCall' = [backupCall EXCEPT ![c] = Over],
             UNCHANGED <<drive, version, fileKnown, etagKept, keyKept, mine, written>>
      PROVE  BackupTypeOK'
  BY <1>3, BackupConstants DEF BackupTypeOK
<1>4. ASSUME NEW c \in Calls, BodyArrives(c) PROVE BackupTypeOK'
  <2>1. backupCall[c] \in BackupCall
    BY <1>4 DEF BodyArrives, AtStage, BackupTypeOK
  <2>2. [backupCall[c] EXCEPT !.stage = "write", !.items = MergedItems(backupCall[c])] \in BackupCall
    BY <2>1, BackupCallUpdates
  <2> QED BY <1>4, <2>2, BackupConstants DEF BodyArrives, BackupTypeOK
<1>5. ASSUME NEW c \in Calls, RestoreEnds(c) PROVE BackupTypeOK'
  <2>1. backupCall[c] \in BackupCall
    BY <1>5 DEF RestoreEnds, AtStage, BackupTypeOK
  <2>2. backupCall[c].seen.items \subseteq Owners
    BY <2>1 DEF BackupCall, BackupFile, NoFile
  <2> QED BY <1>5, <2>2, BackupConstants DEF RestoreEnds, BackupTypeOK
<1>6. ASSUME NEW c \in Calls, NEW f \in FileIds \cup {None}, ReadBegins(c, f) PROVE BackupTypeOK'
  <2>1. backupCall[c] \in BackupCall
    BY <1>6 DEF ReadBegins, AtStage, BackupTypeOK
  <2>2. CASE f = None
    <3>1. [backupCall[c] EXCEPT !.stage = "write"] \in BackupCall
      BY <2>1, BackupCallUpdates
    <3> QED BY <1>6, <2>2, <3>1, BackupConstants DEF ReadBegins, BackupTypeOK
  <2>3. CASE f # None
    <3>1. f \in FileIds /\ drive[f] \in BackupFile \cup {NoFile}
      BY <2>3 DEF BackupTypeOK
    <3>2. [backupCall[c] EXCEPT !.seen = drive[f], !.stage = "body"] \in BackupCall
      BY <2>1, <3>1, BackupCallUpdates
    <3> QED BY <1>6, <2>3, <3>1, <3>2 DEF ReadBegins, BackupTypeOK
  <2> QED BY <2>2, <2>3
<1>7. ASSUME NEW c \in Calls, NEW f \in FileIds, NEW answered \in BOOLEAN, WriteArrives(c, f, answered)
      PROVE  BackupTypeOK'
  <2>1. backupCall[c] \in BackupCall /\ backupCall[c].kind \in Resolutions
    BY <1>7 DEF WriteArrives, AtStage, BackupTypeOK
  <2>2. /\ backupCall[c].items \in SUBSET Owners /\ backupCall[c].seen \in BackupFile \cup {NoFile}
        /\ "here" \in Owners
    BY <2>1 DEF BackupCall, Owners
  <2>3. Writes(f, backupCall[c].items, "here", backupCall[c].kind, backupCall[c].seen)
    BY <1>7 DEF WriteArrives
  <2>4. version \in 0..MaxVersions /\ version < MaxVersions
    BY <2>3 DEF Writes, BackupTypeOK
  <2>5. etagKept' \in 0..MaxVersions
    BY <1>7, <2>4, BackupConstants DEF WriteArrives, BackupTypeOK
  <2>6. /\ fileKnown' \in FileIds \cup {None} /\ UNCHANGED <<keyKept, mine>>
        /\ backupCall' \in [Calls -> BackupCall \cup {None}]
    BY <1>7, BackupConstants DEF WriteArrives, BackupTypeOK
  <2>7. /\ drive' \in [FileIds -> BackupFile \cup {NoFile}] /\ version' \in 0..MaxVersions
        /\ written' \in [by : Owners, kind : Resolutions, over : BackupFile \cup {NoFile},
                         read : BackupFile \cup {NoFile}]
    BY <2>1, <2>2, <2>3, WritesTypes
  <2> QED BY <2>5, <2>6, <2>7 DEF BackupTypeOK
<1>8. ASSUME NEW c \in Calls, NEW by \in {"call", "space"}, CancelBackup(c, by) PROVE BackupTypeOK'
  <2>1. backupCall[c] \in BackupCall
    BY <1>8 DEF CancelBackup, BackupRunning, BackupTypeOK
  <2>2. [backupCall[c] EXCEPT !.aborted = by] \in BackupCall
    BY <2>1, BackupCallUpdates
  <2> QED BY <1>8, <2>2, BackupConstants DEF CancelBackup, BackupTypeOK
<1>9. ASSUME NEW f \in FileIds, NEW k \in {"merge", "overwrite"}, OtherDevice(f, k) PROVE BackupTypeOK'
  <2>1. drive[f] \in BackupFile \cup {NoFile}
    BY DEF BackupTypeOK
  <2>3. k \in Resolutions /\ "there" \in Owners
    BY DEF Resolutions, Owners
  <2>4. (IF k = "merge" THEN drive[f].items \cup {"there"} ELSE {"there"}) \in SUBSET Owners
    BY <2>1 DEF BackupFile, NoFile, Owners
  <2>5. /\ drive' \in [FileIds -> BackupFile \cup {NoFile}] /\ version' \in 0..MaxVersions
        /\ written' \in [by : Owners, kind : Resolutions, over : BackupFile \cup {NoFile},
                         read : BackupFile \cup {NoFile}]
    BY <1>9, <2>1, <2>3, <2>4, WritesTypes DEF OtherDevice
  <2> QED BY <1>9, <2>5 DEF OtherDevice, BackupTypeOK
<1>10. CASE DriveEmptied
  BY <1>10 DEF DriveEmptied, BackupTypeOK
<1>11. CASE BackupRestart
  BY <1>11, BackupConstants DEF BackupRestart, BackupTypeOK
<1>12. ASSUME NEW c \in Calls, NEW k \in Resolutions, BeginUpload(c, k) PROVE BackupTypeOK'
  BY <1>2, <1>12 DEF BeginUpload, BackupTypeOK
<1>13. ASSUME NEW c \in Calls, BeginRestore(c) PROVE BackupTypeOK'
  BY <1>2, <1>13, BackupConstants DEF BeginRestore
<1>14. ASSUME NEW c \in Calls, Undecipherable(c) PROVE BackupTypeOK'
  BY <1>14, BackupConstants DEF Undecipherable, BackupTypeOK
<1>15. ASSUME NEW c \in Calls, BackupFails(c) PROVE BackupTypeOK'
  BY <1>3, <1>15 DEF BackupFails
<1> QED BY <1>1, <1>4, <1>5, <1>6, <1>7, <1>8, <1>9, <1>10, <1>11, <1>12, <1>13, <1>14, <1>15
  DEF BackupNext

LEMMA BackupTags == ASSUME BackupInv, BackupNext PROVE Tagged'
<1> USE DEF BackupInv
<1>0. backupCall \in [Calls -> BackupCall \cup {None}]
  BY DEF BackupTypeOK
<1>1. ASSUME UNCHANGED <<drive, version>>, UNCHANGED backupCall PROVE Tagged'
  BY <1>1, KeepsTags
<1>2. ASSUME UNCHANGED <<drive, version>>, NEW c \in Calls, NEW u,
             backupCall' = [backupCall EXCEPT ![c] = u],
             \/ u.seen = NoFile
             \/ backupCall[c] # None /\ u.seen = backupCall[c].seen
             \/ \E f \in FileIds : u.seen = drive[f]
      PROVE  Tagged'
  <2>1. \A d \in Calls : backupCall'[d] = IF d = c THEN u ELSE backupCall[d]
    BY <1>2, <1>0
  <2>2. ASSUME NEW d \in Calls, backupCall'[d] # None
        PROVE  \/ backupCall'[d].seen = NoFile
               \/ backupCall[d] # None /\ backupCall'[d].seen = backupCall[d].seen
               \/ \E f \in FileIds : backupCall'[d].seen = drive[f]
    BY <1>2, <2>1, <2>2
  <2> QED BY <1>2, <2>2, KeepsTags
<1>3. Over.seen = NoFile
  BY DEF Over
<1>4. ASSUME NEW c \in Calls, NEW k, NEW e, NEW i, Begin(c, k, e, i) PROVE Tagged'
  BY <1>4, <1>2 DEF Begin
<1>5. ASSUME NEW c \in Calls, BodyArrives(c) PROVE Tagged'
  <2>1. backupCall[c] \in BackupCall /\ backupCall[c] # None
    BY <1>5, <1>0 DEF BodyArrives, AtStage
  <2>2. [backupCall[c] EXCEPT !.stage = "write", !.items = MergedItems(backupCall[c])].seen = backupCall[c].seen
    BY <2>1 DEF BackupCall
  <2>3. CASE Conflicts(backupCall[c])
    BY <1>5, <2>3, <1>2, <1>3 DEF BodyArrives
  <2>4. CASE ~Conflicts(backupCall[c])
    BY <1>5, <2>1, <2>2, <2>4, <1>2 DEF BodyArrives
  <2> QED BY <2>3, <2>4
<1>6. ASSUME NEW c \in Calls, NEW f \in FileIds \cup {None}, ReadBegins(c, f) PROVE Tagged'
  <2>1. backupCall[c] \in BackupCall /\ backupCall[c] # None
    BY <1>6, <1>0 DEF ReadBegins, AtStage
  <2>2. [backupCall[c] EXCEPT !.stage = "write"].seen = backupCall[c].seen
    BY <2>1 DEF BackupCall
  <2>3. [backupCall[c] EXCEPT !.seen = drive[f], !.stage = "body"].seen = drive[f]
    BY <2>1 DEF BackupCall
  <2>4. CASE f # None
    BY <1>6, <2>3, <2>4, <1>2 DEF ReadBegins
  <2>5. CASE f = None /\ backupCall[c].kind = "restore"
    BY <1>6, <2>5, <1>2, <1>3 DEF ReadBegins
  <2>6. CASE f = None /\ backupCall[c].kind # "restore"
    BY <1>6, <2>1, <2>2, <2>6, <1>2 DEF ReadBegins
  <2> QED BY <2>4, <2>5, <2>6
<1>7. ASSUME NEW c \in Calls, NEW f \in FileIds, NEW answered, WriteArrives(c, f, answered) PROVE Tagged'
  <2>1. \A d \in Calls : backupCall'[d] = IF d = c THEN Over ELSE backupCall[d]
    BY <1>7, <1>0 DEF WriteArrives
  <2>2. PICK items, kind, read : Writes(f, items, "here", kind, read)
    BY <1>7 DEF WriteArrives
  <2>3. ASSUME NEW d \in Calls, backupCall'[d] # None
        PROVE  \/ backupCall'[d].seen = NoFile
               \/ backupCall[d] # None /\ backupCall'[d].seen = backupCall[d].seen
    BY <2>1, <2>3, <1>3
  <2> QED BY <2>2, <2>3, WritesTag
<1>8. ASSUME NEW c \in Calls, NEW by \in {"call", "space"}, CancelBackup(c, by) PROVE Tagged'
  <2>1. backupCall[c] \in BackupCall /\ backupCall[c] # None
    BY <1>8, <1>0 DEF CancelBackup, BackupRunning
  <2>2. [backupCall[c] EXCEPT !.aborted = by].seen = backupCall[c].seen
    BY <2>1 DEF BackupCall
  <2>3. CASE backupCall[c].stage = "body"
    BY <1>8, <2>1, <2>2, <2>3, <1>2 DEF CancelBackup
  <2>4. CASE backupCall[c].stage # "body"
    BY <1>8, <2>4, <1>2, <1>3 DEF CancelBackup
  <2> QED BY <2>3, <2>4
<1>9. ASSUME NEW f \in FileIds, NEW k, OtherDevice(f, k) PROVE Tagged'
  <2>1. PICK items, kind, read : Writes(f, items, "there", kind, read)
    BY <1>9 DEF OtherDevice
  <2>2. UNCHANGED backupCall
    BY <1>9 DEF OtherDevice
  <2> QED BY <2>1, <2>2, WritesTag
<1>10. CASE DriveEmptied
  <2>1. \A f \in FileIds : drive'[f] = NoFile
    BY <1>10 DEF DriveEmptied
  <2>2. ASSUME NEW c \in Calls, backupCall[c] # None
        PROVE  /\ backupCall[c].seen.etag <= version
               /\ backupCall[c].seen.etag = 0 => backupCall[c].seen = NoFile
    BY <2>2, <1>0, BackupConstants DEF Tagged, BackupCall, FileIds
  <2> QED BY <1>10, <2>1, <2>2, BackupConstants DEF Tagged, DriveEmptied, NoFile, BackupTypeOK
<1>11. CASE BackupRestart
  <2>1. \A d \in Calls : backupCall'[d] \in {Over, backupCall[d]}
    BY <1>11 DEF BackupRestart
  <2>2. ASSUME NEW d \in Calls, backupCall'[d] # None
        PROVE  \/ backupCall'[d].seen = NoFile
               \/ backupCall[d] # None /\ backupCall'[d].seen = backupCall[d].seen
    BY <2>1, <2>2, <1>3
  <2> QED BY <1>11, <2>2, KeepsTags DEF BackupRestart
<1>12. ASSUME NEW c \in Calls, backupCall' = [backupCall EXCEPT ![c] = Over], UNCHANGED <<drive, version>>
      PROVE  Tagged'
  BY <1>12, <1>2, <1>3
<1>13. CASE \E k \in {"none", "pending", "wrapped"} : RecoveryCode(k)
  BY <1>13, <1>1 DEF RecoveryCode
<1> QED
  BY <1>4, <1>5, <1>6, <1>7, <1>8, <1>9, <1>10, <1>11, <1>12, <1>13
  DEF BackupNext, BeginUpload, BeginRestore, RestoreEnds, Undecipherable, BackupFails

(* What was written, and what a call is about to write.                    *)
LEMMA BackupWrites ==
  ASSUME BackupInv, BackupNext
  PROVE  /\ ReplacesWhatItRead'
         /\ \A c \in Calls : AtStage(c, "write")' => backupCall'[c].kind \in Resolutions
<1>0. backupCall \in [Calls -> BackupCall \cup {None}]
  BY DEF BackupInv, BackupTypeOK
<1>1. ReplacesWhatItRead'
  <2>1. ASSUME NEW c \in Calls, NEW f \in FileIds, NEW answered, WriteArrives(c, f, answered)
        PROVE  ReplacesWhatItRead'
    <3> DEFINE u == backupCall[c]
    <3>1. u \in BackupCall /\ u.kind \in Resolutions /\ u # None
      BY <2>1, <1>0 DEF WriteArrives, AtStage, BackupInv
    <3>2. /\ written' = [by |-> "here", kind |-> u.kind, over |-> drive[f], read |-> u.seen]
          /\ drive[f].etag = Condition(u) \/ Condition(u) = 0
      BY <2>1 DEF WriteArrives, Writes
    <3>3. u.seen \in BackupFile \cup {NoFile}
      BY <3>1 DEF BackupCall
    <3>4. ASSUME u.kind # "overwrite", u.seen # NoFile PROVE drive[f] = u.seen
      BY <3>1, <3>2, <3>3, <3>4, BackupConstants DEF Condition, BackupInv, Tagged
    <3> QED BY <3>2, <3>4 DEF ReplacesWhatItRead
  <2>2. ASSUME NEW f \in FileIds, NEW k, OtherDevice(f, k) PROVE ReplacesWhatItRead'
    BY <2>2 DEF OtherDevice, Writes, ReplacesWhatItRead
  <2>3. CASE UNCHANGED written \/ written' = None
    BY <2>3 DEF ReplacesWhatItRead, BackupInv
  <2> QED
    BY <2>1, <2>2, <2>3
    DEF BackupNext, RecoveryCode, BeginUpload, BeginRestore, Begin, BodyArrives, RestoreEnds, Undecipherable,
        BackupFails, ReadBegins, CancelBackup, DriveEmptied, BackupRestart
<1>2. ASSUME NEW c \in Calls, backupCall'[c] # None, backupCall'[c].stage = "write"
      PROVE  backupCall'[c].kind \in Resolutions
  <2>1. Over.stage # "write"
    BY DEF Over
  <2>2. ASSUME NEW d \in Calls, NEW v, backupCall' = [backupCall EXCEPT ![d] = v],
               v = None \/ v.stage # "write" \/ v.kind \in Resolutions
        PROVE  backupCall'[c].kind \in Resolutions
    BY <1>2, <2>2, <1>0 DEF BackupInv, AtStage
  <2>3. ASSUME NEW d \in Calls, NEW k, NEW e, NEW i, Begin(d, k, e, i) PROVE backupCall'[c].kind \in Resolutions
    BY <2>3, <2>2 DEF Begin
  <2>4. ASSUME NEW d \in Calls, BodyArrives(d) PROVE backupCall'[c].kind \in Resolutions
    <3> DEFINE w == [backupCall[d] EXCEPT !.stage = "write", !.items = MergedItems(backupCall[d])]
    <3>1. backupCall[d] \in BackupCall /\ backupCall[d].kind # "restore"
      BY <2>4, <1>0 DEF BodyArrives, AtStage
    <3>2. w.kind \in Resolutions
      BY <3>1 DEF BackupCall
    <3>3. backupCall' = [backupCall EXCEPT ![d] = IF Conflicts(backupCall[d]) THEN Over ELSE w]
      BY <2>4 DEF BodyArrives
    <3> QED BY <3>2, <3>3, <2>1, <2>2
  <2>5. ASSUME NEW d \in Calls, NEW f \in FileIds \cup {None}, ReadBegins(d, f)
        PROVE  backupCall'[c].kind \in Resolutions
    <3> DEFINE w == [backupCall[d] EXCEPT !.stage = "write"]
    <3> DEFINE b == [backupCall[d] EXCEPT !.seen = drive[f], !.stage = "body"]
    <3>1. backupCall[d] \in BackupCall
      BY <2>5, <1>0 DEF ReadBegins, AtStage
    <3>2. b.stage = "body" /\ (backupCall[d].kind # "restore" => w.kind \in Resolutions)
      BY <3>1 DEF BackupCall
    <3>3. backupCall' = [backupCall EXCEPT ![d] =
            IF f # None THEN b ELSE IF backupCall[d].kind = "restore" THEN Over ELSE w]
      BY <2>5 DEF ReadBegins
    <3> QED BY <3>2, <3>3, <2>1, <2>2
  <2>6. ASSUME NEW d \in Calls, NEW by \in {"call", "space"}, CancelBackup(d, by)
        PROVE  backupCall'[c].kind \in Resolutions
    <3> DEFINE w == [backupCall[d] EXCEPT !.aborted = by]
    <3>1. backupCall[d] \in BackupCall
      BY <2>6, <1>0 DEF CancelBackup, BackupRunning
    <3>2. w.stage = backupCall[d].stage
      BY <3>1 DEF BackupCall
    <3>3. backupCall' = [backupCall EXCEPT ![d] = IF backupCall[d].stage = "body" THEN w ELSE Over]
      BY <2>6 DEF CancelBackup
    <3> QED BY <3>2, <3>3, <2>1, <2>2
  <2>7. ASSUME NEW d \in Calls, backupCall' = [backupCall EXCEPT ![d] = Over]
        PROVE  backupCall'[c].kind \in Resolutions
    BY <2>7, <2>1, <2>2
  <2>8. CASE UNCHANGED backupCall
    BY <1>2, <2>8 DEF BackupInv, AtStage
  <2>9. CASE BackupRestart
    BY <1>2, <2>1, <2>9 DEF BackupRestart, BackupInv, AtStage
  <2> QED
    BY <2>3, <2>4, <2>5, <2>6, <2>7, <2>8, <2>9
    DEF BackupNext, RecoveryCode, BeginUpload, BeginRestore, RestoreEnds, Undecipherable,
        BackupFails, WriteArrives, OtherDevice, DriveEmptied
<1> QED BY <1>1, <1>2 DEF AtStage

(* The types, the tags, and what is being written, in every reachable      *)
(* state of the backup.                                                    *)
THEOREM BackupInvariant == BackupSpec => []BackupInv
<1>1. ASSUME BackupInv, [BackupNext]_backupVars PROVE BackupInv'
  <2>1. CASE BackupNext
    BY <1>1, <2>1, BackupTypes, BackupTags, BackupWrites DEF BackupInv
  <2>2. CASE UNCHANGED backupVars
    BY <1>1, <2>2 DEF BackupInv, BackupTypeOK, Tagged, ReplacesWhatItRead, AtStage, backupVars
  <2> QED BY <1>1, <2>1, <2>2
<1> QED BY BackupInvInit, <1>1, PTL DEF BackupSpec

(* An upload that was not told to overwrite replaces only the version of   *)
(* the backup that it read, whoever writes between its read and its write. *)
THEOREM UploadReplacesWhatItRead == BackupSpec => []ReplacesWhatItRead
<1>1. BackupInv => ReplacesWhatItRead
  BY DEF BackupInv
<1> QED BY BackupInvariant, <1>1, PTL

-----------------------------------------------------------------------------
(* What VS Code runs for the browser.                                      *)

(* Every command that was started was allowed: once for its request, or    *)
(* for good as it was discovered for it, across restarts and reruns.       *)
THEOREM StartedCommandWasApproved == ProjectSpec => []ApprovedStarts
<1>1. ProjectInit => ApprovedStarts
  BY DEF ProjectInit, ApprovedStarts
<1>2. ASSUME ApprovedStarts, [ProjectNext]_projectVars PROVE ApprovedStarts'
  <2>1. ASSUME NEW c \in Calls, NEW answer \in {"none", "once", "always", "no"}, RunCommand(c, answer)
        PROVE  ApprovedStarts'
    <3> DEFINE started == <<c, job[c].project, job[c].version>>
               key == <<job[c].project, job[c].version>>
    <3>1. asked \subseteq asked' /\ lasting \subseteq lasting'
      BY <2>1 DEF RunCommand
    <3>2. began' # began => began' = began \cup {started} /\ answer # "no"
      BY <2>1 DEF RunCommand
    <3>3. answer = "none" => key \in lasting'
      BY <2>1 DEF RunCommand, Approved
    <3>4. answer = "always" => key \in lasting'
      BY <2>1 DEF RunCommand
    <3>5. answer = "once" => started \in asked'
      BY <2>1 DEF RunCommand
    <3>6. started[2] = job[c].project /\ started[3] = job[c].version
      OBVIOUS
    <3>7. ASSUME NEW b \in began' PROVE b \in asked' \/ <<b[2], b[3]>> \in lasting'
      <4>1. CASE b \in began
        BY <1>2, <3>1, <4>1 DEF ApprovedStarts
      <4>2. CASE b \notin began
        <5>1. b = started /\ answer # "no"
          BY <3>2, <3>7, <4>2
        <5> QED BY <5>1, <3>3, <3>4, <3>5, <3>6
      <4> QED BY <4>1, <4>2
    <3> QED BY <3>7 DEF ApprovedStarts
  <2>2. CASE UNCHANGED <<began, asked, lasting>>
    BY <1>2, <2>2 DEF ApprovedStarts
  <2> QED
    BY <1>2, <2>1, <2>2
    DEF ProjectNext, AllowProject, ConfigChanges, StartForgotten, BeginJob, SiteApproved, ProcessExits,
        StopEnds, projectVars
<1> QED BY <1>1, <1>2, PTL DEF ProjectSpec

-----------------------------------------------------------------------------
(* The side apps.                                                          *)

(* What layout() was told last, and may be told again after a clearing, is *)
(* still what the browser's state asks for.                                *)
SideInv ==
  /\ SideTypeOK /\ PanelOnly
  /\ lastLayout # None => lastLayout = Placement(tool, covered)

LEMMA SideInvInit == SideInit => SideInv
  BY SideAssumption DEF SideInit, SideInv, SideTypeOK, PanelOnly

LEMMA LaidOutViews ==
  ASSUME SideTypeOK, NEW t \in Apps \cup {None}, NEW cov \in SUBSET Reasons, NEW req \in [Apps -> BOOLEAN],
         \A a \in Apps : appView[a] # None => appView[a].at # "elsewhere"
  PROVE  /\ Placement(t, cov) \in Layout
         /\ LaidOut(appView, Placement(t, cov), req) \in [Apps -> AppView \cup {None}]
         /\ \A a \in Apps : LaidOut(appView, Placement(t, cov), req)[a] # None =>
              /\ LaidOut(appView, Placement(t, cov), req)[a].at # "elsewhere"
              /\ LaidOut(appView, Placement(t, cov), req)[a].shown => t = a /\ cov = {} /\ req[a]
<1> DEFINE l == Placement(t, cov)
<1>1. l \in Layout /\ l.active = t /\ (l.suppressed <=> cov # {})
  BY DEF Placement, Layout
<1>2. ASSUME NEW v \in AppView \cup {None}, v # None => v.at # "elsewhere"
      PROVE  /\ Shown(v) \in AppView /\ Shown(v).at # "elsewhere"
             /\ HiddenView(v) \in AppView \cup {None}
             /\ HiddenView(v) # None => HiddenView(v).at # "elsewhere" /\ ~HiddenView(v).shown
  BY <1>2, SideAssumption DEF Shown, HiddenView, AppView, Places
<1>3. [Shown(None) EXCEPT !.stale = TRUE] \in AppView /\ [Shown(None) EXCEPT !.stale = TRUE].at # "elsewhere"
  BY DEF Shown, AppView, Places
<1>4. \A a \in Apps : appView[a] \in AppView \cup {None}
  BY DEF SideTypeOK
<1>5. \A a \in Apps : Shows(a, l, req) => t = a /\ cov = {} /\ req[a]
  BY <1>1 DEF Shows
<1>6. ASSUME NEW a \in Apps
      PROVE  /\ LaidOut(appView, l, req)[a] \in AppView \cup {None}
             /\ LaidOut(appView, l, req)[a] # None =>
                  /\ LaidOut(appView, l, req)[a].at # "elsewhere"
                  /\ LaidOut(appView, l, req)[a].shown => t = a /\ cov = {} /\ req[a]
  <2>1. CASE ~Shows(a, l, req)
    <3>1. LaidOut(appView, l, req)[a] = HiddenView(appView[a])
      BY <2>1 DEF LaidOut
    <3> QED BY <3>1, <1>2, <1>4
  <2>2. CASE Shows(a, l, req)
    <3>1. LaidOut(appView, l, req)[a] \in {[Shown(None) EXCEPT !.stale = TRUE], Shown(appView[a])}
      BY <2>2 DEF LaidOut
    <3> QED BY <3>1, <1>2, <1>3, <1>4, <1>5, <2>2
  <2> QED BY <2>1, <2>2
<1>7. LaidOut(appView, l, req) = [a \in Apps |-> LaidOut(appView, l, req)[a]]
  BY DEF LaidOut
<1> QED BY <1>1, <1>6, <1>7

LEMMA RelayoutKeeps ==
  ASSUME SideInv, tool' \in Apps \cup {None}, covered' \in SUBSET Reasons, requestedAt' \in [Apps -> BOOLEAN],
         Relayout(tool', covered', requestedAt'), fullScreen' \in BOOLEAN, UNCHANGED <<clearStage, used>>
  PROVE  SideInv'
<1>1. \A a \in Apps : appView[a] # None => appView[a].at # "elsewhere"
  BY DEF SideInv, PanelOnly
<1>2. lastLayout' = Placement(tool', covered') /\ appView' = LaidOut(appView, Placement(tool', covered'), requestedAt')
  BY DEF Relayout
<1>3. /\ lastLayout' \in Layout /\ appView' \in [Apps -> AppView \cup {None}]
      /\ \A a \in Apps : appView'[a] # None =>
           /\ appView'[a].at # "elsewhere"
           /\ appView'[a].shown => tool' = a /\ covered' = {} /\ requestedAt'[a]
  BY <1>1, <1>2, LaidOutViews DEF SideInv
<1> QED BY <1>2, <1>3 DEF SideInv, SideTypeOK, PanelOnly, Placement

(* What is seen of the side apps is the selected one, on its own hosts and *)
(* uncovered, also when its data were cleared.                             *)
THEOREM PanelShowsTheSelectedApp == SideSpec => []PanelOnly
<1>1. ASSUME SideInv, [SideNext]_sideVars PROVE SideInv'
  <2>0. SideTypeOK /\ tool \in Apps \cup {None} /\ covered \in SUBSET Reasons /\ requestedAt \in [Apps -> BOOLEAN]
    BY <1>1 DEF SideInv, SideTypeOK
  <2>1. ASSUME NEW t \in Apps \cup {None}, SelectTool(t) PROVE SideInv'
    BY <1>1, <2>0, <2>1, RelayoutKeeps DEF SelectTool, SideTypeOK
  <2>2. ASSUME NEW r \in Reasons, NEW on \in BOOLEAN, Cover(r, on) PROVE SideInv'
    <3>1. covered' \in SUBSET Reasons
      BY <2>0, <2>2 DEF Cover
    <3> QED BY <1>1, <2>0, <2>2, <3>1, RelayoutKeeps DEF Cover, SideTypeOK
  <2>3. ASSUME NEW reported \in BOOLEAN, FullScreenEvent(reported) PROVE SideInv'
    <3>1. covered' \in SUBSET Reasons /\ fullScreen' \in BOOLEAN
      BY <2>0, <2>3 DEF FullScreenEvent, Reasons, SideTypeOK
    <3> QED BY <1>1, <2>0, <2>3, <3>1, RelayoutKeeps DEF FullScreenEvent
  <2>4. CASE Settles
    <3>1. covered' \in SUBSET Reasons
      BY <2>0, <2>4 DEF Settles, Reasons
    <3> QED BY <1>1, <2>0, <2>4, <3>1, RelayoutKeeps DEF Settles, SideTypeOK
  <2>5. ASSUME NEW a \in Apps, NEW fit \in BOOLEAN, SetBounds(a, fit) PROVE SideInv'
    <3>1. requestedAt' \in [Apps -> BOOLEAN]
      BY <2>0, <2>5 DEF SetBounds
    <3> QED BY <1>1, <2>0, <2>5, <3>1, RelayoutKeeps DEF SetBounds, SideTypeOK
  <2>6. ASSUME NEW a \in Apps, NEW ready \in BOOLEAN, ViewStatus(a, ready) PROVE SideInv'
    <3>1. appView[a] \in AppView
      BY <2>0, <2>6 DEF ViewStatus, SideTypeOK
    <3>2. LET v == [appView[a] EXCEPT !.loaded = ready]
          IN v \in AppView /\ v.at = appView[a].at /\ v.shown = appView[a].shown
      BY <3>1 DEF AppView
    <3>3. appView' = [appView EXCEPT ![a] = [appView[a] EXCEPT !.loaded = ready]]
      BY <2>6 DEF ViewStatus
    <3>4. used' \subseteq Apps
      BY <2>0, <2>6 DEF ViewStatus, SideTypeOK
    <3> QED BY <1>1, <2>6, <3>2, <3>3, <3>4 DEF ViewStatus, SideInv, SideTypeOK, PanelOnly
  <2>7. ASSUME NEW a \in Apps, NEW to \in Places, NEW redirect \in BOOLEAN, ViewNavigates(a, to, redirect)
        PROVE  SideInv'
    <3>1. appView[a] \in AppView /\ to # "elsewhere"
      BY <2>0, <2>7 DEF ViewNavigates, SideTypeOK, Stays
    <3>2. LET v == [appView[a] EXCEPT !.at = to, !.loaded = FALSE]
          IN v \in AppView /\ v.at = to /\ v.shown = appView[a].shown
      BY <3>1 DEF AppView
    <3>3. appView' = [appView EXCEPT ![a] = [appView[a] EXCEPT !.at = to, !.loaded = FALSE]]
      BY <2>7, <3>1 DEF ViewNavigates, AppView
    <3> QED BY <1>1, <2>7, <3>1, <3>2, <3>3 DEF ViewNavigates, SideInv, SideTypeOK, PanelOnly
  <2>8. ASSUME NEW a \in Apps, ClearData(a) PROVE SideInv'
    <3>1. "storage" \in Parts
      BY DEF Parts
    <3> QED BY <1>1, <2>8, <3>1 DEF ClearData, SideInv, SideTypeOK, PanelOnly
  <2>9. ASSUME NEW a \in Apps, PartCleared(a) PROVE SideInv'
    <3>1. clearStage' \in [Apps -> Parts \cup {None}]
      BY <2>0, <2>9 DEF PartCleared, SideTypeOK, Parts
    <3>2. used' \subseteq Apps
      BY <2>0, <2>9 DEF PartCleared, SideTypeOK
    <3> QED BY <1>1, <2>9, <3>1, <3>2 DEF PartCleared, SideInv, SideTypeOK, PanelOnly
  <2>10. ASSUME NEW a \in Apps, DataCleared(a) PROVE SideInv'
    <3>1. \A b \in Apps : appView[b] # None => appView[b].at # "elsewhere"
      BY <1>1 DEF SideInv, PanelOnly
    <3>2. clearStage' \in [Apps -> Parts \cup {None}]
      BY <2>0, <2>10 DEF DataCleared, SideTypeOK
    <3>3. CASE lastLayout = None
      BY <1>1, <2>10, <3>2, <3>3 DEF DataCleared, SideInv, SideTypeOK, PanelOnly
    <3>4. CASE lastLayout # None
      <4>1. appView' = LaidOut(appView, Placement(tool, covered), requestedAt)
        BY <1>1, <2>10, <3>4 DEF DataCleared, SideInv
      <4>2. LET views == LaidOut(appView, Placement(tool, covered), requestedAt)
            IN /\ views \in [Apps -> AppView \cup {None}]
               /\ \A b \in Apps : views[b] # None =>
                    /\ views[b].at # "elsewhere"
                    /\ views[b].shown => tool = b /\ covered = {} /\ requestedAt[b]
        BY <2>0, <3>1, LaidOutViews
      <4> QED BY <1>1, <2>10, <3>2, <4>1, <4>2 DEF DataCleared, SideInv, SideTypeOK, PanelOnly
    <3> QED BY <3>3, <3>4
  <2>11. CASE UNCHANGED sideVars
    BY <1>1, <2>11 DEF SideInv, SideTypeOK, PanelOnly, sideVars
  <2> QED BY <1>1, <2>1, <2>2, <2>3, <2>4, <2>5, <2>6, <2>7, <2>8, <2>9, <2>10, <2>11 DEF SideNext
<1>2. SideInv => PanelOnly
  BY DEF SideInv
<1> QED BY SideInvInit, <1>1, <1>2, PTL DEF SideSpec

-----------------------------------------------------------------------------
(* Updates.                                                                *)

(* A checksum is being computed, or was, only of a finished download, and  *)
(* is compared with a manifest the service has had.                        *)
ComparedWithPublished(f) ==
  f.checksum \in {"checking", "verified"} =>
    /\ f.done /\ f.against \in published /\ f.against.filename = f.filename
    /\ f.checksum = "verified" => f.against.bytes = f.bytes

\* a document may be opened before its checksum is known
Opened(f) == f.done /\ (f.saved = "program" => f.checksum = "verified")

UpdatesInv ==
  /\ UpdatesTypeOK
  /\ expected # None => expected \in published
  /\ \A d \in Downloads : file[d] # None => ComparedWithPublished(file[d])
  /\ \A d \in ran : file[d] # None /\ Opened(file[d])

LEMMA UpdatesInvInit == UpdatesInit => UpdatesInv
  BY UpdatesAssumption DEF UpdatesInit, UpdatesInv, UpdatesTypeOK

(* A download goes on: what was started is done, and stays as it was.      *)
LEMMA FileStep ==
  ASSUME UpdatesInv, NEW d \in Downloads, NEW f \in File, file' = [file EXCEPT ![d] = f],
         UNCHANGED <<connectionVars, published, expected, ran>>,
         ComparedWithPublished(f), d \in ran => Opened(f)
  PROVE  UpdatesInv'
<1>1. \A e \in Downloads : file'[e] = IF e = d THEN f ELSE file[e]
  BY DEF UpdatesInv, UpdatesTypeOK
<1>2. UpdatesTypeOK'
  BY DEF UpdatesInv, UpdatesTypeOK, connectionVars
<1>3. ASSUME NEW e \in Downloads, file'[e] # None PROVE ComparedWithPublished(file[e])'
  <2>1. CASE e = d
    BY <1>1, <2>1 DEF ComparedWithPublished
  <2>2. CASE e # d
    BY <1>1, <1>3, <2>2 DEF ComparedWithPublished, UpdatesInv
  <2> QED BY <2>1, <2>2
<1>4. ran \subseteq Downloads
  BY DEF UpdatesInv, UpdatesTypeOK
<1>5. file[d] \in File \cup {None} /\ f # None
  BY UpdatesAssumption DEF UpdatesInv, UpdatesTypeOK
<1> QED BY <1>1, <1>2, <1>3, <1>4, <1>5 DEF UpdatesInv, Opened

(* A program that was opened has the bytes of a manifest the download      *)
(* service has had, for the name it was downloaded under.                  *)
THEOREM OpenedProgramWasPublished == UpdatesSpec => []RunsWhatWasPublished
<1>1. ASSUME UpdatesInv, [UpdatesNext]_updateVars PROVE UpdatesInv'
  <2>0. file \in [Downloads -> File \cup {None}] /\ expected \in Manifest \cup {None} /\ published \subseteq Manifest
    BY <1>1 DEF UpdatesInv, UpdatesTypeOK
  <2>1. ASSUME UNCHANGED fileVars, UpdatesTypeOK' PROVE UpdatesInv'
    BY <1>1, <2>1 DEF UpdatesInv, fileVars, ComparedWithPublished, Opened
  <2>2. ASSUME NEW e \in Endpoints, Configure(e) PROVE UpdatesInv'
    <3>1. UpdatesTypeOK'
      BY <1>1, <2>2 DEF UpdatesInv, UpdatesTypeOK, Configure, fileVars
    <3> QED BY <2>1, <2>2, <3>1 DEF Configure
  <2>3. CASE Disconnect \/ ConfigureTorn \/ DisconnectTorn \/ SystemChanges
    <3>1. UpdatesTypeOK'
      BY <1>1, <2>3
      DEF UpdatesInv, UpdatesTypeOK, Disconnect, ConfigureTorn, DisconnectTorn, SystemChanges, fileVars
    <3> QED BY <2>1, <2>3, <3>1 DEF Disconnect, ConfigureTorn, DisconnectTorn, SystemChanges
  <2>4. ASSUME NEW broken \in BOOLEAN, NEW removed \in BOOLEAN, NEW updated \in BOOLEAN,
               Launch(broken, removed, updated)
        PROVE  UpdatesInv'
    <3>1. /\ settings' \in Endpoints \cup {None} /\ service' \in Endpoints \cup {None}
          /\ bundle' \in BOOLEAN /\ unreadable' \in BOOLEAN
      BY <1>1, <2>4, UpdatesAssumption DEF UpdatesInv, UpdatesTypeOK, Launch, Loaded
    <3>2. UpdatesTypeOK'
      BY <1>1, <2>4, <3>1 DEF UpdatesInv, UpdatesTypeOK, Launch
    <3> QED BY <1>1, <2>4, <3>2 DEF UpdatesInv, Launch
  <2>5. ASSUME NEW m \in Manifest, CheckForUpdates(m) PROVE UpdatesInv'
    <3>1. UpdatesTypeOK'
      BY <1>1, <2>5 DEF UpdatesInv, UpdatesTypeOK, CheckForUpdates, connectionVars
    <3> QED BY <1>1, <2>5, <3>1 DEF UpdatesInv, CheckForUpdates, ComparedWithPublished, Opened
  <2>6. ASSUME NEW d \in Downloads, NEW name \in Releases \cup {None}, NEW bytes \in Contents,
               DownloadBegins(d, name, bytes)
        PROVE  UpdatesInv'
    <3> DEFINE f == [filename |-> name, bytes |-> bytes, saved |-> "program",
                     done |-> FALSE, against |-> None, checksum |-> "none"]
    <3>1. f \in File /\ ComparedWithPublished(f)
      BY DEF File, ComparedWithPublished
    <3>2. d \notin ran
      BY <1>1, <2>6 DEF UpdatesInv, DownloadBegins
    <3> QED BY <1>1, <2>6, <3>1, <3>2, FileStep DEF DownloadBegins
  <2>7. ASSUME NEW d \in Downloads, NEW saved \in {"program", "document"}, DownloadDone(d, saved)
        PROVE  UpdatesInv'
    <3> DEFINE f == [file[d] EXCEPT !.done = TRUE, !.saved = saved,
                       !.against = IF Compares(file[d]) THEN expected ELSE None,
                       !.checksum = IF Compares(file[d]) THEN "checking" ELSE "none"]
    <3>1. file[d] \in File
      BY <2>0, <2>7 DEF DownloadDone
    <3>2. f \in File
      BY <2>0, <3>1 DEF File
    <3>3. ComparedWithPublished(f)
      BY <1>1, <3>1 DEF File, ComparedWithPublished, Compares, UpdatesInv
    <3>4. d \notin ran
      BY <1>1, <2>7 DEF UpdatesInv, DownloadDone, Opened
    <3> QED BY <1>1, <2>7, <3>2, <3>3, <3>4, FileStep DEF DownloadDone
  <2>8. ASSUME NEW d \in Downloads, NEW readable \in BOOLEAN, ChecksumKnown(d, readable) PROVE UpdatesInv'
    <3> DEFINE verdict == CASE ~readable -> "none"
                            [] readable /\ file[d].against.bytes = file[d].bytes -> "verified"
                            [] OTHER -> "mismatch"
               f == [file[d] EXCEPT !.checksum = verdict]
    <3>1. file[d] \in File /\ file[d].checksum = "checking" /\ ComparedWithPublished(file[d])
      BY <1>1, <2>0, <2>8 DEF ChecksumKnown, UpdatesInv
    <3>2. /\ verdict \in {"none", "verified", "mismatch"}
          /\ verdict = "verified" => file[d].against.bytes = file[d].bytes
      OBVIOUS
    <3>3. f \in File /\ f.checksum = verdict
      BY <3>1, <3>2 DEF File
    <3>4. ComparedWithPublished(f)
      BY <3>1, <3>2 DEF File, ComparedWithPublished
    <3>5. file' = [file EXCEPT ![d] = f]
      BY <2>8 DEF ChecksumKnown
    <3>6. d \in ran => Opened(f)
      BY <1>1, <3>1, <3>3 DEF UpdatesInv, Opened, File
    <3> QED BY <1>1, <2>8, <3>3, <3>4, <3>5, <3>6, FileStep DEF ChecksumKnown
  <2>9. ASSUME NEW d \in Downloads, OpenDownload(d) PROVE UpdatesInv'
    <3>1. UpdatesTypeOK'
      BY <1>1, <2>9 DEF UpdatesInv, UpdatesTypeOK, OpenDownload, connectionVars
    <3>2. Opened(file[d])
      BY <2>9 DEF OpenDownload, MayOpen, Opened
    <3> QED BY <1>1, <2>9, <3>1, <3>2 DEF UpdatesInv, OpenDownload, ComparedWithPublished, Opened
  <2>10. CASE UNCHANGED updateVars
    <3>1. UpdatesTypeOK'
      BY <1>1, <2>10 DEF UpdatesInv, UpdatesTypeOK, updateVars, connectionVars, fileVars
    <3> QED BY <2>1, <2>10, <3>1 DEF updateVars
  <2> QED BY <1>1, <2>2, <2>3, <2>4, <2>5, <2>6, <2>7, <2>8, <2>9, <2>10 DEF UpdatesNext
<1>2. ASSUME UpdatesInv PROVE RunsWhatWasPublished
  <2> SUFFICES ASSUME NEW d \in ran, file[d].saved = "program"
               PROVE  [filename |-> file[d].filename, bytes |-> file[d].bytes] \in published
    BY DEF RunsWhatWasPublished
  <2>1. file[d].checksum = "verified" /\ ComparedWithPublished(file[d])
    BY <1>2 DEF UpdatesInv, UpdatesTypeOK, Opened
  <2>2. file[d].against \in published /\ published \subseteq Manifest
    BY <1>2, <2>1 DEF ComparedWithPublished, UpdatesInv, UpdatesTypeOK
  <2>3. file[d].against = [filename |-> file[d].filename, bytes |-> file[d].bytes]
    BY <2>1, <2>2 DEF ComparedWithPublished, Manifest
  <2> QED BY <2>2, <2>3
<1> QED BY UpdatesInvInit, <1>1, <1>2, PTL DEF UpdatesSpec

-----------------------------------------------------------------------------
(* Calls of the Google services.                                           *)

Confirmed == [account : AccountSpaces, payload : Payloads]
Request == [by : Calls, account : AccountSpaces, payload : Payloads, token : Nat]

(* What is true of a call, of the confirmations, and of what was asked.    *)
Sends(u) == u.kind = "change" /\ u.stage \in {"token", "request"}

CallAsConfirmed(u) ==
  /\ u.aborted => u.stage \notin {"token", "request"}
  /\ u.kind = "read" => u.token = 0
  /\ u.kind = "change" => u.token \in DOMAIN tokens /\ u.stage # "backoff"
  /\ Sends(u) => [account |-> u.account, payload |-> u.payload] = tokens[u.token]

OneCallEach ==
  \A c, d \in Calls : call[c] # None /\ call[d] # None /\ Sends(call[c]) /\ Sends(call[d])
                        /\ call[c].token = call[d].token => c = d

KeptUnused ==
  \A x \in prepared :
    /\ x.token \in DOMAIN tokens /\ [account |-> x.account, payload |-> x.payload] = tokens[x.token]
    /\ \A c \in Calls : call[c] # None => call[c].token # x.token

AskedByCall ==
  \A j \in DOMAIN requested : requested[j].token # 0 =>
    call[requested[j].by] # None /\ call[requested[j].by].token = requested[j].token

NotAskedYet ==
  \A c \in Calls : call[c] # None /\ call[c].kind = "change" /\ call[c].stage = "token" =>
    \A j \in DOMAIN requested : requested[j].token # call[c].token

CallsAsConfirmed ==
  /\ OperationsTypeOK
  /\ \A c \in operations : call[c] # None
  /\ \A c \in Calls : call[c] # None => CallAsConfirmed(call[c])

OpInv == CallsAsConfirmed /\ OneCallEach /\ KeptUnused /\ AskedByCall /\ NotAskedYet

LEMMA OpInvInit == OperationsInit => OpInv
  BY DEF OperationsInit, OpInv, CallsAsConfirmed, OperationsTypeOK, OneCallEach, KeptUnused, AskedByCall,
         NotAskedYet

LEMMA OpTypes ==
  ASSUME OperationsTypeOK
  PROVE  /\ call \in [Calls -> Operation \cup {None}] /\ operations \subseteq Calls
         /\ prepared \subseteq Confirmation
         /\ tokens \in Seq(Confirmed) /\ requested \in Seq(Request)
         /\ DOMAIN tokens = 1..Len(tokens) /\ Len(tokens) \in Nat
         /\ DOMAIN requested = 1..Len(requested) /\ Len(requested) \in Nat
         /\ \A j \in DOMAIN requested : requested[j] \in Request
<1>1. /\ call \in [Calls -> Operation \cup {None}] /\ operations \subseteq Calls
      /\ prepared \subseteq Confirmation /\ tokens \in Seq(Confirmed) /\ requested \in Seq(Request)
  BY DEF OperationsTypeOK, Confirmed, Request
<1> HIDE DEF Confirmed, Request
<1> QED BY <1>1

(* A call goes on: it stays what it is, is not sent again, and once it was *)
(* aborted it does not ask.                                                *)
GoesOn(u, v) ==
  /\ v \in Operation
  /\ v.account = u.account /\ v.kind = u.kind /\ v.payload = u.payload /\ v.token = u.token
  /\ v.aborted => v.stage \notin {"token", "request"}
  /\ v.kind = "change" => v.stage \notin {"token", "backoff"} /\ (v.stage = "request" => u.stage = "token")

LEMMA CallsGoOn ==
  ASSUME OpInv, UNCHANGED tokens, prepared' \subseteq prepared, operations' \subseteq operations,
         requested' \in Seq(Request), call' \in [Calls -> Operation \cup {None}],
         \A c \in Calls : call'[c] = call[c] \/ (call[c] # None /\ GoesOn(call[c], call'[c]))
  PROVE  CallsAsConfirmed' /\ OneCallEach' /\ KeptUnused' /\ (UNCHANGED requested => AskedByCall' /\ NotAskedYet')
<1> USE DEF OpInv
<1>1. OperationsTypeOK'
  BY OpTypes DEF CallsAsConfirmed, OperationsTypeOK, Confirmed, Request
<1>2. None \notin Operation
  BY OperationsAssumption
<1>3. \A c \in Calls : call'[c] # None => call[c] # None /\ call'[c].token = call[c].token
  BY DEF GoesOn
<1>4. \A c \in Calls : call[c] # None => call'[c] # None
  BY <1>2 DEF GoesOn
<1>5. \A c \in Calls : call'[c] # None /\ Sends(call'[c]) =>
        Sends(call[c]) /\ call'[c].account = call[c].account /\ call'[c].payload = call[c].payload
  BY DEF GoesOn, Sends
<1>6. \A c \in Calls : call'[c] # None => CallAsConfirmed(call[c])'
  <2> SUFFICES ASSUME NEW c \in Calls, call'[c] # None PROVE CallAsConfirmed(call[c])'
    OBVIOUS
  <2>1. CallAsConfirmed(call[c])
    BY <1>3 DEF CallsAsConfirmed
  <2>2. CASE call'[c] = call[c]
    BY <2>1, <2>2 DEF CallAsConfirmed, Sends
  <2>3. CASE GoesOn(call[c], call'[c])
    BY <2>1, <2>3, <1>5 DEF CallAsConfirmed, GoesOn, Sends
  <2> QED BY <2>2, <2>3
<1>7. CallsAsConfirmed'
  BY <1>1, <1>4, <1>6, OpTypes DEF CallsAsConfirmed
<1>8. OneCallEach'
  BY <1>3, <1>5 DEF OneCallEach
<1>9. KeptUnused'
  BY <1>3 DEF KeptUnused
<1>10. ASSUME UNCHANGED requested PROVE AskedByCall' /\ NotAskedYet'
  <2>1. \A j \in DOMAIN requested : requested[j].by \in Calls
    BY OpTypes DEF CallsAsConfirmed, Request
  <2>2. AskedByCall'
    BY <1>10, <1>3, <1>4, <2>1 DEF AskedByCall
  <2>3. NotAskedYet'
    BY <1>10, <1>3 DEF NotAskedYet, GoesOn
  <2> QED BY <2>2, <2>3
<1> QED BY <1>7, <1>8, <1>9, <1>10

(* What each step makes of the calls under way.                            *)
LEMMA CallUpdates ==
  ASSUME NEW u \in Operation, CallAsConfirmed(u)
  PROVE  /\ \A st \in {"done", "failed", "cancelled"} : GoesOn(u, [u EXCEPT !.stage = st])
         /\ u.stage = "token" => GoesOn(u, [u EXCEPT !.stage = "request"])
         /\ u.stage = "backoff" /\ ~u.aborted => GoesOn(u, [u EXCEPT !.stage = "token"])
         /\ \A st \in {"token", "backoff"} :
              u.kind = "read" /\ u.attempt < SafeReads /\ ~u.aborted =>
                GoesOn(u, [u EXCEPT !.stage = st, !.attempt = @ + 1])
<1>1. \A st \in {"done", "failed", "cancelled"} : GoesOn(u, [u EXCEPT !.stage = st])
  BY DEF GoesOn, Operation, OpStages
<1>2. u.stage = "token" => GoesOn(u, [u EXCEPT !.stage = "request"])
  BY DEF GoesOn, Operation, OpStages, CallAsConfirmed
<1>3. u.stage = "backoff" /\ ~u.aborted => GoesOn(u, [u EXCEPT !.stage = "token"])
  BY DEF GoesOn, Operation, OpStages, CallAsConfirmed
<1>4. ASSUME NEW st \in {"token", "backoff"}, u.kind = "read", u.attempt < SafeReads, ~u.aborted
      PROVE  GoesOn(u, [u EXCEPT !.stage = st, !.attempt = @ + 1])
  <2>1. u.attempt + 1 \in 1..SafeReads
    BY <1>4, OperationsAssumption DEF Operation
  <2> QED BY <1>4, <2>1 DEF GoesOn, Operation, OpStages
<1> QED BY <1>1, <1>2, <1>3, <1>4

LEMMA AbortedGoesOn ==
  ASSUME NEW c \in Calls, call[c] \in Operation, CallAsConfirmed(call[c])
  PROVE  GoesOn(call[c], Aborted(c))
<1> DEFINE u == call[c]
<1>1. u \in Operation /\ SafeReads \in Nat
  BY OperationsAssumption
<1>2. CASE u.stage = "backoff" \/ (u.stage = "request" /\ MayRetry(c))
  <2> DEFINE n == IF u.stage = "request" THEN u.attempt + 1 ELSE u.attempt
             v == [u EXCEPT !.aborted = TRUE, !.stage = "backoff", !.attempt = n]
  <2>1. n \in 1..SafeReads
    BY <1>1, <1>2 DEF MayRetry, Operation
  <2>2. u.kind = "read"
    BY <1>1, <1>2 DEF MayRetry, CallAsConfirmed, Operation, OpKinds
  <2>3. Aborted(c) = v
    BY <1>2 DEF Aborted
  <2>4. GoesOn(u, v)
    BY <1>1, <2>1, <2>2 DEF GoesOn, Operation, OpStages
  <2> QED BY <2>3, <2>4
<1>3. CASE ~(u.stage = "backoff" \/ (u.stage = "request" /\ MayRetry(c)))
  <2>1. Aborted(c) = [u EXCEPT !.aborted = TRUE, !.stage = "cancelled"]
    BY <1>3 DEF Aborted
  <2> QED BY <1>1, <2>1 DEF GoesOn, Operation, OpStages
<1> QED BY <1>2, <1>3

(* One call goes on, and nothing is asked of Google.                       *)
LEMMA CallGoesOn ==
  ASSUME OpInv, UNCHANGED <<tokens, prepared, requested>>, operations' \subseteq operations,
         NEW c \in Calls, call[c] # None, NEW v, GoesOn(call[c], v), call' = [call EXCEPT ![c] = v]
  PROVE  OpInv'
<1>1. call \in [Calls -> Operation \cup {None}] /\ requested \in Seq(Request) /\ v \in Operation
  BY OpTypes DEF OpInv, CallsAsConfirmed, GoesOn
<1>2. call' \in [Calls -> Operation \cup {None}]
  BY <1>1
<1>3. \A d \in Calls : call'[d] = call[d] \/ (call[d] # None /\ GoesOn(call[d], call'[d]))
  BY <1>1
<1> HIDE DEF Request
<1>4. prepared' \subseteq prepared /\ requested' \in Seq(Request)
  BY <1>1
<1> QED BY <1>2, <1>3, <1>4, CallsGoOn DEF OpInv

(* A call begins, with a confirmation that matches or that does not.       *)
LEMMA CallBegins ==
  ASSUME OpInv, UNCHANGED <<tokens, requested>>, NEW c \in Calls, call[c] = None,
         NEW v \in Operation, CallAsConfirmed(v), call' = [call EXCEPT ![c] = v],
         prepared' \subseteq prepared, operations' \subseteq operations \cup {c},
         \A x \in prepared' : x.token # v.token,
         Sends(v) => v.stage = "token" /\ \E x \in prepared : x.token = v.token
  PROVE  OpInv'
<1> USE DEF OpInv
<1>0. call \in [Calls -> Operation \cup {None}] /\ v # None
  BY OpTypes, OperationsAssumption DEF CallsAsConfirmed
<1>1. \A d \in Calls : call'[d] = IF d = c THEN v ELSE call[d]
  BY <1>0
<1>2. OperationsTypeOK'
  BY <1>0 DEF CallsAsConfirmed, OperationsTypeOK
<1>3. \A d \in Calls : call'[d] # None => CallAsConfirmed(call[d])'
  <2> SUFFICES ASSUME NEW d \in Calls, call'[d] # None PROVE CallAsConfirmed(call[d])'
    OBVIOUS
  <2>1. CASE d = c
    BY <1>1, <2>1 DEF CallAsConfirmed, Sends
  <2>2. CASE d # c
    BY <1>1, <2>2 DEF CallAsConfirmed, Sends, CallsAsConfirmed
  <2> QED BY <2>1, <2>2
<1>4. CallsAsConfirmed'
  BY <1>0, <1>1, <1>2, <1>3 DEF CallsAsConfirmed, OperationsTypeOK
<1>5. Sends(v) => \A d \in Calls : call[d] # None => call[d].token # v.token
  BY DEF KeptUnused
<1>6. OneCallEach'
  BY <1>1, <1>5 DEF OneCallEach
<1>7. KeptUnused'
  BY <1>1 DEF KeptUnused
<1>8. \A j \in DOMAIN requested : requested[j].by \in Calls
  BY OpTypes DEF CallsAsConfirmed, Request
<1>9. AskedByCall'
  BY <1>1, <1>8 DEF AskedByCall
<1>10. NotAskedYet'
  <2> SUFFICES ASSUME NEW d \in Calls, call'[d] # None, call'[d].kind = "change", call'[d].stage = "token",
                      NEW j \in DOMAIN requested
               PROVE  requested[j].token # call'[d].token
    BY DEF NotAskedYet
  <2>1. CASE d # c
    BY <1>1, <2>1 DEF NotAskedYet
  <2>2. CASE d = c
    <3>1. Sends(v)
      BY <1>1, <2>2 DEF Sends
    <3>2. v.token \in DOMAIN tokens
      BY <1>1, <2>2 DEF CallAsConfirmed
    <3>3. v.token # 0
      BY <3>2, OpTypes DEF CallsAsConfirmed
    <3> QED BY <1>1, <1>5, <1>8, <2>2, <3>1, <3>3 DEF AskedByCall
  <2> QED BY <2>1, <2>2
<1> QED BY <1>4, <1>6, <1>7, <1>9, <1>10

LEMMA PrepareKeeps ==
  ASSUME OpInv, NEW a \in AccountSpaces, NEW p \in Payloads, PrepareChange(a, p)
  PROVE  OpInv'
<1> USE DEF OpInv
<1> DEFINE said == [account |-> a, payload |-> p]
           x == [token |-> Len(tokens'), account |-> a, payload |-> p, fresh |-> TRUE]
<1>1. /\ said \in Confirmed /\ tokens' = Append(tokens, said) /\ tokens \in Seq(Confirmed)
      /\ prepared' \subseteq prepared \cup {x} /\ UNCHANGED <<call, operations, requested>>
  BY OpTypes DEF PrepareChange, Confirmed, CallsAsConfirmed
<1> HIDE DEF said, Confirmed
<1>2. /\ tokens' \in Seq(Confirmed) /\ Len(tokens) \in Nat /\ Len(tokens') = Len(tokens) + 1
      /\ DOMAIN tokens = 1..Len(tokens) /\ DOMAIN tokens' = 1..Len(tokens')
      /\ tokens'[Len(tokens')] = said /\ \A i \in DOMAIN tokens : tokens'[i] = tokens[i]
  BY <1>1
<1>3. DOMAIN tokens \subseteq DOMAIN tokens' /\ Len(tokens') \in DOMAIN tokens' /\ Len(tokens') \notin DOMAIN tokens
      /\ Len(tokens') # 0 /\ Len(tokens') \in Nat
  BY <1>2
<1>4. x \in Confirmation
  BY <1>3 DEF Confirmation
<1>5. OperationsTypeOK'
  BY <1>1, <1>2, <1>4 DEF CallsAsConfirmed, OperationsTypeOK, Confirmed
<1>6. \A c \in Calls : call[c] # None => call[c].token # Len(tokens')
  <2> SUFFICES ASSUME NEW c \in Calls, call[c] # None PROVE call[c].token # Len(tokens')
    OBVIOUS
  <2>1. CallAsConfirmed(call[c]) /\ call[c].kind \in OpKinds
    BY OpTypes DEF CallsAsConfirmed, Operation
  <2> QED BY <2>1, <1>3 DEF CallAsConfirmed, OpKinds
<1>7. CallsAsConfirmed'
  <2>1. \A c \in Calls : call[c] # None => CallAsConfirmed(call[c])'
    BY <1>1, <1>2, <1>3 DEF CallsAsConfirmed, CallAsConfirmed, Sends
  <2> QED BY <1>1, <1>5, <2>1 DEF CallsAsConfirmed
<1>8. KeptUnused'
  <2> SUFFICES ASSUME NEW y \in prepared'
               PROVE  /\ y.token \in DOMAIN tokens'
                      /\ [account |-> y.account, payload |-> y.payload] = tokens'[y.token]
                      /\ \A c \in Calls : call[c] # None => call[c].token # y.token
    BY <1>1 DEF KeptUnused
  <2>1. CASE y = x
    BY <2>1, <1>2, <1>3, <1>6 DEF said
  <2>2. CASE y \in prepared
    BY <2>2, <1>2, <1>3 DEF KeptUnused
  <2> QED BY <1>1, <2>1, <2>2
<1> QED BY <1>1, <1>7, <1>8 DEF OneCallEach, AskedByCall, NotAskedYet, Sends

LEMMA TokenReadyKeeps == ASSUME OpInv, NEW c \in Calls, TokenReady(c) PROVE OpInv'
<1> DEFINE u == call[c]
           v == [u EXCEPT !.stage = "request"]
           r == [by |-> c, account |-> u.account, payload |-> u.payload, token |-> u.token]
<1>1. /\ call \in [Calls -> Operation \cup {None}] /\ u \in Operation /\ u # None /\ u.stage = "token"
      /\ CallAsConfirmed(u) /\ requested \in Seq(Request)
  BY OpTypes DEF OpInv, CallsAsConfirmed, TokenReady
<1>2. GoesOn(u, v) /\ v.stage = "request"
  BY <1>1, CallUpdates DEF Operation
<1>3. call' = [call EXCEPT ![c] = v] /\ requested' = Append(requested, r)
      /\ UNCHANGED <<operations, prepared, tokens>>
  BY DEF TokenReady, Asks
<1>4. \A d \in Calls : call'[d] = IF d = c THEN v ELSE call[d]
  BY <1>1, <1>3
<1>5. v \in Operation /\ v # None /\ v.token = u.token /\ v.kind = u.kind
  BY <1>2, OperationsAssumption DEF GoesOn
<1>6. r \in Request
  BY <1>1 DEF Operation, Request
<1> HIDE DEF r, Request
<1>7. /\ requested' \in Seq(Request) /\ Len(requested) \in Nat
      /\ DOMAIN requested = 1..Len(requested) /\ DOMAIN requested' = DOMAIN requested \cup {Len(requested) + 1}
      /\ requested'[Len(requested) + 1] = r
      /\ \A j \in DOMAIN requested : requested'[j] = requested[j] /\ requested[j] \in Request
  BY <1>1, <1>3, <1>6
<1>8. call' \in [Calls -> Operation \cup {None}]
  BY <1>1, <1>3, <1>5
<1>9. CallsAsConfirmed' /\ OneCallEach' /\ KeptUnused'
  <2>1. \A d \in Calls : call'[d] = call[d] \/ (call[d] # None /\ GoesOn(call[d], call'[d]))
    BY <1>1, <1>2, <1>4
  <2>2. prepared' \subseteq prepared /\ operations' \subseteq operations /\ UNCHANGED tokens
    BY <1>3
  <2> QED BY <1>7, <1>8, <2>1, <2>2, CallsGoOn
<1>10. r.by = c /\ r.token = u.token
  BY DEF r
<1>11. \A j \in DOMAIN requested : requested[j].by \in Calls
  BY <1>7 DEF Request
<1>12. AskedByCall'
  <2> SUFFICES ASSUME NEW j \in DOMAIN requested', requested'[j].token # 0
               PROVE  call'[requested'[j].by] # None /\ call'[requested'[j].by].token = requested'[j].token
    BY DEF AskedByCall
  <2>1. CASE j \in DOMAIN requested
    <3>1. call[requested[j].by] # None /\ call[requested[j].by].token = requested[j].token
      BY <2>1, <1>7 DEF OpInv, AskedByCall
    <3> QED BY <2>1, <3>1, <1>4, <1>5, <1>7, <1>11
  <2>2. CASE j = Len(requested) + 1
    BY <2>2, <1>4, <1>5, <1>7, <1>10
  <2> QED BY <1>7, <2>1, <2>2
<1>13. NotAskedYet'
  <2> SUFFICES ASSUME NEW d \in Calls, call'[d] # None, call'[d].kind = "change", call'[d].stage = "token",
                      NEW j \in DOMAIN requested'
               PROVE  requested'[j].token # call'[d].token
    BY DEF NotAskedYet
  <2>1. d # c /\ call'[d] = call[d]
    BY <1>2, <1>4
  <2>2. CASE j \in DOMAIN requested
    BY <2>1, <2>2, <1>7 DEF OpInv, NotAskedYet
  <2>3. CASE j = Len(requested) + 1
    <3>1. CASE u.kind = "change"
      BY <2>1, <2>3, <3>1, <1>1, <1>7, <1>10 DEF OpInv, OneCallEach, Sends
    <3>2. CASE u.kind = "read"
      <4>1. u.token = 0 /\ call[d].token \in DOMAIN tokens
        BY <1>1, <2>1, <3>2 DEF OpInv, CallsAsConfirmed, CallAsConfirmed
      <4>2. call[d].token # 0
        BY <4>1, OpTypes DEF OpInv, CallsAsConfirmed
      <4> QED BY <2>1, <2>3, <4>1, <4>2, <1>7, <1>10
    <3> QED BY <1>1, <3>1, <3>2 DEF Operation, OpKinds
  <2> QED BY <1>7, <2>2, <2>3
<1> QED BY <1>9, <1>12, <1>13 DEF OpInv

LEMMA CancelOfAccountKeeps == ASSUME OpInv, NEW a \in AccountSpaces, CancelOperationsOf(a) PROVE OpInv'
<1> DEFINE ends(c) == c \in operations /\ call[c].account = a
<1>1. call \in [Calls -> Operation \cup {None}] /\ operations \subseteq Calls /\ requested \in Seq(Request)
  BY OpTypes DEF OpInv, CallsAsConfirmed
<1>2. \A c \in Calls : call'[c] = IF ends(c) THEN Aborted(c) ELSE call[c]
  BY DEF CancelOperationsOf
<1>3. \A c \in Calls : ends(c) => call[c] # None /\ GoesOn(call[c], Aborted(c))
  BY <1>1, AbortedGoesOn DEF OpInv, CallsAsConfirmed
<1>4. \A c \in Calls : call'[c] = call[c] \/ (call[c] # None /\ GoesOn(call[c], call'[c]))
  BY <1>2, <1>3
<1>5. call' = [c \in Calls |-> IF ends(c) THEN Aborted(c) ELSE call[c]]
  BY DEF CancelOperationsOf
<1>6. call' \in [Calls -> Operation \cup {None}]
  BY <1>1, <1>3, <1>5 DEF GoesOn
<1> HIDE DEF Request
<1>7. /\ prepared' \subseteq prepared /\ operations' \subseteq operations
      /\ UNCHANGED <<tokens, requested>> /\ requested' \in Seq(Request)
  BY <1>1 DEF CancelOperationsOf
<1> QED BY <1>4, <1>6, <1>7, CallsGoOn DEF OpInv

LEMMA OpStep == ASSUME OpInv, OperationsNext PROVE OpInv'
<1>0. /\ call \in [Calls -> Operation \cup {None}] /\ operations \subseteq Calls
      /\ \A c \in Calls : call[c] # None => call[c] \in Operation /\ CallAsConfirmed(call[c])
      /\ \A c \in operations : call[c] # None
  BY OpTypes DEF OpInv, CallsAsConfirmed
<1>1. ASSUME NEW c \in Calls, call[c] # None, NEW st \in {"done", "failed", "cancelled"},
             Ends(c, st), UNCHANGED <<prepared, tokens, requested>>
      PROVE  OpInv'
  <2>1. GoesOn(call[c], [call[c] EXCEPT !.stage = st])
    BY <1>0, <1>1, CallUpdates
  <2>2. call' = [call EXCEPT ![c] = [call[c] EXCEPT !.stage = st]] /\ operations' \subseteq operations
    BY <1>1 DEF Ends
  <2> QED BY <1>1, <2>1, <2>2, CallGoesOn
<1>2. ASSUME NEW x \in prepared, ConfirmationExpires(x) PROVE OpInv'
  <2> DEFINE y == [x EXCEPT !.fresh = FALSE]
  <2>1. x \in Confirmation
    BY OpTypes DEF OpInv, CallsAsConfirmed
  <2>2. y \in Confirmation /\ y.token = x.token /\ y.account = x.account /\ y.payload = x.payload
    BY <2>1 DEF Confirmation
  <2> HIDE DEF y
  <2>3. prepared' = (prepared \ {x}) \cup {y} /\ UNCHANGED <<call, operations, tokens, requested>>
    BY <1>2 DEF ConfirmationExpires, y
  <2>4. CallsAsConfirmed'
    BY <2>2, <2>3 DEF OpInv, CallsAsConfirmed, OperationsTypeOK, CallAsConfirmed, Sends
  <2>5. KeptUnused'
    BY <2>2, <2>3 DEF OpInv, KeptUnused
  <2> QED BY <2>3, <2>4, <2>5 DEF OpInv, OneCallEach, AskedByCall, NotAskedYet, Sends
<1>3. ASSUME NEW c \in Calls, NEW a \in AccountSpaces, NEW p \in Payloads, BeginRead(c, a, p) PROVE OpInv'
  <2> DEFINE v == [account |-> a, kind |-> "read", payload |-> p, token |-> 0,
                   stage |-> "token", aborted |-> FALSE, attempt |-> 1]
  <2>1. v \in Operation /\ ~Sends(v) /\ CallAsConfirmed(v)
    BY OperationsAssumption DEF Operation, OpKinds, OpStages, Sends, CallAsConfirmed
  <2>2. \A x \in prepared : x.token # v.token
    <3>1. 0 \notin DOMAIN tokens
      BY OpTypes DEF OpInv, CallsAsConfirmed
    <3> QED BY <3>1 DEF OpInv, KeptUnused
  <2> QED BY <1>3, <2>1, <2>2, CallBegins DEF BeginRead
<1>4. ASSUME NEW c \in Calls, NEW a \in AccountSpaces, NEW p \in Payloads, NEW t \in DOMAIN tokens,
             BeginChange(c, a, p, t)
      PROVE  OpInv'
  <2> DEFINE held == \E x \in prepared : x.token = t /\ Matches(x, a, p)
             v == [account |-> a, kind |-> "change", payload |-> p, token |-> t,
                   stage |-> IF held THEN "token" ELSE "failed", aborted |-> FALSE, attempt |-> 1]
  <2>1. t \in Nat
    BY OpTypes DEF OpInv, CallsAsConfirmed
  <2>2. v \in Operation
    BY <2>1, OperationsAssumption DEF Operation, OpKinds, OpStages
  <2>3. Sends(v) => held /\ v.stage = "token"
    BY DEF Sends
  <2>4. held => [account |-> a, payload |-> p] = tokens[t]
    BY DEF OpInv, KeptUnused, Matches
  <2>5. CallAsConfirmed(v)
    BY <2>3, <2>4 DEF CallAsConfirmed
  <2>6. call[c] = None /\ call' = [call EXCEPT ![c] = v] /\ UNCHANGED <<tokens, requested>>
        /\ operations' \subseteq operations \cup {c} /\ prepared' = {x \in prepared : x.token # t}
    BY <1>4 DEF BeginChange
  <2>7. v.token = t /\ (held => \E x \in prepared : x.token = t)
    OBVIOUS
  <2> HIDE DEF v, held
  <2> QED BY <2>2, <2>3, <2>5, <2>6, <2>7, CallBegins
<1>5. ASSUME NEW c \in Calls, TokenFails(c) PROVE OpInv'
  BY <1>1, <1>5 DEF TokenFails
<1>6. ASSUME NEW c \in Calls, BackoffOver(c) PROVE OpInv'
  <2>1. CASE ~StillWanted(c)
    BY <1>1, <1>6, <2>1 DEF BackoffOver
  <2>2. CASE StillWanted(c)
    <3>1. /\ call[c] # None /\ call[c].stage = "backoff" /\ ~call[c].aborted
          /\ call' = [call EXCEPT ![c] = [call[c] EXCEPT !.stage = "token"]]
          /\ UNCHANGED <<operations, prepared, tokens, requested>>
      BY <1>6, <2>2 DEF BackoffOver, StillWanted
    <3>2. GoesOn(call[c], [call[c] EXCEPT !.stage = "token"])
      BY <1>0, <3>1, CallUpdates
    <3> QED BY <3>1, <3>2, CallGoesOn
  <2> QED BY <2>1, <2>2
<1>7. ASSUME NEW c \in Calls, CancelOperation(c) PROVE OpInv'
  <2>1. call[c] # None /\ GoesOn(call[c], Aborted(c))
    BY <1>0, <1>7, AbortedGoesOn DEF CancelOperation
  <2>2. call' = [call EXCEPT ![c] = Aborted(c)] /\ operations' \subseteq operations
        /\ UNCHANGED <<prepared, tokens, requested>>
    BY <1>7 DEF CancelOperation
  <2> QED BY <2>1, <2>2, CallGoesOn
<1>8. ASSUME NEW c \in Calls, NEW answer \in {"ok", "unauthorized", "refused", "lost"}, ServiceAnswers(c, answer)
      PROVE  OpInv'
  <2>1. CASE answer # "ok" /\ answer # "refused" /\ MayRetry(c)
    <3> DEFINE st == IF answer = "unauthorized" THEN "token" ELSE "backoff"
               v == [call[c] EXCEPT !.stage = st, !.attempt = call[c].attempt + 1]
    <3>1. call[c] # None /\ call[c] \in Operation /\ call[c].stage = "request" /\ CallAsConfirmed(call[c])
      BY <1>0, <1>8 DEF ServiceAnswers
    <3>2. st \in {"token", "backoff"} /\ ~call[c].aborted
      BY <3>1 DEF CallAsConfirmed
    <3>3. GoesOn(call[c], v)
      BY <3>1, <3>2, <2>1, CallUpdates DEF MayRetry
    <3>4. call' = [call EXCEPT ![c] = v] /\ UNCHANGED <<operations, prepared, tokens, requested>>
      BY <1>8, <2>1, <3>1, <1>0 DEF ServiceAnswers
    <3> QED BY <3>1, <3>3, <3>4, CallGoesOn
  <2>2. CASE ~(answer # "ok" /\ answer # "refused" /\ MayRetry(c))
    BY <1>1, <1>8, <2>2 DEF ServiceAnswers
  <2> QED BY <2>1, <2>2
<1> QED
  BY <1>2, <1>3, <1>4, <1>5, <1>6, <1>7, <1>8, PrepareKeeps, TokenReadyKeeps, CancelOfAccountKeeps
  DEF OperationsNext

(* Every call is as it was confirmed, a confirmation has one call at most, *)
(* and what Google was asked was asked by a call (GoogleServices).         *)
THEOREM OperationsInvariant == OperationsSpec => []OpInv
<1>1. ASSUME OpInv, UNCHANGED opVars PROVE OpInv'
  BY <1>1 DEF OpInv, CallsAsConfirmed, OperationsTypeOK, CallAsConfirmed, Sends, OneCallEach, KeptUnused,
              AskedByCall, NotAskedYet, opVars
<1> QED BY OpInvInit, OpStep, <1>1, PTL DEF OperationsSpec

(* A confirmation sends one request, of exactly what was confirmed, and a  *)
(* call that was cancelled asks nothing of Google any more.                *)
THEOREM ConfirmationSendsOnce == OperationsSpec => ConfirmedOnce
<1> DEFINE Sent ==
      \A i \in DOMAIN requested' \ DOMAIN requested :
        LET r == requested'[i] IN
        /\ r.token # 0 => /\ [account |-> r.account, payload |-> r.payload] = tokens[r.token]
                          /\ \A j \in DOMAIN requested : requested[j].token # r.token
        /\ call[r.by] # None => ~call[r.by].aborted
<1>1. ASSUME OpInv, [OperationsNext]_opVars PROVE Sent
  <2>1. ASSUME NEW c \in Calls, TokenReady(c) PROVE Sent
    <3> DEFINE u == call[c]
               r == [by |-> c, account |-> u.account, payload |-> u.payload, token |-> u.token]
    <3>1. /\ u \in Operation /\ u # None /\ u.stage = "token" /\ CallAsConfirmed(u) /\ requested \in Seq(Request)
      BY <1>1, <2>1, OpTypes DEF OpInv, CallsAsConfirmed, TokenReady
    <3>2. r \in Request /\ requested' = Append(requested, r)
      BY <2>1, <3>1 DEF TokenReady, Asks, Request, Operation
    <3>3. r.by = c /\ r.token = u.token /\ r.account = u.account /\ r.payload = u.payload
      OBVIOUS
    <3>4. u.token # 0 => u.kind = "change" /\ Sends(u)
      BY <3>1 DEF CallAsConfirmed, Sends, Operation, OpKinds
    <3>5. u.token # 0 => /\ [account |-> u.account, payload |-> u.payload] = tokens[u.token]
                         /\ \A j \in DOMAIN requested : requested[j].token # u.token
      BY <1>1, <3>1, <3>4 DEF CallAsConfirmed, OpInv, NotAskedYet
    <3>6. ~u.aborted
      BY <3>1 DEF CallAsConfirmed
    <3> HIDE DEF r, Request
    <3>7. \A i \in DOMAIN requested' \ DOMAIN requested : requested'[i] = r
      BY <3>1, <3>2
    <3> QED BY <3>3, <3>5, <3>6, <3>7
  <2>2. CASE UNCHANGED requested
    BY <2>2
  <2> QED
    BY <1>1, <2>1, <2>2
    DEF OperationsNext, PrepareChange, ConfirmationExpires, BeginRead, BeginChange, TokenFails, BackoffOver,
        CancelOperation, ServiceAnswers, CancelOperationsOf, opVars
<1>2. ASSUME OpInv, [OperationsNext]_opVars PROVE [Sent]_opVars
  BY <1>1, <1>2
<1>3. ConfirmedOnce <=> [][Sent]_opVars
  BY DEF ConfirmedOnce
<1> HIDE DEF Sent
<1> QED BY OperationsInvariant, <1>2, <1>3, PTL DEF OperationsSpec

-----------------------------------------------------------------------------
(* Download links.                                                         *)

Link == [release : Editions, expires : Int]
Bytes == [start : Int, length : Int]
FileRequest == [step : {"none", "found", "measured", "unsatisfiable"}, release : Editions \cup {None},
                range : Headers \cup {None}, bytes : Bytes \cup {None}]
Fetch == [link : Link \cup {None}, request : FileRequest, got : SUBSET (Editions \X Installers), mixed : BOOLEAN]

SizeNow(r) == SizeOf[objects[r]]

(* A link lasts as long as is accepted; the request under way is of its    *)
(* release, and as it was measured; and so is what has come.               *)
FetchOK(f) ==
  /\ f.link # None => f.link.expires <= clock + MaxTtl
  /\ f.link = None => f.got = {} /\ f.request.step = "none"
  /\ f.request.step # "none" => f.request.release = f.link.release /\ objects[f.link.release] # None
  /\ f.request.step = "none" => f.request.range = None
  /\ ~f.mixed /\ f.link # None => f.got \subseteq {<<f.link.release, objects[f.link.release]>>}
  /\ ~f.mixed /\ f.request.step = "measured" =>
       f.request.bytes # None /\ f.request.bytes = ParseRange(f.request.range, SizeNow(f.request.release))
  /\ ~f.mixed /\ f.request.step = "unsatisfiable" =>
       ParseRange(f.request.range, SizeNow(f.request.release)) = None

DownloadTypes ==
  /\ environment \in [ready : BOOLEAN, ttl : Configured]
  /\ rows \in [Editions -> Installers \cup {None}] /\ objects \in [Editions -> Installers \cup {None}]
  /\ serving \in Editions \cup {None} /\ clock \in Nat
  /\ fetching \in [Clients -> Fetch]

DownloadInv ==
  /\ DownloadTypes
  /\ \A r \in Editions : rows[r] # None => objects[r] # None
  /\ serving # None => objects[serving] # None
  /\ \A c \in Clients : FetchOK(fetching[c])

LEMMA NoFetchTypes == NoFetch \in Fetch /\ NoRequest \in FileRequest
  BY DEF NoFetch, NoRequest, Fetch, FileRequest

LEMMA DownloadInvInit == DownloadsInit => DownloadInv
<1>1. FetchOK(NoFetch)
  BY DEF NoFetch, NoRequest, FetchOK
<1> QED BY <1>1, NoFetchTypes DEF DownloadsInit, DownloadInv, DownloadTypes

LEMMA TtlBounds == \A v \in Configured : NormalizeTtl(v) \in Int /\ NormalizeTtl(v) <= MaxTtl
  BY DownloadAssumption DEF NormalizeTtl

(* What a Range header becomes is exactly what it names.                   *)
LEMMA RangeNames ==
  ASSUME NEW size \in Nat \ {0}, NEW range \in Headers, range # None
  PROVE  LET bytes == ParseRange(range, size) IN
         /\ bytes # None => /\ bytes \in Bytes
                            /\ Named(range, size) = bytes.start .. bytes.start + bytes.length - 1
         /\ bytes = None => Named(range, size) = {}
<1> DEFINE bytes == ParseRange(range, size)
<1>0. /\ range.first \in Int \cup {None} /\ (range.first # None => range.first \in Nat)
      /\ range.last \in Int \cup {None} /\ (range.last # None => range.last \in Nat)
  BY DownloadAssumption DEF Headers, Part
<1>1. None \notin Bytes
  BY DownloadAssumption DEF Bytes
<1>2. CASE range.first = None /\ (range.last = None \/ range.last = 0)
  <2>1. bytes = None
    BY <1>2 DEF ParseRange
  <2>2. Named(range, size) = {}
    BY <1>0, <1>2 DEF Named
  <2> QED BY <2>1, <2>2, <1>1
<1>3. CASE range.first = None /\ range.last # None /\ range.last # 0
  <2> DEFINE length == IF range.last < size THEN range.last ELSE size
  <2>1. length \in Nat /\ length <= size /\ bytes = [start |-> size - length, length |-> length]
    BY <1>0, <1>3 DEF ParseRange
  <2>2. Named(range, size) = {i \in 0 .. size - 1 : i >= size - range.last}
    BY <1>3 DEF Named
  <2>3. Named(range, size) = size - length .. size - 1
    BY <2>2, <1>0, <1>3
  <2>4. bytes \in Bytes /\ bytes.start = size - length /\ bytes.start + bytes.length - 1 = size - 1
    BY <2>1 DEF Bytes
  <2> QED BY <2>3, <2>4, <1>1
<1>4. CASE range.first # None /\ (range.first >= size \/ (range.last # None /\ range.last < range.first))
  <2>1. bytes = None
    BY <1>4 DEF ParseRange
  <2>2. Named(range, size) = {}
    BY <1>0, <1>4 DEF Named
  <2> QED BY <2>1, <2>2, <1>1
<1>5. CASE range.first # None /\ ~(range.first >= size \/ (range.last # None /\ range.last < range.first))
  <2> DEFINE end == EndOf(range, size)
  <2>1. bytes = [start |-> range.first, length |-> end - range.first + 1]
    BY <1>5 DEF ParseRange
  <2>2. end \in Int /\ end = IF range.last = None \/ range.last > size - 1 THEN size - 1 ELSE range.last
    BY <1>0 DEF EndOf
  <2>3. Named(range, size) = {i \in 0 .. size - 1 : i >= range.first /\ (range.last # None => i <= range.last)}
    BY <1>5 DEF Named
  <2>4. Named(range, size) = range.first .. end
    <3>1. CASE range.last = None
      BY <2>2, <2>3, <1>0, <1>5, <3>1
    <3>2. CASE range.last # None
      BY <2>2, <2>3, <1>0, <1>5, <3>2
    <3> QED BY <3>1, <3>2
  <2> HIDE DEF end
  <2>5. bytes \in Bytes /\ bytes.start = range.first /\ bytes.start + bytes.length - 1 = end
    BY <2>1, <2>2, <1>0, <1>5 DEF Bytes
  <2> QED BY <2>4, <2>5, <1>1
<1> QED BY <1>2, <1>3, <1>4, <1>5

LEMMA DownloadParts ==
  ASSUME DownloadInv, NEW c \in Clients
  PROVE  /\ fetching[c] \in Fetch /\ FetchOK(fetching[c])
         /\ fetching[c].request \in FileRequest
         /\ fetching[c].link \in Link \cup {None}
         /\ fetching[c].request.step # "none" =>
              /\ fetching[c].link \in Link /\ fetching[c].request.release = fetching[c].link.release
              /\ fetching[c].request.release \in Editions
              /\ objects[fetching[c].request.release] \in Installers
              /\ SizeNow(fetching[c].request.release) \in Nat \ {0}
<1>1. fetching[c] \in Fetch /\ FetchOK(fetching[c])
  BY DEF DownloadInv, DownloadTypes
<1>2. fetching[c].request \in FileRequest /\ fetching[c].link \in Link \cup {None}
  BY <1>1 DEF Fetch
<1>3. ASSUME fetching[c].request.step # "none"
      PROVE  /\ fetching[c].link \in Link /\ fetching[c].request.release = fetching[c].link.release
             /\ fetching[c].request.release \in Editions
             /\ objects[fetching[c].request.release] \in Installers
  <2>1. fetching[c].link \in Link /\ fetching[c].request.release = fetching[c].link.release
        /\ objects[fetching[c].link.release] # None
    BY <1>1, <1>2, <1>3 DEF FetchOK
  <2>2. fetching[c].link.release \in Editions
    BY <2>1 DEF Link
  <2> QED BY <2>1, <2>2 DEF DownloadInv, DownloadTypes
<1> QED BY <1>1, <1>2, <1>3, DownloadAssumption DEF SizeNow

(* Only what one client fetches changes.                                   *)
LEMMA FetchStep ==
  ASSUME DownloadInv, NEW c \in Clients, NEW f \in Fetch, FetchOK(f),
         fetching' = [fetching EXCEPT ![c] = f], UNCHANGED <<environment, rows, serving, objects, clock>>
  PROVE  DownloadInv'
<1>1. \A d \in Clients : fetching'[d] = IF d = c THEN f ELSE fetching[d]
  BY DEF DownloadInv, DownloadTypes
<1>2. \A d \in Clients : FetchOK(fetching[d])'
  <2> SUFFICES ASSUME NEW d \in Clients PROVE FetchOK(fetching[d])'
    OBVIOUS
  <2>1. CASE d = c
    BY <1>1, <2>1 DEF FetchOK, SizeNow
  <2>2. CASE d # c
    BY <1>1, <2>2 DEF FetchOK, SizeNow, DownloadInv
  <2> QED BY <2>1, <2>2
<1>3. DownloadTypes'
  BY DEF DownloadInv, DownloadTypes
<1> QED BY <1>2, <1>3 DEF DownloadInv

LEMMA UploadKeeps == ASSUME DownloadInv, NEW r \in Editions, NEW x \in Installers, UploadObject(r, x)
                     PROVE  DownloadInv'
<1>1. /\ objects' = [objects EXCEPT ![r] = x] /\ UNCHANGED <<environment, rows, serving, clock>>
      /\ x # None
  BY DownloadAssumption DEF UploadObject
<1>2. \A s \in Editions : objects'[s] = IF s = r THEN x ELSE objects[s]
  BY <1>1 DEF DownloadInv, DownloadTypes
<1>3. ASSUME NEW c \in Clients PROVE fetching'[c] \in Fetch /\ FetchOK(fetching[c])'
  <2> DEFINE f == fetching[c]
             touched == (f.link # None /\ f.link.release = r) \/ f.request.release = r
             g == [f EXCEPT !.mixed = f.mixed \/ touched]
  <2>1. f \in Fetch /\ FetchOK(f) /\ f.link \in Link \cup {None} /\ f.request \in FileRequest
    BY DownloadParts
  <2>2. fetching'[c] = g
    BY DEF UploadObject
  <2>3. /\ g \in Fetch /\ g.link = f.link /\ g.request = f.request /\ g.got = f.got
        /\ g.mixed = (f.mixed \/ touched)
    BY <2>1 DEF Fetch
  <2> HIDE DEF g
  <2>4. f.link # None => f.link.release \in Editions
    BY <2>1 DEF Link
  <2>5. f.request.step # "none" => f.link # None /\ f.request.release = f.link.release
    BY <2>1 DEF FetchOK
  <2>6. ~g.mixed /\ f.link # None => objects'[f.link.release] = objects[f.link.release]
    BY <1>2, <2>3, <2>4
  <2>7. f.link # None => (objects[f.link.release] # None => objects'[f.link.release] # None)
    BY <1>1, <1>2, <2>4
  <2>8. f.request.step # "none" /\ ~g.mixed => SizeNow(f.request.release)' = SizeNow(f.request.release)
    BY <2>5, <2>6, <2>2, <2>3, <1>2, <2>4 DEF SizeNow
  <2>9. FetchOK(fetching[c])'
    BY <1>1, <2>1, <2>2, <2>3, <2>5, <2>6, <2>7, <2>8, <1>2, <2>4 DEF FetchOK, SizeNow
  <2> QED BY <2>2, <2>3, <2>9
<1>4. fetching' = [c \in Clients |-> fetching'[c]]
  BY DEF UploadObject
<1>5. DownloadTypes'
  BY <1>1, <1>3, <1>4 DEF DownloadInv, DownloadTypes
<1> QED BY <1>1, <1>2, <1>3, <1>5 DEF DownloadInv, DownloadTypes

LEMMA VisitKeeps == ASSUME DownloadInv, NEW c \in Clients, NEW route \in Routes, Visit(c, route)
                    PROVE  DownloadInv'
<1> DEFINE f == [NoFetch EXCEPT !.link = SignedLink]
<1>1. /\ serving \in Editions /\ objects[serving] # None /\ clock \in Nat /\ environment.ttl \in Configured
  BY DEF DownloadInv, DownloadTypes, Visit
<1>2. SignedLink \in Link /\ SignedLink.expires <= clock + MaxTtl
  <2> DEFINE ttl == NormalizeTtl(environment.ttl)
  <2>1. ttl \in Int /\ ttl <= MaxTtl
    BY <1>1, TtlBounds
  <2>2. SignedLink = [release |-> serving, expires |-> clock + ttl]
    BY DEF SignedLink
  <2> HIDE DEF ttl
  <2>3. clock + ttl \in Int /\ clock + ttl <= clock + MaxTtl
    BY <1>1, <2>1, DownloadAssumption
  <2> QED BY <1>1, <2>2, <2>3 DEF Link
<1>3. f \in Fetch
  BY <1>2, NoFetchTypes DEF Fetch, NoFetch
<1>4. /\ f.link = SignedLink /\ f.request = NoRequest /\ f.got = {}
  BY DEF NoFetch
<1> HIDE DEF f
<1>5. FetchOK(f)
  BY <1>2, <1>4 DEF FetchOK, NoRequest
<1>6. fetching' = [fetching EXCEPT ![c] = f] /\ UNCHANGED <<environment, rows, serving, objects, clock>>
  BY DEF Visit, f
<1> QED BY <1>3, <1>5, <1>6, FetchStep

(* A request of one client takes its next step.                            *)
LEMMA RequestStep ==
  ASSUME DownloadInv, NEW c \in Clients, NEW q \in FileRequest, Requests(c, q),
         UNCHANGED <<environment, rows, serving, objects, clock>>,
         q.step = "none" => q.range = None,
         q.step # "none" => /\ fetching[c].link # None /\ q.release = fetching[c].link.release
                            /\ objects[q.release] # None,
         q.step = "measured" /\ ~fetching[c].mixed =>
           q.bytes # None /\ q.bytes = ParseRange(q.range, SizeNow(q.release)),
         q.step = "unsatisfiable" /\ ~fetching[c].mixed => ParseRange(q.range, SizeNow(q.release)) = None
  PROVE  DownloadInv'
<1> DEFINE f == fetching[c]
           g == [f EXCEPT !.request = q]
<1>1. f \in Fetch /\ FetchOK(f)
  BY DownloadParts
<1>2. g \in Fetch /\ g.link = f.link /\ g.request = q /\ g.got = f.got /\ g.mixed = f.mixed
  BY <1>1 DEF Fetch
<1>3. fetching' = [fetching EXCEPT ![c] = g]
  BY DEF Requests
<1> HIDE DEF g
<1>4. FetchOK(g)
  BY <1>1, <1>2 DEF FetchOK
<1> QED BY <1>2, <1>3, <1>4, FetchStep

LEMMA AskKeeps == ASSUME DownloadInv, NEW c \in Clients, NEW range \in Headers \cup {None}, Ask(c, range)
                  PROVE  DownloadInv'
<1> DEFINE q == [step |-> "found", release |-> serving, range |-> range, bytes |-> None]
<1>1. serving \in Editions /\ objects[serving] # None
  BY DEF DownloadInv, DownloadTypes, Ask
<1>2. q \in FileRequest
  BY <1>1 DEF FileRequest
<1>3. /\ fetching[c].link # None /\ q.release = fetching[c].link.release /\ Requests(c, q)
      /\ UNCHANGED <<environment, rows, serving, objects, clock>> /\ q.step = "found"
  BY DEF Ask, VerifySigned
<1>4. q.release = serving
  OBVIOUS
<1> HIDE DEF q
<1> QED BY <1>1, <1>2, <1>3, <1>4, RequestStep

LEMMA MeasureKeeps == ASSUME DownloadInv, NEW c \in Clients, Measure(c) PROVE DownloadInv'
<1> DEFINE q == fetching[c].request
           size == SizeNow(q.release)
           bytes == ParseRange(q.range, size)
<1>1. /\ q \in FileRequest /\ q.step = "found" /\ fetching[c].link # None /\ q.release = fetching[c].link.release
      /\ objects[q.release] # None /\ size \in Nat \ {0}
  BY DownloadParts, DownloadAssumption DEF Measure, FetchOK
<1>2. UNCHANGED <<environment, rows, serving, objects, clock>>
  BY DEF Measure
<1>3. bytes # None => bytes \in Bytes
  <2>1. CASE q.range = None
    <3>1. bytes = [start |-> 0, length |-> size]
      BY <2>1 DEF ParseRange
    <3> QED BY <3>1, <1>1 DEF Bytes
  <2>2. CASE q.range # None
    <3>1. q.range \in Headers
      BY <1>1, <2>2 DEF FileRequest
    <3> QED BY <1>1, <2>2, <3>1, RangeNames
  <2> QED BY <2>1, <2>2
<1>4. CASE size # SizeOf[rows[q.release]]
  <2>1. Requests(c, NoRequest)
    BY <1>4 DEF Measure, SizeNow
  <2>2. NoRequest.step = "none" /\ NoRequest.range = None
    BY DEF NoRequest
  <2> QED BY <1>2, <2>1, <2>2, NoFetchTypes, RequestStep
<1>5. CASE size = SizeOf[rows[q.release]] /\ bytes = None
  <2> DEFINE r == [q EXCEPT !.step = "unsatisfiable"]
  <2>1. Requests(c, r)
    BY <1>5 DEF Measure, SizeNow
  <2>2. /\ r \in FileRequest /\ r.step = "unsatisfiable" /\ r.release = q.release /\ r.range = q.range
    BY <1>1 DEF FileRequest
  <2> HIDE DEF r
  <2> QED BY <1>1, <1>2, <1>5, <2>1, <2>2, RequestStep
<1>6. CASE size = SizeOf[rows[q.release]] /\ bytes # None
  <2> DEFINE r == [q EXCEPT !.step = "measured", !.bytes = bytes]
  <2>1. Requests(c, r)
    BY <1>6 DEF Measure, SizeNow
  <2>2. /\ r \in FileRequest /\ r.step = "measured" /\ r.release = q.release /\ r.range = q.range
        /\ r.bytes = bytes
    BY <1>1, <1>3, <1>6 DEF FileRequest
  <2> HIDE DEF r
  <2> QED BY <1>1, <1>2, <1>6, <2>1, <2>2, RequestStep
<1> QED BY <1>4, <1>5, <1>6

LEMMA DeliverKeeps == ASSUME DownloadInv, NEW c \in Clients, Deliver(c) PROVE DownloadInv'
<1> DEFINE f == fetching[c]
           piece == <<f.request.release, objects[f.request.release]>>
           g == [f EXCEPT !.request = NoRequest, !.got = f.got \cup {piece}]
<1>1. /\ f \in Fetch /\ FetchOK(f) /\ f.request.step = "measured" /\ f.link \in Link
      /\ f.request.release = f.link.release /\ f.request.release \in Editions
      /\ objects[f.request.release] \in Installers
  BY DownloadParts DEF Deliver
<1>2. f.link # None
  BY <1>1 DEF FetchOK
<1>3. piece \in Editions \X Installers /\ piece = <<f.link.release, objects[f.link.release]>>
  BY <1>1
<1> HIDE DEF piece
<1>4. /\ g \in Fetch /\ g.link = f.link /\ g.request = NoRequest /\ g.got = f.got \cup {piece} /\ g.mixed = f.mixed
  BY <1>1, <1>3, NoFetchTypes DEF Fetch
<1>5. fetching' = [fetching EXCEPT ![c] = g] /\ UNCHANGED <<environment, rows, serving, objects, clock>>
  BY DEF Deliver, piece
<1> HIDE DEF g
<1>6. FetchOK(g)
  BY <1>1, <1>2, <1>3, <1>4 DEF FetchOK, NoRequest
<1> QED BY <1>4, <1>5, <1>6, FetchStep

(* The links, rows and fetches keep their types, and what a fetch has got  *)
(* is of the file of its link (handleBinary()).                            *)
THEOREM DownloadInvariant == DownloadsSpec => []DownloadInv
<1>1. ASSUME DownloadInv, [DownloadsNext]_downloadVars PROVE DownloadInv'
  <2>1. ASSUME UNCHANGED <<environment, objects, fetching>>, clock' \in Nat, clock <= clock',
               rows' \in [Editions -> Installers \cup {None}], serving' \in Editions \cup {None},
               \A r \in Editions : rows'[r] # None => objects[r] # None,
               serving' # None => objects[serving'] # None
        PROVE  DownloadInv'
    <3>1. ASSUME NEW c \in Clients PROVE FetchOK(fetching[c])'
      <4>1. fetching[c] \in Fetch /\ FetchOK(fetching[c])
        BY <1>1, DownloadParts
      <4>2. fetching[c].link # None => fetching[c].link.expires \in Int
        BY <4>1 DEF Fetch, Link
      <4>3. fetching[c].link # None => fetching[c].link.expires <= clock' + MaxTtl
        BY <1>1, <2>1, <4>1, <4>2, DownloadAssumption DEF FetchOK, DownloadInv, DownloadTypes
      <4> QED BY <2>1, <4>1, <4>3 DEF FetchOK, SizeNow
    <3> QED BY <1>1, <2>1, <3>1 DEF DownloadInv, DownloadTypes
  <2>2. ASSUME NEW r \in Editions, PublishRow(r) \/ ActivateRow(r) PROVE DownloadInv'
    <3>1. /\ UNCHANGED <<environment, objects, fetching, clock>> /\ clock \in Nat /\ objects[r] # None
          /\ objects[r] \in Installers /\ serving' = r
          /\ rows' = rows \/ rows' = [rows EXCEPT ![r] = objects[r]]
      BY <1>1, <2>2 DEF PublishRow, ActivateRow, DownloadInv, DownloadTypes
    <3>2. /\ rows' \in [Editions -> Installers \cup {None}]
          /\ \A s \in Editions : rows'[s] # None => objects[s] # None
      BY <1>1, <3>1 DEF DownloadInv, DownloadTypes
    <3> QED BY <2>1, <3>1, <3>2
  <2>3. CASE Pass
    BY <1>1, <2>1, <2>3 DEF Pass, DownloadInv, DownloadTypes
  <2>4. CASE UNCHANGED downloadVars
    BY <1>1, <2>1, <2>4 DEF downloadVars, DownloadInv, DownloadTypes
  <2> QED
    BY <1>1, <2>2, <2>3, <2>4, UploadKeeps, VisitKeeps, AskKeeps, MeasureKeeps, DeliverKeeps DEF DownloadsNext
<1> QED BY DownloadInvInit, <1>1, PTL DEF DownloadsSpec

(* A link works from when it was given until it expires; all that comes    *)
(* through it is of one release and one content, and every range of bytes  *)
(* is exactly the one that was asked for.                                  *)
THEOREM OneFileThroughALink == DownloadsSpec => []LinkGivesOneFile
<1>1. ASSUME DownloadInv PROVE LinkGivesOneFile
  <2>1. ASSUME NEW c \in Clients
        PROVE  /\ fetching[c] \in Fetch /\ FetchOK(fetching[c]) /\ fetching[c].request \in FileRequest
    BY <1>1, DownloadParts
  <2>2. WorksUntilItExpires
    BY <2>1 DEF WorksUntilItExpires, IsLive, FetchOK
  <2>3. ASSUME NEW c \in Clients, ~fetching[c].mixed PROVE Cardinality(fetching[c].got) <= 1
    <3> DEFINE f == fetching[c]
               piece == <<f.link.release, objects[f.link.release]>>
    <3>1. f.got \subseteq {piece}
      BY <2>1, <2>3 DEF FetchOK
    <3>2. IsFiniteSet({piece}) /\ Cardinality({piece}) = 1
      BY FS_Singleton
    <3>3. Cardinality(f.got) <= 1
      BY <3>1, <3>2, FS_Subset
    <3> QED BY <3>3
  <2>4. ASSUME NEW c \in Clients, fetching[c].request.range # None, ~fetching[c].mixed
        PROVE  LET q == fetching[c].request
                   named == Named(q.range, SizeOf[objects[q.release]])
               IN  /\ q.step = "measured" => named = q.bytes.start .. q.bytes.start + q.bytes.length - 1
                   /\ q.step = "unsatisfiable" => named = {}
    <3> DEFINE q == fetching[c].request
    <3>1. q.range \in Headers /\ q.step # "none"
      BY <2>1, <2>4 DEF FileRequest, FetchOK
    <3>2. SizeNow(q.release) \in Nat \ {0}
      BY <1>1, <3>1, DownloadParts
    <3>3. /\ q.step = "measured" => q.bytes # None /\ q.bytes = ParseRange(q.range, SizeNow(q.release))
          /\ q.step = "unsatisfiable" => ParseRange(q.range, SizeNow(q.release)) = None
      BY <2>1, <2>4 DEF FetchOK
    <3>4. /\ q.step = "measured" =>
               Named(q.range, SizeNow(q.release)) = q.bytes.start .. q.bytes.start + q.bytes.length - 1
          /\ q.step = "unsatisfiable" => Named(q.range, SizeNow(q.release)) = {}
      BY <2>4, <3>1, <3>2, <3>3, RangeNames
    <3> QED BY <3>4 DEF SizeNow
  <2> QED BY <2>2, <2>3, <2>4 DEF LinkGivesOneFile, OneFilePerLink, RangesExact
<1> QED BY DownloadInvariant, <1>1, PTL
=============================================================================
