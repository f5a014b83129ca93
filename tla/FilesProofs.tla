----------------------------- MODULE FilesProofs -----------------------------
(***************************************************************************)
(* What is kept on the disk, for any number of accounts, files, vaults and *)
(* logins: the Account Space files keep what was saved and stay usable, an *)
(* envelope stays readable to whoever could open its vault, and the old    *)
(* passwords go only when they were handled.                               *)
(***************************************************************************)
EXTENDS AccountFiles, VaultEnvelope, VaultMigration, SequenceTheorems, TLAPS

(* What the process holds in memory matches the files it may write.        *)
MemoryMatches ==
  /\ pc = "ready" =>
       /\ Readable(manifest)
       /\ mem.spaces \cup recovering \subseteq manifest.ids
       /\ \A id \in mem.spaces : Readable(record[id])
       /\ offered \in {None} \cup recovering
       /\ \A w \in Workspaces : mem.active[w] \in mem.spaces \cup recovering
       /\ MayNormalize(record, mem.spaces, mem.active)
  /\ pc # "ready" => recovering = {} /\ mem = NoMemory

(* An account belongs to one workspace, whichever file says so.            *)
Belongs(id, w) ==
  /\ Readable(record[id]) => record[id].home = w
  /\ Readable(browsing[id]) => browsing[id].home = w

OneHome ==
  /\ \A id \in Spaces :
       Readable(record[id]) /\ Readable(browsing[id]) => browsing[id].home = record[id].home
  /\ \A w \in Workspaces : Belongs(Default[w], w)
  /\ Readable(manifest) =>
       \A w \in Workspaces : manifest.active[w] \in manifest.ids /\ Belongs(manifest.active[w], w)
  /\ pc = "ready" => \A w \in Workspaces : Belongs(mem.active[w], w)

(* Only damaged accounts wait in quarantine.                               *)
Damaged == recovering \subseteq ruined /\ OnlyDamagedQuarantined

FilesInv == TypeOK /\ MemoryMatches /\ OneHome /\ Damaged

(* Nothing exists that was never made; nothing saved that a file held is   *)
(* missing in the memory that will be written over it; and nothing saved   *)
(* is only in files which a migration would overwrite.                     *)
AllMade ==
  /\ saved \subseteq made
  /\ \A id \in Spaces : ItemsIn(browsing[id]) \subseteq made /\ mem.items[id] \subseteq made
  /\ LegacyItems \subseteq made

MemoryCovers ==
  pc = "ready" => \A a \in mem.spaces \ recovering : saved \cap ItemsIn(browsing[a]) \subseteq mem.items[a]

SafeToMigrate ==
  ~halfFresh /\ manifest = None /\ Readable(legacy) => saved \subseteq backups \cup LegacyItems

ItemsInv == AllMade /\ MemoryCovers /\ SafeToMigrate /\ NothingLost

-----------------------------------------------------------------------------
(* Facts about files.                                                      *)

(* What the program writes is readable.                                    *)
LEMMA WrittenReadable ==
  /\ \A w \in Workspaces, b \in BOOLEAN : Readable([home |-> w, v1 |-> b])
  /\ \A w \in Workspaces, S \in SUBSET Items : Readable([home |-> w, items |-> S])
  /\ \A S \in SUBSET Spaces, f \in [Workspaces -> Spaces] : Readable([ids |-> S, active |-> f])
  BY FileAssumption DEF Readable, Record, Browsing, Manifest

(* "No file" and "unreadable" are not readable.                            *)
LEMMA NotReadable == ~Readable(None) /\ ~Readable(Bad)
  BY DEF Readable

(* A readable file has the fields of its kind.                             *)
LEMMA ReadableHas ==
  ASSUME TypeOK
  PROVE  /\ \A id \in Spaces : Readable(record[id]) => record[id] \in Record
         /\ \A id \in Spaces : Readable(browsing[id]) => browsing[id] \in Browsing
         /\ Readable(manifest) => manifest \in Manifest
         /\ Readable(legacy) => legacy \in Legacy
  BY DEF TypeOK, Readable

(* What PublishBrowsing() writes.                                          *)
LEMMA Published ==
  ASSUME TypeOK, NEW recs \in [Spaces -> {None, Bad} \cup Record],
         NEW items \in [Spaces -> SUBSET Items],
         NEW S \in SUBSET Spaces, \A id \in S : Readable(recs[id]),
         PublishBrowsing(recs, S, items)
  PROVE  /\ browsing' \in [Spaces -> {None, Bad} \cup Browsing]
         /\ \A id \in S : /\ recs[id].home \in Workspaces
                          /\ browsing'[id] = [home |-> recs[id].home, items |-> items[id]]
                          /\ Readable(browsing'[id])
         /\ \A id \in Spaces \ S : browsing'[id] = browsing[id]
<1>1. \A id \in S : recs[id] \in Record
  BY DEF Readable
<1>2. \A id \in S : recs[id].home \in Workspaces
  BY <1>1 DEF Record
<1>3. \A id \in S : [home |-> recs[id].home, items |-> items[id]] \in Browsing
  BY <1>2 DEF Browsing
<1>4. browsing' \in [Spaces -> {None, Bad} \cup Browsing]
  BY <1>3 DEF TypeOK, PublishBrowsing
<1>5. \A id \in S : browsing'[id] = [home |-> recs[id].home, items |-> items[id]]
  BY DEF PublishBrowsing
<1>6. \A id \in S : Readable(browsing'[id])
  BY <1>2, <1>5, WrittenReadable
<1>7. \A id \in Spaces \ S : browsing'[id] = browsing[id]
  BY DEF PublishBrowsing
<1> QED BY <1>2, <1>4, <1>5, <1>6, <1>7

(* No two workspaces have the same default account.                        *)
Distinct(ids) == \A v, w \in Workspaces : ids[v] = ids[w] => v = w

(* What the loops of a first start have written.                           *)
DefaultsWritten(ids, R, B, contents) ==
  /\ \A w \in R : Readable(record'[ids[w]]) /\ record'[ids[w]].home = w
  /\ \A w \in B : /\ Readable(browsing'[ids[w]]) /\ browsing'[ids[w]].home = w
                  /\ browsing'[ids[w]].items = contents[w]
  /\ \A id \in Spaces : (\A w \in R : ids[w] # id) => record'[id] = record[id]
  /\ \A id \in Spaces : (\A w \in B : ids[w] # id) => browsing'[id] = browsing[id]

(* The files that WriteDefaults() writes.                                  *)
LEMMA Defaults ==
  ASSUME TypeOK, NEW ids \in [Workspaces -> Spaces], Distinct(ids),
         NEW R \in SUBSET Workspaces, NEW B \in SUBSET Workspaces,
         NEW last \in BOOLEAN, NEW v1 \in BOOLEAN, NEW contents \in [Workspaces -> SUBSET Items],
         WriteDefaults(ids, R, B, last, v1, contents)
  PROVE  /\ record' \in [Spaces -> {None, Bad} \cup Record]
         /\ browsing' \in [Spaces -> {None, Bad} \cup Browsing]
         /\ manifest' \in {None, Bad} \cup Manifest
         /\ DefaultsWritten(ids, R, B, contents)
<1>1. \A T \in SUBSET Workspaces : \A w \in T : (CHOOSE v \in T : ids[v] = ids[w]) = w
  BY DEF Distinct
<1>2. \A T \in SUBSET Workspaces, id \in Spaces :
        (\E w \in T : ids[w] = id) => (CHOOSE v \in T : ids[v] = id) \in T
  OBVIOUS
<1>3. \A w \in R : record'[ids[w]] = [home |-> w, v1 |-> v1]
  BY <1>1 DEF WriteDefaults
<1>4. \A w \in B : browsing'[ids[w]] = [home |-> w, items |-> contents[w]]
  BY <1>1 DEF WriteDefaults
<1>5. \A id \in Spaces : (\A w \in R : ids[w] # id) => record'[id] = record[id]
  BY DEF WriteDefaults
<1>6. \A id \in Spaces : (\A w \in B : ids[w] # id) => browsing'[id] = browsing[id]
  BY DEF WriteDefaults
<1>7. record' \in [Spaces -> {None, Bad} \cup Record]
  <2>1. \A w \in R : [home |-> w, v1 |-> v1] \in Record
    BY DEF Record
  <2>2. ASSUME NEW id \in Spaces PROVE record'[id] \in {None, Bad} \cup Record
    <3>1. CASE \A w \in R : ids[w] # id
      BY <3>1, <1>5 DEF TypeOK
    <3>2. CASE \E w \in R : ids[w] = id
      <4>1. PICK w \in R : ids[w] = id
        BY <3>2
      <4>2. record'[id] = [home |-> w, v1 |-> v1]
        BY <4>1, <1>3
      <4>3. [home |-> w, v1 |-> v1] \in Record
        BY <2>1
      <4> QED BY <4>2, <4>3, Zenon
    <3> QED BY <3>1, <3>2
  <2> QED BY <2>2 DEF WriteDefaults
<1>8. browsing' \in [Spaces -> {None, Bad} \cup Browsing]
  <2>1. \A w \in B : [home |-> w, items |-> contents[w]] \in Browsing
    BY DEF Browsing
  <2>2. ASSUME NEW id \in Spaces PROVE browsing'[id] \in {None, Bad} \cup Browsing
    <3>1. CASE \A w \in B : ids[w] # id
      BY <3>1, <1>6 DEF TypeOK
    <3>2. CASE \E w \in B : ids[w] = id
      <4>1. PICK w \in B : ids[w] = id
        BY <3>2
      <4>2. browsing'[id] = [home |-> w, items |-> contents[w]]
        BY <4>1, <1>4
      <4>3. [home |-> w, items |-> contents[w]] \in Browsing
        BY <2>1
      <4> QED BY <4>2, <4>3, Zenon
    <3> QED BY <3>1, <3>2
  <2> QED BY <2>2 DEF WriteDefaults
<1>9. manifest' \in {None, Bad} \cup Manifest
  BY DEF WriteDefaults, FirstManifest, TypeOK, Manifest
<1>10. ASSUME NEW w \in R PROVE Readable(record'[ids[w]]) /\ record'[ids[w]].home = w
  <2>1. record'[ids[w]] = [home |-> w, v1 |-> v1]
    BY <1>3
  <2> QED BY <2>1, WrittenReadable
<1>11. ASSUME NEW w \in B
       PROVE  /\ Readable(browsing'[ids[w]]) /\ browsing'[ids[w]].home = w
              /\ browsing'[ids[w]].items = contents[w]
  <2>1. browsing'[ids[w]] = [home |-> w, items |-> contents[w]] /\ contents[w] \in SUBSET Items
    BY <1>4
  <2> QED BY <2>1, WrittenReadable
<1>12. DefaultsWritten(ids, R, B, contents)
  BY <1>5, <1>6, <1>10, <1>11 DEF DefaultsWritten
<1> QED BY <1>7, <1>8, <1>9, <1>12

(* StartMemory() is the memory of a start that wrote these files.          *)
LEMMA Started ==
  ASSUME NEW ids \in [Workspaces -> Spaces], Distinct(ids),
         NEW contents \in [Workspaces -> SUBSET Items], StartMemory(ids, contents)
  PROVE  /\ mem' \in Memory /\ pc' = "ready"
         /\ recovering' = {} /\ offered' = None /\ corrupt' = {}
         /\ mem'.spaces = {ids[w] : w \in Workspaces} /\ mem'.active = ids
         /\ \A w \in Workspaces : mem'.items[ids[w]] = contents[w]
         /\ \A id \in Spaces : (\A w \in Workspaces : ids[w] # id) => mem'.items[id] = {}
<1>1. \A w \in Workspaces : (CHOOSE v \in Workspaces : ids[v] = ids[w]) = w
  BY DEF Distinct
<1>2. \A w \in Workspaces : mem'.items[ids[w]] = contents[w]
  BY <1>1 DEF StartMemory, Ready
<1>3. \A id \in Spaces : (\A w \in Workspaces : ids[w] # id) => mem'.items[id] = {}
  BY DEF StartMemory, Ready
<1>4. \A id \in Spaces : mem'.items[id] \in SUBSET Items
  BY <1>2, <1>3
<1>5. mem' \in Memory
  BY <1>4 DEF StartMemory, Ready, Memory
<1> QED BY <1>2, <1>3, <1>5 DEF StartMemory, Ready

(* Nothing of a stopped process is left in memory.                         *)
LEMMA StoppedTypes ==
  ASSUME Stopped \/ Recovery
  PROVE  /\ pc' \in {"stopped", "recovery"} /\ mem' \in Memory /\ mem' = NoMemory
         /\ recovering' = {} /\ offered' = None /\ corrupt' = {}
  BY DefaultAssumption DEF Stopped, Recovery, NoMemory, Memory

-----------------------------------------------------------------------------
(* Type correctness.                                                       *)

(* An update keeps the types, whether or not it reaches its end.           *)
LEMMA UpdateTypes ==
  ASSUME TypeOK, NEW recs \in [Spaces -> {None, Bad} \cup Record],
         NEW spaces \in SUBSET Spaces, \A id \in spaces : Readable(recs[id]),
         NEW items \in [Spaces -> SUBSET Items], NEW active \in [Workspaces -> Spaces],
         Persisted(recs, spaces, items, active) \/ Unpersisted(recs, spaces, items, active)
  PROVE  /\ browsing' \in [Spaces -> {None, Bad} \cup Browsing]
         /\ manifest' \in {None, Bad} \cup Manifest
         /\ pc' \in {"stopped", "ready", "recovery"} /\ mem' \in Memory
         /\ recovering' \in SUBSET Spaces /\ offered' \in {None} \cup Spaces
         /\ corrupt' \in SUBSET Spaces
<1>1. CASE Persisted(recs, spaces, items, active)
  <2>1. Writable(spaces) \in SUBSET Spaces /\ \A id \in Writable(spaces) : Readable(recs[id])
    BY DEF Writable
  <2>2. browsing' \in [Spaces -> {None, Bad} \cup Browsing]
    BY <1>1, <2>1, Published DEF Persisted
  <2>3. PICK f \in [Workspaces -> Spaces] :
          /\ manifest' = [ids |-> spaces \cup recovering, active |-> f]
          /\ mem' = [spaces |-> spaces, items |-> items, active |-> f]
    BY <1>1 DEF Persisted
  <2>4. manifest' \in Manifest /\ mem' \in Memory
    BY <2>3 DEF Manifest, Memory, TypeOK
  <2> QED BY <1>1, <2>2, <2>4 DEF Persisted, TypeOK
<1>2. CASE Unpersisted(recs, spaces, items, active)
  <2>1. PICK S \in SUBSET Writable(spaces) : PublishBrowsing(recs, S, items)
    BY <1>2 DEF Unpersisted, Rewritten
  <2>2. S \in SUBSET Spaces /\ \A id \in S : Readable(recs[id])
    BY <2>1 DEF Writable
  <2>3. browsing' \in [Spaces -> {None, Bad} \cup Browsing]
    BY <2>1, <2>2, Published
  <2>4. manifest' = manifest /\ (UNCHANGED <<pc, memory>> \/ Stopped)
    BY <1>2 DEF Unpersisted
  <2>5. CASE Stopped
    BY <2>3, <2>4, <2>5, StoppedTypes DEF TypeOK
  <2>6. CASE UNCHANGED <<pc, memory>>
    BY <2>3, <2>4, <2>6 DEF TypeOK, memory
  <2> QED BY <2>4, <2>5, <2>6
<1> QED BY <1>1, <1>2

(* The updates of an account: what it holds, where its workspace points.   *)
LEMMA SaveType ==
  ASSUME FilesInv, NEW a \in Spaces, NEW i \in Items, Save(a, i)
  PROVE  TypeOK'
<1> DEFINE items == [mem.items EXCEPT ![a] = @ \cup {i}]
<1>1. TypeOK /\ record \in [Spaces -> {None, Bad} \cup Record] /\ mem \in Memory
  BY DEF FilesInv, TypeOK
<1>2. mem.spaces \in SUBSET Spaces /\ items \in [Spaces -> SUBSET Items] /\ mem.active \in [Workspaces -> Spaces]
  BY <1>1 DEF Memory
<1>3. \A id \in mem.spaces : Readable(record[id])
  BY DEF FilesInv, MemoryMatches, Save
<1>4. \/ Persisted(record, mem.spaces, items, mem.active)
      \/ Unpersisted(record, mem.spaces, items, mem.active)
  BY DEF Save
<1>5. made' \in SUBSET Items /\ saved' \in SUBSET Items
  BY <1>1 DEF Save, TypeOK
<1> HIDE DEF items
<1>6. /\ browsing' \in [Spaces -> {None, Bad} \cup Browsing]
      /\ manifest' \in {None, Bad} \cup Manifest
      /\ pc' \in {"stopped", "ready", "recovery"} /\ mem' \in Memory
      /\ recovering' \in SUBSET Spaces /\ offered' \in {None} \cup Spaces
      /\ corrupt' \in SUBSET Spaces
  BY <1>1, <1>2, <1>3, <1>4, UpdateTypes
<1>7. UNCHANGED <<legacy, journal, record, backups, ruined, removed, damage, halfFresh>>
  BY DEF Save
<1> QED BY <1>1, <1>5, <1>6, <1>7 DEF TypeOK

LEMMA ForgetType ==
  ASSUME FilesInv, NEW a \in Spaces, Forget(a)
  PROVE  TypeOK'
<1> DEFINE items == [mem.items EXCEPT ![a] = {}]
<1>1. TypeOK /\ record \in [Spaces -> {None, Bad} \cup Record] /\ mem \in Memory
  BY DEF FilesInv, TypeOK
<1>2. mem.spaces \in SUBSET Spaces /\ items \in [Spaces -> SUBSET Items] /\ mem.active \in [Workspaces -> Spaces]
  BY <1>1 DEF Memory
<1>3. \A id \in mem.spaces : Readable(record[id])
  BY DEF FilesInv, MemoryMatches, Forget
<1>4. \/ Persisted(record, mem.spaces, items, mem.active)
      \/ Unpersisted(record, mem.spaces, items, mem.active)
  BY DEF Forget
<1>5. saved' \in SUBSET Items
  BY <1>1 DEF Forget, TypeOK
<1> HIDE DEF items
<1>6. /\ browsing' \in [Spaces -> {None, Bad} \cup Browsing]
      /\ manifest' \in {None, Bad} \cup Manifest
      /\ pc' \in {"stopped", "ready", "recovery"} /\ mem' \in Memory
      /\ recovering' \in SUBSET Spaces /\ offered' \in {None} \cup Spaces
      /\ corrupt' \in SUBSET Spaces
  BY <1>1, <1>2, <1>3, <1>4, UpdateTypes
<1>7. UNCHANGED <<legacy, journal, record, backups, made, ruined, removed, damage, halfFresh>>
  BY DEF Forget
<1> QED BY <1>1, <1>5, <1>6, <1>7 DEF TypeOK

LEMMA SwitchType ==
  ASSUME FilesInv, NEW a \in Spaces, SwitchTo(a)
  PROVE  TypeOK'
<1> DEFINE active == [mem.active EXCEPT ![record[a].home] = a]
<1>1. TypeOK /\ record \in [Spaces -> {None, Bad} \cup Record] /\ mem \in Memory
  BY DEF FilesInv, TypeOK
<1>2. mem.spaces \in SUBSET Spaces /\ mem.items \in [Spaces -> SUBSET Items] /\ active \in [Workspaces -> Spaces]
  BY <1>1 DEF Memory
<1>3. \A id \in mem.spaces : Readable(record[id])
  BY DEF FilesInv, MemoryMatches, SwitchTo
<1>4. \/ Persisted(record, mem.spaces, mem.items, active)
      \/ Unpersisted(record, mem.spaces, mem.items, active)
  BY DEF SwitchTo
<1> HIDE DEF active
<1>6. /\ browsing' \in [Spaces -> {None, Bad} \cup Browsing]
      /\ manifest' \in {None, Bad} \cup Manifest
      /\ pc' \in {"stopped", "ready", "recovery"} /\ mem' \in Memory
      /\ recovering' \in SUBSET Spaces /\ offered' \in {None} \cup Spaces
      /\ corrupt' \in SUBSET Spaces
  BY <1>1, <1>2, <1>3, <1>4, UpdateTypes
<1>7. UNCHANGED <<legacy, journal, record, backups, history>>
  BY DEF SwitchTo
<1> QED BY <1>1, <1>6, <1>7 DEF TypeOK, history

LEMMA AddType ==
  ASSUME FilesInv, NEW id \in Spaces, NEW w \in Workspaces, Add(id, w)
  PROVE  TypeOK'
<1> DEFINE active == [mem.active EXCEPT ![w] = id]
           spaces == mem.spaces \cup {id}
           new    == [record EXCEPT ![id] = [home |-> w, v1 |-> FALSE]]
<1>1. TypeOK /\ record \in [Spaces -> {None, Bad} \cup Record] /\ mem \in Memory
  BY DEF FilesInv, TypeOK
<1>2. /\ spaces \in SUBSET Spaces /\ mem.items \in [Spaces -> SUBSET Items]
      /\ active \in [Workspaces -> Spaces] /\ new \in [Spaces -> {None, Bad} \cup Record]
  BY <1>1 DEF Memory, Record
<1>3. \A x \in spaces : Readable(new[x])
  <2>1. new[id] = [home |-> w, v1 |-> FALSE]
    BY <1>1
  <2>2. Readable(new[id])
    BY <2>1, WrittenReadable
  <2>3. \A x \in mem.spaces : Readable(record[x])
    BY DEF FilesInv, MemoryMatches, Add
  <2>4. \A x \in mem.spaces \ {id} : new[x] = record[x]
    BY <1>1 DEF Memory
  <2> QED BY <2>2, <2>3, <2>4
<1>4. \/ Persisted(new, spaces, mem.items, active)
      \/ Unpersisted(new, spaces, mem.items, active)
  BY DEF Add
<1>5. record' \in {record, new}
  BY DEF Add
<1> HIDE DEF active, spaces, new
<1>6. /\ browsing' \in [Spaces -> {None, Bad} \cup Browsing]
      /\ manifest' \in {None, Bad} \cup Manifest
      /\ pc' \in {"stopped", "ready", "recovery"} /\ mem' \in Memory
      /\ recovering' \in SUBSET Spaces /\ offered' \in {None} \cup Spaces
      /\ corrupt' \in SUBSET Spaces
  BY <1>1, <1>2, <1>3, <1>4, UpdateTypes
<1>7. UNCHANGED <<legacy, journal, backups, history>>
  BY DEF Add
<1> QED BY <1>1, <1>2, <1>5, <1>6, <1>7 DEF TypeOK, history

LEMMA RemoveType ==
  ASSUME FilesInv, NEW id \in Spaces, Remove(id)
  PROVE  TypeOK'
<1> DEFINE spaces == mem.spaces \ {id}
           items  == [mem.items EXCEPT ![id] = {}]
<1>1. TypeOK /\ record \in [Spaces -> {None, Bad} \cup Record] /\ mem \in Memory
  BY DEF FilesInv, TypeOK
<1>2. spaces \in SUBSET Spaces /\ items \in [Spaces -> SUBSET Items]
  BY <1>1 DEF Memory
<1>3. \A x \in spaces : Readable(record[x]) /\ record[x] \in Record
  BY <1>1, ReadableHas DEF FilesInv, MemoryMatches, Remove, Memory
<1>4. PICK r \in Members(record, mem.spaces, record[id].home) \ {id} :
         \/ /\ Unpersisted(record, spaces, items, Repointed(id, r))
            /\ UNCHANGED record
         \/ \E gone \in 0 .. 2, f \in [Workspaces -> Spaces], next \in {"ready", "stopped"} :
              /\ MayNormalize(record, spaces, Repointed(id, r))
              /\ Normalized(record, spaces, Repointed(id, r), f)
              /\ manifest' = [ids |-> spaces \cup recovering, active |-> f]
              /\ record' = IF gone >= 1 THEN [record EXCEPT ![id] = None] ELSE record
              /\ browsing' = [x \in Spaces |->
                   IF x = id /\ gone = 2 THEN None
                   ELSE IF x \in Writable(spaces) THEN [home |-> record[x].home, items |-> items[x]]
                   ELSE browsing[x]]
              /\ IF next = "stopped" THEN Stopped ELSE
                   /\ pc' = "ready"
                   /\ mem' = [spaces |-> spaces, items |-> items, active |-> f]
                   /\ recovering' = IF gone = 2 THEN recovering \ {id} ELSE recovering
                   /\ UNCHANGED <<offered, corrupt>>
  BY DEF Remove
<1>5. Repointed(id, r) \in [Workspaces -> Spaces]
  BY <1>1, <1>4 DEF Repointed, Members, Memory
<1>6. saved' \in SUBSET Items /\ removed' \in SUBSET Spaces
  BY <1>1 DEF Remove, TypeOK
<1>7. UNCHANGED <<legacy, journal, backups, made, ruined, damage, halfFresh>>
  BY DEF Remove
<1>8. CASE Unpersisted(record, spaces, items, Repointed(id, r)) /\ UNCHANGED record
  <2> HIDE DEF items, spaces
  <2>1. /\ browsing' \in [Spaces -> {None, Bad} \cup Browsing]
        /\ manifest' \in {None, Bad} \cup Manifest
        /\ pc' \in {"stopped", "ready", "recovery"} /\ mem' \in Memory
        /\ recovering' \in SUBSET Spaces /\ offered' \in {None} \cup Spaces
        /\ corrupt' \in SUBSET Spaces
    BY <1>1, <1>2, <1>3, <1>5, <1>8, UpdateTypes
  <2> QED BY <1>1, <1>6, <1>7, <1>8, <2>1 DEF TypeOK
<1>9. ASSUME NEW gone \in 0 .. 2, NEW f \in [Workspaces -> Spaces], NEW next \in {"ready", "stopped"},
              manifest' = [ids |-> spaces \cup recovering, active |-> f],
              record' = IF gone >= 1 THEN [record EXCEPT ![id] = None] ELSE record,
              browsing' = [x \in Spaces |->
                   IF x = id /\ gone = 2 THEN None
                   ELSE IF x \in Writable(spaces) THEN [home |-> record[x].home, items |-> items[x]]
                   ELSE browsing[x]],
              IF next = "stopped" THEN Stopped ELSE
                   /\ pc' = "ready"
                   /\ mem' = [spaces |-> spaces, items |-> items, active |-> f]
                   /\ recovering' = IF gone = 2 THEN recovering \ {id} ELSE recovering
                   /\ UNCHANGED <<offered, corrupt>>
      PROVE  TypeOK'
  <2>1. \A x \in spaces : [home |-> record[x].home, items |-> items[x]] \in Browsing
    BY <1>2, <1>3 DEF Record, Browsing
  <2>2. browsing' \in [Spaces -> {None, Bad} \cup Browsing]
    <3>1. ASSUME NEW x \in Spaces PROVE browsing'[x] \in {None, Bad} \cup Browsing
      <4>1. CASE x \in Writable(spaces) /\ ~(x = id /\ gone = 2)
        <5>1. browsing'[x] = [home |-> record[x].home, items |-> items[x]]
          BY <1>9, <4>1
        <5>2. x \in spaces
          BY <4>1 DEF Writable
        <5> QED BY <2>1, <5>1, <5>2, Zenon
      <4>2. CASE x \notin Writable(spaces) \/ (x = id /\ gone = 2)
        <5>1. browsing'[x] \in {None, browsing[x]}
          BY <1>9, <4>2
        <5> QED BY <1>1, <5>1 DEF TypeOK
      <4> QED BY <4>1, <4>2
    <3> QED BY <1>9, <3>1
  <2>3. record' \in [Spaces -> {None, Bad} \cup Record]
    BY <1>1, <1>9
  <2>4. manifest' \in Manifest
    BY <1>1, <1>2, <1>9 DEF Manifest, TypeOK
  <2> HIDE DEF items, spaces
  <2>5. CASE Stopped
    BY <1>1, <1>6, <1>7, <2>2, <2>3, <2>4, <2>5, StoppedTypes DEF TypeOK
  <2>6. CASE /\ pc' = "ready"
             /\ mem' = [spaces |-> spaces, items |-> items, active |-> f]
             /\ recovering' = IF gone = 2 THEN recovering \ {id} ELSE recovering
             /\ UNCHANGED <<offered, corrupt>>
    <3>1. mem' \in Memory
      BY <1>2, <2>6 DEF Memory
    <3> QED BY <1>1, <1>6, <1>7, <2>2, <2>3, <2>4, <2>6, <3>1 DEF TypeOK
  <2> QED BY <1>9, <2>5, <2>6
<1> QED BY <1>4, <1>8, <1>9

(* Start-up and recovery.                                                  *)
LEMMA CreateFreshType ==
  ASSUME FilesInv, CreateFresh
  PROVE  TypeOK'
<1> DEFINE none == [w \in Workspaces |-> {}]
<1>1. PICK ids \in [Workspaces -> Unused], R \in SUBSET Workspaces, B \in SUBSET Workspaces, last \in BOOLEAN :
        /\ \A v, w \in Workspaces : ids[v] = ids[w] => v = w
        /\ WriteDefaults(ids, R, B, last, FALSE, none)
        /\ IF last THEN StartMemory(ids, none) ELSE Stopped
  BY DEF CreateFresh
<1>2. ids \in [Workspaces -> Spaces] /\ none \in [Workspaces -> SUBSET Items] /\ Distinct(ids)
  BY <1>1 DEF Unused, Distinct
<1>3. TypeOK
  BY DEF FilesInv
<1> HIDE DEF none
<1>4. /\ record' \in [Spaces -> {None, Bad} \cup Record]
      /\ browsing' \in [Spaces -> {None, Bad} \cup Browsing]
      /\ manifest' \in {None, Bad} \cup Manifest
  <2>1. PICK v1 \in BOOLEAN : WriteDefaults(ids, R, B, last, v1, none)
    BY <1>1, Zenon
  <2> QED BY <1>2, <1>3, <2>1, Defaults
<1>5. UNCHANGED <<legacy, journal, backups, made, saved, ruined, removed, damage, halfFresh>>
  BY DEF CreateFresh
<1>6. CASE last
  <2>1. StartMemory(ids, none)
    BY <1>1, <1>6
  <2>2. /\ mem' \in Memory /\ pc' = "ready"
        /\ recovering' = {} /\ offered' = None /\ corrupt' = {}
    BY <1>1, <1>2, <2>1, Started
  <2> QED BY <1>3, <1>4, <1>5, <2>2 DEF TypeOK
<1>7. CASE ~last
  <2>1. Stopped
    BY <1>1, <1>7
  <2> QED BY <1>3, <1>4, <1>5, <2>1, StoppedTypes DEF TypeOK
<1> QED BY <1>6, <1>7

LEMMA MigrateType ==
  ASSUME FilesInv, Migrate
  PROVE  TypeOK'
<1>1. PICK R \in SUBSET Missing, B \in SUBSET Workspaces, last \in BOOLEAN :
        /\ WriteDefaults(Default, R, B, last, TRUE, legacy)
        /\ IF last THEN StartMemory(Default, legacy) ELSE Recovery \/ Stopped
  BY DEF Migrate, Journaled
<1>2. TypeOK /\ legacy \in [Workspaces -> SUBSET Items] /\ Default \in [Workspaces -> Spaces] /\ Distinct(Default)
  BY ReadableHas, DefaultAssumption DEF FilesInv, Migrate, Journaled, Legacy, Distinct
<1>3. R \in SUBSET Workspaces
  BY DEF Missing
<1>4. /\ record' \in [Spaces -> {None, Bad} \cup Record]
      /\ browsing' \in [Spaces -> {None, Bad} \cup Browsing]
      /\ manifest' \in {None, Bad} \cup Manifest
  <2>1. PICK v1 \in BOOLEAN : WriteDefaults(Default, R, B, last, v1, legacy)
    BY <1>1, Zenon
  <2> QED BY <1>2, <1>3, <2>1, Defaults
<1>5. LegacyItems \in SUBSET Items
  BY <1>2 DEF LegacyItems
<1>6. UNCHANGED <<legacy, made, saved, ruined, removed, damage, halfFresh>> /\ journal' = "good"
      /\ backups' \in {backups, backups \cup LegacyItems}
  BY <1>1 DEF Migrate, Journaled
<1>7. CASE last
  <2>1. StartMemory(Default, legacy)
    BY <1>1, <1>7
  <2>2. /\ mem' \in Memory /\ pc' = "ready"
        /\ recovering' = {} /\ offered' = None /\ corrupt' = {}
    BY <1>2, <2>1, Started
  <2> QED BY <1>2, <1>4, <1>5, <1>6, <2>2 DEF TypeOK
<1>8. CASE ~last
  <2>1. Stopped \/ Recovery
    BY <1>1, <1>8
  <2> QED BY <1>2, <1>4, <1>5, <1>6, <2>1, StoppedTypes DEF TypeOK
<1> QED BY <1>7, <1>8

LEMMA LoadType ==
  ASSUME FilesInv, Load
  PROVE  TypeOK'
<1>1. TypeOK /\ manifest \in Manifest
  BY ReadableHas DEF FilesInv, Load
<1> DEFINE damaged == {id \in manifest.ids : ~Whole(id)}
           items   == [id \in Spaces |-> IF id \in manifest.ids \ damaged THEN browsing[id].items ELSE {}]
<1>2. /\ mem' = [spaces |-> RecordsIn(manifest.ids), items |-> items, active |-> manifest.active]
      /\ pc' = "ready" /\ recovering' = damaged
      /\ offered' \in {None} \cup damaged /\ corrupt' = {id \in manifest.ids : record[id] = Bad}
      /\ UNCHANGED <<disk, made, saved, ruined, removed, damage, halfFresh>>
  BY DEF Load, Ready
<1>3. damaged \in SUBSET Spaces /\ corrupt' \in SUBSET Spaces
  BY <1>1, <1>2 DEF Manifest
<1>4. \A id \in manifest.ids \ damaged : browsing[id] \in Browsing
  BY <1>1, ReadableHas DEF Whole, Manifest
<1>5. items \in [Spaces -> SUBSET Items]
  BY <1>4 DEF Browsing
<1>6. RecordsIn(manifest.ids) \in SUBSET Spaces /\ manifest.active \in [Workspaces -> Spaces]
  BY <1>1 DEF Manifest, RecordsIn
<1> HIDE DEF items, damaged
<1>7. mem' \in Memory
  BY <1>2, <1>5, <1>6 DEF Memory
<1> QED BY <1>1, <1>2, <1>3, <1>7 DEF TypeOK, disk

(* The start-ups that end in recovery, and the end of the process.         *)
LEMMA StopType ==
  ASSUME FilesInv, MigrationRefused \/ LoadRefused \/ Stop
  PROVE  TypeOK'
<1>1. (Stopped \/ Recovery) /\ UNCHANGED <<disk, history>> /\ TypeOK
  BY DEF MigrationRefused, LoadRefused, Stop, FilesInv
<1> QED BY <1>1, StoppedTypes DEF TypeOK, disk, history

(* Whose account it is comes from a readable file.                         *)
LEMMA OwnerType ==
  ASSUME TypeOK, NEW id \in Spaces, CanFreshStart(id)
  PROVE  Owner(id) \in Workspaces
  BY ReadableHas DEF CanFreshStart, OwnerKnown, Owner, Record, Browsing

LEMMA FreshStartType ==
  ASSUME FilesInv, FreshStart
  PROVE  TypeOK'
<1> DEFINE id   == offered
           keep == Readable(record[id])
           new  == [home |-> Owner(id), v1 |-> FALSE]
<1>1. TypeOK /\ id \in Spaces /\ Owner(id) \in Workspaces
  BY OwnerType DEF FilesInv, FreshStart, TypeOK
<1>2. PICK steps \in 0 .. 3 :
       /\ record' = CASE keep \/ steps = 0 -> record
                      [] steps = 1 -> [record EXCEPT ![id] = None]
                      [] OTHER -> [record EXCEPT ![id] = new]
       /\ browsing' = IF steps = 3 THEN [browsing EXCEPT ![id] = [home |-> Owner(id), items |-> {}]]
                                   ELSE browsing
       /\ \/ Stopped
          \/ /\ corrupt' = IF steps > 0 THEN corrupt \ {id} ELSE corrupt
             /\ UNCHANGED <<pc, mem, recovering, offered>>
       /\ ruined' = IF steps = 3 THEN ruined \ {id} ELSE ruined
  BY DEF FreshStart
<1>3. new \in Record /\ [home |-> Owner(id), items |-> {}] \in Browsing
  BY <1>1 DEF Record, Browsing
<1>4. ItemsIn(browsing[id]) \in SUBSET Items
  BY <1>1, ReadableHas DEF ItemsIn, Browsing
<1>5. UNCHANGED <<legacy, journal, manifest, made, saved, removed, damage, halfFresh>>
      /\ backups' = backups \cup ItemsIn(browsing[id])
  BY DEF FreshStart, Preserved
<1> HIDE DEF id, new, keep
<1>6. record' \in [Spaces -> {None, Bad} \cup Record]
  <2>1. record \in [Spaces -> {None, Bad} \cup Record]
    BY <1>1 DEF TypeOK
  <2>2. [record EXCEPT ![id] = new] \in [Spaces -> {None, Bad} \cup Record]
    BY <1>1, <1>3, <2>1
  <2>3. [record EXCEPT ![id] = None] \in [Spaces -> {None, Bad} \cup Record]
    BY <1>1, <2>1
  <2>4. record' \in {record, [record EXCEPT ![id] = None], [record EXCEPT ![id] = new]}
    BY <1>2
  <2> QED BY <2>1, <2>2, <2>3, <2>4
<1>7. browsing' \in [Spaces -> {None, Bad} \cup Browsing]
  <2>1. browsing \in [Spaces -> {None, Bad} \cup Browsing]
    BY <1>1 DEF TypeOK
  <2>2. [browsing EXCEPT ![id] = [home |-> Owner(id), items |-> {}]] \in [Spaces -> {None, Bad} \cup Browsing]
    BY <1>1, <1>3, <2>1
  <2> QED BY <1>2, <2>1, <2>2
<1>8. ruined' \in SUBSET Spaces
  BY <1>1, <1>2 DEF TypeOK
<1>9. CASE Stopped
  BY <1>1, <1>4, <1>5, <1>6, <1>7, <1>8, <1>9, StoppedTypes DEF TypeOK
<1>10. CASE /\ corrupt' = IF steps > 0 THEN corrupt \ {id} ELSE corrupt
            /\ UNCHANGED <<pc, mem, recovering, offered>>
  <2>1. corrupt' \in SUBSET Spaces
    BY <1>1, <1>10 DEF TypeOK
  <2> QED BY <1>1, <1>4, <1>5, <1>6, <1>7, <1>8, <1>10, <2>1 DEF TypeOK
<1> QED BY <1>2, <1>9, <1>10

LEMMA RecoveryActionType ==
  ASSUME FilesInv, FreshStartAll \/ RestoreV1
  PROVE  TypeOK'
<1>1. TypeOK /\ \A id \in Spaces : ItemsIn(browsing[id]) \in SUBSET Items
  BY ReadableHas DEF FilesInv, ItemsIn, Browsing
<1>2. LegacyItems \in SUBSET Items /\ BrowsingItems \in SUBSET Items
  BY <1>1, ReadableHas DEF LegacyItems, BrowsingItems, Legacy
<1>3. CASE FreshStartAll
  <2>1. /\ manifest' \in {None, manifest} /\ legacy' \in {None, legacy} /\ journal' \in {"none", journal}
        /\ backups' \in {backups, backups \cup LegacyItems} /\ halfFresh' \in BOOLEAN
        /\ Stopped \/ UNCHANGED <<pc, memory>>
    BY <1>1, <1>3 DEF FreshStartAll, Preserved, TypeOK
  <2>2. UNCHANGED <<record, browsing, made, saved, ruined, removed, damage>>
    BY <1>3 DEF FreshStartAll
  <2>3. CASE Stopped
    BY <1>1, <1>2, <2>1, <2>2, <2>3, StoppedTypes DEF TypeOK
  <2>4. CASE UNCHANGED <<pc, memory>>
    BY <1>1, <1>2, <2>1, <2>2, <2>4 DEF TypeOK, memory
  <2> QED BY <2>1, <2>3, <2>4
<1>4. CASE RestoreV1
  <2>1. backups' = backups \cup BrowsingItems /\ manifest' = None /\ Stopped
        /\ UNCHANGED <<legacy, journal, record, browsing, made, saved, ruined, removed, damage, halfFresh>>
    BY <1>4 DEF RestoreV1, Preserved
  <2> QED BY <1>1, <1>2, <2>1, StoppedTypes DEF TypeOK
<1> QED BY <1>3, <1>4

LEMMA DamageType ==
  ASSUME FilesInv, Damage
  PROVE  TypeOK'
<1>1. TypeOK /\ damage' \in 0 .. MaxDamage
  BY BoundAssumption DEF FilesInv, Damage, TypeOK
<1>2. saved' \in SUBSET Items
      /\ UNCHANGED <<backups, pc, memory, made, removed, halfFresh>>
  BY <1>1 DEF Damage, TypeOK
<1>3. /\ manifest' \in {manifest, Bad} /\ legacy' \in {legacy, Bad} /\ journal' \in {journal, "bad"}
      /\ ruined' \in SUBSET Spaces
      /\ record' \in [Spaces -> {None, Bad} \cup Record]
      /\ browsing' \in [Spaces -> {None, Bad} \cup Browsing]
  BY <1>1 DEF Damage, TypeOK
<1> QED BY <1>1, <1>2, <1>3 DEF TypeOK, memory

LEMMA NextType ==
  ASSUME FilesInv, Next
  PROVE  TypeOK'
  BY SaveType, ForgetType, SwitchType, AddType, RemoveType, CreateFreshType, MigrateType, LoadType,
     StopType, FreshStartType, RecoveryActionType, DamageType DEF Next, StartUp, Use

-----------------------------------------------------------------------------
(* Files and memory match.                                                 *)

(* The homes that record' and browsing' name agree.                        *)
HomesAgree == \A id \in Spaces :
  Readable(record[id]) /\ Readable(browsing[id]) => browsing[id].home = record[id].home

(* Files that stay as they were or become unreadable belong where they     *)
(* belonged.                                                               *)
LEMMA FilesKept ==
  ASSUME OneHome,
         \A id \in Spaces : /\ Readable(record[id])' => record'[id] = record[id]
                            /\ Readable(browsing[id])' => browsing'[id] = browsing[id]
  PROVE  /\ HomesAgree'
         /\ \A id \in Spaces : \A w \in Workspaces : Belongs(id, w) => Belongs(id, w)'
  BY DEF OneHome, HomesAgree, Belongs, Readable

(* A process that has just ended or is in recovery knows of no account.    *)
LEMMA StoppedMatches ==
  ASSUME Stopped \/ Recovery
  PROVE  MemoryMatches' /\ pc' # "ready" /\ recovering' = {}
  BY StoppedTypes DEF MemoryMatches, NoMemory

(* Publishing browsing files, possibly with the record of a new account.   *)
LEMMA PublishedFiles ==
  ASSUME FilesInv, NEW recs \in [Spaces -> {None, Bad} \cup Record],
         NEW items \in [Spaces -> SUBSET Items],
         NEW S \in SUBSET Spaces, \A id \in S : Readable(recs[id]),
         PublishBrowsing(recs, S, items),
         \A x \in Spaces \ Unused : recs[x] = record[x],
         \A x \in Spaces : record'[x] \in {record[x], recs[x]}
  PROVE  /\ HomesAgree'
         /\ \A x \in Spaces \ Unused : \A w \in Workspaces : Belongs(x, w) => Belongs(x, w)'
         /\ \A x \in Spaces \ Unused : Whole(x) => Whole(x)'
         /\ \A x \in S : record'[x] = recs[x] => Whole(x)'
<1>1. TypeOK
  BY DEF FilesInv
<1>2. /\ \A id \in S : /\ browsing'[id] = [home |-> recs[id].home, items |-> items[id]]
                        /\ Readable(browsing'[id])
      /\ \A id \in Spaces \ S : browsing'[id] = browsing[id]
  BY <1>1, Published
<1>3. ASSUME NEW id \in S PROVE browsing'[id].home = recs[id].home
  <2>1. browsing'[id] = [home |-> recs[id].home, items |-> items[id]]
    BY <1>2
  <2> QED BY <2>1
<1>4. \A x \in Unused : record[x] = None /\ browsing[x] = None /\ ~Readable(None)
  BY NotReadable DEF Unused
<1>5. HomesAgree'
  <2>1. SUFFICES ASSUME NEW x \in Spaces, Readable(record'[x]), Readable(browsing'[x])
                 PROVE  browsing'[x].home = record'[x].home
    BY DEF HomesAgree, Readable
  <2>2. CASE x \in S
    <3>1. record'[x] = recs[x] \/ x \notin Unused
      BY <1>4, <2>1
    <3>2. record'[x] = recs[x]
      BY <3>1
    <3> QED BY <1>3, <2>2, <3>2
  <2>3. CASE x \notin S
    <3>1. x \notin Unused
      BY <1>2, <1>4, <2>1, <2>3
    <3>2. record'[x] = record[x] /\ browsing'[x] = browsing[x]
      BY <1>2, <2>3, <3>1
    <3> QED BY <2>1, <3>2 DEF FilesInv, OneHome
  <2> QED BY <2>2, <2>3
<1>6. ASSUME NEW x \in Spaces \ Unused, NEW w \in Workspaces, Belongs(x, w)
      PROVE  Belongs(x, w)'
  <2>1. record'[x] = record[x] /\ recs[x] = record[x]
    OBVIOUS
  <2>2. CASE x \in S
    BY <1>3, <1>6, <2>1, <2>2 DEF Belongs, Readable
  <2>3. CASE x \notin S
    BY <1>2, <1>6, <2>1, <2>3 DEF Belongs, Readable
  <2> QED BY <2>2, <2>3
<1>7. ASSUME NEW x \in S, record'[x] = recs[x]
      PROVE  Whole(x)'
  BY <1>2, <1>3, <1>7 DEF Whole, Readable
<1>8. ASSUME NEW x \in Spaces \ Unused, Whole(x)
      PROVE  Whole(x)'
  <2>1. record'[x] = record[x] /\ recs[x] = record[x]
    OBVIOUS
  <2>2. CASE x \in S
    BY <1>7, <2>1, <2>2
  <2>3. CASE x \notin S
    BY <1>2, <1>8, <2>1, <2>3 DEF Whole, Readable
  <2> QED BY <2>2, <2>3
<1> QED BY <1>5, <1>6, <1>7, <1>8

(* The identifiers in use are not Unused.                                  *)
LEMMA UsedIds ==
  /\ \A w \in Workspaces : Default[w] \notin Unused
  /\ Readable(manifest) => \A id \in manifest.ids : id \notin Unused
  /\ \A id \in mem.spaces \cup recovering : id \notin Unused
  BY DEF Unused

(* What normalizeRuntimeState() makes of the active accounts.              *)
LEMMA NormalizedActive ==
  ASSUME NEW recs, NEW spaces \in SUBSET Spaces, NEW active \in [Workspaces -> Spaces], NEW f,
         MayNormalize(recs, spaces, active), Normalized(recs, spaces, active, f)
  PROVE  /\ \A w \in Workspaces :
              \/ f[w] \in Members(recs, spaces, w)
              \/ f[w] = active[w] /\ f[w] \in recovering /\ Members(recs, spaces, w) = {}
         /\ MayNormalize(recs, spaces, f)
<1>1. ASSUME NEW w \in Workspaces
      PROVE  \/ f[w] \in Members(recs, spaces, w)
             \/ f[w] = active[w] /\ f[w] \in recovering /\ Members(recs, spaces, w) = {}
  BY DEF MayNormalize, Normalized
<1>2. MayNormalize(recs, spaces, f)
  BY <1>1 DEF MayNormalize
<1> QED BY <1>1, <1>2

(* An update that reaches its end.                                         *)
LEMMA PersistedFiles ==
  ASSUME FilesInv, pc = "ready",
         NEW recs \in [Spaces -> {None, Bad} \cup Record], NEW items \in [Spaces -> SUBSET Items],
         NEW spaces \in SUBSET Spaces, NEW active \in [Workspaces -> Spaces],
         \A x \in spaces : Readable(recs[x]),
         \A x \in Spaces \ Unused : recs[x] = record[x],
         \A w \in Workspaces : active[w] \in recovering => Belongs(active[w], w),
         Persisted(recs, spaces, items, active), record' = recs, ruined' = ruined
  PROVE  MemoryMatches' /\ OneHome' /\ Damaged'
<1>1. TypeOK /\ MemoryMatches /\ OneHome /\ Damaged
  BY DEF FilesInv
<1>2. PICK f \in [Workspaces -> Spaces] :
        /\ Normalized(recs, spaces, active, f)
        /\ manifest' = [ids |-> spaces \cup recovering, active |-> f]
        /\ mem' = [spaces |-> spaces, items |-> items, active |-> f]
  BY DEF Persisted
<1>3. /\ MayNormalize(recs, spaces, active) /\ PublishBrowsing(recs, Writable(spaces), items)
      /\ pc' = "ready" /\ UNCHANGED <<recovering, offered, corrupt>>
  BY DEF Persisted
<1>4. Writable(spaces) \in SUBSET Spaces /\ \A x \in Writable(spaces) : Readable(recs[x])
  BY DEF Writable
<1>5. /\ HomesAgree'
      /\ \A x \in Spaces \ Unused : \A w \in Workspaces : Belongs(x, w) => Belongs(x, w)'
      /\ \A x \in Writable(spaces) : Whole(x)'
  BY <1>3, <1>4, PublishedFiles
<1>6. /\ \A w \in Workspaces :
           \/ f[w] \in Members(recs, spaces, w)
           \/ f[w] = active[w] /\ f[w] \in recovering /\ Members(recs, spaces, w) = {}
      /\ MayNormalize(recs, spaces, f)
  BY <1>2, <1>3, NormalizedActive
<1>7. recovering \in SUBSET Spaces
  BY <1>1 DEF TypeOK
<1>8. Readable(manifest')
  BY <1>2, <1>7, WrittenReadable
<1>9. \A w \in Workspaces : f[w] \in spaces \cup recovering
  BY <1>6 DEF Members
<1>10. MemoryMatches'
  <2>1. MayNormalize(record, mem.spaces, mem.active)'
    BY <1>2, <1>3, <1>6 DEF MayNormalize, Members
  <2>2. \A x \in mem'.spaces : Readable(record[x])'
    BY <1>2 DEF Readable
  <2> QED BY <1>1, <1>2, <1>3, <1>8, <1>9, <2>1, <2>2 DEF MemoryMatches, Readable
<1>11. ASSUME NEW w \in Workspaces
       PROVE  Belongs(f[w], w)'
  <2>1. CASE f[w] \in Members(recs, spaces, w)
    <3>1. f[w] \in Spaces /\ recs[f[w]].home = w /\ Readable(recs[f[w]])
      BY <2>1 DEF Members
    <3>2. Readable(record'[f[w]]) /\ record'[f[w]].home = w
      BY <3>1
    <3> QED BY <1>5, <3>1, <3>2 DEF HomesAgree, Belongs, Readable
  <2>2. CASE f[w] = active[w] /\ f[w] \in recovering
    <3>1. Belongs(f[w], w) /\ f[w] \in Spaces \ Unused
      BY <1>7, <2>2, UsedIds
    <3> QED BY <1>5, <3>1
  <2> QED BY <1>6, <2>1, <2>2
<1>12. OneHome'
  <2>1. \A w \in Workspaces : Belongs(Default[w], w)'
    BY <1>1, <1>5, UsedIds, DefaultAssumption DEF OneHome
  <2>2. \A w \in Workspaces : Belongs(manifest.active[w], w)' /\ Belongs(mem.active[w], w)'
    BY <1>2, <1>11 DEF Belongs
  <2>3. \A w \in Workspaces : manifest'.active[w] \in manifest'.ids
    BY <1>2, <1>9
  <2> QED BY <1>5, <2>1, <2>2, <2>3 DEF OneHome, HomesAgree
<1>13. Damaged'
  <2>1. \A x \in manifest'.ids \ ruined' : x \in Writable(spaces)
    BY <1>1, <1>2 DEF Damaged, Writable
  <2> QED BY <1>1, <1>3, <1>5, <2>1 DEF Damaged, OnlyDamagedQuarantined
<1> QED BY <1>10, <1>12, <1>13

(* An update that stops before its last write.                             *)
LEMMA UnpersistedFiles ==
  ASSUME FilesInv, pc = "ready",
         NEW recs \in [Spaces -> {None, Bad} \cup Record], NEW items \in [Spaces -> SUBSET Items],
         NEW spaces \in SUBSET Spaces, NEW active \in [Workspaces -> Spaces],
         \A x \in spaces : Readable(recs[x]),
         \A x \in Spaces \ Unused : recs[x] = record[x],
         Unpersisted(recs, spaces, items, active),
         \A x \in Spaces : record'[x] \in {record[x], recs[x]}, ruined' = ruined
  PROVE  MemoryMatches' /\ OneHome' /\ Damaged'
<1>1. TypeOK /\ MemoryMatches /\ OneHome /\ Damaged
  BY DEF FilesInv
<1>2. PICK S \in SUBSET Writable(spaces) : PublishBrowsing(recs, S, items)
  BY DEF Unpersisted, Rewritten
<1>3. manifest' = manifest /\ (UNCHANGED <<pc, memory>> \/ Stopped)
  BY DEF Unpersisted
<1>4. S \in SUBSET Spaces /\ \A x \in S : Readable(recs[x])
  BY <1>2 DEF Writable
<1>5. /\ HomesAgree'
      /\ \A x \in Spaces \ Unused : \A w \in Workspaces : Belongs(x, w) => Belongs(x, w)'
      /\ \A x \in Spaces \ Unused : Whole(x) => Whole(x)'
  BY <1>2, <1>4, PublishedFiles
<1>6. Readable(manifest) /\ manifest \in Manifest /\ mem \in Memory
  BY <1>1, ReadableHas DEF MemoryMatches, TypeOK
<1>7. \A w \in Workspaces : /\ Belongs(Default[w], w)'
                            /\ Belongs(manifest.active[w], w)' /\ manifest'.active[w] \in manifest'.ids
  <2>1. ASSUME NEW w \in Workspaces
        PROVE  /\ Default[w] \in Spaces \ Unused /\ Belongs(Default[w], w)
               /\ manifest.active[w] \in Spaces \ Unused /\ Belongs(manifest.active[w], w)
               /\ manifest.active[w] \in manifest.ids
    BY <1>1, <1>6, UsedIds, DefaultAssumption DEF OneHome, Manifest
  <2> QED BY <1>3, <1>5, <2>1 DEF Belongs
<1>8. OnlyDamagedQuarantined'
  <2>1. \A x \in manifest.ids \ ruined : Whole(x) /\ x \in Spaces \ Unused
    BY <1>1, <1>6, UsedIds DEF Damaged, OnlyDamagedQuarantined, Manifest
  <2> QED BY <1>3, <1>5, <2>1 DEF OnlyDamagedQuarantined
<1>9. CASE Stopped
  <2>1. MemoryMatches' /\ pc' # "ready" /\ recovering' = {}
    BY <1>9, StoppedMatches
  <2> QED BY <1>5, <1>7, <1>8, <2>1 DEF OneHome, HomesAgree, Damaged
<1>10. CASE UNCHANGED <<pc, memory>>
  <2>1. \A x \in mem.spaces \cup recovering : record'[x] = record[x]
    BY <1>1, <1>6, UsedIds DEF Memory, TypeOK
  <2>2. \A w \in Workspaces : Members(record', mem.spaces, w) = Members(record, mem.spaces, w)
    BY <2>1 DEF Members
  <2>3. MayNormalize(record, mem.spaces, mem.active)'
    BY <1>1, <1>10, <2>2 DEF MemoryMatches, MayNormalize, memory
  <2>4. MemoryMatches'
    BY <1>1, <1>3, <1>10, <2>1, <2>3 DEF MemoryMatches, memory, Readable
  <2>5. \A w \in Workspaces : mem.active[w] \in Spaces \ Unused /\ Belongs(mem.active[w], w)
    BY <1>1, <1>6, UsedIds DEF OneHome, MemoryMatches, Memory
  <2>6. \A w \in Workspaces : Belongs(mem.active[w], w)'
    BY <1>5, <1>10, <2>5 DEF Belongs, memory
  <2> QED BY <1>1, <1>5, <1>7, <1>8, <1>10, <2>4, <2>6 DEF OneHome, HomesAgree, Damaged, memory
<1> QED BY <1>3, <1>9, <1>10

(* The updates of one account.                                             *)
LEMMA SaveFiles ==
  ASSUME FilesInv, NEW a \in Spaces, NEW i \in Items, Save(a, i)
  PROVE  MemoryMatches' /\ OneHome' /\ Damaged'
<1> DEFINE items == [mem.items EXCEPT ![a] = @ \cup {i}]
<1>1. TypeOK /\ MemoryMatches /\ OneHome /\ record \in [Spaces -> {None, Bad} \cup Record] /\ mem \in Memory
  BY DEF FilesInv, TypeOK
<1>2. mem.spaces \in SUBSET Spaces /\ items \in [Spaces -> SUBSET Items] /\ mem.active \in [Workspaces -> Spaces]
  BY <1>1 DEF Memory
<1>3. pc = "ready" /\ \A x \in mem.spaces : Readable(record[x])
  BY <1>1 DEF MemoryMatches, Save
<1>4. \/ Persisted(record, mem.spaces, items, mem.active)
      \/ Unpersisted(record, mem.spaces, items, mem.active)
  BY DEF Save
<1>5. \A w \in Workspaces : Belongs(mem.active[w], w)
  BY <1>1, <1>3 DEF OneHome
<1>6. UNCHANGED <<record, ruined>> /\ \A x \in Spaces : record'[x] \in {record[x], record[x]}
  BY DEF Save
<1> HIDE DEF items
<1>7. CASE Persisted(record, mem.spaces, items, mem.active)
  BY <1>1, <1>2, <1>3, <1>5, <1>6, <1>7, PersistedFiles
<1>8. CASE Unpersisted(record, mem.spaces, items, mem.active)
  BY <1>1, <1>2, <1>3, <1>6, <1>8, UnpersistedFiles
<1> QED BY <1>4, <1>7, <1>8

LEMMA ForgetFiles ==
  ASSUME FilesInv, NEW a \in Spaces, Forget(a)
  PROVE  MemoryMatches' /\ OneHome' /\ Damaged'
<1> DEFINE items == [mem.items EXCEPT ![a] = {}]
<1>1. TypeOK /\ MemoryMatches /\ OneHome /\ record \in [Spaces -> {None, Bad} \cup Record] /\ mem \in Memory
  BY DEF FilesInv, TypeOK
<1>2. mem.spaces \in SUBSET Spaces /\ items \in [Spaces -> SUBSET Items] /\ mem.active \in [Workspaces -> Spaces]
  BY <1>1 DEF Memory
<1>3. pc = "ready" /\ \A x \in mem.spaces : Readable(record[x])
  BY <1>1 DEF MemoryMatches, Forget
<1>4. \/ Persisted(record, mem.spaces, items, mem.active)
      \/ Unpersisted(record, mem.spaces, items, mem.active)
  BY DEF Forget
<1>5. \A w \in Workspaces : Belongs(mem.active[w], w)
  BY <1>1, <1>3 DEF OneHome
<1>6. UNCHANGED <<record, ruined>> /\ \A x \in Spaces : record'[x] \in {record[x], record[x]}
  BY DEF Forget
<1> HIDE DEF items
<1>7. CASE Persisted(record, mem.spaces, items, mem.active)
  BY <1>1, <1>2, <1>3, <1>5, <1>6, <1>7, PersistedFiles
<1>8. CASE Unpersisted(record, mem.spaces, items, mem.active)
  BY <1>1, <1>2, <1>3, <1>6, <1>8, UnpersistedFiles
<1> QED BY <1>4, <1>7, <1>8

LEMMA SwitchFiles ==
  ASSUME FilesInv, NEW a \in Spaces, SwitchTo(a)
  PROVE  MemoryMatches' /\ OneHome' /\ Damaged'
<1> DEFINE active == [mem.active EXCEPT ![record[a].home] = a]
<1>1. TypeOK /\ MemoryMatches /\ OneHome /\ record \in [Spaces -> {None, Bad} \cup Record] /\ mem \in Memory
  BY DEF FilesInv, TypeOK
<1>2. mem.spaces \in SUBSET Spaces /\ mem.items \in [Spaces -> SUBSET Items] /\ active \in [Workspaces -> Spaces]
  BY <1>1 DEF Memory
<1>3. pc = "ready" /\ \A x \in mem.spaces : Readable(record[x])
  BY <1>1 DEF MemoryMatches, SwitchTo
<1>4. \/ Persisted(record, mem.spaces, mem.items, active)
      \/ Unpersisted(record, mem.spaces, mem.items, active)
  BY DEF SwitchTo
<1>5. ASSUME NEW w \in Workspaces PROVE Belongs(active[w], w)
  <2>1. CASE w = record[a].home
    <3>1. active[w] = a /\ Readable(record[a])
      BY <1>1, <1>3, <2>1 DEF SwitchTo, Memory
    <3> QED BY <1>1, <2>1, <3>1 DEF OneHome, Belongs
  <2>2. CASE w # record[a].home
    <3>1. active[w] = mem.active[w]
      BY <1>1, <2>2 DEF Memory
    <3> QED BY <1>1, <1>3, <3>1 DEF OneHome
  <2> QED BY <2>1, <2>2
<1>6. UNCHANGED <<record, ruined>> /\ \A x \in Spaces : record'[x] \in {record[x], record[x]}
  BY DEF SwitchTo, history
<1> HIDE DEF active
<1>7. CASE Persisted(record, mem.spaces, mem.items, active)
  BY <1>1, <1>2, <1>3, <1>5, <1>6, <1>7, PersistedFiles
<1>8. CASE Unpersisted(record, mem.spaces, mem.items, active)
  BY <1>1, <1>2, <1>3, <1>6, <1>8, UnpersistedFiles
<1> QED BY <1>4, <1>7, <1>8

LEMMA AddFiles ==
  ASSUME FilesInv, NEW id \in Spaces, NEW w \in Workspaces, Add(id, w)
  PROVE  MemoryMatches' /\ OneHome' /\ Damaged'
<1> DEFINE active == [mem.active EXCEPT ![w] = id]
           spaces == mem.spaces \cup {id}
           new    == [record EXCEPT ![id] = [home |-> w, v1 |-> FALSE]]
<1>1. TypeOK /\ MemoryMatches /\ OneHome /\ record \in [Spaces -> {None, Bad} \cup Record] /\ mem \in Memory
  BY DEF FilesInv, TypeOK
<1>2. /\ spaces \in SUBSET Spaces /\ mem.items \in [Spaces -> SUBSET Items]
      /\ active \in [Workspaces -> Spaces] /\ new \in [Spaces -> {None, Bad} \cup Record]
  BY <1>1 DEF Memory, Record
<1>3. id \in Unused /\ pc = "ready"
  BY DEF Add
<1>4. \A x \in spaces : Readable(new[x])
  <2>1. new[id] = [home |-> w, v1 |-> FALSE]
    BY <1>1
  <2>2. Readable(new[id])
    BY <2>1, WrittenReadable
  <2>3. \A x \in mem.spaces : Readable(record[x])
    BY <1>1, <1>3 DEF MemoryMatches
  <2>4. \A x \in mem.spaces \ {id} : new[x] = record[x]
    BY <1>1 DEF Memory
  <2> QED BY <2>2, <2>3, <2>4
<1>5. \A x \in Spaces \ Unused : new[x] = record[x]
  BY <1>1, <1>3
<1>6. ASSUME NEW v \in Workspaces, active[v] \in recovering PROVE Belongs(active[v], v)
  <2>1. v # w
    BY <1>1, <1>3, <1>6, UsedIds DEF Memory
  <2>2. active[v] = mem.active[v]
    BY <1>1, <2>1 DEF Memory
  <2> QED BY <1>1, <1>3, <2>2 DEF OneHome
<1>7. \/ Persisted(new, spaces, mem.items, active) /\ record' = new
      \/ Unpersisted(new, spaces, mem.items, active) /\ record' \in {record, new}
  BY DEF Add
<1>8. ruined' = ruined
  BY DEF Add, history
<1> HIDE DEF active, spaces, new
<1>9. CASE Persisted(new, spaces, mem.items, active) /\ record' = new
  BY <1>1, <1>2, <1>3, <1>4, <1>5, <1>6, <1>8, <1>9, PersistedFiles
<1>10. CASE Unpersisted(new, spaces, mem.items, active) /\ record' \in {record, new}
  <2>1. \A x \in Spaces : record'[x] \in {record[x], new[x]}
    BY <1>10
  <2> QED BY <1>1, <1>2, <1>3, <1>4, <1>5, <1>8, <1>10, <2>1, UnpersistedFiles
<1> QED BY <1>7, <1>9, <1>10

(* Deleting an account.                                                    *)
LEMMA RemoveFiles ==
  ASSUME FilesInv, NEW id \in Spaces, Remove(id)
  PROVE  MemoryMatches' /\ OneHome' /\ Damaged'
<1> DEFINE spaces == mem.spaces \ {id}
           items  == [mem.items EXCEPT ![id] = {}]
<1>1. TypeOK /\ MemoryMatches /\ OneHome /\ Damaged
      /\ record \in [Spaces -> {None, Bad} \cup Record] /\ mem \in Memory
  BY DEF FilesInv, TypeOK
<1>2. spaces \in SUBSET Spaces /\ items \in [Spaces -> SUBSET Items]
  BY <1>1 DEF Memory
<1>3. pc = "ready" /\ id \in mem.spaces /\ id # offered /\ ruined' = ruined
      /\ \A x \in mem.spaces : Readable(record[x])
  BY <1>1 DEF MemoryMatches, Remove, MayRemove
<1>4. PICK r \in Members(record, mem.spaces, record[id].home) \ {id} :
         \/ /\ Unpersisted(record, spaces, items, Repointed(id, r))
            /\ UNCHANGED record
         \/ \E gone \in 0 .. 2, f \in [Workspaces -> Spaces], next \in {"ready", "stopped"} :
              /\ MayNormalize(record, spaces, Repointed(id, r))
              /\ Normalized(record, spaces, Repointed(id, r), f)
              /\ manifest' = [ids |-> spaces \cup recovering, active |-> f]
              /\ record' = IF gone >= 1 THEN [record EXCEPT ![id] = None] ELSE record
              /\ browsing' = [x \in Spaces |->
                   IF x = id /\ gone = 2 THEN None
                   ELSE IF x \in Writable(spaces) THEN [home |-> record[x].home, items |-> items[x]]
                   ELSE browsing[x]]
              /\ IF next = "stopped" THEN Stopped ELSE
                   /\ pc' = "ready"
                   /\ mem' = [spaces |-> spaces, items |-> items, active |-> f]
                   /\ recovering' = IF gone = 2 THEN recovering \ {id} ELSE recovering
                   /\ UNCHANGED <<offered, corrupt>>
  BY DEF Remove
<1>5. Repointed(id, r) \in [Workspaces -> Spaces]
  BY <1>1, <1>4 DEF Repointed, Members, Memory
<1>6. r \in spaces /\ \A w \in Workspaces : Belongs(mem.active[w], w)
  BY <1>1, <1>3, <1>4 DEF Members, OneHome
<1>7. \A w \in Workspaces : Repointed(id, r)[w] # id
  BY <1>3, <1>6 DEF Repointed, Belongs
<1>8. ASSUME NEW w \in Workspaces
      PROVE  Belongs(Repointed(id, r)[w], w)
  <2>1. record[r].home = record[id].home /\ r \in Spaces
    BY <1>2, <1>4, <1>6 DEF Members
  <2>2. CASE mem.active[w] = id /\ record[id].home = w
    <3>1. Repointed(id, r)[w] = r /\ Readable(record[r]) /\ record[r].home = w
      BY <1>3, <1>6, <2>1, <2>2 DEF Repointed
    <3> QED BY <1>1, <2>1, <3>1 DEF OneHome, Belongs
  <2>3. CASE ~(mem.active[w] = id /\ record[id].home = w)
    <3>1. Repointed(id, r)[w] = mem.active[w]
      BY <2>3 DEF Repointed
    <3> QED BY <1>6, <3>1
  <2> QED BY <2>2, <2>3
<1>9. CASE Unpersisted(record, spaces, items, Repointed(id, r)) /\ UNCHANGED record
  <2>1. \A x \in Spaces : record'[x] \in {record[x], record[x]}
    BY <1>9
  <2>2. \A x \in spaces : Readable(record[x])
    BY <1>3
  <2> HIDE DEF items, spaces
  <2> QED BY <1>1, <1>2, <1>3, <1>5, <1>9, <2>1, <2>2, UnpersistedFiles
<1>10. ASSUME NEW gone \in 0 .. 2, NEW f \in [Workspaces -> Spaces], NEW next \in {"ready", "stopped"},
              MayNormalize(record, spaces, Repointed(id, r)),
              Normalized(record, spaces, Repointed(id, r), f),
              manifest' = [ids |-> spaces \cup recovering, active |-> f],
              record' = IF gone >= 1 THEN [record EXCEPT ![id] = None] ELSE record,
              browsing' = [x \in Spaces |->
                   IF x = id /\ gone = 2 THEN None
                   ELSE IF x \in Writable(spaces) THEN [home |-> record[x].home, items |-> items[x]]
                   ELSE browsing[x]],
              IF next = "stopped" THEN Stopped ELSE
                   /\ pc' = "ready"
                   /\ mem' = [spaces |-> spaces, items |-> items, active |-> f]
                   /\ recovering' = IF gone = 2 THEN recovering \ {id} ELSE recovering
                   /\ UNCHANGED <<offered, corrupt>>
       PROVE  MemoryMatches' /\ OneHome' /\ Damaged'
  <2>1. /\ \A w \in Workspaces :
             \/ f[w] \in Members(record, spaces, w)
             \/ /\ f[w] = Repointed(id, r)[w] /\ f[w] \in recovering
                /\ Members(record, spaces, w) = {}
        /\ MayNormalize(record, spaces, f)
    BY <1>2, <1>5, <1>10, NormalizedActive
  <2>2. \A x \in spaces : record'[x] = record[x] /\ Readable(record[x]) /\ record[x] \in Record
    BY <1>1, <1>2, <1>3, <1>10, ReadableHas
  <2>3. \A x \in Writable(spaces) : /\ browsing'[x] = [home |-> record[x].home, items |-> items[x]]
                                    /\ Readable(browsing'[x]) /\ browsing'[x].home = record[x].home
    <3>1. SUFFICES ASSUME NEW x \in Writable(spaces)
                   PROVE  /\ browsing'[x] = [home |-> record[x].home, items |-> items[x]]
                          /\ Readable(browsing'[x]) /\ browsing'[x].home = record[x].home
      OBVIOUS
    <3>2. x \in spaces /\ x # id /\ x \in Spaces
      BY <1>2 DEF Writable
    <3>3. browsing'[x] = [home |-> record[x].home, items |-> items[x]]
      BY <1>10, <3>2
    <3>4. record[x].home \in Workspaces /\ items[x] \in SUBSET Items
      BY <1>2, <2>2, <3>2 DEF Record
    <3> QED BY <3>3, <3>4, WrittenReadable
  <2>4. \A x \in Spaces \ Writable(spaces) : browsing'[x] \in {None, browsing[x]}
    BY <1>10
  <2>5. \A x \in Spaces : record'[x] \in {None, record[x]}
    BY <1>1, <1>10
  <2>6. HomesAgree'
    <3>1. SUFFICES ASSUME NEW x \in Spaces, Readable(record'[x]), Readable(browsing'[x])
                   PROVE  browsing'[x].home = record'[x].home
      BY DEF HomesAgree, Readable
    <3>2. record'[x] = record[x]
      BY <2>5, <3>1, NotReadable
    <3>3. CASE x \in Writable(spaces)
      BY <2>3, <3>2, <3>3
    <3>4. CASE x \notin Writable(spaces)
      <4>1. browsing'[x] = browsing[x]
        BY <2>4, <3>1, <3>4, NotReadable
      <4> QED BY <1>1, <3>1, <3>2, <4>1 DEF OneHome
    <3> QED BY <3>3, <3>4
  <2>7. ASSUME NEW x \in Spaces, NEW w \in Workspaces, Belongs(x, w)
        PROVE  Belongs(x, w)'
    <3>1. Readable(record'[x]) => record'[x] = record[x]
      BY <2>5, NotReadable
    <3>2. CASE x \in Writable(spaces)
      BY <2>2, <2>3, <2>7, <3>1, <3>2 DEF Belongs, Readable, Writable
    <3>3. CASE x \notin Writable(spaces)
      <4>1. Readable(browsing'[x]) => browsing'[x] = browsing[x]
        BY <2>4, <3>3, NotReadable
      <4> QED BY <2>7, <3>1, <4>1 DEF Belongs, Readable
    <3> QED BY <3>2, <3>3
  <2>8. ASSUME NEW w \in Workspaces
        PROVE  /\ f[w] \in (spaces \cup recovering) \ {id} /\ f[w] \in Spaces
               /\ Belongs(f[w], w)'
    <3>1. CASE f[w] \in Members(record, spaces, w)
      <4>1. f[w] \in spaces /\ record[f[w]].home = w /\ Readable(record[f[w]]) /\ f[w] \in Spaces
        BY <1>2, <2>2, <3>1 DEF Members
      <4>2. Belongs(f[w], w)
        BY <1>1, <4>1 DEF OneHome, Belongs
      <4> QED BY <2>7, <4>1, <4>2
    <3>2. CASE f[w] = Repointed(id, r)[w] /\ f[w] \in recovering
      BY <1>7, <1>8, <2>7, <3>2
    <3> QED BY <2>1, <3>1, <3>2
  <2>9. Readable(manifest') /\ \A w \in Workspaces : manifest'.active[w] \in manifest'.ids
    <3>1. spaces \cup recovering \in SUBSET Spaces
      BY <1>1, <1>2 DEF TypeOK
    <3> QED BY <1>10, <2>8, <3>1, WrittenReadable
  <2>10. OnlyDamagedQuarantined'
    <3>1. \A x \in manifest'.ids \ ruined' : x \in Writable(spaces) /\ x \in spaces
      BY <1>1, <1>3, <1>10 DEF Damaged, Writable
    <3>2. \A x \in manifest'.ids \ ruined' : Whole(x)'
      BY <2>2, <2>3, <3>1 DEF Whole, Readable
    <3> QED BY <3>2 DEF OnlyDamagedQuarantined
  <2>11. \A w \in Workspaces : Belongs(Default[w], w)' /\ Belongs(manifest.active[w], w)'
    <3>1. \A w \in Workspaces : Belongs(Default[w], w)'
      BY <1>1, <2>7, DefaultAssumption DEF OneHome
    <3>2. \A w \in Workspaces : Belongs(manifest.active[w], w)'
      BY <1>10, <2>8 DEF Belongs
    <3> QED BY <3>1, <3>2
  <2>12. CASE Stopped
    <3>1. MemoryMatches' /\ pc' # "ready" /\ recovering' = {}
      BY <2>12, StoppedMatches
    <3> QED BY <2>6, <2>9, <2>10, <2>11, <3>1 DEF OneHome, HomesAgree, Damaged
  <2>13. CASE /\ pc' = "ready"
              /\ mem' = [spaces |-> spaces, items |-> items, active |-> f]
              /\ recovering' = IF gone = 2 THEN recovering \ {id} ELSE recovering
              /\ UNCHANGED <<offered, corrupt>>
    <3>1. \A w \in Workspaces : Members(record', spaces, w) = Members(record, spaces, w)
      BY <2>2 DEF Members
    <3>2. mem'.spaces = spaces /\ mem'.active = f /\ recovering \ {id} \subseteq recovering'
          /\ recovering' \subseteq recovering
      BY <2>13
    <3>3. MayNormalize(record, mem.spaces, mem.active)'
      BY <2>1, <2>8, <3>1, <3>2 DEF MayNormalize
    <3>4. offered' \in {None} \cup recovering'
      BY <1>1, <1>3, <2>13, <3>2 DEF MemoryMatches
    <3>5. \A x \in mem'.spaces : Readable(record[x])'
      BY <2>2, <3>2 DEF Readable
    <3>6. mem'.spaces \cup recovering' \subseteq manifest'.ids
          /\ \A w \in Workspaces : mem'.active[w] \in mem'.spaces \cup recovering'
      BY <1>10, <2>8, <3>2
    <3>7. MemoryMatches'
      BY <2>9, <2>13, <3>3, <3>4, <3>5, <3>6 DEF MemoryMatches, Readable
    <3>8. \A w \in Workspaces : Belongs(mem.active[w], w)'
      BY <2>8, <3>2 DEF Belongs
    <3>9. recovering' \subseteq ruined'
      BY <1>1, <1>3, <3>2 DEF Damaged
    <3> QED BY <2>6, <2>9, <2>10, <2>11, <3>7, <3>8, <3>9 DEF OneHome, HomesAgree, Damaged
  <2> QED BY <1>10, <2>12, <2>13
<1> QED BY <1>4, <1>9, <1>10

(* The files of a first start.                                             *)
LEMMA DefaultFiles ==
  ASSUME FilesInv, pc = "stopped", manifest = None,
         NEW ids \in [Workspaces -> Spaces], Distinct(ids),
         \A w \in Workspaces : Belongs(ids[w], w),
         \A v, w \in Workspaces : ids[v] = Default[w] => v = w,
         NEW R \in SUBSET Workspaces, NEW B \in SUBSET Workspaces,
         NEW contents \in [Workspaces -> SUBSET Items], DefaultsWritten(ids, R, B, contents),
         \A w \in B : w \in R \/ Readable(record[ids[w]]),
         \/ manifest' = None /\ (Stopped \/ Recovery)
         \/ /\ manifest' = FirstManifest(ids) /\ B = Workspaces
            /\ StartMemory(ids, contents)
  PROVE  MemoryMatches' /\ OneHome' /\ Damaged'
<1>1. TypeOK /\ OneHome
  BY DEF FilesInv
<1>2. /\ \A w \in R : Readable(record'[ids[w]]) /\ record'[ids[w]].home = w
      /\ \A w \in B : Readable(browsing'[ids[w]]) /\ browsing'[ids[w]].home = w
      /\ \A id \in Spaces : (\A w \in R : ids[w] # id) => record'[id] = record[id]
      /\ \A id \in Spaces : (\A w \in B : ids[w] # id) => browsing'[id] = browsing[id]
  BY DEF DefaultsWritten
<1>5. ASSUME NEW w \in Workspaces
      PROVE  /\ Belongs(ids[w], w)'
             /\ w \in B => Whole(ids[w])'
  <2>1. ids[w] \in Spaces /\ Belongs(ids[w], w)
    OBVIOUS
  <2>2. Readable(record'[ids[w]]) => record'[ids[w]].home = w
    <3>1. CASE w \in R
      BY <1>2, <3>1
    <3>2. CASE w \notin R
      <4>1. \A v \in R : ids[v] # ids[w]
        BY <3>2 DEF Distinct
      <4>2. record'[ids[w]] = record[ids[w]]
        BY <1>2, <2>1, <4>1
      <4> QED BY <2>1, <4>2 DEF Belongs
    <3> QED BY <3>1, <3>2
  <2>3. Readable(browsing'[ids[w]]) => browsing'[ids[w]].home = w
    <3>1. CASE w \in B
      BY <1>2, <3>1
    <3>2. CASE w \notin B
      <4>1. \A v \in B : ids[v] # ids[w]
        BY <3>2 DEF Distinct
      <4>2. browsing'[ids[w]] = browsing[ids[w]]
        BY <1>2, <2>1, <4>1
      <4> QED BY <2>1, <4>2 DEF Belongs
    <3> QED BY <3>1, <3>2
  <2>4. ASSUME w \in B PROVE Readable(record'[ids[w]])
    <3>1. CASE w \in R
      BY <1>2, <3>1
    <3>2. CASE w \notin R
      <4>1. \A v \in R : ids[v] # ids[w]
        BY <3>2 DEF Distinct
      <4>2. record'[ids[w]] = record[ids[w]]
        BY <1>2, <2>1, <4>1
      <4> QED BY <2>4, <3>2, <4>2
    <3> QED BY <3>1, <3>2
  <2>5. w \in B => Readable(browsing'[ids[w]])
    BY <1>2
  <2> QED BY <2>2, <2>3, <2>4, <2>5 DEF Belongs, Whole, Readable
<1>6. ASSUME NEW id \in Spaces, \A w \in Workspaces : ids[w] # id
      PROVE  record'[id] = record[id] /\ browsing'[id] = browsing[id]
  BY <1>2, <1>6
<1>7. HomesAgree'
  <2>1. SUFFICES ASSUME NEW id \in Spaces, Readable(record'[id]), Readable(browsing'[id])
                 PROVE  browsing'[id].home = record'[id].home
    BY DEF HomesAgree, Readable
  <2>2. CASE \E w \in Workspaces : ids[w] = id
    BY <1>5, <2>1, <2>2 DEF Belongs, Readable
  <2>3. CASE \A w \in Workspaces : ids[w] # id
    BY <1>1, <1>6, <2>1, <2>3 DEF OneHome
  <2> QED BY <2>2, <2>3
<1>8. ASSUME NEW w \in Workspaces
      PROVE  Belongs(Default[w], w)'
  <2>1. Default[w] \in Spaces /\ Belongs(Default[w], w)
    BY <1>1, DefaultAssumption DEF OneHome
  <2>2. CASE \E v \in Workspaces : ids[v] = Default[w]
    <3>1. ids[w] = Default[w]
      BY <2>2
    <3> QED BY <1>5, <3>1 DEF Belongs
  <2>3. CASE \A v \in Workspaces : ids[v] # Default[w]
    BY <1>6, <2>1, <2>3 DEF Belongs, Readable
  <2> QED BY <2>2, <2>3
<1>9. CASE manifest' = None /\ (Stopped \/ Recovery)
  <2>1. MemoryMatches' /\ pc' # "ready" /\ recovering' = {}
    BY <1>9, StoppedMatches
  <2>2. ~Readable(manifest')
    BY <1>9, NotReadable
  <2> QED BY <1>7, <1>8, <2>1, <2>2 DEF OneHome, HomesAgree, Damaged, OnlyDamagedQuarantined, Readable
<1>10. CASE /\ manifest' = FirstManifest(ids) /\ B = Workspaces
            /\ StartMemory(ids, contents)
  <2>2. /\ pc' = "ready" /\ recovering' = {} /\ offered' = None
        /\ mem'.spaces = {ids[w] : w \in Workspaces} /\ mem'.active = ids
    BY <1>10, Started
  <2>3. manifest' = [ids |-> {ids[w] : w \in Workspaces}, active |-> ids]
    BY <1>10 DEF FirstManifest
  <2>4. Readable(manifest')
    <3>1. {ids[w] : w \in Workspaces} \in SUBSET Spaces
      OBVIOUS
    <3> QED BY <2>3, <3>1, WrittenReadable
  <2>5. \A w \in Workspaces : Readable(record'[ids[w]]) /\ record'[ids[w]].home = w /\ Whole(ids[w])'
    BY <1>5, <1>10 DEF Whole, Belongs, Readable
  <2>6. \A w \in Workspaces : ids[w] \in Members(record', mem'.spaces, w)
    BY <2>2, <2>5 DEF Members
  <2>7. MayNormalize(record, mem.spaces, mem.active)'
    BY <2>6 DEF MayNormalize
  <2>8. MemoryMatches'
    BY <2>2, <2>3, <2>4, <2>5, <2>7 DEF MemoryMatches, Readable
  <2>9. \A w \in Workspaces : Belongs(manifest.active[w], w)' /\ Belongs(mem.active[w], w)'
    BY <1>5, <2>2, <2>3 DEF Belongs
  <2>10. OneHome'
    BY <1>7, <1>8, <2>3, <2>9 DEF OneHome, HomesAgree
  <2>11. Damaged'
    BY <2>2, <2>3, <2>5 DEF Damaged, OnlyDamagedQuarantined
  <2> QED BY <2>8, <2>10, <2>11
<1> QED BY <1>9, <1>10

LEMMA CreateFreshFiles ==
  ASSUME FilesInv, CreateFresh
  PROVE  MemoryMatches' /\ OneHome' /\ Damaged'
<1> DEFINE none == [w \in Workspaces |-> {}]
<1>1. PICK ids \in [Workspaces -> Unused], R \in SUBSET Workspaces, B \in SUBSET Workspaces, last \in BOOLEAN :
        /\ \A v, w \in Workspaces : ids[v] = ids[w] => v = w
        /\ InOrder(R, B, last)
        /\ WriteDefaults(ids, R, B, last, FALSE, none)
        /\ IF last THEN StartMemory(ids, none) ELSE Stopped
  BY DEF CreateFresh
<1>2. ids \in [Workspaces -> Spaces] /\ none \in [Workspaces -> SUBSET Items] /\ Distinct(ids)
  BY <1>1 DEF Unused, Distinct
<1>3. \A w \in Workspaces : record[ids[w]] = None /\ browsing[ids[w]] = None
                            /\ \A v \in Workspaces : Default[v] # ids[w]
  BY DEF Unused
<1>4. \A w \in Workspaces : Belongs(ids[w], w)
  BY <1>3, NotReadable DEF Belongs
<1>5. (\A w \in B : w \in R) /\ (last => B = Workspaces)
  BY <1>1 DEF InOrder
<1>6. pc = "stopped" /\ manifest = None /\ TypeOK
  BY DEF CreateFresh, FilesInv
<1> HIDE DEF none
<1>7. DefaultsWritten(ids, R, B, none)
  <2>1. PICK v1 \in BOOLEAN : WriteDefaults(ids, R, B, last, v1, none)
    BY <1>1, Zenon
  <2> QED BY <1>2, <1>6, <2>1, Defaults
<1>8. \/ manifest' = None /\ (Stopped \/ Recovery)
      \/ /\ manifest' = FirstManifest(ids) /\ B = Workspaces
         /\ StartMemory(ids, none)
  BY <1>1, <1>2, <1>5, <1>6 DEF WriteDefaults
<1>9. \A v, w \in Workspaces : ids[v] = Default[w] => v = w
  BY <1>3
<1> QED BY <1>2, <1>4, <1>5, <1>6, <1>7, <1>8, <1>9, DefaultFiles

LEMMA MigrateFiles ==
  ASSUME FilesInv, Migrate
  PROVE  MemoryMatches' /\ OneHome' /\ Damaged'
<1>1. PICK R \in SUBSET Missing, B \in SUBSET Workspaces, last \in BOOLEAN :
        /\ B # {} => R = Missing /\ \A w \in Workspaces \ Missing : Reusable(w)
        /\ last => B = Workspaces
        /\ WriteDefaults(Default, R, B, last, TRUE, legacy)
        /\ IF last THEN StartMemory(Default, legacy) ELSE Recovery \/ Stopped
  BY DEF Migrate, Journaled
<1>2. legacy \in [Workspaces -> SUBSET Items] /\ Default \in [Workspaces -> Spaces] /\ Distinct(Default)
  BY ReadableHas, DefaultAssumption DEF FilesInv, Migrate, Journaled, Legacy, Distinct
<1>3. R \in SUBSET Workspaces
  BY DEF Missing
<1>4. \A w \in Workspaces : Belongs(Default[w], w)
  BY DEF FilesInv, OneHome
<1>5. \A w \in B : w \in R \/ Readable(record[Default[w]])
  BY <1>1 DEF Reusable
<1>6. pc = "stopped" /\ manifest = None /\ TypeOK
  BY DEF Migrate, Journaled, FilesInv
<1>7. DefaultsWritten(Default, R, B, legacy)
  <2>1. PICK v1 \in BOOLEAN : WriteDefaults(Default, R, B, last, v1, legacy)
    BY <1>1, Zenon
  <2> QED BY <1>2, <1>3, <1>6, <2>1, Defaults
<1>8. \/ manifest' = None /\ (Stopped \/ Recovery)
      \/ /\ manifest' = FirstManifest(Default) /\ B = Workspaces
         /\ StartMemory(Default, legacy)
  BY <1>1, <1>2, <1>6 DEF WriteDefaults
<1>9. \A v, w \in Workspaces : Default[v] = Default[w] => v = w
  BY DefaultAssumption
<1> QED BY <1>2, <1>3, <1>4, <1>5, <1>6, <1>7, <1>8, <1>9, DefaultFiles

LEMMA LoadFiles ==
  ASSUME FilesInv, Load
  PROVE  MemoryMatches' /\ OneHome' /\ Damaged'
<1>1. TypeOK /\ OneHome /\ Damaged /\ Readable(manifest) /\ manifest \in Manifest
  BY ReadableHas DEF FilesInv, Load
<1> DEFINE damaged == {id \in manifest.ids : ~Whole(id)}
<1>2. /\ mem'.spaces = RecordsIn(manifest.ids) /\ mem'.active = manifest.active
      /\ pc' = "ready" /\ recovering' = damaged /\ offered' \in {None} \cup damaged
      /\ UNCHANGED <<disk, ruined>>
  BY DEF Load, Ready
<1>3. HomesAgree' /\ \A id \in Spaces : \A w \in Workspaces : Belongs(id, w) => Belongs(id, w)'
  BY <1>1, <1>2, FilesKept DEF disk, Readable
<1>4. \A w \in Workspaces : /\ manifest.active[w] \in manifest.ids /\ manifest.active[w] \in Spaces
                            /\ Belongs(manifest.active[w], w)
  BY <1>1 DEF OneHome, Manifest
<1>5. \A id \in manifest.ids : id \in RecordsIn(manifest.ids) \/ id \in damaged
  BY DEF RecordsIn, Whole
<1>6. ASSUME NEW w \in Workspaces, manifest.active[w] \notin damaged
      PROVE  manifest.active[w] \in Members(record, RecordsIn(manifest.ids), w)
  BY <1>4, <1>5, <1>6 DEF Members, Belongs, RecordsIn
<1>7. MayNormalize(record, mem.spaces, mem.active)'
  BY <1>2, <1>6 DEF MayNormalize, disk
<1>8. MemoryMatches'
  <2>1. mem'.spaces \cup recovering' \subseteq manifest.ids
    BY <1>2 DEF RecordsIn
  <2>2. \A id \in mem'.spaces : Readable(record[id])
    BY <1>2 DEF RecordsIn
  <2> QED BY <1>1, <1>2, <1>4, <1>5, <1>7, <2>1, <2>2 DEF MemoryMatches, disk, Readable
<1>9. \A w \in Workspaces : /\ Belongs(Default[w], w)' /\ Belongs(manifest.active[w], w)'
                            /\ Belongs(mem.active[w], w)'
  <2>1. \A w \in Workspaces : Belongs(Default[w], w)'
    BY <1>1, <1>3, DefaultAssumption DEF OneHome
  <2>2. \A w \in Workspaces : Belongs(manifest.active[w], w)' /\ Belongs(mem.active[w], w)'
    BY <1>2, <1>3, <1>4 DEF Belongs, disk
  <2> QED BY <2>1, <2>2
<1>10. OneHome'
  BY <1>1, <1>2, <1>3, <1>4, <1>9 DEF OneHome, HomesAgree, disk
<1>11. Damaged'
  BY <1>1, <1>2 DEF Damaged, OnlyDamagedQuarantined, Whole, disk, Readable
<1> QED BY <1>8, <1>10, <1>11

(* The start-ups that end in recovery, and the end of the process.         *)
LEMMA StopFiles ==
  ASSUME FilesInv, MigrationRefused \/ LoadRefused \/ Stop
  PROVE  MemoryMatches' /\ OneHome' /\ Damaged'
<1>1. (Stopped \/ Recovery) /\ UNCHANGED <<disk, history>> /\ OneHome /\ Damaged
  BY DEF MigrationRefused, LoadRefused, Stop, FilesInv
<1>2. MemoryMatches' /\ pc' # "ready" /\ recovering' = {}
  BY <1>1, StoppedMatches
<1>3. OneHome'
  BY <1>1, <1>2 DEF OneHome, Belongs, Readable, disk
<1>4. Damaged'
  BY <1>1, <1>2 DEF Damaged, OnlyDamagedQuarantined, Whole, disk, history, Readable
<1> QED BY <1>2, <1>3, <1>4

LEMMA RecoveryActionFiles ==
  ASSUME FilesInv, FreshStartAll \/ RestoreV1
  PROVE  MemoryMatches' /\ OneHome' /\ Damaged'
<1>1. MemoryMatches /\ OneHome /\ Damaged /\ pc = "recovery"
  BY DEF FilesInv, FreshStartAll, RestoreV1
<1>2. UNCHANGED <<record, browsing, ruined>> /\ manifest' \in {None, manifest}
      /\ (Stopped \/ UNCHANGED <<pc, memory>>)
  BY DEF FreshStartAll, RestoreV1
<1>3. MemoryMatches' /\ pc' # "ready" /\ recovering' = {}
  <2>1. CASE Stopped
    BY <2>1, StoppedMatches
  <2>2. CASE UNCHANGED <<pc, memory>>
    BY <1>1, <2>2 DEF MemoryMatches, memory, NoMemory
  <2> QED BY <1>2, <2>1, <2>2
<1>4. OneHome'
  BY <1>1, <1>2, <1>3, NotReadable DEF OneHome, Belongs, Readable
<1>5. Damaged'
  BY <1>1, <1>2, <1>3, NotReadable DEF Damaged, OnlyDamagedQuarantined, Whole, Readable
<1> QED BY <1>3, <1>4, <1>5

LEMMA DamageFiles ==
  ASSUME FilesInv, Damage
  PROVE  MemoryMatches' /\ OneHome' /\ Damaged'
<1>1. TypeOK /\ MemoryMatches /\ OneHome /\ Damaged /\ pc = "stopped"
  BY DEF FilesInv, Damage
<1>2. UNCHANGED <<pc, memory>> /\ ruined \subseteq ruined' /\ manifest' \in {manifest, Bad}
  BY DEF Damage
<1>3. /\ \A id \in Spaces : record'[id] \in {record[id], Bad} /\ browsing'[id] \in {browsing[id], Bad}
      /\ \A id \in Spaces \ ruined' : record'[id] = record[id] /\ browsing'[id] = browsing[id]
  BY <1>1 DEF Damage, TypeOK
<1>4. MemoryMatches'
  BY <1>1, <1>2 DEF MemoryMatches, memory, NoMemory
<1>5. OneHome'
  <2>1. HomesAgree' /\ \A id \in Spaces : \A w \in Workspaces : Belongs(id, w) => Belongs(id, w)'
    BY <1>1, <1>3, NotReadable, FilesKept DEF Readable
  <2>2. \A w \in Workspaces : Belongs(Default[w], w)'
    BY <1>1, <2>1, DefaultAssumption DEF OneHome
  <2>3. ASSUME Readable(manifest'), NEW w \in Workspaces
        PROVE  manifest'.active[w] \in manifest'.ids /\ Belongs(manifest.active[w], w)'
    <3>1. manifest' = manifest
      BY <1>2, <2>3, NotReadable
    <3>2. manifest.active[w] \in Spaces /\ Belongs(manifest.active[w], w) /\ manifest.active[w] \in manifest.ids
      BY <1>1, <2>3, <3>1, ReadableHas DEF OneHome, Manifest
    <3> QED BY <2>1, <3>1, <3>2 DEF Belongs
  <2> QED BY <1>1, <1>2, <2>1, <2>2, <2>3 DEF OneHome, HomesAgree, Readable
<1>6. Damaged'
  <2>1. recovering' \subseteq ruined'
    BY <1>1, <1>2 DEF Damaged, memory
  <2>2. ASSUME Readable(manifest'), NEW id \in manifest'.ids \ ruined'
        PROVE  Whole(id)'
    <3>1. manifest' = manifest
      BY <1>2, <2>2, NotReadable
    <3>2. id \in Spaces \ ruined' /\ Whole(id)
      BY <1>1, <1>2, <2>2, <3>1, ReadableHas DEF Damaged, OnlyDamagedQuarantined, Manifest
    <3> QED BY <1>3, <3>2 DEF Whole, Readable
  <2> QED BY <2>1, <2>2 DEF Damaged, OnlyDamagedQuarantined, Readable
<1> QED BY <1>4, <1>5, <1>6

LEMMA FreshStartFiles ==
  ASSUME FilesInv, FreshStart
  PROVE  MemoryMatches' /\ OneHome' /\ Damaged'
<1> DEFINE id   == offered
           keep == Readable(record[id])
           new  == [home |-> Owner(id), v1 |-> FALSE]
           empty == [home |-> Owner(id), items |-> {}]
<1>1. TypeOK /\ MemoryMatches /\ OneHome /\ Damaged /\ pc = "ready"
      /\ id \in Spaces /\ id \in recovering /\ CanFreshStart(id) /\ Owner(id) \in Workspaces
  BY OwnerType DEF FilesInv, FreshStart, TypeOK, MemoryMatches
<1>2. PICK steps \in 0 .. 3 :
       /\ keep => steps \in {0, 3}
       /\ record' = CASE keep \/ steps = 0 -> record
                      [] steps = 1 -> [record EXCEPT ![id] = None]
                      [] OTHER -> [record EXCEPT ![id] = new]
       /\ browsing' = IF steps = 3 THEN [browsing EXCEPT ![id] = empty] ELSE browsing
       /\ \/ Stopped
          \/ steps < 3 /\ UNCHANGED <<pc, mem, recovering, offered>>
       /\ ruined' = IF steps = 3 THEN ruined \ {id} ELSE ruined
  BY DEF FreshStart
<1>3. UNCHANGED manifest
  BY DEF FreshStart
<1>4. Readable(new) /\ new.home = Owner(id) /\ Readable(empty) /\ empty.home = Owner(id)
  BY <1>1, WrittenReadable
<1>5. /\ keep => record[id].home = Owner(id)
      /\ Readable(browsing[id]) => browsing[id].home = Owner(id)
  BY <1>1 DEF Owner, OneHome
<1>6. \A w \in Workspaces : Belongs(id, w) => Owner(id) = w
  BY <1>1 DEF CanFreshStart, OwnerKnown, Owner, Belongs
<1>7. record'[id] \in {record[id], None, new} /\ browsing'[id] \in {browsing[id], empty}
  BY <1>1, <1>2 DEF TypeOK
<1>8. \A x \in Spaces \ {id} : record'[x] = record[x] /\ browsing'[x] = browsing[x]
  BY <1>1, <1>2 DEF TypeOK
<1>9. /\ Readable(record'[id]) => record'[id].home = Owner(id)
      /\ Readable(browsing'[id]) => browsing'[id].home = Owner(id)
  BY <1>4, <1>5, <1>7, NotReadable
<1>10. steps = 3 => Readable(record'[id]) /\ Readable(browsing'[id])
  BY <1>1, <1>2, <1>4 DEF TypeOK
<1> HIDE DEF id, keep, new, empty
<1>11. HomesAgree'
  BY <1>1, <1>8, <1>9 DEF HomesAgree, OneHome, Readable
<1>12. ASSUME NEW x \in Spaces, NEW w \in Workspaces, Belongs(x, w)
       PROVE  Belongs(x, w)'
  <2>1. CASE x = id
    <3>1. Owner(id) = w
      BY <1>6, <1>12, <2>1
    <3> QED BY <1>9, <2>1, <3>1 DEF Belongs, Readable
  <2>2. CASE x # id
    BY <1>8, <1>12, <2>2 DEF Belongs, Readable
  <2> QED BY <2>1, <2>2
<1>13. \A w \in Workspaces : Belongs(Default[w], w)'
  BY <1>1, <1>12, DefaultAssumption DEF OneHome
<1>14. Readable(manifest) /\ manifest \in Manifest
  BY <1>1, ReadableHas DEF MemoryMatches
<1>15. \A w \in Workspaces : Belongs(manifest.active[w], w)' /\ manifest'.active[w] \in manifest'.ids
  <2>1. \A w \in Workspaces : /\ manifest.active[w] \in Spaces /\ Belongs(manifest.active[w], w)
                              /\ manifest.active[w] \in manifest.ids
    BY <1>1, <1>14 DEF OneHome, Manifest
  <2> QED BY <1>3, <1>12, <2>1 DEF Belongs
<1>16. OnlyDamagedQuarantined'
  <2>1. SUFFICES ASSUME NEW x \in manifest.ids \ ruined' PROVE Whole(x)'
    BY <1>3 DEF OnlyDamagedQuarantined
  <2>2. CASE x = id
    <3>1. steps = 3
      BY <1>1, <1>2, <2>1, <2>2 DEF Damaged
    <3> QED BY <1>9, <1>10, <2>2, <3>1 DEF Whole, Readable
  <2>3. CASE x # id
    <3>1. Whole(x) /\ x \in Spaces
      BY <1>1, <1>2, <1>14, <2>1, <2>3 DEF Damaged, OnlyDamagedQuarantined, Manifest
    <3> QED BY <1>8, <2>3, <3>1 DEF Whole, Readable
  <2> QED BY <2>2, <2>3
<1>17. CASE Stopped
  <2>1. MemoryMatches' /\ pc' # "ready" /\ recovering' = {}
    BY <1>17, StoppedMatches
  <2> QED BY <1>11, <1>13, <1>15, <1>16, <2>1 DEF OneHome, HomesAgree, Damaged
<1>18. CASE steps < 3 /\ UNCHANGED <<pc, mem, recovering, offered>>
  <2>1. \A x \in mem.spaces : record'[x] = record[x] /\ Readable(record[x])
    <3>1. \A x \in mem.spaces : x \in Spaces /\ Readable(record[x])
      BY <1>1 DEF MemoryMatches, TypeOK, Memory
    <3>2. ASSUME id \in mem.spaces PROVE record'[id] = record[id]
      <4>1. keep
        BY <3>1, <3>2 DEF keep
      <4> QED BY <1>2, <4>1
    <3> QED BY <1>8, <3>1, <3>2
  <2>2. \A w \in Workspaces : Members(record', mem.spaces, w) = Members(record, mem.spaces, w)
    BY <2>1 DEF Members
  <2>3. MayNormalize(record, mem.spaces, mem.active)'
    BY <1>1, <1>18, <2>2 DEF MemoryMatches, MayNormalize
  <2>4. MemoryMatches'
    BY <1>1, <1>3, <1>18, <2>1, <2>3 DEF MemoryMatches, Readable
  <2>5. \A w \in Workspaces : Belongs(mem.active[w], w)'
    <3>1. \A w \in Workspaces : mem.active[w] \in Spaces /\ Belongs(mem.active[w], w)
      BY <1>1 DEF OneHome, TypeOK, Memory
    <3> QED BY <1>12, <1>18, <3>1 DEF Belongs
  <2>6. recovering' \subseteq ruined'
    BY <1>1, <1>2, <1>18 DEF Damaged
  <2> QED BY <1>11, <1>13, <1>15, <1>16, <2>4, <2>5, <2>6 DEF OneHome, HomesAgree, Damaged
<1> QED BY <1>2, <1>17, <1>18

-----------------------------------------------------------------------------
(* The first invariant.                                                    *)

LEMMA FilesInit ==
  ASSUME Init
  PROVE  FilesInv
<1>1. manifest = None /\ pc = "stopped" /\ recovering = {} /\ mem = NoMemory
      /\ \A id \in Spaces : record[id] = None /\ browsing[id] = None
  BY DEF Init
<1>2. LegacyItems \in SUBSET Items
  BY NotReadable DEF Init, LegacyItems, Legacy
<1>3. TypeOK
  <2>1. legacy \in {None, Bad} \cup Legacy /\ journal \in {"none", "bad", "good"} /\ manifest = None
    BY DEF Init
  <2>2. /\ record \in [Spaces -> {None, Bad} \cup Record]
        /\ browsing \in [Spaces -> {None, Bad} \cup Browsing]
    BY DEF Init
  <2>3. mem \in Memory /\ damage \in 0 .. MaxDamage
    BY <1>1, BoundAssumption, DefaultAssumption DEF Init, Memory, NoMemory
  <2>4. /\ backups = {} /\ pc = "stopped" /\ recovering = {} /\ offered = None /\ corrupt = {}
        /\ ruined = {} /\ removed = {} /\ halfFresh = FALSE
        /\ made = LegacyItems /\ saved = LegacyItems
    BY DEF Init
  <2> QED BY <1>2, <2>1, <2>2, <2>3, <2>4 DEF TypeOK
<1>4. MemoryMatches /\ OneHome /\ Damaged
  BY <1>1, NotReadable, DefaultAssumption DEF MemoryMatches, OneHome, Belongs, Damaged, OnlyDamagedQuarantined
<1> QED BY <1>3, <1>4 DEF FilesInv

LEMMA FilesNext ==
  ASSUME FilesInv, Next
  PROVE  FilesInv'
<1>1. TypeOK'
  BY NextType
<1>2. MemoryMatches' /\ OneHome' /\ Damaged'
  BY SaveFiles, ForgetFiles, SwitchFiles, AddFiles, RemoveFiles, CreateFreshFiles, MigrateFiles, LoadFiles,
     StopFiles, FreshStartFiles, RecoveryActionFiles, DamageFiles DEF Next, StartUp, Use
<1> QED BY <1>1, <1>2 DEF FilesInv

LEMMA FilesStutter ==
  ASSUME FilesInv, UNCHANGED vars
  PROVE  FilesInv'
<1>1. TypeOK'
  BY DEF FilesInv, TypeOK, vars
<1>2. MemoryMatches'
  BY DEF FilesInv, MemoryMatches, MayNormalize, Members, vars, Readable
<1>3. OneHome'
  BY DEF FilesInv, OneHome, Belongs, vars, Readable
<1>4. Damaged'
  BY DEF FilesInv, Damaged, OnlyDamagedQuarantined, Whole, vars, Readable
<1> QED BY <1>1, <1>2, <1>3, <1>4 DEF FilesInv

(* What the files and the memory hold always matches; in particular every  *)
(* variable keeps its type.                                                *)
THEOREM FilesMatch == Spec => []FilesInv
<1>1. Init => FilesInv
  BY FilesInit
<1>2. FilesInv /\ [Next]_vars => FilesInv'
  BY FilesNext, FilesStutter
<1> QED BY <1>1, <1>2, PTL DEF Spec

(* Every variable keeps its type, with any number of workspaces, accounts, *)
(* items and damaged files.                                                *)
THEOREM FilesTypeCorrect == Spec => []TypeOK
<1>1. FilesInv => TypeOK
  BY DEF FilesInv
<1> QED BY <1>1, FilesMatch, PTL

(* Wherever a start, a migration, a save, a deletion or a recovery stops,  *)
(* only an account with a damaged file is ever quarantined: the manifest,  *)
(* written last, lists whole accounts.                                     *)
THEOREM QuarantineJustified == Spec => []OnlyDamagedQuarantined
<1>1. FilesInv => OnlyDamagedQuarantined
  BY DEF FilesInv, Damaged
<1> QED BY <1>1, FilesMatch, PTL

(* A readable manifest always starts, and a running browser can always     *)
(* save: the membership checks of initialize() and normalizeRuntimeState() *)
(* never throw on a state the program wrote.                               *)
THEOREM Usable == Spec => []AlwaysUsable
<1>1. FilesInv => AlwaysUsable
  BY DEF FilesInv, AlwaysUsable, Startable, Whole, OneHome, Belongs, MemoryMatches
<1> QED BY <1>1, FilesMatch, PTL

(* The update of an account writes no file of a quarantined one.           *)
LEMMA UpdateLeavesQuarantine ==
  ASSUME NEW recs, NEW spaces, NEW items, NEW active, TypeOK,
         Persisted(recs, spaces, items, active) \/ Unpersisted(recs, spaces, items, active)
  PROVE  \A id \in recovering : browsing'[id] = browsing[id]
<1>1. recovering \in SUBSET Spaces
  BY DEF TypeOK
<1>2. CASE Persisted(recs, spaces, items, active)
  BY <1>1, <1>2 DEF Persisted, PublishBrowsing, Writable
<1>3. CASE Unpersisted(recs, spaces, items, active)
  BY <1>1, <1>3 DEF Unpersisted, PublishBrowsing, Rewritten, Writable
<1> QED BY <1>2, <1>3

(* While an account waits in quarantine, no operation on the others writes *)
(* its browsing file or replaces its record.                               *)
THEOREM QuarantineKept == Spec => QuarantineHolds
<1> DEFINE Held == \A id \in recovering \cap recovering' :
                     /\ browsing'[id] = browsing[id]
                     /\ record'[id] = record[id] \/ id \in removed' \/ id = offered
<1>1. ASSUME FilesInv, Next PROVE Held
  <2>0. TypeOK /\ MemoryMatches /\ recovering \in SUBSET Spaces
    BY <1>1 DEF FilesInv, TypeOK
  <2>1. CASE StartUp \/ FreshStartAll \/ RestoreV1 \/ Damage
    <3>1. pc # "ready"
      BY <2>1 DEF StartUp, CreateFresh, MigrationRefused, Migrate, Journaled, LoadRefused, Load, FreshStartAll, RestoreV1, Damage
    <3> QED BY <2>0, <3>1 DEF MemoryMatches
  <2>2. CASE Stop
    BY <2>2 DEF Stop, Stopped
  <2>3. CASE FreshStart
    <3>1. offered \in Spaces /\ record \in [Spaces -> {None, Bad} \cup Record]
          /\ browsing \in [Spaces -> {None, Bad} \cup Browsing]
      BY <2>0, <2>3 DEF TypeOK, FreshStart
    <3>2. \A x \in Spaces \ {offered} : record'[x] = record[x] /\ browsing'[x] = browsing[x]
      BY <2>3, <3>1 DEF FreshStart
    <3>3. browsing' = browsing \/ Stopped
      BY <2>3 DEF FreshStart
    <3> QED BY <2>0, <3>2, <3>3 DEF Stopped
  <2>4. ASSUME NEW a \in Spaces, NEW i \in Items, Save(a, i) PROVE Held
    <3>1. record' = record
      BY <2>4 DEF Save
    <3>2. \A id \in recovering : browsing'[id] = browsing[id]
      BY <2>0, <2>4, UpdateLeavesQuarantine DEF Save
    <3> QED BY <3>1, <3>2
  <2>5. ASSUME NEW a \in Spaces, Forget(a) PROVE Held
    <3>1. record' = record
      BY <2>5 DEF Forget
    <3>2. \A id \in recovering : browsing'[id] = browsing[id]
      BY <2>0, <2>5, UpdateLeavesQuarantine DEF Forget
    <3> QED BY <3>1, <3>2
  <2>6. ASSUME NEW a \in Spaces, SwitchTo(a) PROVE Held
    <3>1. record' = record
      BY <2>6 DEF SwitchTo
    <3>2. \A id \in recovering : browsing'[id] = browsing[id]
      BY <2>0, <2>6, UpdateLeavesQuarantine DEF SwitchTo
    <3> QED BY <3>1, <3>2
  <2>7. ASSUME NEW x \in Spaces, NEW w \in Workspaces, Add(x, w) PROVE Held
    <3>1. \A id \in Spaces \ {x} : record'[id] = record[id]
      BY <2>0, <2>7 DEF Add, TypeOK
    <3>2. x \notin recovering
      BY <2>7 DEF Add, Unused
    <3>3. \A id \in recovering : browsing'[id] = browsing[id]
      BY <2>0, <2>7, UpdateLeavesQuarantine DEF Add
    <3> QED BY <2>0, <3>1, <3>2, <3>3
  <2>8. ASSUME NEW x \in Spaces, Remove(x) PROVE Held
    <3>1. x \in removed'
      BY <2>8 DEF Remove
    <3> DEFINE spaces == mem.spaces \ {x}
               items  == [mem.items EXCEPT ![x] = {}]
    <3>2. PICK r \in Members(record, mem.spaces, record[x].home) \ {x} :
         \/ /\ Unpersisted(record, spaces, items, Repointed(x, r))
            /\ UNCHANGED record
         \/ \E gone \in 0 .. 2, f \in [Workspaces -> Spaces], next \in {"ready", "stopped"} :
              /\ record' = IF gone >= 1 THEN [record EXCEPT ![x] = None] ELSE record
              /\ browsing' = [y \in Spaces |->
                   IF y = x /\ gone = 2 THEN None
                   ELSE IF y \in Writable(spaces) THEN [home |-> record[y].home, items |-> items[y]]
                   ELSE browsing[y]]
              /\ IF next = "stopped" THEN Stopped ELSE
                   recovering' = IF gone = 2 THEN recovering \ {x} ELSE recovering
      BY <2>8 DEF Remove
    <3> HIDE DEF spaces, items
    <3>3. CASE Unpersisted(record, spaces, items, Repointed(x, r)) /\ UNCHANGED record
      BY <2>0, <3>3, UpdateLeavesQuarantine
    <3>4. ASSUME NEW gone \in 0 .. 2, NEW next \in {"ready", "stopped"},
                 record' = IF gone >= 1 THEN [record EXCEPT ![x] = None] ELSE record,
                 browsing' = [y \in Spaces |->
                   IF y = x /\ gone = 2 THEN None
                   ELSE IF y \in Writable(spaces) THEN [home |-> record[y].home, items |-> items[y]]
                   ELSE browsing[y]],
                 IF next = "stopped" THEN Stopped ELSE
                   recovering' = IF gone = 2 THEN recovering \ {x} ELSE recovering
          PROVE  Held
      <4>1. \A id \in Spaces \ {x} : record'[id] = record[id]
        BY <2>0, <3>4 DEF TypeOK
      <4>2. \A id \in recovering : id \notin Writable(spaces)
        BY DEF Writable
      <4>3. \A id \in recovering : browsing'[id] = browsing[id] \/ (id = x /\ gone = 2)
        BY <2>0, <3>4, <4>2
      <4>4. gone = 2 => x \notin recovering'
        BY <3>4 DEF Stopped
      <4> QED BY <2>0, <3>1, <4>1, <4>3, <4>4
    <3> QED BY <3>2, <3>3, <3>4
  <2> QED BY <1>1, <2>1, <2>2, <2>3, <2>4, <2>5, <2>6, <2>7, <2>8 DEF Next, Use
<1>2. FilesInv /\ [Next]_vars => [Held]_vars
  BY <1>1
<1>3. QuarantineHolds <=> [][Held]_vars
  BY DEF QuarantineHolds
<1> HIDE DEF Held
<1> QED BY <1>2, <1>3, FilesMatch, PTL DEF Spec

-----------------------------------------------------------------------------
(* Nothing that was saved is lost.                                         *)

(* What the browsing files hold.                                           *)
LEMMA BrowsingHolds ==
  /\ \A i : i \in BrowsingItems <=> \E id \in Spaces : i \in ItemsIn(browsing[id])
  /\ ItemsIn(None) = {}
  BY NotReadable DEF BrowsingItems, ItemsIn

(* What publishing the browsing files of the accounts in S leaves in them. *)
LEMMA PublishedItems ==
  ASSUME TypeOK, NEW recs \in [Spaces -> {None, Bad} \cup Record],
         NEW items \in [Spaces -> SUBSET Items],
         NEW S \in SUBSET Spaces, \A id \in S : Readable(recs[id]),
         PublishBrowsing(recs, S, items)
  PROVE  /\ \A id \in S : ItemsIn(browsing'[id]) = items[id]
         /\ \A id \in Spaces \ S : ItemsIn(browsing'[id]) = ItemsIn(browsing[id])
<1>1. /\ \A id \in S : /\ browsing'[id] = [home |-> recs[id].home, items |-> items[id]]
                        /\ Readable(browsing'[id])
      /\ \A id \in Spaces \ S : browsing'[id] = browsing[id]
  BY Published
<1>2. ASSUME NEW id \in S PROVE ItemsIn(browsing'[id]) = items[id]
  <2>1. browsing'[id] = [home |-> recs[id].home, items |-> items[id]] /\ Readable(browsing'[id])
    BY <1>1
  <2>2. browsing'[id].items = items[id]
    BY <2>1
  <2> QED BY <2>1, <2>2 DEF ItemsIn
<1>3. ASSUME NEW id \in Spaces \ S PROVE ItemsIn(browsing'[id]) = ItemsIn(browsing[id])
  BY <1>1 DEF ItemsIn, Readable
<1> QED BY <1>2, <1>3

(* An update that reaches its end.                                         *)
LEMMA PersistedItems ==
  ASSUME FilesInv, ItemsInv, pc = "ready",
         NEW recs \in [Spaces -> {None, Bad} \cup Record], NEW items \in [Spaces -> SUBSET Items],
         NEW spaces \in SUBSET Spaces, NEW active \in [Workspaces -> Spaces],
         \A x \in spaces : Readable(recs[x]),
         Persisted(recs, spaces, items, active),
         \A x \in spaces \ recovering : saved \cap saved' \cap ItemsIn(browsing[x]) \subseteq items[x],
         \A i \in saved' \ saved : \E x \in spaces \ recovering : i \in items[x],
         \A x \in Spaces : items[x] \subseteq made',
         made \subseteq made', saved' \subseteq made', UNCHANGED <<legacy, backups, halfFresh>>
  PROVE  ItemsInv'
<1> DEFINE S == Writable(spaces)
<1>1. TypeOK /\ recovering \in SUBSET Spaces /\ AllMade /\ NothingLost
  BY DEF FilesInv, TypeOK, ItemsInv
<1>2. S = spaces \ recovering /\ S \in SUBSET Spaces /\ \A x \in S : Readable(recs[x])
  BY DEF Writable
<1>3. PICK f \in [Workspaces -> Spaces] :
        /\ manifest' = [ids |-> spaces \cup recovering, active |-> f]
        /\ mem' = [spaces |-> spaces, items |-> items, active |-> f]
  BY DEF Persisted
<1>4. PublishBrowsing(recs, S, items) /\ recovering' = recovering
  BY DEF Persisted
<1> HIDE DEF S
<1>5. /\ \A x \in S : ItemsIn(browsing'[x]) = items[x]
      /\ \A x \in Spaces \ S : ItemsIn(browsing'[x]) = ItemsIn(browsing[x])
  BY <1>1, <1>2, <1>4, PublishedItems
<1>6. LegacyItems' = LegacyItems
  BY DEF LegacyItems, Readable
<1>7. AllMade'
  <2>1. \A x \in Spaces : ItemsIn(browsing'[x]) \subseteq made' /\ mem'.items[x] \subseteq made'
    BY <1>1, <1>3, <1>5 DEF AllMade
  <2> QED BY <1>1, <1>6, <2>1 DEF AllMade, ItemsIn, Readable
<1>8. MemoryCovers'
  <2>1. \A x \in mem'.spaces \ recovering' : ItemsIn(browsing'[x]) = mem'.items[x]
    BY <1>2, <1>3, <1>4, <1>5
  <2> QED BY <2>1 DEF MemoryCovers, ItemsIn, Readable
<1>9. manifest' # None
  BY <1>1, <1>3, WrittenReadable, NotReadable
<1>10. SafeToMigrate'
  BY <1>9 DEF SafeToMigrate
<1>11. NothingLost'
  <2>1. SUFFICES ASSUME ~halfFresh, NEW i \in saved'
                 PROVE  i \in backups \/ i \in LegacyItems \/ \E x \in Spaces : i \in ItemsIn(browsing'[x])
    BY <1>6 DEF NothingLost, BrowsingItems, ItemsIn, Readable
  <2>2. CASE i \notin saved
    BY <1>2, <1>5, <2>1, <2>2
  <2>3. CASE i \in saved
    <3>1. CASE \E x \in Spaces : i \in ItemsIn(browsing[x])
      BY <1>2, <1>5, <2>1, <2>3, <3>1
    <3> QED BY <1>1, <2>1, <2>3, <3>1, BrowsingHolds DEF NothingLost
  <2> QED BY <2>2, <2>3
<1> QED BY <1>7, <1>8, <1>10, <1>11 DEF ItemsInv

(* An update that stops before its last write.                             *)
LEMMA UnpersistedItems ==
  ASSUME FilesInv, ItemsInv, pc = "ready",
         NEW recs \in [Spaces -> {None, Bad} \cup Record], NEW items \in [Spaces -> SUBSET Items],
         NEW spaces \in SUBSET Spaces, NEW active \in [Workspaces -> Spaces],
         \A x \in spaces : Readable(recs[x]),
         Unpersisted(recs, spaces, items, active),
         \A x \in spaces \ recovering : saved' \cap ItemsIn(browsing[x]) \subseteq items[x],
         \A x \in mem.spaces \ recovering : saved' \cap items[x] \subseteq mem.items[x],
         \A x \in Spaces : items[x] \subseteq made',
         made \subseteq made', saved' \subseteq saved, UNCHANGED <<legacy, backups, halfFresh>>
  PROVE  ItemsInv'
<1>1. TypeOK /\ recovering \in SUBSET Spaces /\ AllMade /\ NothingLost /\ MemoryCovers
      /\ Readable(manifest) /\ mem \in Memory
  BY DEF FilesInv, TypeOK, ItemsInv, MemoryMatches
<1>2. PICK S \in SUBSET Writable(spaces) : PublishBrowsing(recs, S, items)
  BY DEF Unpersisted, Rewritten
<1>3. manifest' = manifest /\ (UNCHANGED <<pc, memory>> \/ Stopped)
  BY DEF Unpersisted
<1>4. S \in SUBSET Spaces /\ S \in SUBSET (spaces \ recovering) /\ \A x \in S : Readable(recs[x])
  BY <1>2 DEF Writable
<1>5. /\ \A x \in S : ItemsIn(browsing'[x]) = items[x]
      /\ \A x \in Spaces \ S : ItemsIn(browsing'[x]) = ItemsIn(browsing[x])
  BY <1>1, <1>2, <1>4, PublishedItems
<1>6. LegacyItems' = LegacyItems
  BY DEF LegacyItems, Readable
<1>7. AllMade'
  <2>1. \A x \in Spaces : mem'.items[x] \subseteq made'
    BY <1>1, <1>3 DEF AllMade, Stopped, NoMemory, memory
  <2>2. \A x \in Spaces : ItemsIn(browsing'[x]) \subseteq made'
    BY <1>1, <1>5 DEF AllMade
  <2> QED BY <1>1, <1>6, <2>1, <2>2 DEF AllMade, ItemsIn, Readable
<1>8. MemoryCovers'
  <2>1. CASE Stopped
    BY <2>1 DEF MemoryCovers, Stopped
  <2>2. CASE UNCHANGED <<pc, memory>>
    <3>1. ASSUME NEW x \in mem.spaces \ recovering
          PROVE  saved' \cap ItemsIn(browsing'[x]) \subseteq mem.items[x]
      <4>1. x \in Spaces
        BY <1>1 DEF Memory
      <4>2. CASE x \in S
        BY <1>5, <4>2
      <4>3. CASE x \notin S
        BY <1>1, <1>5, <4>1, <4>3 DEF MemoryCovers
      <4> QED BY <4>2, <4>3
    <3> QED BY <2>2, <3>1 DEF MemoryCovers, memory, ItemsIn, Readable
  <2> QED BY <1>3, <2>1, <2>2
<1>9. SafeToMigrate'
  BY <1>1, <1>3, NotReadable DEF SafeToMigrate
<1>10. NothingLost'
  <2>1. SUFFICES ASSUME ~halfFresh, NEW i \in saved'
                 PROVE  i \in backups \/ i \in LegacyItems \/ \E x \in Spaces : i \in ItemsIn(browsing'[x])
    BY <1>6 DEF NothingLost, BrowsingItems, ItemsIn, Readable
  <2>2. CASE \E x \in Spaces : i \in ItemsIn(browsing[x])
    BY <1>4, <1>5, <2>1, <2>2
  <2> QED BY <1>1, <2>1, <2>2, BrowsingHolds DEF NothingLost
<1> QED BY <1>7, <1>8, <1>9, <1>10 DEF ItemsInv

LEMMA SaveItems ==
  ASSUME FilesInv, ItemsInv, NEW a \in Spaces, NEW i \in Items, Save(a, i)
  PROVE  ItemsInv'
<1> DEFINE items == [mem.items EXCEPT ![a] = @ \cup {i}]
<1>1. TypeOK /\ MemoryMatches /\ AllMade /\ MemoryCovers
      /\ record \in [Spaces -> {None, Bad} \cup Record] /\ mem \in Memory
  BY DEF FilesInv, ItemsInv, TypeOK
<1>2. mem.spaces \in SUBSET Spaces /\ items \in [Spaces -> SUBSET Items] /\ mem.active \in [Workspaces -> Spaces]
  BY <1>1 DEF Memory
<1>3. /\ pc = "ready" /\ a \in mem.spaces /\ i \notin made /\ made' = made \cup {i}
      /\ UNCHANGED <<legacy, backups, halfFresh>>
      /\ \A x \in mem.spaces : Readable(record[x])
  BY <1>1 DEF MemoryMatches, Save
<1>4. \A x \in Spaces : mem.items[x] \subseteq items[x] /\ items[x] \subseteq mem.items[x] \cup {i}
  BY <1>1 DEF Memory
<1>5. \A x \in Spaces : items[x] \subseteq made'
  BY <1>1, <1>3, <1>4 DEF AllMade
<1>6. \A x \in mem.spaces \ recovering : saved \cap ItemsIn(browsing[x]) \subseteq items[x]
  BY <1>1, <1>2, <1>3, <1>4 DEF MemoryCovers
<1>7. i \in items[a] /\ saved \subseteq made
  BY <1>1 DEF Memory, AllMade
<1>8. \/ Persisted(record, mem.spaces, items, mem.active) /\ saved' = IF a \in recovering THEN saved ELSE saved \cup {i}
      \/ Unpersisted(record, mem.spaces, items, mem.active) /\ saved' = saved
  BY DEF Save
<1> HIDE DEF items
<1>9. CASE Persisted(record, mem.spaces, items, mem.active) /\ saved' = IF a \in recovering THEN saved ELSE saved \cup {i}
  <2>1. \A x \in mem.spaces \ recovering : saved \cap saved' \cap ItemsIn(browsing[x]) \subseteq items[x]
    BY <1>6
  <2>2. \A j \in saved' \ saved : \E x \in mem.spaces \ recovering : j \in items[x]
    BY <1>3, <1>7, <1>9
  <2>3. made \subseteq made' /\ saved' \subseteq made'
    BY <1>3, <1>7, <1>9
  <2> QED BY <1>1, <1>2, <1>3, <1>5, <1>9, <2>1, <2>2, <2>3, PersistedItems
<1>10. CASE Unpersisted(record, mem.spaces, items, mem.active) /\ saved' = saved
  <2>1. \A x \in mem.spaces \ recovering : saved' \cap ItemsIn(browsing[x]) \subseteq items[x]
    BY <1>6, <1>10
  <2>2. \A x \in mem.spaces \ recovering : saved' \cap items[x] \subseteq mem.items[x]
    BY <1>2, <1>3, <1>4, <1>7, <1>10
  <2>3. made \subseteq made' /\ saved' \subseteq saved
    BY <1>3, <1>10
  <2> QED BY <1>1, <1>2, <1>3, <1>5, <1>10, <2>1, <2>2, <2>3, UnpersistedItems
<1> QED BY <1>8, <1>9, <1>10

LEMMA ForgetItems ==
  ASSUME FilesInv, ItemsInv, NEW a \in Spaces, Forget(a)
  PROVE  ItemsInv'
<1> DEFINE items == [mem.items EXCEPT ![a] = {}]
<1>1. TypeOK /\ MemoryMatches /\ AllMade /\ MemoryCovers
      /\ record \in [Spaces -> {None, Bad} \cup Record] /\ mem \in Memory
  BY DEF FilesInv, ItemsInv, TypeOK
<1>2. mem.spaces \in SUBSET Spaces /\ items \in [Spaces -> SUBSET Items] /\ mem.active \in [Workspaces -> Spaces]
  BY <1>1 DEF Memory
<1>3. /\ pc = "ready" /\ a \in mem.spaces /\ made' = made /\ saved' = saved \ mem.items[a]
      /\ UNCHANGED <<legacy, backups, halfFresh>>
      /\ \A x \in mem.spaces : Readable(record[x])
  BY <1>1 DEF MemoryMatches, Forget
<1>4. items[a] = {} /\ \A x \in Spaces : x # a => items[x] = mem.items[x]
  BY <1>1 DEF Memory
<1>5. \A x \in Spaces : items[x] \subseteq mem.items[x] /\ items[x] \subseteq made'
  BY <1>1, <1>3, <1>4 DEF AllMade
<1>6. \A x \in mem.spaces \ recovering : saved' \cap ItemsIn(browsing[x]) \subseteq items[x]
  BY <1>1, <1>2, <1>3, <1>4 DEF MemoryCovers
<1>7. saved' \subseteq saved /\ made \subseteq made' /\ saved' \subseteq made'
  BY <1>1, <1>3 DEF AllMade
<1>8. \/ Persisted(record, mem.spaces, items, mem.active)
      \/ Unpersisted(record, mem.spaces, items, mem.active)
  BY DEF Forget
<1> HIDE DEF items
<1>9. CASE Persisted(record, mem.spaces, items, mem.active)
  <2>1. \A x \in mem.spaces \ recovering : saved \cap saved' \cap ItemsIn(browsing[x]) \subseteq items[x]
    BY <1>6
  <2>2. \A j \in saved' \ saved : \E x \in mem.spaces \ recovering : j \in items[x]
    BY <1>7
  <2> QED BY <1>1, <1>2, <1>3, <1>5, <1>7, <1>9, <2>1, <2>2, PersistedItems
<1>10. CASE Unpersisted(record, mem.spaces, items, mem.active)
  <2>1. \A x \in mem.spaces \ recovering : saved' \cap items[x] \subseteq mem.items[x]
    BY <1>2, <1>5
  <2> QED BY <1>1, <1>2, <1>3, <1>5, <1>6, <1>7, <1>10, <2>1, UnpersistedItems
<1> QED BY <1>8, <1>9, <1>10

LEMMA SwitchItems ==
  ASSUME FilesInv, ItemsInv, NEW a \in Spaces, SwitchTo(a)
  PROVE  ItemsInv'
<1> DEFINE active == [mem.active EXCEPT ![record[a].home] = a]
<1>1. TypeOK /\ MemoryMatches /\ AllMade /\ MemoryCovers
      /\ record \in [Spaces -> {None, Bad} \cup Record] /\ mem \in Memory
  BY DEF FilesInv, ItemsInv, TypeOK
<1>2. mem.spaces \in SUBSET Spaces /\ mem.items \in [Spaces -> SUBSET Items] /\ active \in [Workspaces -> Spaces]
  BY <1>1 DEF Memory
<1>3. /\ pc = "ready" /\ made' = made /\ saved' = saved
      /\ UNCHANGED <<legacy, backups, halfFresh>>
      /\ \A x \in mem.spaces : Readable(record[x])
  BY <1>1 DEF MemoryMatches, SwitchTo, history
<1>4. \A x \in Spaces : mem.items[x] \subseteq made'
  BY <1>1, <1>3 DEF AllMade
<1>5. \A x \in mem.spaces \ recovering : saved \cap ItemsIn(browsing[x]) \subseteq mem.items[x]
  BY <1>1, <1>3 DEF MemoryCovers
<1>6. made \subseteq made' /\ saved' \subseteq made' /\ saved' \subseteq saved
  BY <1>1, <1>3 DEF AllMade
<1>7. \/ Persisted(record, mem.spaces, mem.items, active)
      \/ Unpersisted(record, mem.spaces, mem.items, active)
  BY DEF SwitchTo
<1> HIDE DEF active
<1>8. CASE Persisted(record, mem.spaces, mem.items, active)
  <2>1. \A x \in mem.spaces \ recovering : saved \cap saved' \cap ItemsIn(browsing[x]) \subseteq mem.items[x]
    BY <1>5
  <2>2. \A j \in saved' \ saved : \E x \in mem.spaces \ recovering : j \in mem.items[x]
    BY <1>3
  <2> QED BY <1>1, <1>2, <1>3, <1>4, <1>6, <1>8, <2>1, <2>2, PersistedItems
<1>9. CASE Unpersisted(record, mem.spaces, mem.items, active)
  <2>1. \A x \in mem.spaces \ recovering : saved' \cap ItemsIn(browsing[x]) \subseteq mem.items[x]
    BY <1>3, <1>5
  <2>2. \A x \in mem.spaces \ recovering : saved' \cap mem.items[x] \subseteq mem.items[x]
    OBVIOUS
  <2> QED BY <1>1, <1>2, <1>3, <1>4, <1>6, <1>9, <2>1, <2>2, UnpersistedItems
<1> QED BY <1>7, <1>8, <1>9

LEMMA AddItems ==
  ASSUME FilesInv, ItemsInv, NEW id \in Spaces, NEW w \in Workspaces, Add(id, w)
  PROVE  ItemsInv'
<1> DEFINE active == [mem.active EXCEPT ![w] = id]
           spaces == mem.spaces \cup {id}
           new    == [record EXCEPT ![id] = [home |-> w, v1 |-> FALSE]]
<1>1. TypeOK /\ MemoryMatches /\ AllMade /\ MemoryCovers
      /\ record \in [Spaces -> {None, Bad} \cup Record] /\ mem \in Memory
  BY DEF FilesInv, ItemsInv, TypeOK
<1>2. /\ spaces \in SUBSET Spaces /\ mem.items \in [Spaces -> SUBSET Items]
      /\ active \in [Workspaces -> Spaces] /\ new \in [Spaces -> {None, Bad} \cup Record]
  BY <1>1 DEF Memory, Record
<1>3. /\ pc = "ready" /\ made' = made /\ saved' = saved /\ browsing[id] = None /\ id \notin mem.spaces
      /\ UNCHANGED <<legacy, backups, halfFresh>>
  BY DEF Add, Unused, history
<1>4. \A x \in spaces : Readable(new[x])
  <2>1. new[id] = [home |-> w, v1 |-> FALSE]
    BY <1>1
  <2>2. Readable(new[id])
    BY <2>1, WrittenReadable
  <2>3. \A x \in mem.spaces : Readable(record[x])
    BY <1>1, <1>3 DEF MemoryMatches
  <2>4. \A x \in mem.spaces \ {id} : new[x] = record[x]
    BY <1>1 DEF Memory
  <2> QED BY <2>2, <2>3, <2>4
<1>5. \A x \in Spaces : mem.items[x] \subseteq made'
  BY <1>1, <1>3 DEF AllMade
<1>6. \A x \in spaces \ recovering : saved \cap ItemsIn(browsing[x]) \subseteq mem.items[x]
  BY <1>1, <1>3, BrowsingHolds DEF MemoryCovers
<1>7. made \subseteq made' /\ saved' \subseteq made' /\ saved' \subseteq saved
  BY <1>1, <1>3 DEF AllMade
<1>8. \/ Persisted(new, spaces, mem.items, active)
      \/ Unpersisted(new, spaces, mem.items, active)
  BY DEF Add
<1> HIDE DEF active, spaces, new
<1>9. CASE Persisted(new, spaces, mem.items, active)
  <2>1. \A x \in spaces \ recovering : saved \cap saved' \cap ItemsIn(browsing[x]) \subseteq mem.items[x]
    BY <1>6
  <2>2. \A j \in saved' \ saved : \E x \in spaces \ recovering : j \in mem.items[x]
    BY <1>3
  <2> QED BY <1>1, <1>2, <1>3, <1>4, <1>5, <1>7, <1>9, <2>1, <2>2, PersistedItems
<1>10. CASE Unpersisted(new, spaces, mem.items, active)
  <2>1. \A x \in spaces \ recovering : saved' \cap ItemsIn(browsing[x]) \subseteq mem.items[x]
    BY <1>3, <1>6
  <2>2. \A x \in mem.spaces \ recovering : saved' \cap mem.items[x] \subseteq mem.items[x]
    OBVIOUS
  <2> QED BY <1>1, <1>2, <1>3, <1>4, <1>5, <1>7, <1>10, <2>1, <2>2, UnpersistedItems
<1> QED BY <1>8, <1>9, <1>10

(* Operations that write no browsing file and keep the version-1 file.     *)
LEMMA BrowsingKept ==
  ASSUME ItemsInv, UNCHANGED <<legacy, browsing, made, halfFresh>>,
         saved' \subseteq saved, backups \subseteq backups',
         \A x \in Spaces : mem'.items[x] \subseteq made
  PROVE  AllMade' /\ NothingLost'
<1>1. AllMade /\ NothingLost
  BY DEF ItemsInv
<1>2. LegacyItems' = LegacyItems /\ BrowsingItems' = BrowsingItems
  BY DEF LegacyItems, BrowsingItems, ItemsIn, Readable
<1>3. AllMade'
  BY <1>1, <1>2 DEF AllMade, ItemsIn, Readable
<1>4. NothingLost'
  BY <1>1, <1>2 DEF NothingLost
<1> QED BY <1>3, <1>4

LEMMA RemoveItems ==
  ASSUME FilesInv, ItemsInv, NEW id \in Spaces, Remove(id)
  PROVE  ItemsInv'
<1> DEFINE spaces == mem.spaces \ {id}
           items  == [mem.items EXCEPT ![id] = {}]
<1>1. TypeOK /\ MemoryMatches /\ AllMade /\ MemoryCovers /\ NothingLost /\ recovering \in SUBSET Spaces
      /\ record \in [Spaces -> {None, Bad} \cup Record] /\ mem \in Memory
  BY DEF FilesInv, ItemsInv, TypeOK
<1>2. spaces \in SUBSET Spaces /\ items \in [Spaces -> SUBSET Items]
  BY <1>1 DEF Memory
<1>3. /\ pc = "ready" /\ id \in mem.spaces /\ made' = made
      /\ saved' = saved \ (mem.items[id] \cup ItemsIn(browsing[id]))
      /\ UNCHANGED <<legacy, backups, halfFresh>>
      /\ \A x \in mem.spaces : Readable(record[x])
  BY <1>1 DEF MemoryMatches, Remove, MayRemove
<1>4. PICK r \in Members(record, mem.spaces, record[id].home) \ {id} :
         \/ /\ Unpersisted(record, spaces, items, Repointed(id, r))
            /\ UNCHANGED record
         \/ \E gone \in 0 .. 2, f \in [Workspaces -> Spaces], next \in {"ready", "stopped"} :
              /\ manifest' = [ids |-> spaces \cup recovering, active |-> f]
              /\ browsing' = [x \in Spaces |->
                   IF x = id /\ gone = 2 THEN None
                   ELSE IF x \in Writable(spaces) THEN [home |-> record[x].home, items |-> items[x]]
                   ELSE browsing[x]]
              /\ IF next = "stopped" THEN Stopped ELSE
                   /\ pc' = "ready"
                   /\ mem' = [spaces |-> spaces, items |-> items, active |-> f]
                   /\ recovering' = IF gone = 2 THEN recovering \ {id} ELSE recovering
  BY DEF Remove
<1>5. Repointed(id, r) \in [Workspaces -> Spaces]
  BY <1>1, <1>4 DEF Repointed, Members, Memory
<1>6. items[id] = {} /\ \A x \in Spaces : x # id => items[x] = mem.items[x]
  BY <1>1 DEF Memory
<1>7. \A x \in Spaces : items[x] \subseteq mem.items[x] /\ items[x] \subseteq made'
  BY <1>1, <1>3, <1>6 DEF AllMade
<1>8. /\ \A x \in spaces \ recovering : saved' \cap ItemsIn(browsing[x]) \subseteq items[x]
      /\ saved' \cap ItemsIn(browsing[id]) = {}
  BY <1>1, <1>2, <1>3, <1>6 DEF MemoryCovers
<1>9. saved' \subseteq saved /\ made \subseteq made' /\ saved' \subseteq made'
  BY <1>1, <1>3 DEF AllMade
<1>10. CASE Unpersisted(record, spaces, items, Repointed(id, r)) /\ UNCHANGED record
  <2>1. \A x \in mem.spaces \ recovering : saved' \cap items[x] \subseteq mem.items[x]
    BY <1>1, <1>7 DEF Memory
  <2>2. \A x \in spaces : Readable(record[x])
    BY <1>3
  <2> HIDE DEF items, spaces
  <2> QED BY <1>1, <1>2, <1>3, <1>5, <1>7, <1>8, <1>9, <1>10, <2>1, <2>2, UnpersistedItems
<1>11. ASSUME NEW gone \in 0 .. 2, NEW f \in [Workspaces -> Spaces], NEW next \in {"ready", "stopped"},
              manifest' = [ids |-> spaces \cup recovering, active |-> f],
              browsing' = [x \in Spaces |->
                   IF x = id /\ gone = 2 THEN None
                   ELSE IF x \in Writable(spaces) THEN [home |-> record[x].home, items |-> items[x]]
                   ELSE browsing[x]],
              IF next = "stopped" THEN Stopped ELSE
                   /\ pc' = "ready"
                   /\ mem' = [spaces |-> spaces, items |-> items, active |-> f]
                   /\ recovering' = IF gone = 2 THEN recovering \ {id} ELSE recovering
       PROVE  ItemsInv'
  <2>1. ASSUME NEW x \in spaces \ recovering
        PROVE  ItemsIn(browsing'[x]) = items[x]
    <3>1. x \in Writable(spaces) /\ x # id /\ x \in Spaces
      BY <1>2 DEF Writable
    <3>2. browsing'[x] = [home |-> record[x].home, items |-> items[x]]
      BY <1>11, <3>1
    <3>3. record[x] \in Record /\ items[x] \in SUBSET Items
      BY <1>1, <1>2, <1>3, <3>1, ReadableHas
    <3>4. Readable(browsing'[x]) /\ browsing'[x].items = items[x]
      BY <3>2, <3>3, WrittenReadable DEF Record
    <3> QED BY <3>4 DEF ItemsIn
  <2>2. ASSUME NEW x \in Spaces, x \notin spaces \ recovering
        PROVE  browsing'[x] = browsing[x] \/ (x = id /\ browsing'[x] = None)
    BY <1>11, <2>2 DEF Writable
  <2>3. ASSUME NEW x \in Spaces, x \notin spaces \ recovering
        PROVE  ItemsIn(browsing'[x]) = ItemsIn(browsing[x]) \/ (x = id /\ ItemsIn(browsing'[x]) = {})
    BY <2>2, <2>3, BrowsingHolds
  <2>4. LegacyItems' = LegacyItems
    BY <1>3 DEF LegacyItems, Readable
  <2>5. AllMade'
    <3>1. \A x \in Spaces : mem'.items[x] \subseteq made'
      <4>1. mem' = NoMemory \/ mem' = [spaces |-> spaces, items |-> items, active |-> f]
        BY <1>11 DEF Stopped
      <4>2. CASE mem' = NoMemory
        BY <4>2 DEF NoMemory
      <4>3. CASE mem' = [spaces |-> spaces, items |-> items, active |-> f]
        BY <1>7, <4>3
      <4> QED BY <4>1, <4>2, <4>3
    <3>2. \A x \in Spaces : ItemsIn(browsing'[x]) \subseteq made'
      BY <1>1, <1>3, <1>7, <2>1, <2>3 DEF AllMade
    <3> QED BY <1>1, <1>3, <1>9, <2>4, <3>1, <3>2 DEF AllMade, ItemsIn, Readable
  <2>6. MemoryCovers'
    <3>1. CASE Stopped
      BY <3>1 DEF Stopped, MemoryCovers
    <3>2. CASE /\ mem' = [spaces |-> spaces, items |-> items, active |-> f]
               /\ recovering' = IF gone = 2 THEN recovering \ {id} ELSE recovering
      <4>1. \A x \in mem'.spaces \ recovering' : x \in spaces \ recovering /\ mem'.items[x] = items[x]
        BY <3>2
      <4>2. \A x \in mem'.spaces \ recovering' : saved' \cap ItemsIn(browsing'[x]) \subseteq mem'.items[x]
        BY <2>1, <4>1
      <4> QED BY <4>2 DEF MemoryCovers, ItemsIn, Readable
    <3> QED BY <1>11, <3>1, <3>2
  <2>7. SafeToMigrate'
    <3>1. spaces \cup recovering \in SUBSET Spaces
      BY <1>1, <1>2
    <3>2. manifest' # None
      BY <1>11, <3>1, WrittenReadable, NotReadable
    <3> QED BY <3>2 DEF SafeToMigrate
  <2>8. NothingLost'
    <3>1. SUFFICES ASSUME ~halfFresh, NEW i \in saved'
                   PROVE  i \in backups \/ i \in LegacyItems \/ \E x \in Spaces : i \in ItemsIn(browsing'[x])
      BY <1>3, <2>4 DEF NothingLost, BrowsingItems, ItemsIn, Readable
    <3>2. CASE \E x \in Spaces : i \in ItemsIn(browsing[x])
      <4>1. PICK x \in Spaces : i \in ItemsIn(browsing[x])
        BY <3>2
      <4>2. x # id
        BY <1>8, <3>1, <4>1
      <4>3. CASE x \in spaces \ recovering
        BY <1>8, <2>1, <3>1, <4>1, <4>3
      <4>4. CASE x \notin spaces \ recovering
        BY <2>3, <4>1, <4>2, <4>4
      <4> QED BY <4>3, <4>4
    <3> QED BY <1>1, <1>9, <3>1, <3>2, BrowsingHolds DEF NothingLost
  <2> QED BY <2>5, <2>6, <2>7, <2>8 DEF ItemsInv
<1> QED BY <1>4, <1>10, <1>11

(* A first start overwrites no browsing file but those it may.             *)
LEMMA CreateFreshItems ==
  ASSUME FilesInv, ItemsInv, CreateFresh
  PROVE  ItemsInv'
<1> DEFINE none == [w \in Workspaces |-> {}]
<1>1. PICK ids \in [Workspaces -> Unused], R \in SUBSET Workspaces, B \in SUBSET Workspaces, last \in BOOLEAN :
        /\ \A v, w \in Workspaces : ids[v] = ids[w] => v = w
        /\ WriteDefaults(ids, R, B, last, FALSE, none)
        /\ IF last THEN StartMemory(ids, none) ELSE Stopped
  BY DEF CreateFresh
<1>2. ids \in [Workspaces -> Spaces] /\ none \in [Workspaces -> SUBSET Items] /\ Distinct(ids) /\ TypeOK
  BY <1>1 DEF Unused, Distinct, FilesInv
<1>3. legacy = None /\ UNCHANGED <<legacy, backups, made, saved, halfFresh>>
  BY DEF CreateFresh
<1>4. \A w \in Workspaces : browsing[ids[w]] = None /\ none[w] = {}
  BY DEF Unused
<1> HIDE DEF none
<1>5. DefaultsWritten(ids, R, B, none)
  <2>1. PICK v1 \in BOOLEAN : WriteDefaults(ids, R, B, last, v1, none)
    BY <1>1, Zenon
  <2> QED BY <1>2, <2>1, Defaults
<1>6. ASSUME NEW x \in Spaces PROVE ItemsIn(browsing'[x]) = ItemsIn(browsing[x])
  <2>1. CASE \A w \in B : ids[w] # x
    BY <1>5, <2>1 DEF DefaultsWritten
  <2>2. CASE \E w \in B : ids[w] = x
    <3>1. PICK w \in B : ids[w] = x
      BY <2>2
    <3>2. ItemsIn(browsing'[x]) = {}
      BY <1>4, <1>5, <3>1 DEF DefaultsWritten, ItemsIn
    <3>3. ItemsIn(browsing[x]) = {}
      BY <1>4, <3>1, BrowsingHolds
    <3> QED BY <3>2, <3>3
  <2> QED BY <2>1, <2>2
<1>7. \A x \in Spaces : mem'.items[x] = {}
  <2>1. CASE last
    <3>1. /\ \A w \in Workspaces : mem'.items[ids[w]] = none[w]
          /\ \A id \in Spaces : (\A w \in Workspaces : ids[w] # id) => mem'.items[id] = {}
      BY <1>1, <1>2, <2>1, Started
    <3> QED BY <1>4, <3>1
  <2>2. CASE ~last
    BY <1>1, <2>2 DEF Stopped, NoMemory
  <2> QED BY <2>1, <2>2
<1>8. AllMade /\ NothingLost
  BY DEF ItemsInv
<1>9. LegacyItems' = LegacyItems
  BY <1>3 DEF LegacyItems, Readable
<1>10. AllMade'
  BY <1>3, <1>6, <1>7, <1>8, <1>9 DEF AllMade, ItemsIn, Readable
<1>11. MemoryCovers'
  <2>1. CASE last
    <3>1. mem'.spaces = {ids[w] : w \in Workspaces}
      BY <1>1, <1>2, <2>1, Started
    <3>2. \A x \in mem'.spaces : ItemsIn(browsing'[x]) = {}
      BY <1>2, <1>4, <1>6, <3>1, BrowsingHolds
    <3> QED BY <3>2 DEF MemoryCovers, ItemsIn, Readable
  <2>2. CASE ~last
    BY <1>1, <2>2 DEF Stopped, MemoryCovers
  <2> QED BY <2>1, <2>2
<1>12. SafeToMigrate'
  BY <1>3, NotReadable DEF SafeToMigrate, Readable
<1>13. NothingLost'
  <2>1. SUFFICES ASSUME ~halfFresh, NEW i \in saved
                 PROVE  i \in backups \/ i \in LegacyItems \/ \E x \in Spaces : i \in ItemsIn(browsing'[x])
    BY <1>3, <1>9 DEF NothingLost, BrowsingItems, ItemsIn, Readable
  <2> QED BY <1>6, <1>8, <2>1, BrowsingHolds DEF NothingLost
<1> QED BY <1>10, <1>11, <1>12, <1>13 DEF ItemsInv

LEMMA MigrateItems ==
  ASSUME FilesInv, ItemsInv, Migrate
  PROVE  ItemsInv'
<1>1. PICK R \in SUBSET Missing, B \in SUBSET Workspaces, last \in BOOLEAN :
        /\ last => B = Workspaces
        /\ WriteDefaults(Default, R, B, last, TRUE, legacy)
        /\ IF last THEN StartMemory(Default, legacy) ELSE Recovery \/ Stopped
  BY DEF Migrate, Journaled
<1>2. legacy \in [Workspaces -> SUBSET Items] /\ Default \in [Workspaces -> Spaces] /\ Distinct(Default)
      /\ TypeOK /\ Readable(legacy) /\ R \in SUBSET Workspaces /\ manifest = None
  BY ReadableHas, DefaultAssumption DEF FilesInv, Migrate, Journaled, Legacy, Distinct, Missing
<1>3. UNCHANGED <<legacy, made, saved, halfFresh>> /\ backups \subseteq backups'
  BY DEF Migrate, Journaled
<1>4. DefaultsWritten(Default, R, B, legacy)
  <2>1. PICK v1 \in BOOLEAN : WriteDefaults(Default, R, B, last, v1, legacy)
    BY <1>1, Zenon
  <2> QED BY <1>2, <2>1, Defaults
<1>5. AllMade /\ SafeToMigrate
  BY DEF ItemsInv
<1>6. LegacyItems' = LegacyItems /\ LegacyItems = UNION {legacy[w] : w \in Workspaces}
  BY <1>2, <1>3 DEF LegacyItems, Readable
<1>7. \A w \in Workspaces : legacy[w] \subseteq made
  BY <1>5, <1>6 DEF AllMade
<1>8. /\ \A w \in B : ItemsIn(browsing'[Default[w]]) = legacy[w]
      /\ \A x \in Spaces : (\A w \in B : Default[w] # x) => ItemsIn(browsing'[x]) = ItemsIn(browsing[x])
  BY <1>4 DEF DefaultsWritten, ItemsIn
<1>9. \A x \in Spaces : ItemsIn(browsing'[x]) \subseteq made
  BY <1>5, <1>7, <1>8 DEF AllMade
<1>10. /\ \A x \in Spaces : mem'.items[x] \subseteq made
       /\ pc' = "ready" => \A x \in mem'.spaces : ItemsIn(browsing'[x]) = mem'.items[x]
  <2>1. CASE last
    <3>1. /\ \A w \in Workspaces : mem'.items[Default[w]] = legacy[w]
          /\ \A id \in Spaces : (\A w \in Workspaces : Default[w] # id) => mem'.items[id] = {}
          /\ mem'.spaces = {Default[w] : w \in Workspaces}
      BY <1>1, <1>2, <2>1, Started
    <3>2. \A x \in Spaces : mem'.items[x] \subseteq made
      BY <1>7, <3>1
    <3>3. \A x \in mem'.spaces : ItemsIn(browsing'[x]) = mem'.items[x]
      BY <1>1, <1>8, <2>1, <3>1
    <3> QED BY <3>2, <3>3
  <2>2. CASE ~last
    BY <1>1, <2>2 DEF Stopped, Recovery, NoMemory
  <2> QED BY <2>1, <2>2
<1>11. AllMade'
  BY <1>3, <1>5, <1>6, <1>9, <1>10 DEF AllMade, ItemsIn, Readable
<1>12. MemoryCovers'
  BY <1>10 DEF MemoryCovers, ItemsIn, Readable
<1>13. ~halfFresh => saved \subseteq backups' \cup LegacyItems
  BY <1>2, <1>3, <1>5 DEF SafeToMigrate
<1>14. SafeToMigrate' /\ NothingLost'
  BY <1>3, <1>6, <1>13 DEF SafeToMigrate, NothingLost
<1> QED BY <1>11, <1>12, <1>14 DEF ItemsInv

LEMMA LoadItems ==
  ASSUME FilesInv, ItemsInv, Load
  PROVE  ItemsInv'
<1> DEFINE damaged == {id \in manifest.ids : ~Whole(id)}
           items == [id \in Spaces |-> IF id \in manifest.ids \ damaged THEN browsing[id].items ELSE {}]
<1>1. Readable(manifest) /\ manifest \in Manifest /\ AllMade
  BY ReadableHas DEF FilesInv, ItemsInv, Load
<1>2. /\ mem' = [spaces |-> RecordsIn(manifest.ids), items |-> items, active |-> manifest.active]
      /\ recovering' = damaged
      /\ UNCHANGED <<disk, made, saved, halfFresh>>
  BY DEF Load, Ready
<1>3. \A id \in manifest.ids \ damaged : id \in Spaces /\ items[id] = ItemsIn(browsing[id])
  BY <1>1 DEF Whole, ItemsIn, Manifest
<1>4. \A x \in Spaces : items[x] \subseteq made
  BY <1>1, <1>3 DEF AllMade
<1> HIDE DEF items, damaged
<1>5. mem'.items = items /\ mem'.spaces \subseteq manifest.ids
  BY <1>2 DEF RecordsIn
<1>6. AllMade' /\ NothingLost'
  BY <1>2, <1>4, <1>5, BrowsingKept DEF disk
<1>7. \A a \in mem'.spaces \ recovering' : ItemsIn(browsing[a]) = mem'.items[a]
  BY <1>2, <1>3, <1>5
<1>8. MemoryCovers'
  BY <1>2, <1>7 DEF MemoryCovers, disk, ItemsIn, Readable
<1>9. SafeToMigrate'
  BY <1>1, <1>2, NotReadable DEF SafeToMigrate, disk
<1> QED BY <1>6, <1>8, <1>9 DEF ItemsInv

LEMMA StopItems ==
  ASSUME FilesInv, ItemsInv, MigrationRefused \/ LoadRefused \/ Stop
  PROVE  ItemsInv'
<1>1. (Stopped \/ Recovery) /\ UNCHANGED <<disk, history>> /\ SafeToMigrate
  BY DEF MigrationRefused, LoadRefused, Stop, ItemsInv
<1>2. mem' = NoMemory /\ pc' # "ready"
  BY <1>1 DEF Stopped, Recovery
<1>3. AllMade' /\ NothingLost'
  BY <1>1, <1>2, BrowsingKept DEF disk, history, NoMemory
<1>4. SafeToMigrate' /\ MemoryCovers'
  BY <1>1, <1>2 DEF SafeToMigrate, MemoryCovers, disk, history, LegacyItems, Readable
<1> QED BY <1>3, <1>4 DEF ItemsInv

LEMMA FreshStartItems ==
  ASSUME FilesInv, ItemsInv, FreshStart
  PROVE  ItemsInv'
<1> DEFINE empty == [home |-> Owner(offered), items |-> {}]
<1>1. TypeOK /\ MemoryMatches /\ AllMade /\ NothingLost /\ MemoryCovers
      /\ pc = "ready" /\ offered \in Spaces /\ offered \in recovering /\ Owner(offered) \in Workspaces
  BY OwnerType DEF FilesInv, ItemsInv, FreshStart, TypeOK, MemoryMatches
<1>2. PICK steps \in 0 .. 3 :
       /\ browsing' = IF steps = 3 THEN [browsing EXCEPT ![offered] = empty] ELSE browsing
       /\ \/ Stopped
          \/ steps < 3 /\ UNCHANGED <<pc, mem, recovering, offered>>
  BY DEF FreshStart
<1>3. UNCHANGED <<legacy, manifest, made, saved, halfFresh>> /\ backups' = backups \cup ItemsIn(browsing[offered])
  BY DEF FreshStart, Preserved
<1>4. Readable(empty) /\ empty.items = {}
  BY <1>1, WrittenReadable
<1> HIDE DEF empty
<1>5. \A x \in Spaces \ {offered} : browsing'[x] = browsing[x]
  BY <1>1, <1>2 DEF TypeOK
<1>6. ItemsIn(browsing'[offered]) \subseteq ItemsIn(browsing[offered])
  <2>1. browsing'[offered] \in {browsing[offered], empty}
    BY <1>1, <1>2 DEF TypeOK
  <2>2. ItemsIn(empty) = {}
    BY <1>4 DEF ItemsIn
  <2> QED BY <2>1, <2>2
<1>7. \A x \in Spaces : ItemsIn(browsing'[x]) \subseteq ItemsIn(browsing[x])
  BY <1>5, <1>6
<1>8. LegacyItems' = LegacyItems
  BY <1>3 DEF LegacyItems, Readable
<1>9. mem' \in {mem, NoMemory}
  BY <1>2 DEF Stopped
<1>10. AllMade'
  BY <1>1, <1>3, <1>7, <1>8, <1>9 DEF AllMade, ItemsIn, Readable, NoMemory
<1>11. MemoryCovers'
  <2>1. CASE Stopped
    BY <2>1 DEF Stopped, MemoryCovers
  <2>2. CASE UNCHANGED <<pc, mem, recovering, offered>>
    <3>1. mem.spaces \in SUBSET Spaces
      BY <1>1 DEF TypeOK, Memory
    <3>2. \A a \in mem.spaces \ recovering : saved' \cap ItemsIn(browsing'[a]) \subseteq mem.items[a]
      BY <1>1, <1>3, <1>7, <3>1 DEF MemoryCovers
    <3> QED BY <2>2, <3>2 DEF MemoryCovers, ItemsIn, Readable
  <2> QED BY <1>2, <2>1, <2>2
<1>12. SafeToMigrate'
  BY <1>1, <1>3, NotReadable DEF SafeToMigrate, MemoryMatches
<1>13. NothingLost'
  <2>1. SUFFICES ASSUME ~halfFresh, NEW i \in saved
                 PROVE  i \in backups' \/ i \in LegacyItems \/ \E x \in Spaces : i \in ItemsIn(browsing'[x])
    BY <1>3, <1>8 DEF NothingLost, BrowsingItems, ItemsIn, Readable
  <2>2. CASE \E x \in Spaces : i \in ItemsIn(browsing[x])
    BY <1>3, <1>5, <2>2
  <2> QED BY <1>1, <1>3, <2>1, <2>2, BrowsingHolds DEF NothingLost
<1> QED BY <1>10, <1>11, <1>12, <1>13 DEF ItemsInv

LEMMA FreshStartAllItems ==
  ASSUME FilesInv, ItemsInv, FreshStartAll
  PROVE  ItemsInv'
<1>1. AllMade /\ NothingLost /\ SafeToMigrate /\ pc = "recovery"
  BY DEF ItemsInv, FreshStartAll
<1>2. PICK steps \in 0 .. 3 :
       /\ manifest' = IF steps >= 1 THEN None ELSE manifest
       /\ legacy' = IF steps >= 2 THEN None ELSE legacy
       /\ backups' = IF steps >= 2 THEN backups \cup LegacyItems ELSE backups
       /\ halfFresh' = (halfFresh \/ (steps = 1 /\ manifest # None /\ legacy # None))
       /\ Stopped \/ UNCHANGED <<pc, memory>>
  BY DEF FreshStartAll, Preserved
<1>3. UNCHANGED <<browsing, made, saved>>
  BY DEF FreshStartAll
<1>4. BrowsingItems' = BrowsingItems
  BY <1>3 DEF BrowsingItems, ItemsIn, Readable
<1>5. /\ LegacyItems' \subseteq LegacyItems
      /\ LegacyItems \subseteq LegacyItems' \cup backups'
      /\ backups \subseteq backups'
  BY <1>2, NotReadable DEF LegacyItems, Readable
<1>6. AllMade'
  <2>1. mem' = mem \/ mem' = NoMemory
    BY <1>2 DEF Stopped, memory
  <2> QED BY <1>1, <1>3, <1>5, <2>1 DEF AllMade, NoMemory, ItemsIn, Readable
<1>7. MemoryCovers'
  BY <1>1, <1>2 DEF MemoryCovers, Stopped
<1>8. ~halfFresh' => ~halfFresh
  BY <1>2
<1>9. NothingLost'
  BY <1>1, <1>3, <1>4, <1>5, <1>8 DEF NothingLost
<1>10. SafeToMigrate'
  <2>1. SUFFICES ASSUME ~halfFresh', manifest' = None, Readable(legacy)'
                 PROVE  saved' \subseteq backups' \cup LegacyItems'
    BY DEF SafeToMigrate
  <2>2. legacy' = legacy /\ backups' = backups /\ Readable(legacy) /\ legacy # None
    BY <1>2, <2>1, NotReadable DEF Readable
  <2>3. manifest = None
    <3>1. CASE steps = 1
      BY <1>2, <2>1, <2>2, <3>1
    <3>2. CASE steps # 1
      <4>1. steps = 0
        BY <1>2, <2>1, <3>2, NotReadable DEF Readable
      <4> QED BY <1>2, <2>1, <4>1
    <3> QED BY <3>1, <3>2
  <2> QED BY <1>1, <1>3, <1>5, <1>8, <2>1, <2>2, <2>3 DEF SafeToMigrate
<1> QED BY <1>6, <1>7, <1>9, <1>10 DEF ItemsInv

LEMMA RestoreItems ==
  ASSUME FilesInv, ItemsInv, RestoreV1
  PROVE  ItemsInv'
<1>1. NothingLost /\ backups' = backups \cup BrowsingItems
      /\ Stopped /\ UNCHANGED <<legacy, browsing, made, saved, halfFresh>>
  BY DEF ItemsInv, RestoreV1, Preserved
<1>2. AllMade' /\ NothingLost'
  BY <1>1, BrowsingKept DEF Stopped, NoMemory
<1>3. MemoryCovers'
  BY <1>1 DEF MemoryCovers, Stopped
<1>4. LegacyItems' = LegacyItems
  BY <1>1 DEF LegacyItems, Readable
<1>5. SafeToMigrate'
  BY <1>1, <1>4 DEF SafeToMigrate, NothingLost
<1> QED BY <1>2, <1>3, <1>5 DEF ItemsInv

LEMMA DamageItems ==
  ASSUME FilesInv, ItemsInv, Damage
  PROVE  ItemsInv'
<1>1. TypeOK /\ AllMade /\ SafeToMigrate /\ pc = "stopped"
  BY DEF FilesInv, ItemsInv, Damage
<1>2. /\ UNCHANGED <<backups, pc, memory, made, halfFresh>>
      /\ saved' = saved \cap (backups \cup LegacyItems' \cup BrowsingItems')
      /\ manifest' \in {manifest, Bad} /\ legacy' \in {legacy, Bad}
  BY DEF Damage
<1>3. \A id \in Spaces : browsing'[id] \in {browsing[id], Bad}
  BY <1>1 DEF Damage, TypeOK
<1>4. \A id \in Spaces : ItemsIn(browsing'[id]) \subseteq ItemsIn(browsing[id])
  BY <1>3, NotReadable DEF ItemsIn
<1>5. LegacyItems' \subseteq LegacyItems
  BY <1>2, NotReadable DEF LegacyItems, Readable
<1>6. AllMade'
  BY <1>1, <1>2, <1>4, <1>5 DEF AllMade, memory, ItemsIn, Readable
<1>7. MemoryCovers'
  BY <1>1, <1>2 DEF MemoryCovers
<1>8. NothingLost'
  BY <1>2 DEF NothingLost
<1>9. SafeToMigrate'
  <2>1. SUFFICES ASSUME ~halfFresh, manifest' = None, Readable(legacy)'
                 PROVE  saved' \subseteq backups' \cup LegacyItems'
    BY <1>2 DEF SafeToMigrate
  <2>2. manifest = None /\ legacy' = legacy /\ Readable(legacy)
    BY <1>2, <2>1, FileAssumption, NotReadable DEF Readable
  <2>3. LegacyItems' = LegacyItems
    BY <2>2 DEF LegacyItems, Readable
  <2> QED BY <1>1, <1>2, <2>1, <2>2, <2>3 DEF SafeToMigrate
<1> QED BY <1>6, <1>7, <1>8, <1>9 DEF ItemsInv

LEMMA ItemsInit ==
  ASSUME Init
  PROVE  ItemsInv
<1>1. made = LegacyItems /\ saved = LegacyItems /\ pc = "stopped" /\ mem = NoMemory
      /\ \A id \in Spaces : browsing[id] = None
  BY DEF Init
<1>2. \A id \in Spaces : ItemsIn(browsing[id]) = {} /\ mem.items[id] = {}
  BY <1>1, BrowsingHolds DEF NoMemory
<1> QED BY <1>1, <1>2 DEF ItemsInv, AllMade, MemoryCovers, SafeToMigrate, NothingLost

LEMMA ItemsNext ==
  ASSUME FilesInv, ItemsInv, Next
  PROVE  ItemsInv'
  BY SaveItems, ForgetItems, SwitchItems, AddItems, RemoveItems, CreateFreshItems, MigrateItems, LoadItems,
     StopItems, FreshStartItems, FreshStartAllItems, RestoreItems, DamageItems DEF Next, StartUp, Use

LEMMA ItemsStutter ==
  ASSUME ItemsInv, UNCHANGED vars
  PROVE  ItemsInv'
<1>1. UNCHANGED <<legacy, manifest, browsing, backups, pc, mem, recovering, made, saved, halfFresh>>
  BY DEF vars
<1>2. LegacyItems' = LegacyItems /\ BrowsingItems' = BrowsingItems
  BY <1>1 DEF LegacyItems, BrowsingItems, ItemsIn, Readable
<1> QED BY <1>1, <1>2 DEF ItemsInv, AllMade, MemoryCovers, SafeToMigrate, NothingLost, ItemsIn, Readable

(* Nothing that was saved and not deleted is lost, wherever a start, a     *)
(* migration, a save, a deletion or a recovery stops, unless a fresh start *)
(* of the whole browser stopped after its first deletion.                  *)
THEOREM SavedIsKept == Spec => []NothingLost
<1>1. Init => ItemsInv
  BY ItemsInit
<1>2. FilesInv /\ ItemsInv /\ [Next]_vars => ItemsInv'
  BY ItemsNext, ItemsStutter
<1>3. ItemsInv => NothingLost
  BY DEF ItemsInv
<1> QED BY <1>1, <1>2, <1>3, FilesMatch, PTL DEF Spec
-----------------------------------------------------------------------------
(***************************************************************************)
(* Vault envelopes and the Windows Hello record (VaultEnvelope).           *)
(***************************************************************************)

(* What an envelope or a session holds is no newer than it is labelled.    *)
Labelled(x) == x.format <= x.schema

(* An envelope of a vault there has been, with the data key of that vault. *)
Sealed(e, keyOf) ==
  /\ IsEnvelope(e) /\ e.vault \in known
  /\ e.wrapped.content = keyOf[e.vault]
  /\ Labelled(e.payload.content)

(* A vault has one data key, whoever holds it.                             *)
OneKey(keyOf) ==
  /\ \A e \in {local, agreed} \ {None} : Sealed(e, keyOf)
  /\ Sealed(cloud, keyOf)
  /\ opened # None => /\ Sealed(local, keyOf) /\ Labelled(opened.payload)
                      /\ opened.vault \in known /\ opened.key = keyOf[opened.vault]
  /\ hello # None => hello.vault \in known /\ hello.data = keyOf[hello.vault]
  /\ enrolling # None => enrolling.vault \in known /\ enrolling.data = keyOf[enrolling.vault]
  /\ gesture # None => Sealed(gesture.envelope, keyOf)

EnvelopeInv == EnvelopeTypeOK /\ \E keyOf \in [Vaults -> DataKeys] : OneKey(keyOf)

LEMMA EnvelopeFacts ==
  ASSUME NEW e, IsEnvelope(e)
  PROVE  /\ e.vault \in Vaults /\ e.payload.content \in Payload
         /\ e.payload.key = e.wrapped.content /\ e.payload.aad = payloadAad(e.vault)
         /\ e.wrapped.content \in DataKeys
  BY DEF IsEnvelope, Envelope, Box, DataKeys

LEMMA PayloadFacts ==
  ASSUME NEW x \in Payload
  PROVE  /\ x.schema \in Nat /\ x.format \in Nat /\ x.schema <= NewestBuild
         /\ x.schema \in Schemas /\ x.format \in Schemas
         /\ \A build \in Schemas :
              /\ parsePayload(build, x) \in Payload
              /\ Understood(build, x) /\ Labelled(x) => Labelled(parsePayload(build, x))
<1>1. /\ x.schema \in Nat /\ x.format \in Nat /\ x.schema <= NewestBuild
      /\ x.schema \in Schemas /\ x.format \in Schemas
  BY EnvelopeAssumption DEF Payload, Schemas
<1>2. ASSUME NEW build \in Schemas
      PROVE  /\ parsePayload(build, x) \in Payload
             /\ Understood(build, x) /\ Labelled(x) => Labelled(parsePayload(build, x))
  <2>1. build \in Nat
    BY <1>2, EnvelopeAssumption DEF Schemas
  <2>2. parsePayload(build, x) = [schema |-> build, format |-> x.format]
    BY DEF parsePayload, Payload
  <2> QED BY <2>1, <2>2, <1>1 DEF Payload, Understood, Labelled
<1> QED BY <1>1, <1>2

LEMMA NewEnvelope ==
  ASSUME NEW v \in Vaults, NEW p \in Passwords, NEW s \in Draws, NEW key \in DataKeys,
         NEW x \in Payload
  PROVE  /\ IsEnvelope(Envelope(v, p, s, key, x))
         /\ Envelope(v, p, s, key, x).vault = v
         /\ Envelope(v, p, s, key, x).wrapped.content = key
         /\ Envelope(v, p, s, key, x).payload.content = x
  BY DEF IsEnvelope, Envelope, Box, DataKeys

LEMMA WrittenAgain ==
  ASSUME NEW e, IsEnvelope(e), NEW x \in Payload
  PROVE  LET f == Reencrypted(e, e.wrapped.content, x) IN
         /\ IsEnvelope(f) /\ f.vault = e.vault /\ f.wrapped.content = e.wrapped.content
         /\ f.payload.content = x
<1>1. PICK v \in Vaults, p \in Passwords, s \in Draws, n \in Draws :
        e = Envelope(v, p, s, DataKey(n), e.payload.content)
  BY DEF IsEnvelope
<1>2. Reencrypted(e, e.wrapped.content, x) = Envelope(v, p, s, DataKey(n), x)
  BY <1>1 DEF Reencrypted, Envelope, Box
<1>3. e.vault = v /\ e.wrapped.content = DataKey(n)
  BY <1>1 DEF Envelope, Box
<1>4. DataKey(n) \in DataKeys
  BY DEF DataKeys
<1> QED BY <1>2, <1>3, <1>4, NewEnvelope

LEMMA EnvelopeInvHolds == EnvelopeInit => EnvelopeInv
<1> SUFFICES ASSUME EnvelopeInit PROVE EnvelopeInv
  OBVIOUS
<1>1. PICK v \in Vaults, p \in Passwords, s \in 1..ThisBuild :
        cloud = Envelope(v, p, 1, DataKey(1), NewPayload(s))
  BY DEF EnvelopeInit
<1>2. 1 \in Draws /\ NewPayload(s) \in Payload /\ Labelled(NewPayload(s))
  BY EnvelopeAssumption DEF Draws, NewPayload, Payload, Schemas, Labelled
<1>3. DataKey(1) \in DataKeys
  BY <1>2 DEF DataKeys
<1>4. /\ IsEnvelope(cloud) /\ cloud.vault = v /\ cloud.wrapped.content = DataKey(1)
      /\ cloud.payload.content = NewPayload(s)
  BY <1>1, <1>2, <1>3, NewEnvelope
<1>5. EnvelopeTypeOK
  BY <1>4, EnvelopeAssumption DEF EnvelopeInit, EnvelopeTypeOK
<1> DEFINE keyOf == [u \in Vaults |-> DataKey(1)]
<1>6. OneKey(keyOf) /\ keyOf \in [Vaults -> DataKeys]
  BY <1>2, <1>3, <1>4 DEF EnvelopeInit, OneKey, Sealed
<1> QED BY <1>5, <1>6 DEF EnvelopeInv

(* The copy in the cloud is written by another device.                     *)
LEMMA OtherWritesKeeps ==
  ASSUME EnvelopeTypeOK, NEW keyOf \in [Vaults -> DataKeys], OneKey(keyOf),
         NEW e, OtherWrites(e), known \subseteq known', known' \subseteq Vaults,
         random' \in 0..MaxRandom,
         NEW k \in [Vaults -> DataKeys], \A v \in known : k[v] = keyOf[v],
         Sealed(e, k)'
  PROVE  EnvelopeInv'
<1>1. /\ cloud' = e /\ local' = local /\ agreed' = agreed /\ opened' = opened
      /\ hello' = hello /\ container' = container /\ enrolling' = enrolling
      /\ gesture' = gesture /\ removing' = removing
  BY DEF OtherWrites, helloVars
<1>2. IsEnvelope(e)
  BY DEF Sealed
<1>3. EnvelopeTypeOK'
  BY <1>1, <1>2 DEF EnvelopeTypeOK
<1>4. \A f : Sealed(f, keyOf) => Sealed(f, k)'
  BY DEF Sealed
<1>5. OneKey(k)'
  <2>1. \A f \in {local', agreed'} \ {None} : Sealed(f, k)'
    BY <1>1, <1>4 DEF OneKey
  <2>2. Sealed(cloud, k)'
    BY <1>1 DEF Sealed
  <2>3. opened' # None => /\ Sealed(local, k)' /\ Labelled(opened.payload)'
                          /\ opened'.vault \in known' /\ opened'.key = k[opened'.vault]
    <3> SUFFICES ASSUME opened # None
                 PROVE  /\ Sealed(local, k)' /\ Labelled(opened.payload)'
                        /\ opened'.vault \in known' /\ opened'.key = k[opened'.vault]
      BY <1>1
    <3>1. Sealed(local, keyOf)
      BY DEF OneKey
    <3>2. Sealed(local, k)'
      BY <1>1, <3>1 DEF Sealed
    <3> QED BY <1>1, <3>2 DEF OneKey, Labelled
  <2>4. hello' # None => hello'.vault \in known' /\ hello'.data = k[hello'.vault]
    BY <1>1 DEF OneKey
  <2>5. enrolling' # None => enrolling'.vault \in known' /\ enrolling'.data = k[enrolling'.vault]
    BY <1>1 DEF OneKey
  <2>8. gesture' # None => Sealed(gesture.envelope, k)'
    <3>1. gesture # None => Sealed(gesture.envelope, keyOf)
      BY DEF OneKey
    <3>2. gesture # None => Sealed(gesture.envelope, k)'
      BY <1>1, <3>1 DEF Sealed
    <3> QED BY <1>1, <3>2
  <2>6. \A f \in {local, agreed} \ {None} : Sealed(f, k)'
    BY <1>4 DEF OneKey
  <2>7. (\A f \in {local, agreed} \ {None} : Sealed(f, k))'
    BY <2>6, <1>1 DEF Sealed
  <2> QED BY <2>2, <2>3, <2>4, <2>5, <2>7, <2>8 DEF OneKey
<1> QED BY <1>3, <1>5 DEF EnvelopeInv

LEMMA CreateKeeps ==
  ASSUME EnvelopeInv, NEW v \in Vaults, NEW p \in Passwords, CreateVault(v, p)
  PROVE  EnvelopeInv'
<1> PICK keyOf \in [Vaults -> DataKeys] : OneKey(keyOf)
  BY DEF EnvelopeInv
<1>1. random + 1 \in Draws /\ random + 1 \in 0..MaxRandom /\ v \notin known /\ known \subseteq Vaults
  BY EnvelopeAssumption DEF EnvelopeInv, EnvelopeTypeOK, CreateVault, Draws
<1>2. PICK n \in Draws : n = random + 1
  BY <1>1
<1>3. DataKey(n) \in DataKeys /\ NewPayload(ThisBuild) \in Payload /\ Labelled(NewPayload(ThisBuild))
  BY EnvelopeAssumption DEF DataKeys, NewPayload, Payload, Schemas, Labelled
<1>4. PICK e : e = Envelope(v, p, n, DataKey(n), NewPayload(ThisBuild))
  OBVIOUS
<1>5. /\ IsEnvelope(e) /\ e.vault = v /\ e.wrapped.content = DataKey(n)
      /\ e.payload.content = NewPayload(ThisBuild)
  BY <1>3, <1>4, NewEnvelope
<1>6. PICK k \in [Vaults -> DataKeys] : k = [keyOf EXCEPT ![v] = DataKey(n)]
  BY <1>3
<1>7. k[v] = DataKey(n) /\ \A u \in known : k[u] = keyOf[u]
  BY <1>1, <1>6
<1>8. OtherWrites(e) /\ known' = known \cup {v} /\ random' = random + 1
  BY <1>2, <1>4 DEF CreateVault
<1>9. Sealed(e, k)'
  BY <1>3, <1>5, <1>7, <1>8 DEF Sealed
<1> QED BY <1>1, <1>7, <1>8, <1>9, OtherWritesKeeps DEF EnvelopeInv

LEMMA BuildIsSchema ==
  ASSUME NEW build \in ThisBuild..NewestBuild
  PROVE  build \in Schemas
  BY EnvelopeAssumption DEF Schemas

LEMMA OtherSavesKeeps ==
  ASSUME EnvelopeInv, NEW build \in ThisBuild..NewestBuild, OtherSaves(build)
  PROVE  EnvelopeInv'
<1> PICK keyOf \in [Vaults -> DataKeys] : OneKey(keyOf)
  BY DEF EnvelopeInv
<1>1. Sealed(cloud, keyOf)
  BY DEF OneKey
<1>2. PICK x \in Payload : x = [schema |-> build, format |-> build] /\ Labelled(x)
  <2>1. build \in Schemas /\ build <= build
    BY BuildIsSchema, EnvelopeAssumption
  <2>2. [schema |-> build, format |-> build] \in Payload
    BY <2>1 DEF Payload
  <2>3. Labelled([schema |-> build, format |-> build])
    BY <2>1 DEF Labelled
  <2> QED BY <2>2, <2>3
<1>3. PICK e : e = Reencrypted(cloud, cloud.wrapped.content, x)
  OBVIOUS
<1>4. /\ IsEnvelope(e) /\ e.vault = cloud.vault /\ e.wrapped.content = cloud.wrapped.content
      /\ e.payload.content = x
  BY <1>1, <1>3, WrittenAgain DEF Sealed
<1>5. OtherWrites(e) /\ known' = known /\ random' = random
  BY <1>2, <1>3 DEF OtherSaves, draws
<1>6. Sealed(e, keyOf)'
  BY <1>1, <1>2, <1>4, <1>5 DEF Sealed
<1> QED BY <1>5, <1>6, OtherWritesKeeps DEF EnvelopeInv, EnvelopeTypeOK

LEMMA ChangeKeeps ==
  ASSUME EnvelopeInv, NEW build \in ThisBuild..NewestBuild, NEW p \in Passwords,
         ChangeMasterPassword(build, p)
  PROVE  EnvelopeInv'
<1> PICK keyOf \in [Vaults -> DataKeys] : OneKey(keyOf)
  BY DEF EnvelopeInv
<1>1. Sealed(cloud, keyOf)
  BY DEF OneKey
<1>2. random + 1 \in Draws /\ random + 1 \in 0..MaxRandom
  BY EnvelopeAssumption DEF EnvelopeInv, EnvelopeTypeOK, ChangeMasterPassword, Draws
<1>3. PICK n \in Draws : n = random + 1
  BY <1>2
<1>4. PICK x \in Payload : x = parsePayload(build, cloud.payload.content) /\ Labelled(x)
  <2>1. cloud.payload.content \in Payload /\ Labelled(cloud.payload.content)
    BY <1>1, EnvelopeFacts DEF Sealed
  <2>2. Understood(build, cloud.payload.content)
    BY DEF ChangeMasterPassword
  <2> QED BY <2>1, <2>2, PayloadFacts, BuildIsSchema
<1>5. PICK e : e = Envelope(cloud.vault, p, n, cloud.wrapped.content, x)
  OBVIOUS
<1>6. /\ IsEnvelope(e) /\ e.vault = cloud.vault /\ e.wrapped.content = cloud.wrapped.content
      /\ e.payload.content = x
  <2>1. cloud.vault \in Vaults /\ cloud.wrapped.content \in DataKeys
    BY <1>1, EnvelopeFacts DEF Sealed
  <2> QED BY <1>5, <2>1, NewEnvelope
<1>7. OtherWrites(e) /\ known' = known /\ random' = random + 1
  BY <1>3, <1>4, <1>5 DEF ChangeMasterPassword, PasswordChanged, KeyKept
<1>8. Sealed(e, keyOf)'
  BY <1>1, <1>4, <1>6, <1>7 DEF Sealed
<1> QED BY <1>2, <1>7, <1>8, OtherWritesKeeps DEF EnvelopeInv, EnvelopeTypeOK

(* This device writes: its copies, its session and its record.             *)
LEMMA DeviceKeeps ==
  ASSUME EnvelopeTypeOK, NEW keyOf \in [Vaults -> DataKeys], OneKey(keyOf),
         known' = known, random' = random,
         Sealed(cloud, keyOf)',
         local' # None => Sealed(local, keyOf)',
         agreed' # None => Sealed(agreed, keyOf)',
         opened' # None => /\ Sealed(local, keyOf)' /\ opened' \in Session
                           /\ Labelled(opened'.payload)
                           /\ opened'.vault \in known /\ opened'.key = keyOf[opened'.vault],
         hello' \in {hello, None},
         UNCHANGED <<container, enrolling, removing>>,
         gesture' = gesture \/ gesture' = None
  PROVE  EnvelopeInv'
<1>1. EnvelopeTypeOK'
  <2>1. \A e \in {local', cloud', agreed'} \ {None} : IsEnvelope(e)
    BY DEF Sealed
  <2>2. opened' \in Session \cup {None} /\ hello' \in HelloRecord \cup {None}
    BY DEF EnvelopeTypeOK
  <2>3. gesture' # None => gesture'.record \in HelloRecord /\ IsEnvelope(gesture'.envelope)
    BY DEF EnvelopeTypeOK
  <2> QED BY <2>1, <2>2, <2>3 DEF EnvelopeTypeOK
<1>2. OneKey(keyOf)'
  <2>1. (\A f \in {local, agreed} \ {None} : Sealed(f, keyOf))'
    BY DEF Sealed
  <2>2. hello' # None => hello'.vault \in known' /\ hello'.data = keyOf[hello'.vault]
    BY DEF OneKey
  <2>3. enrolling' # None => enrolling'.vault \in known' /\ enrolling'.data = keyOf[enrolling'.vault]
    BY DEF OneKey
  <2>4. opened' # None => /\ Sealed(local, keyOf)' /\ Labelled(opened.payload)'
                          /\ opened'.vault \in known' /\ opened'.key = keyOf[opened'.vault]
    BY DEF Labelled
  <2>5. gesture' # None => Sealed(gesture.envelope, keyOf)'
    <3>1. gesture # None => Sealed(gesture.envelope, keyOf)
      BY DEF OneKey
    <3> QED BY <3>1 DEF Sealed
  <2> QED BY <2>1, <2>2, <2>3, <2>4, <2>5 DEF OneKey
<1> QED BY <1>1, <1>2 DEF EnvelopeInv

(* Windows Hello: the copies and the session stay.                         *)
LEMMA HelloKeeps ==
  ASSUME EnvelopeTypeOK, NEW keyOf \in [Vaults -> DataKeys], OneKey(keyOf),
         UNCHANGED copies, known' = known, random' \in 0..MaxRandom,
         container' \in [Vaults -> 0..MaxRandom], removing' \in Vaults \cup {None},
         enrolling' # None =>
           /\ enrolling' \in [vault : Vaults, data : DataKeys, key : 0..MaxRandom]
           /\ enrolling'.vault \in known /\ enrolling'.data = keyOf[enrolling'.vault],
         gesture' # None => gesture'.record \in HelloRecord /\ Sealed(gesture'.envelope, keyOf),
         hello' # None =>
           hello' \in HelloRecord /\ hello'.vault \in known /\ hello'.data = keyOf[hello'.vault]
  PROVE  EnvelopeInv'
<1>1. local' = local /\ cloud' = cloud /\ agreed' = agreed /\ opened' = opened
  BY DEF copies
<1>2. EnvelopeTypeOK'
  <2>1. gesture' # None => gesture'.record \in HelloRecord /\ IsEnvelope(gesture'.envelope)
    BY DEF Sealed
  <2> QED BY <1>1, <2>1 DEF EnvelopeTypeOK
<1>3. OneKey(keyOf)'
  <2>1. (\A f \in {local, agreed} \ {None} : Sealed(f, keyOf))'
    BY <1>1 DEF OneKey, Sealed
  <2>2. Sealed(cloud, keyOf)'
    BY <1>1 DEF OneKey, Sealed
  <2>3. opened' # None => /\ Sealed(local, keyOf)' /\ Labelled(opened.payload)'
                          /\ opened'.vault \in known' /\ opened'.key = keyOf[opened'.vault]
    BY <1>1 DEF OneKey, Sealed, Labelled
  <2>4. gesture' # None => Sealed(gesture.envelope, keyOf)'
    BY DEF Sealed
  <2> QED BY <2>1, <2>2, <2>3, <2>4 DEF OneKey
<1> QED BY <1>2, <1>3 DEF EnvelopeInv

(* What a session is that opens a copy with its data key.                  *)
LEMMA SessionOf ==
  ASSUME NEW keyOf \in [Vaults -> DataKeys], NEW e, Sealed(e, keyOf), NEW key,
         key = e.payload.key, Understood(ThisBuild, e.payload.content)
  PROVE  /\ OpenedBy(e, key) \in Session
         /\ OpenedBy(e, key).vault = e.vault /\ OpenedBy(e, key).key = keyOf[e.vault]
         /\ Labelled(OpenedBy(e, key).payload)
<1>1. /\ e.vault \in Vaults /\ e.payload.content \in Payload /\ key \in DataKeys
      /\ key = keyOf[e.vault]
  BY EnvelopeFacts DEF Sealed
<1>2. ThisBuild \in Schemas
  BY EnvelopeAssumption DEF Schemas
<1>3. /\ parsePayload(ThisBuild, e.payload.content) \in Payload
      /\ Labelled(parsePayload(ThisBuild, e.payload.content))
  BY <1>1, <1>2, PayloadFacts DEF Sealed
<1> QED BY <1>1, <1>3 DEF OpenedBy, Session

LEMMA InstallKeeps ==
  ASSUME EnvelopeInv, Install
  PROVE  EnvelopeInv'
<1> PICK keyOf \in [Vaults -> DataKeys] : OneKey(keyOf)
  BY DEF EnvelopeInv
<1>1. /\ local' = cloud /\ agreed' = cloud /\ opened' = None /\ cloud' = cloud
      /\ known' = known /\ random' = random /\ hello' \in {hello, None}
      /\ UNCHANGED <<container, enrolling, gesture, removing>>
  BY DEF Install, draws
<1>2. Sealed(cloud, keyOf)' /\ Sealed(local, keyOf)' /\ Sealed(agreed, keyOf)'
  BY <1>1 DEF OneKey, Sealed
<1> QED BY <1>1, <1>2, DeviceKeeps DEF EnvelopeInv

LEMMA UnlockKeeps ==
  ASSUME EnvelopeInv, NEW p \in Passwords, UnlockWith(p)
  PROVE  EnvelopeInv'
<1> PICK keyOf \in [Vaults -> DataKeys] : OneKey(keyOf)
  BY DEF EnvelopeInv
<1>1. /\ local # None /\ Shows(local, local.wrapped.content)
      /\ opened' = OpenedBy(local, local.wrapped.content)
      /\ UNCHANGED <<local, cloud, agreed, hello, container, enrolling, gesture, removing>>
      /\ known' = known /\ random' = random
  BY DEF UnlockWith, helloVars, draws
<1>2. /\ Sealed(cloud, keyOf)' /\ Sealed(local, keyOf)'
      /\ agreed' # None => Sealed(agreed, keyOf)'
  BY <1>1 DEF OneKey, Sealed
<1>3. Sealed(local, keyOf) /\ local.wrapped.content = local.payload.key
  BY <1>1, EnvelopeFacts DEF OneKey, Sealed
<1>4. /\ opened' \in Session /\ opened'.vault = local.vault /\ opened'.key = keyOf[local.vault]
      /\ Labelled(opened'.payload) /\ local.vault \in known
  BY <1>1, <1>3, SessionOf DEF Shows, Sealed
<1> QED BY <1>1, <1>2, <1>4, DeviceKeeps DEF EnvelopeInv

LEMMA RelockKeeps ==
  ASSUME EnvelopeInv, Relock
  PROVE  EnvelopeInv'
<1> PICK keyOf \in [Vaults -> DataKeys] : OneKey(keyOf)
  BY DEF EnvelopeInv
<1>1. /\ UNCHANGED <<local, cloud, agreed, hello, container, enrolling, gesture, removing>>
      /\ opened' = None /\ known' = known /\ random' = random
  BY DEF Relock, helloVars, draws
<1>2. /\ Sealed(cloud, keyOf)'
      /\ local' # None => Sealed(local, keyOf)'
      /\ agreed' # None => Sealed(agreed, keyOf)'
  BY <1>1 DEF OneKey, Sealed
<1> QED BY <1>1, <1>2, DeviceKeeps DEF EnvelopeInv

LEMMA SaveKeeps ==
  ASSUME EnvelopeInv, SaveVault
  PROVE  EnvelopeInv'
<1> PICK keyOf \in [Vaults -> DataKeys] : OneKey(keyOf)
  BY DEF EnvelopeInv
<1>1. /\ opened # None /\ local.vault = opened.vault
      /\ local' = Reencrypted(local, opened.key, opened.payload)
      /\ UNCHANGED <<cloud, agreed, opened, hello, container, enrolling, gesture, removing>>
      /\ known' = known /\ random' = random
  BY DEF SaveVault, helloVars, draws
<1>2. /\ Sealed(local, keyOf) /\ Labelled(opened.payload) /\ opened \in Session
      /\ opened.vault \in known /\ opened.key = keyOf[opened.vault]
  BY <1>1 DEF OneKey, EnvelopeInv, EnvelopeTypeOK
<1>3. opened.payload \in Payload /\ opened.key = local.wrapped.content
  BY <1>1, <1>2 DEF Session, Sealed
<1>4. PICK e : e = Reencrypted(local, local.wrapped.content, opened.payload)
  OBVIOUS
<1>5. /\ IsEnvelope(e) /\ e.vault = local.vault /\ e.wrapped.content = local.wrapped.content
      /\ e.payload.content = opened.payload
  BY <1>2, <1>3, <1>4, WrittenAgain DEF Sealed
<1>6. local' = e /\ Sealed(e, keyOf)
  BY <1>1, <1>2, <1>3, <1>4, <1>5 DEF Sealed
<1>7. /\ Sealed(cloud, keyOf)' /\ Sealed(local, keyOf)'
      /\ agreed' # None => Sealed(agreed, keyOf)'
  BY <1>1, <1>6 DEF OneKey, Sealed
<1> QED BY <1>1, <1>2, <1>7, DeviceKeeps DEF EnvelopeInv

LEMMA PushKeeps ==
  ASSUME EnvelopeInv, Push
  PROVE  EnvelopeInv'
<1> PICK keyOf \in [Vaults -> DataKeys] : OneKey(keyOf)
  BY DEF EnvelopeInv
<1>1. /\ opened # None /\ cloud' = local /\ agreed' = local
      /\ UNCHANGED <<local, opened, hello, container, enrolling, gesture, removing>>
      /\ known' = known /\ random' = random
  BY DEF Push, helloVars, draws
<1>2. /\ Sealed(local, keyOf) /\ Labelled(opened.payload) /\ opened \in Session
      /\ opened.vault \in known /\ opened.key = keyOf[opened.vault]
  BY <1>1 DEF OneKey, EnvelopeInv, EnvelopeTypeOK
<1>3. /\ Sealed(cloud, keyOf)' /\ Sealed(local, keyOf)' /\ Sealed(agreed, keyOf)'
  BY <1>1, <1>2 DEF Sealed
<1> QED BY <1>1, <1>2, <1>3, DeviceKeeps DEF EnvelopeInv

LEMMA PullKeeps ==
  ASSUME EnvelopeInv, Pull
  PROVE  EnvelopeInv'
<1> PICK keyOf \in [Vaults -> DataKeys] : OneKey(keyOf)
  BY DEF EnvelopeInv
<1>1. /\ local' = cloud /\ agreed' = cloud /\ opened' = OpenedBy(cloud, opened.key)
      /\ Shows(cloud, opened.key)
      /\ UNCHANGED <<cloud, hello, container, enrolling, gesture, removing>>
      /\ known' = known /\ random' = random
  BY DEF Pull, helloVars, draws
<1>2. Sealed(cloud, keyOf)
  BY DEF OneKey
<1>3. opened.key = cloud.payload.key /\ Understood(ThisBuild, cloud.payload.content)
  BY <1>1 DEF Shows, Opens
<1>4. /\ opened' \in Session /\ opened'.vault = cloud.vault /\ opened'.key = keyOf[cloud.vault]
      /\ Labelled(opened'.payload) /\ cloud.vault \in known
  BY <1>1, <1>2, <1>3, SessionOf DEF Sealed
<1>5. /\ Sealed(cloud, keyOf)' /\ Sealed(local, keyOf)' /\ Sealed(agreed, keyOf)'
  BY <1>1, <1>2 DEF Sealed
<1> QED BY <1>1, <1>4, <1>5, DeviceKeeps DEF EnvelopeInv

(* A gesture that unlocks does so with the data key of the copy there is.  *)
LEMMA SignedKeeps ==
  ASSUME EnvelopeInv, HelloSigned
  PROVE  EnvelopeInv'
<1> PICK keyOf \in [Vaults -> DataKeys] : OneKey(keyOf)
  BY DEF EnvelopeInv
<1>1. /\ gesture # None /\ gesture' = None /\ hello' \in {hello, None}
      /\ UNCHANGED <<local, cloud, agreed, container, enrolling, removing>>
      /\ known' = known /\ random' = random
  BY DEF HelloSigned, draws
<1>2. /\ Sealed(cloud, keyOf)'
      /\ local' # None => Sealed(local, keyOf)'
      /\ agreed' # None => Sealed(agreed, keyOf)'
  BY <1>1 DEF OneKey, Sealed
<1>3. \/ opened' = opened
      \/ /\ Opens(gesture.envelope.payload, gesture.record.data, payloadAad(gesture.record.vault))
         /\ local = gesture.envelope /\ Understood(ThisBuild, local.payload.content)
         /\ opened' = OpenedBy(local, gesture.record.data)
  BY DEF HelloSigned
<1>4. CASE opened' = opened
  <2>1. opened # None =>
           /\ Sealed(local, keyOf) /\ Labelled(opened.payload) /\ opened \in Session
           /\ opened.vault \in known /\ opened.key = keyOf[opened.vault]
    BY DEF OneKey, EnvelopeInv, EnvelopeTypeOK
  <2>2. opened # None => Sealed(local, keyOf)'
    BY <1>1, <2>1 DEF Sealed
  <2> QED BY <1>1, <1>2, <1>4, <2>1, <2>2, DeviceKeeps DEF EnvelopeInv
<1>5. CASE /\ Opens(gesture.envelope.payload, gesture.record.data,
                    payloadAad(gesture.record.vault))
           /\ local = gesture.envelope /\ Understood(ThisBuild, local.payload.content)
           /\ opened' = OpenedBy(local, gesture.record.data)
  <2>1. gesture.record.data = local.payload.key
    BY <1>5 DEF Opens
  <2>3. Sealed(local, keyOf)
    BY <1>1, <1>5 DEF OneKey
  <2>4. /\ opened' \in Session /\ opened'.vault = local.vault /\ opened'.key = keyOf[local.vault]
        /\ Labelled(opened'.payload) /\ local.vault \in known
    BY <1>5, <2>1, <2>3, SessionOf DEF Sealed
  <2>5. Sealed(local, keyOf)'
    BY <1>1, <2>3 DEF Sealed
  <2> QED BY <1>1, <1>2, <2>4, <2>5, DeviceKeeps DEF EnvelopeInv
<1> QED BY <1>3, <1>4, <1>5

LEMMA RecordsKeep ==
  ASSUME EnvelopeInv, NEW keyOf \in [Vaults -> DataKeys], OneKey(keyOf)
  PROVE  /\ container \in [Vaults -> 0..MaxRandom] /\ removing \in Vaults \cup {None}
         /\ random \in 0..MaxRandom
         /\ enrolling # None =>
              /\ enrolling \in [vault : Vaults, data : DataKeys, key : 0..MaxRandom]
              /\ enrolling.vault \in known /\ enrolling.data = keyOf[enrolling.vault]
         /\ gesture # None => gesture.record \in HelloRecord /\ Sealed(gesture.envelope, keyOf)
         /\ hello # None =>
              hello \in HelloRecord /\ hello.vault \in known /\ hello.data = keyOf[hello.vault]
  BY DEF EnvelopeInv, EnvelopeTypeOK, OneKey

LEMMA EnrollKeeps ==
  ASSUME EnvelopeInv, NEW p \in Passwords, EnrollBegins(p)
  PROVE  EnvelopeInv'
<1> PICK keyOf \in [Vaults -> DataKeys] : OneKey(keyOf)
  BY DEF EnvelopeInv
<1>1. /\ opened # None
      /\ enrolling' = [vault |-> local.vault, data |-> local.wrapped.content, key |-> 0]
      /\ UNCHANGED <<copies, hello, container, gesture, removing>>
      /\ known' = known /\ random' = random
  BY DEF EnrollBegins, draws
<1>2. Sealed(local, keyOf)
  BY <1>1 DEF OneKey
<1>3. local.vault \in Vaults /\ local.wrapped.content \in DataKeys /\ 0 \in 0..MaxRandom
  BY <1>2, EnvelopeFacts, EnvelopeAssumption DEF Sealed
<1>4. /\ enrolling' \in [vault : Vaults, data : DataKeys, key : 0..MaxRandom]
      /\ enrolling'.vault \in known /\ enrolling'.data = keyOf[enrolling'.vault]
  BY <1>1, <1>2, <1>3 DEF Sealed
<1> QED BY <1>1, <1>4, HelloKeeps, RecordsKeep DEF EnvelopeInv

LEMMA KeyCreatedKeeps ==
  ASSUME EnvelopeInv, KeyCreated
  PROVE  EnvelopeInv'
<1> PICK keyOf \in [Vaults -> DataKeys] : OneKey(keyOf)
  BY DEF EnvelopeInv
<1>1. /\ enrolling # None
      /\ container' = [container EXCEPT ![enrolling.vault] = random + 1]
      /\ enrolling' = [enrolling EXCEPT !.key = random + 1]
      /\ UNCHANGED <<copies, hello, gesture, removing>>
      /\ known' = known /\ random' = random + 1
  BY DEF KeyCreated
<1>2. random + 1 \in 0..MaxRandom
  BY RecordsKeep, EnvelopeAssumption DEF KeyCreated
<1>3. container' \in [Vaults -> 0..MaxRandom]
  BY <1>1, <1>2, RecordsKeep
<1>4. /\ enrolling' \in [vault : Vaults, data : DataKeys, key : 0..MaxRandom]
      /\ enrolling'.vault \in known /\ enrolling'.data = keyOf[enrolling'.vault]
  BY <1>1, <1>2, RecordsKeep
<1> QED BY <1>1, <1>2, <1>3, <1>4, HelloKeeps, RecordsKeep DEF EnvelopeInv

LEMMA EnrollEndsKeeps ==
  ASSUME EnvelopeInv, EnrollEnds
  PROVE  EnvelopeInv'
<1> PICK keyOf \in [Vaults -> DataKeys] : OneKey(keyOf)
  BY DEF EnvelopeInv
<1>1. /\ enrolling # None /\ enrolling.key # 0 /\ hello' = enrolling /\ enrolling' = None
      /\ UNCHANGED <<copies, container, gesture, removing>>
      /\ known' = known /\ random' = random
  BY DEF EnrollEnds, draws
<1>2. enrolling.key \in Draws
  BY <1>1, RecordsKeep, EnvelopeAssumption DEF Draws
<1>3. enrolling \in HelloRecord
  BY <1>1, <1>2, RecordsKeep DEF HelloRecord
<1> QED BY <1>1, <1>3, HelloKeeps, RecordsKeep DEF EnvelopeInv

LEMMA AskedKeeps ==
  ASSUME EnvelopeInv, HelloAsked
  PROVE  EnvelopeInv'
<1> PICK keyOf \in [Vaults -> DataKeys] : OneKey(keyOf)
  BY DEF EnvelopeInv
<1>1. /\ local # None /\ hello # None
      /\ \/ gesture' = [record |-> hello, envelope |-> local] /\ hello' = hello
         \/ hello' = None /\ gesture' = gesture
      /\ UNCHANGED <<copies, container, enrolling, removing>>
      /\ known' = known /\ random' = random
  BY DEF HelloAsked, draws
<1>2. Sealed(local, keyOf)
  BY <1>1 DEF OneKey
<1>3. gesture' # None => gesture'.record \in HelloRecord /\ Sealed(gesture'.envelope, keyOf)
  <2>1. CASE gesture' = [record |-> hello, envelope |-> local]
    BY <1>1, <1>2, <2>1, RecordsKeep
  <2>2. CASE gesture' = gesture
    BY <2>2, RecordsKeep
  <2> QED BY <1>1, <2>1, <2>2
<1>4. hello' # None => hello' = hello
  BY <1>1
<1> QED BY <1>1, <1>3, <1>4, HelloKeeps, RecordsKeep DEF EnvelopeInv

(* The steps that only let go of something.                                *)
LEMMA RestKeeps ==
  ASSUME EnvelopeInv,
         EnrollFails \/ HelloCancelled \/ RemoveHello \/ KeyRemoved \/ HelloReset
  PROVE  EnvelopeInv'
<1> PICK keyOf \in [Vaults -> DataKeys] : OneKey(keyOf)
  BY DEF EnvelopeInv
<1>1. /\ UNCHANGED copies /\ known' = known /\ random' = random
      /\ enrolling' \in {enrolling, None} /\ gesture' \in {gesture, None}
      /\ hello' \in {hello, None}
  BY DEF EnrollFails, HelloCancelled, RemoveHello, KeyRemoved, HelloReset, draws
<1>2. container' \in [Vaults -> 0..MaxRandom]
  <2>1. container \in [Vaults -> 0..MaxRandom] /\ 0 \in 0..MaxRandom
    BY RecordsKeep, EnvelopeAssumption
  <2> QED BY <2>1 DEF EnrollFails, HelloCancelled, RemoveHello, KeyRemoved, HelloReset
<1>3. removing' \in Vaults \cup {None}
  <2>1. CASE RemoveHello
    <3>1. hello # None /\ removing' = hello.vault
      BY <2>1 DEF RemoveHello
    <3> QED BY <3>1, RecordsKeep DEF HelloRecord
  <2>2. CASE EnrollFails \/ HelloCancelled \/ KeyRemoved \/ HelloReset
    BY <2>2, RecordsKeep DEF EnrollFails, HelloCancelled, KeyRemoved, HelloReset
  <2> QED BY <2>1, <2>2
<1> QED BY <1>1, <1>2, <1>3, HelloKeeps, RecordsKeep DEF EnvelopeInv

LEMMA EnvelopeRestartKeeps ==
  ASSUME EnvelopeInv, EnvelopeRestart
  PROVE  EnvelopeInv'
<1> PICK keyOf \in [Vaults -> DataKeys] : OneKey(keyOf)
  BY DEF EnvelopeInv
<1>1. /\ opened' = None /\ enrolling' = None /\ gesture' = None /\ removing' = None
      /\ UNCHANGED <<local, cloud, agreed, hello, container>>
      /\ known' = known /\ random' = random
  BY DEF EnvelopeRestart, draws
<1>2. EnvelopeTypeOK'
  BY <1>1 DEF EnvelopeInv, EnvelopeTypeOK
<1>3. OneKey(keyOf)'
  BY <1>1 DEF OneKey, Sealed
<1> QED BY <1>2, <1>3 DEF EnvelopeInv

(* A vault has one data key, in every copy, session and Hello record there *)
(* is, and nothing is labelled older than it is: of every behaviour of     *)
(* vault-crypto.ts, windows-hello.ts and the devices that share the vault. *)
THEOREM EnvelopeInvariant == EnvelopeSpec => []EnvelopeInv
<1>1. EnvelopeInv /\ [EnvelopeNext]_envelopeVars => EnvelopeInv'
  <2> SUFFICES ASSUME EnvelopeInv, [EnvelopeNext]_envelopeVars PROVE EnvelopeInv'
    OBVIOUS
  <2>1. CASE UNCHANGED envelopeVars
    <3>1. UNCHANGED <<local, cloud, agreed, opened, hello, container, enrolling, gesture,
                      removing, random, known>>
      BY <2>1 DEF envelopeVars, copies, helloVars, draws
    <3>2. EnvelopeTypeOK'
      BY <3>1 DEF EnvelopeInv, EnvelopeTypeOK
    <3>3. \A keyOf : OneKey(keyOf) => OneKey(keyOf)'
      BY <3>1 DEF OneKey, Sealed, Labelled
    <3> QED BY <3>2, <3>3 DEF EnvelopeInv
  <2>2. ASSUME NEW v \in Vaults, NEW p \in Passwords, CreateVault(v, p) PROVE EnvelopeInv'
    BY <2>2, CreateKeeps
  <2>3. ASSUME NEW build \in ThisBuild..NewestBuild, OtherSaves(build) PROVE EnvelopeInv'
    BY <2>3, OtherSavesKeeps
  <2>4. ASSUME NEW build \in ThisBuild..NewestBuild, NEW p \in Passwords,
               ChangeMasterPassword(build, p)
        PROVE  EnvelopeInv'
    BY <2>4, ChangeKeeps
  <2>5. ASSUME NEW p \in Passwords, UnlockWith(p) \/ EnrollBegins(p) PROVE EnvelopeInv'
    BY <2>5, UnlockKeeps, EnrollKeeps
  <2>6. CASE Install \/ Relock \/ SaveVault \/ Push \/ Pull
    BY <2>6, InstallKeeps, RelockKeeps, SaveKeeps, PushKeeps, PullKeeps
  <2>7. CASE KeyCreated \/ EnrollEnds \/ HelloAsked \/ HelloSigned \/ EnvelopeRestart
    BY <2>7, KeyCreatedKeeps, EnrollEndsKeeps, AskedKeeps, SignedKeeps, EnvelopeRestartKeeps
  <2>8. CASE EnrollFails \/ HelloCancelled \/ RemoveHello \/ KeyRemoved \/ HelloReset
    BY <2>8, RestKeeps
  <2> QED BY <2>1, <2>2, <2>3, <2>4, <2>5, <2>6, <2>7, <2>8 DEF EnvelopeNext
<1> QED BY <1>1, EnvelopeInvHolds, PTL DEF EnvelopeSpec

(* Changing the password, enrolling, installing and saving, on any number  *)
(* of devices, never lock out a session or a Windows Hello record of the   *)
(* vault, nor store a newer format under an older version number.          *)
THEOREM EveryoneStillReads == EnvelopeSpec => []StillReadable
<1>1. EnvelopeInv => StillReadable
  <2> SUFFICES ASSUME EnvelopeInv PROVE StillReadable
    OBVIOUS
  <2> PICK keyOf \in [Vaults -> DataKeys] : OneKey(keyOf)
    BY DEF EnvelopeInv
  <2>1. \A e \in {local, cloud} \ {None} : Sealed(e, keyOf)
    BY DEF OneKey
  <2>2. ASSUME NEW e, Sealed(e, keyOf)
        PROVE  /\ Opens(e.payload, keyOf[e.vault], payloadAad(e.vault))
               /\ e.payload.content.format <= e.payload.content.schema
    BY <2>2, EnvelopeFacts DEF Sealed, Opens, Labelled
  <2>3. /\ opened # None => opened.key = keyOf[opened.vault]
        /\ hello # None => hello.data = keyOf[hello.vault]
    BY DEF OneKey
  <2>4. \A e \in {local, cloud} \ {None} :
          opened # None /\ opened.vault = e.vault =>
            Opens(e.payload, opened.key, payloadAad(e.vault))
    BY <2>1, <2>2, <2>3
  <2>5. hello # None /\ local # None /\ hello.vault = local.vault =>
          Opens(local.payload, hello.data, payloadAad(local.vault))
    BY <2>1, <2>2, <2>3
  <2>6. \A e \in {local, cloud} \ {None} :
          e.payload.content.format <= e.payload.content.schema
    BY <2>1, <2>2
  <2> QED BY <2>4, <2>5, <2>6 DEF StillReadable
<1> QED BY <1>1, EnvelopeInvariant, PTL
-----------------------------------------------------------------------------
(***************************************************************************)
(* The migration of the old passwords (VaultMigration).                    *)
(***************************************************************************)

(* What a journal says is true: what it names was handled, and the one     *)
(* that is "validated" names all it was begun with.                        *)
TrueJournal(j) ==
  /\ Done(j) \subseteq handled
  /\ j.phase = "validated" => j.hash \subseteq handled

(* Both the journal on the disk and the older one a call still holds.      *)
TrueCall(r) ==
  /\ r \in Import
  /\ TrueJournal(r.journal)
  /\ r.saved => r.saving \in handled

MigrationInv ==
  /\ MigrationTypeOK
  /\ migration # None => TrueJournal(migration)
  /\ \A c \in Migrations :
       /\ turn = c => importing[c] # None /\ ~importing[c].saved
       /\ importing[c] # None => TrueCall(importing[c])

LEMMA MigrationInvHolds == MigrationInit => MigrationInv
<1> SUFFICES ASSUME MigrationInit PROVE MigrationInv
  OBVIOUS
<1>1. entries \in Seq(Entry) /\ lastId \in 0..MaxEntries
  <2>1. CASE entries = <<>> /\ lastId = 0
    BY <2>1, MigrationAssumption
  <2>2. CASE \E n \in Names : entries = <<[id |-> 1, name |-> n, secret |-> None]>> /\ lastId = 1
    <3>1. PICK n \in Names : entries = <<[id |-> 1, name |-> n, secret |-> None]>> /\ lastId = 1
      BY <2>2
    <3>2. [id |-> 1, name |-> n, secret |-> None] \in Entry
      BY MigrationAssumption DEF Entry
    <3> QED BY <3>1, <3>2, MigrationAssumption
  <2> QED BY <2>1, <2>2 DEF MigrationInit
<1>2. MigrationTypeOK
  <2>1. oldFile \in (SUBSET Logins) \cup {None}
    BY DEF MigrationInit
  <2>2. importing \in [Migrations -> Import \cup {None}]
    BY DEF MigrationInit
  <2> QED BY <1>1, <2>1, <2>2 DEF MigrationInit, MigrationTypeOK
<1> QED BY <1>2, MigrationAssumption DEF MigrationInv, MigrationInit

(* A call or a journal stays true when more was handled.                   *)
LEMMA TruthLasts ==
  ASSUME handled \subseteq handled'
  PROVE  /\ \A j : TrueJournal(j) => TrueJournal(j)'
         /\ \A r : TrueCall(r) => TrueCall(r)'
  BY DEF TrueCall, TrueJournal

(* Most steps change at most one call and the journal on the disk; both    *)
(* are true afterwards, and no other call takes the turn.                  *)
LEMMA StepKeepsMigration ==
  ASSUME MigrationInv, handled \subseteq handled', handled' \subseteq Logins,
         NEW c \in Migrations, NEW r \in Import \cup {None},
         importing' = [importing EXCEPT ![c] = r],
         r # None => TrueCall(r)',
         turn' \in {None, c}, turn' = c => r # None /\ ~r.saved,
         migration' = migration \/ \E j \in Journal : migration' = j /\ TrueJournal(j)',
         oldFile' = oldFile, entries' \in Seq(Entry), lastId' \in 0..MaxEntries
  PROVE  MigrationInv'
<1> USE MigrationAssumption
<1>1. MigrationTypeOK'
  BY DEF MigrationInv, MigrationTypeOK
<1>2. migration' # None => TrueJournal(migration)'
  <2>1. CASE migration' = migration
    <3>1. migration # None => TrueJournal(migration)
      BY DEF MigrationInv
    <3> QED BY <2>1, <3>1 DEF TrueJournal
  <2>2. CASE \E j \in Journal : migration' = j /\ TrueJournal(j)'
    <3>1. PICK j \in Journal : migration' = j /\ TrueJournal(j)'
      BY <2>2
    <3> QED BY <3>1 DEF TrueJournal
  <2> QED BY <2>1, <2>2
<1>3. ASSUME NEW d \in Migrations
      PROVE  /\ turn' = d => importing'[d] # None /\ ~importing'[d].saved
             /\ importing'[d] # None => TrueCall(importing[d])'
  <2>1. importing'[d] = IF d = c THEN r ELSE importing[d]
    BY DEF MigrationInv, MigrationTypeOK
  <2>2. CASE d = c
    <3>1. importing'[d] = r
      BY <2>1, <2>2
    <3>2. r # None => TrueCall(importing[d])'
      BY <3>1 DEF TrueCall, TrueJournal
    <3> QED BY <3>1, <3>2, <2>2
  <2>3. CASE d # c
    <3>1. importing'[d] = importing[d]
      BY <2>1, <2>3
    <3>2. turn' # d
      BY <2>3
    <3>3. importing[d] # None => TrueCall(importing[d])
      BY DEF MigrationInv
    <3>4. importing[d] # None => TrueCall(importing[d])'
      BY <3>1, <3>3 DEF TrueCall, TrueJournal
    <3> QED BY <3>1, <3>2, <3>4
  <2> QED BY <2>2, <2>3
<1> QED BY <1>1, <1>2, <1>3 DEF MigrationInv

(* What a call may become: its own fields, of their types.                 *)
LEMMA CallFields ==
  ASSUME NEW r \in Import
  PROVE  /\ r.journal \in Journal /\ r.existing \in Seq(Metadata)
         /\ r.left \in SUBSET Logins /\ r.conflicts \in SUBSET Logins
         /\ r.replace \in SUBSET Logins /\ r.skip \in SUBSET Logins
         /\ r.pass \in 1..2 /\ r.saving \in Logins \cup {None}
         /\ r.target \in 0..MaxEntries /\ r.saved \in BOOLEAN
         /\ \A left \in SUBSET Logins : [r EXCEPT !.left = left] \in Import
         /\ \A j \in Journal : [r EXCEPT !.journal = j] \in Import
         /\ \A l \in Logins, t \in 0..MaxEntries :
              [r EXCEPT !.saving = l, !.target = t] \in Import
         /\ \A conflicts \in SUBSET Logins : [r EXCEPT !.conflicts = conflicts] \in Import
         /\ [r EXCEPT !.saved = TRUE] \in Import
         /\ [r EXCEPT !.saving = None, !.saved = FALSE] \in Import
         /\ [r EXCEPT !.pass = 2] \in Import
<1>1. r.journal \in Journal /\ r.existing \in Seq(Metadata)
      /\ r.left \in SUBSET Logins /\ r.conflicts \in SUBSET Logins
      /\ r.replace \in SUBSET Logins /\ r.skip \in SUBSET Logins
      /\ r.pass \in 1..2 /\ r.saving \in Logins \cup {None}
      /\ r.target \in 0..MaxEntries /\ r.saved \in BOOLEAN
  BY DEF Import
<1>2. \A left \in SUBSET Logins : [r EXCEPT !.left = left] \in Import
  BY DEF Import
<1>3. \A j \in Journal : [r EXCEPT !.journal = j] \in Import
  BY DEF Import
<1>4. \A l \in Logins, t \in 0..MaxEntries :
        [r EXCEPT !.saving = l, !.target = t] \in Import
  BY DEF Import
<1>5. \A conflicts \in SUBSET Logins : [r EXCEPT !.conflicts = conflicts] \in Import
  BY DEF Import
<1>6. [r EXCEPT !.saved = TRUE] \in Import
  BY DEF Import
<1>7. [r EXCEPT !.saving = None, !.saved = FALSE] \in Import
  BY DEF Import
<1>8. [r EXCEPT !.pass = 2] \in Import
  <2>1. 2 \in 1..2
    OBVIOUS
  <2> QED BY <2>1 DEF Import
<1> QED BY <1>1, <1>2, <1>3, <1>4, <1>5, <1>6, <1>7, <1>8

LEMMA JournalFields ==
  ASSUME NEW j \in Journal
  PROVE  /\ j.hash \in SUBSET Logins /\ j.mapped \in SUBSET Logins
         /\ j.skipped \in SUBSET Logins
         /\ \A s \in SUBSET Logins : /\ [j EXCEPT !.mapped = s] \in Journal
                                     /\ [j EXCEPT !.skipped = s] \in Journal
         /\ [j EXCEPT !.phase = "importing"] \in Journal
         /\ [j EXCEPT !.phase = "validated"] \in Journal
  BY DEF Journal

(* Every step keeps the invariant.                                         *)
LEMMA BeginsKeeps ==
  ASSUME MigrationInv, NEW c \in Migrations, NEW pass \in 1..2,
         NEW replace \in SUBSET Logins, NEW skip \in SUBSET Logins,
         Begins(c, pass, replace, skip)
  PROVE  MigrationInv'
<1> DEFINE j == IF migration # None THEN migration
                ELSE [hash |-> oldFile, mapped |-> {}, skipped |-> {}, phase |-> "backed-up"]
           k == [j EXCEPT !.phase = "importing"]
           r == [journal |-> k, existing |-> metadata, left |-> oldFile \ Done(j),
                 conflicts |-> {}, replace |-> replace, skip |-> skip, pass |-> pass,
                 saving |-> None, target |-> 0, saved |-> FALSE]
<1>1. /\ turn = None /\ oldFile # None
      /\ migration' = k /\ turn' = c /\ importing' = [importing EXCEPT ![c] = r]
      /\ oldFile' = oldFile /\ entries' = entries /\ lastId' = lastId /\ handled' = handled
  BY DEF Begins, vaultOf
<1>2. /\ oldFile \in SUBSET Logins /\ migration \in Journal \cup {None}
      /\ entries \in Seq(Entry) /\ lastId \in 0..MaxEntries /\ handled \in SUBSET Logins
  BY <1>1 DEF MigrationInv, MigrationTypeOK
<1>3. j \in Journal /\ Done(j) \subseteq handled
  <2>1. CASE migration # None
    BY <2>1, <1>2 DEF MigrationInv, TrueJournal
  <2>2. CASE migration = None
    <3>1. [hash |-> oldFile, mapped |-> {}, skipped |-> {}, phase |-> "backed-up"] \in Journal
      BY <1>2 DEF Journal
    <3> QED BY <2>2, <3>1 DEF Done
  <2> QED BY <2>1, <2>2
<1>4. metadata \in Seq(Metadata)
  <2>1. PICK n \in Nat : n = Len(entries)
    BY <1>2
  <2>2. DOMAIN entries = 1..n
    BY <2>1, <1>2
  <2>3. \A i \in 1..n : [id |-> entries[i].id, name |-> entries[i].name] \in Metadata
    <3> TAKE i \in 1..n
    <3>1. entries[i] \in Entry
      BY <1>2, <2>1
    <3> QED BY <3>1 DEF Entry, Metadata
  <2>4. metadata \in [1..n -> Metadata]
    BY <2>2, <2>3 DEF metadata
  <2> QED BY <2>4, IsASeq
<1>5. k \in Journal /\ k.phase = "importing" /\ k.mapped = j.mapped /\ k.skipped = j.skipped
  BY <1>3, JournalFields DEF Journal
<1> HIDE DEF j, k
<1>6. r \in Import /\ r.journal = k /\ ~r.saved
  <2>1. 0 \in 0..MaxEntries
    BY MigrationAssumption
  <2>2. oldFile \ Done(j) \in SUBSET Logins
    BY <1>2
  <2> QED BY <1>4, <1>5, <2>1, <2>2 DEF Import
<1> HIDE DEF r
<1>7. PICK q \in Import, m \in Journal :
        /\ q = r /\ m = k /\ q.journal = m /\ ~q.saved
        /\ Done(m) \subseteq handled /\ m.phase = "importing"
  BY <1>3, <1>5, <1>6 DEF Done
<1>8. TrueJournal(m)' /\ TrueCall(q)'
  BY <1>1, <1>7 DEF TrueJournal, TrueCall, Done
<1>9. q # None
  BY <1>7, MigrationAssumption
<1>10. importing' = [importing EXCEPT ![c] = q] /\ migration' = m
  BY <1>1, <1>7
<1> QED BY <1>1, <1>2, <1>7, <1>8, <1>9, <1>10, StepKeepsMigration

LEMMA MigrateKeeps ==
  ASSUME MigrationInv, NEW c \in Migrations, MigrateLegacy(c)
  PROVE  MigrationInv'
  BY BeginsKeeps DEF MigrateLegacy

LEMMA DecidedKeeps ==
  ASSUME MigrationInv, NEW c \in Migrations, NEW replace \in SUBSET Logins,
         Decided(c, replace)
  PROVE  MigrationInv'
<1>1. importing[c] \in Import
  BY DEF Decided, MigrationInv, MigrationTypeOK
<1>2. importing[c].conflicts \in SUBSET Logins
  BY <1>1, CallFields
<1>3. importing[c].conflicts \ replace \in SUBSET Logins
  BY <1>2
<1>4. 2 \in 1..2
  OBVIOUS
<1> QED BY <1>3, <1>4, BeginsKeeps DEF Decided

LEMMA ItemKeeps ==
  ASSUME MigrationInv, NEW c \in Migrations, NEW l \in Logins, Item(c, l)
  PROVE  MigrationInv'
<1>a. importing[c] \in Import /\ importing[c].left \ {l} \in SUBSET Logins
  <2>1. importing[c] \in Import
    BY DEF Item, MigrationInv, MigrationTypeOK
  <2> QED BY <2>1, CallFields
<1>b. PICK r \in Import : r = [importing[c] EXCEPT !.left = @ \ {l}]
  BY <1>a, CallFields
<1> DEFINE j == r.journal
           found == Matches(r, l)
           mapped == [j EXCEPT !.mapped = @ \cup {l}]
           skipped == [j EXCEPT !.skipped = @ \cup {l}]
<1>1. /\ turn = c /\ oldFile' = oldFile /\ entries' = entries /\ lastId' = lastId
  BY DEF Item, vaultOf
<1>2. importing[c] # None /\ importing[c] \in Import /\ TrueCall(importing[c]) /\ ~importing[c].saved
  BY <1>1, <1>a DEF MigrationInv, MigrationTypeOK
<1>3. /\ entries \in Seq(Entry) /\ lastId \in 0..MaxEntries /\ handled \subseteq Logins
      /\ migration \in Journal \cup {None} /\ oldFile \in (SUBSET Logins) \cup {None}
  BY DEF MigrationInv, MigrationTypeOK
<1>4. /\ r \in Import /\ j = importing[c].journal
      /\ r.saved = importing[c].saved /\ r.saving = importing[c].saving
      /\ r.conflicts = importing[c].conflicts
  BY <1>a, <1>b DEF Import
<1>5. j \in Journal /\ TrueJournal(j) /\ (r.saved => r.saving \in handled)
  BY <1>2, <1>4, CallFields DEF TrueCall
<1>6. Saves(c, r, l, 0) \/
      (found # <<>> /\ Writes(c, r, mapped) /\ handled' = handled \cup {l} /\ turn' = turn) \/
      (Skips(r, l) /\ Writes(c, r, skipped)
         /\ handled' = (IF l \in r.skip THEN handled \cup {l} ELSE handled) /\ turn' = turn) \/
      (Now(Head(found).id) # {} /\ Saves(c, r, l, Head(found).id)) \/
      (importing' = [importing EXCEPT ![c] = [r EXCEPT !.conflicts = @ \cup {l}]]
         /\ migration' = migration /\ turn' = turn /\ handled' = handled)
  BY <1>b DEF Item
<1> HIDE DEF found
<1>7. ASSUME NEW t \in 0..MaxEntries, Saves(c, r, l, t) PROVE MigrationInv'
  <2> DEFINE q == [r EXCEPT !.saving = l, !.target = t]
  <2>1. /\ importing' = [importing EXCEPT ![c] = q] /\ turn' = None
        /\ migration' = migration /\ handled' = handled
    BY <1>7 DEF Saves
  <2>2. q \in Import /\ q.journal = j /\ q.saved = FALSE
    BY <1>2, <1>4, CallFields DEF Import
  <2> HIDE DEF q, j
  <2>3. TrueCall(q)'
    BY <2>1, <2>2, <1>5 DEF TrueCall, TrueJournal
  <2>4. turn' # c
    BY <2>1, MigrationAssumption
  <2> QED BY <1>1, <1>3, <2>1, <2>2, <2>3, <2>4, StepKeepsMigration
<1>8. ASSUME NEW k \in Journal, Done(k) = Done(j) \cup {l}, k.hash = j.hash, k.phase = j.phase,
             handled' = handled \cup {l}, Writes(c, r, k), turn' = turn
      PROVE  MigrationInv'
  <2> DEFINE q == [r EXCEPT !.journal = k]
  <2>1. importing' = [importing EXCEPT ![c] = q] /\ migration' = k
    BY <1>8 DEF Writes
  <2>2. q \in Import /\ q.journal = k /\ ~q.saved
    BY <1>2, <1>4, CallFields DEF Import
  <2> HIDE DEF q, j
  <2>3. TrueJournal(k)'
    BY <1>5, <1>8 DEF TrueJournal, Done
  <2>4. TrueCall(q)'
    BY <2>2, <2>3 DEF TrueCall, TrueJournal
  <2>5. q # None
    BY <2>2, MigrationAssumption
  <2> QED BY <1>1, <1>3, <1>8, <2>1, <2>2, <2>3, <2>4, <2>5, StepKeepsMigration
<1>9. CASE Saves(c, r, l, 0)
  BY <1>7, <1>9, MigrationAssumption
<1>10. CASE Writes(c, r, mapped) /\ handled' = handled \cup {l} /\ turn' = turn
  <2>1. mapped \in Journal /\ Done(mapped) = Done(j) \cup {l} /\ mapped.hash = j.hash
        /\ mapped.phase = j.phase
    BY <1>5, JournalFields DEF Journal, Done
  <2> QED BY <1>8, <1>10, <2>1
<1>11. CASE Skips(r, l) /\ Writes(c, r, skipped) /\ turn' = turn
            /\ handled' = (IF l \in r.skip THEN handled \cup {l} ELSE handled)
  <2>1. skipped \in Journal /\ Done(skipped) = Done(j) \cup {l} /\ skipped.hash = j.hash
        /\ skipped.phase = j.phase
    BY <1>5, JournalFields DEF Journal, Done
  <2>2. handled' = handled \cup {l}
    BY <1>11 DEF Skips
  <2> QED BY <1>8, <1>11, <2>1, <2>2
<1>12. CASE Now(Head(found).id) # {} /\ Saves(c, r, l, Head(found).id)
  <2>1. Head(found).id \in 0..MaxEntries
    <3>1. PICK i \in DOMAIN entries : entries[i].id = Head(found).id
      BY <1>12 DEF Now
    <3>2. entries[i] \in Entry
      BY <1>3
    <3>3. entries[i].id \in 1..MaxEntries
      BY <3>2 DEF Entry
    <3> QED BY <3>1, <3>3, MigrationAssumption
  <2> QED BY <1>7, <1>12, <2>1
<1>13. CASE /\ importing' = [importing EXCEPT ![c] = [r EXCEPT !.conflicts = @ \cup {l}]]
            /\ migration' = migration /\ turn' = turn /\ handled' = handled
  <2> DEFINE q == [r EXCEPT !.conflicts = @ \cup {l}]
  <2>1. q \in Import /\ q.journal = j /\ ~q.saved
    <3>1. r.conflicts \cup {l} \in SUBSET Logins
      BY <1>4, CallFields
    <3> QED BY <3>1, <1>2, <1>4, CallFields DEF Import
  <2>2. importing' = [importing EXCEPT ![c] = q]
    BY <1>13
  <2> HIDE DEF q, j
  <2>3. TrueCall(q)'
    BY <1>5, <1>13, <2>1 DEF TrueCall, TrueJournal
  <2>4. q # None
    BY <2>1, MigrationAssumption
  <2> QED BY <1>1, <1>3, <1>13, <2>1, <2>2, <2>3, <2>4, StepKeepsMigration
<1> QED BY <1>6, <1>9, <1>10, <1>11, <1>12, <1>13

(* A step of the vault or of the old file, which no call takes.            *)
LEMMA OutsideKeeps ==
  ASSUME MigrationInv, importing' = importing, turn' = turn, migration' = migration,
         handled' = handled, oldFile' \in (SUBSET Logins) \cup {None},
         entries' \in Seq(Entry), lastId' \in 0..MaxEntries
  PROVE  MigrationInv'
  BY DEF MigrationInv, MigrationTypeOK, TrueCall, TrueJournal

LEMMA LoginSavedKeeps ==
  ASSUME MigrationInv, NEW c \in Migrations, LoginSaved(c)
  PROVE  MigrationInv'
<1>1. importing[c] \in Import
  BY DEF LoginSaved, MigrationInv, MigrationTypeOK
<1>2. PICK r \in Import : r = importing[c]
  BY <1>1
<1> DEFINE e == [id |-> lastId + 1, name |-> NameOf[r.saving], secret |-> r.saving]
<1>3. /\ turn = None /\ r # None /\ r.saving # None /\ ~r.saved
      /\ importing' = [importing EXCEPT ![c].saved = TRUE]
      /\ handled' = handled \cup {r.saving}
      /\ oldFile' = oldFile /\ migration' = migration /\ turn' = turn
  BY <1>2 DEF LoginSaved
<1>4. /\ \/ /\ entries' = [i \in DOMAIN entries |->
                    IF entries[i].id = r.target THEN [e EXCEPT !.id = r.target] ELSE entries[i]]
            /\ Now(r.target) # {} /\ lastId' = lastId
         \/ /\ lastId < MaxEntries /\ lastId' = lastId + 1
            /\ entries' = <<e>> \o entries
  BY <1>2 DEF LoginSaved
<1>5. /\ entries \in Seq(Entry) /\ lastId \in 0..MaxEntries /\ handled \subseteq Logins
      /\ r.saving \in Logins /\ NameOf[r.saving] \in Names
      /\ importing \in [Migrations -> Import \cup {None}] /\ TrueCall(r)
  BY <1>2, <1>3, CallFields, MigrationAssumption DEF MigrationInv, MigrationTypeOK
<1>6. lastId' \in 0..MaxEntries
  BY <1>4, <1>5, MigrationAssumption
<1>7. entries' \in Seq(Entry)
  <2>1. CASE /\ entries' = [i \in DOMAIN entries |->
                    IF entries[i].id = r.target THEN [e EXCEPT !.id = r.target] ELSE entries[i]]
             /\ Now(r.target) # {}
    <3>1. PICK n \in Nat : n = Len(entries)
      BY <1>5
    <3>2. DOMAIN entries = 1..n /\ \A i \in 1..n : entries[i] \in Entry
      BY <3>1, <1>5
    <3>3. [e EXCEPT !.id = r.target] \in Entry
      <4>1. PICK i \in DOMAIN entries : entries[i].id = r.target
        BY <2>1 DEF Now
      <4>2. r.target \in 1..MaxEntries
        BY <4>1, <3>2 DEF Entry
      <4>3. [e EXCEPT !.id = r.target] =
              [id |-> r.target, name |-> NameOf[r.saving], secret |-> r.saving]
        OBVIOUS
      <4> QED BY <4>2, <4>3, <1>5 DEF Entry
    <3>4. \A i \in 1..n : (IF entries[i].id = r.target THEN [e EXCEPT !.id = r.target]
                           ELSE entries[i]) \in Entry
      BY <3>2, <3>3
    <3>5. entries' \in [1..n -> Entry]
      BY <2>1, <3>2, <3>4
    <3> QED BY <3>5
  <2>2. CASE lastId < MaxEntries /\ lastId' = lastId + 1 /\ entries' = <<e>> \o entries
    <3>1. lastId + 1 \in 1..MaxEntries
      BY <2>2, <1>5, MigrationAssumption
    <3>2. e \in Entry
      BY <3>1, <1>5 DEF Entry
    <3>3. <<e>> \in Seq(Entry)
      BY <3>2
    <3> HIDE DEF e
    <3> QED BY <3>3, <2>2, <1>5
  <2> QED BY <1>4, <2>1, <2>2
<1>8. PICK q \in Import : q = [r EXCEPT !.saved = TRUE]
  BY CallFields
<1>9. /\ importing' = [importing EXCEPT ![c] = q]
      /\ q.journal = r.journal /\ q.saving = r.saving
  BY <1>2, <1>3, <1>8, <1>5 DEF Import
<1>10. TrueCall(q)'
  BY <1>3, <1>5, <1>9 DEF TrueCall, TrueJournal
<1>11. handled \subseteq handled' /\ handled' \subseteq Logins
  BY <1>3, <1>5
<1>12. turn' # c
  BY <1>3, MigrationAssumption
<1> QED BY <1>3, <1>6, <1>7, <1>8, <1>9, <1>10, <1>11, <1>12, StepKeepsMigration

LEMMA NotedKeeps ==
  ASSUME MigrationInv, NEW c \in Migrations, Noted(c)
  PROVE  MigrationInv'
<1>1. importing[c] \in Import
  BY DEF Noted, MigrationInv, MigrationTypeOK
<1>2. PICK r \in Import : r = importing[c]
  BY <1>1
<1>3. PICK m \in Journal : m = [r.journal EXCEPT !.mapped = @ \cup {r.saving}]
  <2>1. TrueCall(r) /\ handled \subseteq Logins /\ r.saved
    BY <1>2 DEF Noted, MigrationInv, MigrationTypeOK
  <2>2. r.journal \in Journal /\ r.saving \in Logins
    BY <2>1, CallFields DEF TrueCall
  <2>3. r.journal.mapped \cup {r.saving} \in SUBSET Logins
    BY <2>2, JournalFields
  <2> QED BY <2>2, <2>3, JournalFields
<1>4. PICK q \in Import : q = [[r EXCEPT !.saving = None, !.saved = FALSE] EXCEPT !.journal = m]
  <2>1. [r EXCEPT !.saving = None, !.saved = FALSE] \in Import
    BY CallFields
  <2> QED BY <2>1, CallFields
<1>5. /\ r # None /\ r.saved /\ turn' = c
      /\ importing' = [importing EXCEPT ![c] = q] /\ migration' = m
      /\ oldFile' = oldFile /\ entries' = entries /\ lastId' = lastId /\ handled' = handled
  BY <1>2, <1>3, <1>4 DEF Noted, Writes, vaultOf
<1>6. /\ entries \in Seq(Entry) /\ lastId \in 0..MaxEntries /\ handled \subseteq Logins
      /\ TrueCall(r)
  BY <1>2, <1>5 DEF MigrationInv, MigrationTypeOK
<1>7. /\ q.journal = m /\ ~q.saved /\ r.saving \in handled
      /\ Done(m) = Done(r.journal) \cup {r.saving} /\ m.hash = r.journal.hash
      /\ m.phase = r.journal.phase
  <2>1. r.journal \in Journal
    BY CallFields
  <2> QED BY <2>1, <1>3, <1>4, <1>5, <1>6 DEF TrueCall, Import, Journal, Done
<1>8. TrueJournal(m)'
  BY <1>5, <1>6, <1>7 DEF TrueCall, TrueJournal, Done
<1>9. TrueCall(q)'
  BY <1>7, <1>8 DEF TrueCall, TrueJournal
<1>10. q # None
  BY MigrationAssumption
<1> QED BY <1>5, <1>6, <1>7, <1>8, <1>9, <1>10, StepKeepsMigration

LEMMA LoopEndsKeeps ==
  ASSUME MigrationInv, NEW c \in Migrations, LoopEnds(c)
  PROVE  MigrationInv'
<1>1. importing[c] \in Import /\ ~importing[c].saved
  BY DEF LoopEnds, MigrationInv, MigrationTypeOK
<1>2. PICK r \in Import : r = importing[c]
  BY <1>1
<1>3. r.journal \in Journal /\ r # None
  BY CallFields, MigrationAssumption
<1>4. /\ handled \subseteq Logins /\ TrueCall(r) /\ ~r.saved
      /\ entries \in Seq(Entry) /\ lastId \in 0..MaxEntries
  BY <1>1, <1>2, <1>3 DEF MigrationInv, MigrationTypeOK
<1> DEFINE all == r.conflicts = {} /\ r.journal.hash \subseteq Done(r.journal)
<1>5. PICK m \in Journal : m = IF all THEN [r.journal EXCEPT !.phase = "validated"] ELSE r.journal
  BY <1>3, JournalFields
<1>6. PICK q \in Import \cup {None} :
        q = IF r.conflicts # {} /\ r.pass = 1 THEN [r EXCEPT !.pass = 2] ELSE None
  BY CallFields
<1>7. /\ turn' = None /\ migration' = m /\ importing' = [importing EXCEPT ![c] = q]
      /\ oldFile' = oldFile /\ entries' = entries /\ lastId' = lastId /\ handled' = handled
  BY <1>2, <1>5, <1>6 DEF LoopEnds, vaultOf
<1>8. TrueJournal(m)
  <2>1. CASE all
    <3>1. m.hash = r.journal.hash /\ Done(m) = Done(r.journal)
      BY <2>1, <1>3, <1>5 DEF Journal, Done
    <3> QED BY <2>1, <3>1, <1>4 DEF TrueCall, TrueJournal
  <2>2. CASE ~all
    BY <2>2, <1>4, <1>5 DEF TrueCall
  <2> QED BY <2>1, <2>2
<1>9. TrueJournal(m)'
  BY <1>7, <1>8 DEF TrueJournal
<1>10. ASSUME q # None PROVE TrueCall(q)'
  <2>1. q = [r EXCEPT !.pass = 2]
    BY <1>6, <1>10
  <2>2. q.journal = r.journal /\ q.saved = r.saved /\ q \in Import
    BY <1>10, <2>1 DEF Import
  <2> QED BY <1>4, <1>7, <2>2 DEF TrueCall, TrueJournal
<1>11. turn' # c
  BY <1>7, MigrationAssumption
<1> QED BY <1>4, <1>7, <1>9, <1>10, <1>11, StepKeepsMigration

LEMMA FailsKeeps ==
  ASSUME MigrationInv, NEW c \in Migrations, MigrationFails(c)
  PROVE  MigrationInv'
<1>1. /\ importing' = [importing EXCEPT ![c] = None] /\ turn' = None
      /\ migration' = migration /\ oldFile' = oldFile /\ handled' = handled
      /\ entries' = entries /\ lastId' = lastId
  BY DEF MigrationFails, vaultOf
<1>2. /\ entries \in Seq(Entry) /\ lastId \in 0..MaxEntries /\ handled \subseteq Logins
      /\ turn' # c
  BY <1>1, MigrationAssumption DEF MigrationInv, MigrationTypeOK
<1> QED BY <1>1, <1>2, StepKeepsMigration

LEMMA CleanupKeeps ==
  ASSUME MigrationInv, Cleanup
  PROVE  MigrationInv'
<1>1. entries \in Seq(Entry) /\ lastId \in 0..MaxEntries
  BY DEF MigrationInv, MigrationTypeOK
<1> QED BY <1>1, OutsideKeeps DEF Cleanup, vaultOf

LEMMA ChromeKeeps ==
  ASSUME MigrationInv, NEW n \in Names, ChromeCsv(n)
  PROVE  MigrationInv'
<1>1. /\ entries \in Seq(Entry) /\ lastId \in 0..MaxEntries
      /\ oldFile \in (SUBSET Logins) \cup {None}
  BY DEF MigrationInv, MigrationTypeOK
<1>2. lastId + 1 \in 1..MaxEntries
  BY <1>1, MigrationAssumption DEF ChromeCsv
<1>3. [id |-> lastId + 1, name |-> n, secret |-> None] \in Entry
  BY <1>2 DEF Entry
<1>4. <<[id |-> lastId + 1, name |-> n, secret |-> None]>> \o entries \in Seq(Entry)
  BY <1>1, <1>3
<1>5. lastId' \in 0..MaxEntries
  BY <1>2, MigrationAssumption DEF ChromeCsv
<1> QED BY <1>1, <1>4, <1>5, OutsideKeeps DEF ChromeCsv

LEMMA EditKeeps ==
  ASSUME MigrationInv, NEW i \in DOMAIN entries, NEW removes \in BOOLEAN, UserEdits(i, removes)
  PROVE  MigrationInv'
<1>1. /\ entries \in Seq(Entry) /\ lastId \in 0..MaxEntries
      /\ oldFile \in (SUBSET Logins) \cup {None}
  BY DEF MigrationInv, MigrationTypeOK
<1>2. PICK n \in Nat : n = Len(entries)
  BY <1>1
<1>3. i \in 1..n
  BY <1>1, <1>2
<1>4. entries' \in Seq(Entry)
  <2>1. CASE removes
    <3>1. SubSeq(entries, 1, i - 1) \in Seq(Entry) /\ SubSeq(entries, i + 1, n) \in Seq(Entry)
      BY <1>1, <1>2, <1>3, SubSeqProperties
    <3>2. entries' = SubSeq(entries, 1, i - 1) \o SubSeq(entries, i + 1, n)
      BY <2>1, <1>2 DEF UserEdits, Seqs!RemoveAt
    <3> QED BY <3>1, <3>2
  <2>2. CASE ~removes
    <3>1. entries' = [entries EXCEPT ![i].secret = None]
      BY <2>2 DEF UserEdits
    <3>2. entries[i] \in Entry
      BY <1>1, <1>2, <1>3
    <3>3. [entries[i] EXCEPT !.secret = None] \in Entry
      BY <3>2 DEF Entry
    <3>4. entries \in [1..n -> Entry]
      BY <1>1, <1>2
    <3>5. entries' \in [1..n -> Entry]
      BY <3>1, <3>3, <3>4
    <3> QED BY <3>5
  <2> QED BY <2>1, <2>2
<1> QED BY <1>1, <1>4, OutsideKeeps DEF UserEdits

LEMMA RestartsKeeps ==
  ASSUME MigrationInv, NEW more \in SUBSET Older, Restarts(more)
  PROVE  MigrationInv'
<1>1. oldFile' \in (SUBSET Logins) \cup {None}
  BY MigrationAssumption DEF Restarts, MigrationInv, MigrationTypeOK
<1>2. /\ importing' = [c \in Migrations |-> None] /\ turn' = None
      /\ migration' = migration /\ entries' = entries /\ lastId' = lastId
      /\ handled' = handled
  BY DEF Restarts, vaultOf
<1>3. MigrationTypeOK'
  BY <1>1, <1>2 DEF MigrationInv, MigrationTypeOK
<1>4. migration' # None => TrueJournal(migration)'
  BY <1>2 DEF MigrationInv, TrueJournal
<1> QED BY <1>2, <1>3, <1>4, MigrationAssumption DEF MigrationInv

(* Whatever two calls of migrateLegacyVault() write over each other and    *)
(* wherever the process stops, no journal names what was not handled.      *)
THEOREM MigrationInvariant == MigrationSpec => []MigrationInv
<1>1. MigrationInv /\ [MigrationNext]_migrationVars => MigrationInv'
  <2> SUFFICES ASSUME MigrationInv, [MigrationNext]_migrationVars PROVE MigrationInv'
    OBVIOUS
  <2>1. CASE UNCHANGED migrationVars
    BY <2>1 DEF migrationVars, MigrationInv, MigrationTypeOK, TrueCall, TrueJournal
  <2>2. ASSUME NEW c \in Migrations,
               MigrateLegacy(c) \/ LoginSaved(c) \/ Noted(c) \/ LoopEnds(c) \/ MigrationFails(c)
        PROVE  MigrationInv'
    BY <2>2, MigrateKeeps, LoginSavedKeeps, NotedKeeps, LoopEndsKeeps, FailsKeeps
  <2>3. ASSUME NEW c \in Migrations, NEW l \in Logins, Item(c, l) PROVE MigrationInv'
    BY <2>3, ItemKeeps
  <2>4. ASSUME NEW c \in Migrations, NEW replace \in SUBSET Logins, Decided(c, replace)
        PROVE  MigrationInv'
    BY <2>4, DecidedKeeps
  <2>5. CASE Cleanup
    BY <2>5, CleanupKeeps
  <2>6. ASSUME NEW n \in Names, ChromeCsv(n) PROVE MigrationInv'
    BY <2>6, ChromeKeeps
  <2>7. ASSUME NEW i \in DOMAIN entries, NEW removes \in BOOLEAN, UserEdits(i, removes)
        PROVE  MigrationInv'
    BY <2>7, EditKeeps
  <2>8. ASSUME NEW more \in SUBSET Older, Restarts(more) PROVE MigrationInv'
    BY <2>8, RestartsKeeps
  <2> QED BY <2>1, <2>2, <2>3, <2>4, <2>5, <2>6, <2>7, <2>8 DEF MigrationNext
<1> QED BY <1>1, MigrationInvHolds, PTL DEF MigrationSpec

(* A journal that says "validated", which lets the user delete the old     *)
(* passwords, was reached only when each of them was saved, found in the   *)
(* vault or given up.                                                      *)
THEOREM ValidatedIsHandled == MigrationSpec => []ValidatedMeansHandled
<1>1. MigrationInv => ValidatedMeansHandled
  BY DEF MigrationInv, TrueJournal, ValidatedMeansHandled
<1> QED BY <1>1, MigrationInvariant, PTL
=============================================================================
