----------------------- MODULE GenomeRepositoryProofs -----------------------
(***************************************************************************)
(* GenomeRepository for every set of ids and contents: the indices are     *)
(* sound, the best exists, and the database is a copy of the memory.       *)
(***************************************************************************)
EXTENDS GenomeRepository, FiniteSetTheorems, SequenceTheorems, TLAPS

IsRow(w) == w.op # "best"
PendingRow(i) == \E k \in DOMAIN writes : IsRow(writes[k]) /\ writes[k].id = i
PendingBest == \E k \in DOMAIN writes : ~IsRow(writes[k])

\* What the statements of the operation under way may be.
QueueInv ==
  \A k \in DOMAIN writes :
    /\ IsRow(writes[k]) => writes[k].id \in Ids
    /\ writes[k].op = "persist" => Len(writes) = 1 /\ writes[k].entry # None
    /\ writes[k].op = "delete" => writes[k].entry = None

\* While no statement has failed, the statements that are left bring the database to
\* the memory: what they do not touch is equal already, what they write is what the
\* memory holds, and a row is deleted only when best_id no longer names it.
CopyInv ==
  failures = 0 =>
    /\ \A i \in Ids : ~PendingRow(i) => rows[i] = genomes[i]
    /\ \A k \in DOMAIN writes : IsRow(writes[k]) => writes[k].entry = genomes[writes[k].id]
    /\ ~PendingBest => bestRow = bestId
    /\ \A k \in DOMAIN writes : ~IsRow(writes[k]) => writes[k].id = bestId
    /\ \A k \in DOMAIN writes : writes[k].op = "delete" =>
         \/ bestRow # writes[k].id
         \/ \E j \in DOMAIN writes : j < k /\ ~IsRow(writes[j])
    /\ bestRow # None => rows[bestRow] # None

\* Contents are unique in the memory and in the database.
UniqueInv ==
  failures = 0 /\ ~userStored =>
    /\ OneEntryPerContent
    /\ \A i, j \in Ids : rows[i] # None /\ rows[j] # None /\ rows[i].content = rows[j].content
         => i = j

RepositoryInv == TypeOK /\ QueueInv /\ IndexSound /\ BestExists /\ CopyInv /\ UniqueInv

(***************************************************************************)
(* Lemmas about the operators.                                             *)
(***************************************************************************)

Maps == [Ids -> Entries \cup {None}]
Indices == [Contents -> Ids \cup {None}]
Hashes == [Ids -> Contents \cup {None}]

SoundFor(map, index, hashes) ==
  /\ \A c \in Contents : index[c] # None =>
       map[index[c]] # None /\ map[index[c]].content = c /\ hashes[index[c]] = c
  /\ \A i \in Ids : hashes[i] # None => map[i] # None /\ map[i].content = hashes[i]

LEMMA Constants ==
  /\ None \notin Ids /\ None \notin Contents /\ None \notin Entries
  /\ IsFiniteSet(Ids) /\ MaxFailures \in Nat
PROOF BY RepositoryAssumption DEF RepositoryAssumption

\* Removing a set of genomes keeps the indices sound.
LEMMA RemovalSound ==
  ASSUME NEW map \in Maps, NEW index \in Indices, NEW hashes \in Hashes,
         SoundFor(map, index, hashes), NEW R \in SUBSET Ids
  PROVE  /\ Without(map, R) \in Maps
         /\ Unindexed(index, hashes, R) \in Indices
         /\ Without(hashes, R) \in Hashes
         /\ SoundFor(Without(map, R), Unindexed(index, hashes, R), Without(hashes, R))
PROOF
<1> USE Constants DEF Maps, Indices, Hashes
<1>1. Without(map, R) \in Maps /\ Without(hashes, R) \in Hashes BY DEF Without
<1>2. Unindexed(index, hashes, R) \in Indices BY DEF Unindexed
<1>3. SoundFor(Without(map, R), Unindexed(index, hashes, R), Without(hashes, R))
  BY DEF SoundFor, Without, Unindexed
<1> QED BY <1>1, <1>2, <1>3

LEMMA RemovalsFacts ==
  ASSUME NEW map, NEW best, NEW R \in Removals(map, best)
  PROVE  R \in SUBSET Ids /\ best \notin R
PROOF BY DEF Removals, Present

\* The statements of a prune delete exactly the removed genomes.
LEMMA DeleteAllFacts ==
  ASSUME NEW R \in SUBSET Ids, NEW q \in DeleteAll(R)
  PROVE  /\ q \in Seq(Statements)
         /\ \A k \in DOMAIN q : q[k].op = "delete" /\ q[k].id \in R /\ q[k].entry = None
         /\ \A i \in R : \E k \in DOMAIN q : q[k].id = i
PROOF
<1>1. Cardinality(R) \in Nat BY Constants, FS_Subset, FS_CardinalityType
<1>2. q \in [1..Cardinality(R) -> {Delete(i) : i \in R}] /\ Range(q) = {Delete(i) : i \in R}
  BY DEF DeleteAll
<1>3. {Delete(i) : i \in R} \subseteq Statements BY DEF Delete, Statements
<1>4. q \in [1..Cardinality(R) -> Statements] BY <1>2, <1>3
<1>5. q \in Seq(Statements) BY <1>1, <1>4, SeqDef
<1>6. ASSUME NEW k \in DOMAIN q
      PROVE  q[k].op = "delete" /\ q[k].id \in R /\ q[k].entry = None
  <2>1. q[k] \in {Delete(i) : i \in R} BY <1>2
  <2> QED BY <2>1 DEF Delete
<1>7. ASSUME NEW i \in R PROVE \E k \in DOMAIN q : q[k].id = i
  <2>1. Delete(i) \in Range(q) BY <1>2
  <2>2. PICK k \in DOMAIN q : q[k] = Delete(i) BY <2>1 DEF Range
  <2> QED BY <2>2 DEF Delete
<1> QED BY <1>5, <1>6, <1>7

\* The index that loadFromDb builds is sound.
LEMMA LoadedSound ==
  ASSUME NEW map \in Maps, NEW index \in Indices,
         \A c \in Contents : index[c] # None => map[index[c]] # None /\ map[index[c]].content = c
  PROVE  LET hashes == [i \in Ids |->
               IF map[i] # None THEN IF index[map[i].content] = i THEN map[i].content ELSE None
               ELSE None]
         IN  hashes \in Hashes /\ SoundFor(map, index, hashes)
PROOF BY Constants DEF Maps, Indices, Hashes, SoundFor, Entries

\* Between operations the database is a copy.
LEMMA CopyWhenReady ==
  ASSUME TypeOK, CopyInv, Ready, failures = 0
  PROVE  /\ rows = genomes /\ bestRow = bestId
         /\ bestRow # None => rows[bestRow] # None
PROOF
<1>1. DOMAIN writes = {} BY DEF Ready
<1>2. \A i \in Ids : rows[i] = genomes[i] BY <1>1 DEF CopyInv, PendingRow
<1>3. rows = genomes BY <1>2 DEF TypeOK
<1>4. bestRow = bestId BY <1>1 DEF CopyInv, PendingBest
<1>5. bestRow # None => rows[bestRow] # None BY DEF CopyInv
<1> QED BY <1>3, <1>4, <1>5

\* A single statement for a row.
LEMMA OneRowCopy ==
  ASSUME TypeOK, CopyInv, Ready, NEW id \in Ids, NEW entry \in Entries,
         writes' = <<Persist(id, entry)>>, genomes' = [genomes EXCEPT ![id] = entry],
         UNCHANGED <<bestId, database, failures>>
  PROVE  writes' \in Seq(Statements) /\ QueueInv' /\ CopyInv'
PROOF
<1>0. entry # None BY Constants
<1>1. /\ writes' \in Seq(Statements) /\ Len(writes') = 1 /\ DOMAIN writes' = {1}
      /\ writes'[1].op = "persist" /\ writes'[1].id = id /\ writes'[1].entry = entry
  BY DEF Persist, Statements
<1>2. QueueInv' BY <1>0, <1>1 DEF QueueInv, IsRow
<1>3. CopyInv'
  <2> SUFFICES ASSUME failures' = 0 PROVE CopyInv' BY DEF CopyInv
  <2>1. /\ rows = genomes /\ bestRow = bestId
        /\ bestRow # None => rows[bestRow] # None
    BY CopyWhenReady
  <2>2. UNCHANGED <<bestId, rows, bestRow>> BY DEF database
  <2>3. genomes'[id] = entry /\ \A i \in Ids : i # id => genomes'[i] = genomes[i]
    BY DEF TypeOK
  <2>4. \A i \in Ids : ~PendingRow(i)' => i # id BY <1>1 DEF PendingRow, IsRow
  <2>5. \A i \in Ids : ~PendingRow(i)' => rows'[i] = genomes'[i] BY <2>1, <2>2, <2>3, <2>4
  <2>6. \A k \in DOMAIN writes' : writes'[k].op = "persist" /\ writes'[k].entry = genomes'[writes'[k].id]
    BY <1>1, <2>3
  <2> QED BY <2>1, <2>2, <2>5, <2>6 DEF CopyInv, IsRow
<1> QED BY <1>1, <1>2, <1>3

\* The statements that delete a set of genomes, none of them the best.
LEMMA DeletesCopy ==
  ASSUME NEW R \in SUBSET Ids, writes' \in DeleteAll(R), UNCHANGED <<database, failures>>,
         failures = 0 => /\ genomes' = Without(rows, R) /\ bestId' = bestRow /\ bestRow \notin R
                         /\ bestRow # None => rows[bestRow] # None
  PROVE  writes' \in Seq(Statements) /\ QueueInv' /\ CopyInv'
PROOF
<1> DEFINE q == writes'
<1>1. /\ q \in Seq(Statements)
      /\ \A k \in DOMAIN q : q[k].op = "delete" /\ q[k].id \in R /\ q[k].entry = None
      /\ \A i \in R : \E k \in DOMAIN q : q[k].id = i
  BY DeleteAllFacts
<1>2. QueueInv' BY <1>1 DEF QueueInv, IsRow
<1>3. CopyInv'
  <2> SUFFICES ASSUME failures' = 0 PROVE CopyInv' BY DEF CopyInv
  <2>1. /\ genomes' = Without(rows, R) /\ bestId' = bestRow /\ bestRow \notin R
        /\ bestRow # None => rows[bestRow] # None
    OBVIOUS
  <2>2. UNCHANGED <<rows, bestRow>> BY DEF database
  <2>3. \A i \in Ids : genomes'[i] = IF i \in R THEN None ELSE rows[i] BY <2>1 DEF Without
  <2>4. \A i \in Ids : ~PendingRow(i)' => i \notin R BY <1>1 DEF PendingRow, IsRow
  <2>5. \A i \in Ids : ~PendingRow(i)' => rows'[i] = genomes'[i] BY <2>2, <2>3, <2>4
  <2>6. \A k \in DOMAIN q : q[k].entry = genomes'[q[k].id] BY <1>1, <2>3
  <2>7. \A k \in DOMAIN q : IsRow(q[k]) /\ bestRow' # q[k].id BY <1>1, <2>1, <2>2 DEF IsRow
  <2> QED BY <2>1, <2>2, <2>5, <2>6, <2>7 DEF CopyInv
<1> QED BY <1>1, <1>2, <1>3

(***************************************************************************)
(* Every step keeps the invariant.                                         *)
(***************************************************************************)

LEMMA InvInit == Init => RepositoryInv
PROOF
<1> SUFFICES ASSUME Init PROVE RepositoryInv OBVIOUS
<1> USE Constants
<1>1. DOMAIN writes = {} /\ writes \in Seq(Statements) BY DEF Init
<1>2. TypeOK
  <2>1. failures \in 0..MaxFailures BY DEF Init
  <2>2. userStored \in BOOLEAN BY Zenon DEF Init
  <2>3. /\ genomes \in [Ids -> Entries \cup {None}] /\ rows \in [Ids -> Entries \cup {None}]
        /\ hashToId \in [Contents -> Ids \cup {None}]
        /\ idToHash \in [Ids -> Contents \cup {None}]
    BY DEF Init
  <2> QED BY <1>1, <2>1, <2>2, <2>3 DEF Init, TypeOK
<1>3. QueueInv BY <1>1 DEF QueueInv
<1>4. IndexSound /\ BestExists BY DEF Init, IndexSound, BestExists
<1>5. CopyInv BY <1>1 DEF Init, CopyInv
<1>6. UniqueInv BY DEF Init, UniqueInv, OneEntryPerContent
<1> QED BY <1>2, <1>3, <1>4, <1>5, <1>6 DEF RepositoryInv

LEMMA InvStore ==
  ASSUME RepositoryInv, NEW id \in Ids, NEW entry \in Entries, Store(id, entry)
  PROVE  RepositoryInv'
PROOF
<1> USE Constants DEF RepositoryInv
<1>0. entry.content \in Contents BY DEF Entries
<1>1. writes' \in Seq(Statements) /\ QueueInv' /\ CopyInv'
  BY OneRowCopy DEF Store
<1>2. TypeOK' BY <1>0, <1>1 DEF TypeOK, Store, OldHashErased, database
<1>3. IndexSound'
  <2>1. ASSUME NEW c \in Contents, hashToId'[c] # None
        PROVE  /\ genomes'[hashToId'[c]] # None /\ genomes'[hashToId'[c]].content = c
               /\ idToHash'[hashToId'[c]] = c
    <3>1. CASE c = entry.content BY <1>0, <2>1, <3>1 DEF TypeOK, Store, OldHashErased
    <3>2. CASE c # entry.content
      <4>1. /\ hashToId'[c] = hashToId[c] /\ hashToId[c] \in Ids
            /\ ~(c = idToHash[id] /\ hashToId[c] = id)
        BY <1>0, <2>1, <3>2 DEF TypeOK, Store, OldHashErased
      <4>2. hashToId[c] # id BY <4>1 DEF IndexSound
      <4> QED BY <4>1, <4>2 DEF IndexSound, TypeOK, Store
    <3> QED BY <3>1, <3>2
  <2>2. \A i \in Ids : idToHash'[i] # None =>
          genomes'[i] # None /\ genomes'[i].content = idToHash'[i]
    BY <1>0 DEF IndexSound, TypeOK, Store
  <2> QED BY <2>1, <2>2 DEF IndexSound
<1>4. BestExists' BY DEF BestExists, TypeOK, Store
<1>5. UniqueInv' BY DEF UniqueInv, Store
<1> QED BY <1>1, <1>2, <1>3, <1>4, <1>5

LEMMA InvStoreOrUpdateByHash ==
  ASSUME RepositoryInv, NEW id \in Ids, NEW entry \in Entries, StoreOrUpdateByHash(id, entry)
  PROVE  RepositoryInv'
PROOF
<1> USE Constants DEF RepositoryInv
<1>0. entry.content \in Contents BY DEF Entries
<1>1. writes' \in Seq(Statements) /\ QueueInv' /\ CopyInv'
  BY OneRowCopy DEF StoreOrUpdateByHash
<1>2. TypeOK' BY <1>0, <1>1 DEF TypeOK, StoreOrUpdateByHash, database
\* No other hash leads to the id that is written.
<1>3. \A c \in Contents : hashToId[c] = id => c = entry.content
  BY <1>0 DEF IndexSound, StoreOrUpdateByHash
<1>4. IndexSound'
  <2>1. ASSUME NEW c \in Contents, hashToId'[c] # None
        PROVE  /\ genomes'[hashToId'[c]] # None /\ genomes'[hashToId'[c]].content = c
               /\ idToHash'[hashToId'[c]] = c
    BY <1>0, <1>3, <2>1 DEF IndexSound, TypeOK, StoreOrUpdateByHash
  <2>2. \A i \in Ids : idToHash'[i] # None =>
          genomes'[i] # None /\ genomes'[i].content = idToHash'[i]
    BY <1>0 DEF IndexSound, TypeOK, StoreOrUpdateByHash
  <2> QED BY <2>1, <2>2 DEF IndexSound
<1>5. BestExists' BY DEF BestExists, TypeOK, StoreOrUpdateByHash
<1>6. UniqueInv'
  <2> SUFFICES ASSUME failures' = 0, ~userStored' PROVE UniqueInv' BY DEF UniqueInv
  <2>1. failures = 0 /\ ~userStored BY DEF StoreOrUpdateByHash
  <2>2. \A i \in Ids : genomes'[i] # None => hashToId'[genomes'[i].content] = i
    BY <1>0, <2>1 DEF UniqueInv, OneEntryPerContent, TypeOK, Entries, StoreOrUpdateByHash
  <2> QED BY <2>1, <2>2 DEF UniqueInv, OneEntryPerContent, StoreOrUpdateByHash, database
<1> QED BY <1>1, <1>2, <1>4, <1>5, <1>6

LEMMA InvPrune ==
  ASSUME RepositoryInv, PruneManagedByFitness
  PROVE  RepositoryInv'
PROOF
<1> USE Constants DEF RepositoryInv
<1>0. PICK R \in Removals(genomes, bestId) :
        /\ genomes' = Without(genomes, R)
        /\ hashToId' = Unindexed(hashToId, idToHash, R)
        /\ idToHash' = Without(idToHash, R)
        /\ writes' \in DeleteAll(R)
  BY DEF PruneManagedByFitness
<1>1. R \in SUBSET Ids /\ bestId \notin R BY RemovalsFacts
<1>2. Ready /\ UNCHANGED <<bestId, database, rows, bestRow, failures, userStored>>
  BY DEF PruneManagedByFitness, database
<1> HIDE DEF RepositoryInv
<1>3. TypeOK /\ CopyInv /\ UniqueInv /\ BestExists /\ IndexSound BY DEF RepositoryInv
<1>4. writes' \in Seq(Statements) /\ QueueInv' /\ CopyInv'
  <2>1. failures = 0 => /\ genomes' = Without(rows, R) /\ bestId' = bestRow /\ bestRow \notin R
                        /\ bestRow # None => rows[bestRow] # None
    BY <1>0, <1>1, <1>2, <1>3, CopyWhenReady
  <2> QED BY <1>0, <1>1, <1>2, <2>1, DeletesCopy
<1>5. SoundFor(genomes, hashToId, idToHash) BY <1>3 DEF SoundFor, IndexSound
<1>6. genomes \in Maps /\ hashToId \in Indices /\ idToHash \in Hashes
  BY <1>3 DEF TypeOK, Maps, Indices, Hashes
<1>7. /\ genomes' \in Maps /\ hashToId' \in Indices /\ idToHash' \in Hashes
      /\ SoundFor(genomes', hashToId', idToHash')
  BY <1>0, <1>1, <1>5, <1>6, RemovalSound
<1>8. TypeOK' BY <1>2, <1>3, <1>4, <1>7 DEF TypeOK, Maps, Indices, Hashes
<1>9. IndexSound' BY <1>7 DEF SoundFor, IndexSound
<1>10. \A i \in Ids : genomes'[i] = IF i \in R THEN None ELSE genomes[i] BY <1>0 DEF Without
<1>11. BestExists' BY <1>1, <1>2, <1>3, <1>10 DEF BestExists, TypeOK
<1>12. UniqueInv'
  <2> SUFFICES ASSUME failures' = 0, ~userStored' PROVE UniqueInv' BY DEF UniqueInv
  <2>1. failures = 0 /\ ~userStored BY <1>2
  <2>2. ASSUME NEW i \in Ids, genomes'[i] # None PROVE hashToId'[genomes'[i].content] = i
    <3>1. i \notin R /\ genomes'[i] = genomes[i] /\ genomes[i] # None BY <1>10, <2>2
    <3>2. genomes[i].content \in Contents BY <1>3, <3>1 DEF TypeOK, Entries
    <3>3. hashToId[genomes[i].content] = i
      BY <1>3, <2>1, <3>1 DEF UniqueInv, OneEntryPerContent
    <3> QED BY <1>0, <3>1, <3>2, <3>3 DEF Unindexed
  <2> QED BY <1>2, <1>3, <2>1, <2>2 DEF UniqueInv, OneEntryPerContent
<1> QED BY <1>4, <1>8, <1>9, <1>11, <1>12 DEF RepositoryInv

LEMMA InvRemove ==
  ASSUME RepositoryInv, NEW id \in Ids, Remove(id)
  PROVE  RepositoryInv'
PROOF
<1> USE Constants
<1>1. /\ genomes' = Without(genomes, {id})
      /\ hashToId' = Unindexed(hashToId, idToHash, {id})
      /\ idToHash' = Without(idToHash, {id})
      /\ bestId' = IF bestId = id THEN None ELSE bestId
      /\ writes' = BestCleared(id) \o <<Delete(id)>>
      /\ Ready /\ UNCHANGED <<rows, bestRow, failures, userStored>>
  BY DEF Remove, database
<1>2. TypeOK /\ CopyInv /\ UniqueInv /\ BestExists /\ IndexSound BY DEF RepositoryInv
<1>3. writes' = IF bestId = id THEN <<PersistBest(None), Delete(id)>> ELSE <<Delete(id)>>
  BY <1>1 DEF BestCleared
<1>4. SoundFor(genomes, hashToId, idToHash) BY <1>2 DEF SoundFor, IndexSound
<1>5. genomes \in Maps /\ hashToId \in Indices /\ idToHash \in Hashes
  BY <1>2 DEF TypeOK, Maps, Indices, Hashes
<1>6. /\ genomes' \in Maps /\ hashToId' \in Indices /\ idToHash' \in Hashes
      /\ SoundFor(genomes', hashToId', idToHash')
  BY <1>1, <1>4, <1>5, RemovalSound
<1>7. writes' \in Seq(Statements)
  <2>1. PersistBest(None) \in Statements /\ Delete(id) \in Statements
    BY DEF Statements, PersistBest, Delete
  <2>2. <<PersistBest(None), Delete(id)>> \in Seq(Statements) BY <2>1
  <2>3. <<Delete(id)>> \in Seq(Statements) BY <2>1
  <2> QED BY <1>3, <2>2, <2>3
<1>8. TypeOK' BY <1>1, <1>2, <1>6, <1>7 DEF TypeOK, Maps, Indices, Hashes
<1>9. IndexSound' BY <1>6 DEF SoundFor, IndexSound
<1>10. \A i \in Ids : genomes'[i] = IF i = id THEN None ELSE genomes[i] BY <1>1 DEF Without
<1>11. BestExists' BY <1>1, <1>2, <1>10 DEF BestExists, TypeOK
<1>12. QueueInv' BY <1>3 DEF QueueInv, IsRow, PersistBest, Delete
<1>13. CopyInv'
  <2> SUFFICES ASSUME failures' = 0 PROVE CopyInv' BY DEF CopyInv
  <2>1. /\ rows = genomes /\ bestRow = bestId
        /\ bestRow # None => rows[bestRow] # None
    BY <1>1, <1>2, CopyWhenReady
  <2>2. \A i \in Ids : ~PendingRow(i)' => i # id
    BY <1>3 DEF PendingRow, IsRow, PersistBest, Delete
  <2>3. \A i \in Ids : ~PendingRow(i)' => rows'[i] = genomes'[i] BY <1>1, <1>10, <2>1, <2>2
  <2>4. CASE bestId = id
    <3>1. /\ DOMAIN writes' = 1..2 /\ writes'[1].op = "best" /\ writes'[1].id = None
          /\ writes'[2].op = "delete" /\ writes'[2].id = id /\ writes'[2].entry = None
      BY <1>3, <2>4 DEF PersistBest, Delete
    <3>2. bestId' = None BY <1>1, <2>4
    <3>3. PendingBest' BY <3>1 DEF PendingBest, IsRow
    <3>4. \A k \in DOMAIN writes' : IsRow(writes'[k]) =>
            k = 2 /\ writes'[k].entry = genomes'[writes'[k].id]
      BY <1>10, <3>1 DEF IsRow
    <3>5. \A k \in DOMAIN writes' : ~IsRow(writes'[k]) => writes'[k].id = bestId'
      BY <3>1, <3>2 DEF IsRow
    <3>6. \A k \in DOMAIN writes' : writes'[k].op = "delete" =>
            \E j \in DOMAIN writes' : j < k /\ ~IsRow(writes'[j])
      BY <3>1 DEF IsRow
    <3> QED BY <1>1, <2>1, <2>3, <3>3, <3>4, <3>5, <3>6 DEF CopyInv
  <2>5. CASE bestId # id
    <3>1. /\ DOMAIN writes' = {1}
          /\ writes'[1].op = "delete" /\ writes'[1].id = id /\ writes'[1].entry = None
      BY <1>3, <2>5 DEF Delete
    <3>2. bestId' = bestId BY <1>1, <2>5
    <3>3. \A k \in DOMAIN writes' : /\ IsRow(writes'[k]) /\ bestRow' # writes'[k].id
                                    /\ writes'[k].entry = genomes'[writes'[k].id]
      BY <1>1, <1>10, <2>1, <2>5, <3>1 DEF IsRow
    <3> QED BY <1>1, <2>1, <2>3, <3>2, <3>3 DEF CopyInv
  <2> QED BY <2>4, <2>5
<1>14. UniqueInv'
  <2> SUFFICES ASSUME failures' = 0, ~userStored' PROVE UniqueInv' BY DEF UniqueInv
  <2>1. failures = 0 /\ ~userStored BY <1>1
  <2>2. ASSUME NEW i \in Ids, genomes'[i] # None PROVE hashToId'[genomes'[i].content] = i
    <3>1. i # id /\ genomes'[i] = genomes[i] /\ genomes[i] # None BY <1>10, <2>2
    <3>2. genomes[i].content \in Contents BY <1>2, <3>1 DEF TypeOK, Entries
    <3>3. hashToId[genomes[i].content] = i
      BY <1>2, <2>1, <3>1 DEF UniqueInv, OneEntryPerContent
    <3> QED BY <1>1, <3>1, <3>2, <3>3 DEF Unindexed
  <2> QED BY <1>1, <1>2, <2>1, <2>2 DEF UniqueInv, OneEntryPerContent
<1> QED BY <1>8, <1>9, <1>11, <1>12, <1>13, <1>14 DEF RepositoryInv

LEMMA InvMarkAsBest ==
  ASSUME RepositoryInv, NEW id \in Ids, MarkAsBest(id)
  PROVE  RepositoryInv'
PROOF
<1> USE Constants
<1>1. /\ Ready /\ genomes[id] # None /\ bestId' = id
      /\ UNCHANGED <<genomes, hashToId, idToHash, rows, bestRow, failures, userStored>>
  BY DEF MarkAsBest, database
<1>2. TypeOK /\ CopyInv /\ UniqueInv /\ BestExists /\ IndexSound BY DEF RepositoryInv
<1>3. /\ writes' \in Seq(Statements) /\ DOMAIN writes' = {1}
      /\ writes'[1].op = "best" /\ writes'[1].id = id
  BY DEF MarkAsBest, PersistBest, Statements
<1>4. TypeOK' BY <1>1, <1>2, <1>3 DEF TypeOK
<1>5. IndexSound' BY <1>1, <1>2 DEF IndexSound
<1>6. BestExists' BY <1>1 DEF BestExists
<1>7. QueueInv' BY <1>3 DEF QueueInv, IsRow
<1>8. CopyInv'
  <2> SUFFICES ASSUME failures' = 0 PROVE CopyInv' BY DEF CopyInv
  <2>1. /\ rows = genomes /\ bestRow = bestId
        /\ bestRow # None => rows[bestRow] # None
    BY <1>1, <1>2, CopyWhenReady
  <2>2. PendingBest' BY <1>3 DEF PendingBest, IsRow
  <2> QED BY <1>1, <1>3, <2>1, <2>2 DEF CopyInv, IsRow
<1>9. UniqueInv' BY <1>1, <1>2 DEF UniqueInv, OneEntryPerContent
<1> QED BY <1>4, <1>5, <1>6, <1>7, <1>8, <1>9 DEF RepositoryInv

\* What is left of the statements once the first is done.
LEMMA TailFacts ==
  ASSUME writes \in Seq(Statements), writes # <<>>, writes' = Tail(writes)
  PROVE  /\ writes' \in Seq(Statements) /\ Len(writes') = Len(writes) - 1
         /\ 1 \in DOMAIN writes /\ Head(writes) = writes[1]
         /\ \A k \in DOMAIN writes' : k + 1 \in DOMAIN writes /\ writes'[k] = writes[k + 1]
         /\ \A k \in DOMAIN writes : k # 1 => k - 1 \in DOMAIN writes' /\ writes'[k - 1] = writes[k]
PROOF
<1>1. writes' \in Seq(Statements) /\ Len(writes') = Len(writes) - 1 OBVIOUS
<1>2. /\ DOMAIN writes = 1..Len(writes) /\ DOMAIN writes' = 1..(Len(writes) - 1)
      /\ Len(writes) \in Nat /\ Len(writes) > 0 /\ Head(writes) = writes[1]
  OBVIOUS
<1>3. \A k \in DOMAIN writes' : writes'[k] = writes[k + 1] OBVIOUS
<1> QED BY <1>1, <1>2, <1>3

LEMMA QueueTail ==
  ASSUME QueueInv, writes \in Seq(Statements), writes # <<>>, writes' = Tail(writes)
  PROVE  QueueInv'
PROOF
<1>1. ASSUME NEW k \in DOMAIN writes'
      PROVE  /\ IsRow(writes'[k]) => writes'[k].id \in Ids
             /\ writes'[k].op = "persist" => Len(writes') = 1 /\ writes'[k].entry # None
             /\ writes'[k].op = "delete" => writes'[k].entry = None
  <2>1. k + 1 \in DOMAIN writes /\ writes'[k] = writes[k + 1] BY TailFacts
  <2>2. Len(writes) # 1
    <3> SUFFICES ASSUME Len(writes) = 1 PROVE FALSE OBVIOUS
    <3>1. DOMAIN writes = 1..1 /\ k \in Nat /\ k >= 1 BY TailFacts
    <3> QED BY <2>1, <3>1
  <2> QED BY <2>1, <2>2 DEF QueueInv
<1> QED BY <1>1 DEF QueueInv

LEMMA InvWriteFails ==
  ASSUME RepositoryInv, WriteFails
  PROVE  RepositoryInv'
PROOF
<1> USE Constants
<1>1. /\ writes # <<>> /\ failures < MaxFailures /\ writes' = Tail(writes)
      /\ failures' = failures + 1
      /\ UNCHANGED <<genomes, hashToId, idToHash, bestId, rows, bestRow, userStored>>
  BY DEF WriteFails, memory, database
<1>2. TypeOK /\ QueueInv /\ BestExists /\ IndexSound BY DEF RepositoryInv
<1>3. writes \in Seq(Statements) BY <1>2 DEF TypeOK
<1>4. writes' \in Seq(Statements) /\ QueueInv' BY <1>1, <1>2, <1>3, TailFacts, QueueTail
<1>5. failures' \in 0..MaxFailures /\ failures' # 0 BY <1>1, <1>2 DEF TypeOK
<1>6. TypeOK' BY <1>1, <1>2, <1>4, <1>5 DEF TypeOK
<1>7. IndexSound' /\ BestExists' BY <1>1, <1>2 DEF IndexSound, BestExists
<1>8. CopyInv' /\ UniqueInv' BY <1>5 DEF CopyInv, UniqueInv
<1> QED BY <1>4, <1>6, <1>7, <1>8 DEF RepositoryInv

LEMMA InvWriteDone ==
  ASSUME RepositoryInv, WriteDone
  PROVE  RepositoryInv'
PROOF
<1> USE Constants
<1> DEFINE w == Head(writes)
<1>1. /\ writes # <<>> /\ writes' = Tail(writes)
      /\ rows' = IF w.op = "best" THEN rows ELSE [rows EXCEPT ![w.id] = w.entry]
      /\ bestRow' = IF w.op = "best" THEN w.id ELSE bestRow
      /\ UNCHANGED <<genomes, hashToId, idToHash, bestId, failures, userStored>>
  BY DEF WriteDone, memory
<1>2. TypeOK /\ QueueInv /\ BestExists /\ IndexSound /\ CopyInv /\ UniqueInv BY DEF RepositoryInv
<1>3. writes \in Seq(Statements) BY <1>2 DEF TypeOK
<1>4. writes' \in Seq(Statements) /\ QueueInv' BY <1>1, <1>2, <1>3, TailFacts, QueueTail
<1>5. /\ 1 \in DOMAIN writes /\ w = writes[1]
      /\ \A k \in DOMAIN writes' : k + 1 \in DOMAIN writes /\ writes'[k] = writes[k + 1]
      /\ \A k \in DOMAIN writes : k # 1 => k - 1 \in DOMAIN writes' /\ writes'[k - 1] = writes[k]
  BY <1>1, <1>3, TailFacts
<1>6. DOMAIN writes \subseteq Nat /\ DOMAIN writes' \subseteq Nat BY <1>3, <1>4
<1>7. w \in Statements BY <1>3, <1>5
<1>8. /\ w.op # "best" => w.id \in Ids
      /\ w.op = "persist" => Len(writes) = 1 /\ w.entry # None
      /\ w.op = "delete" => w.entry = None
      /\ w.op \in {"persist", "delete", "best"} /\ w.id \in Ids \cup {None}
      /\ w.entry \in Entries \cup {None}
  BY <1>2, <1>5, <1>7 DEF QueueInv, IsRow, Statements
<1> HIDE DEF w
<1>9. /\ rows \in [Ids -> Entries \cup {None}] /\ rows' \in [Ids -> Entries \cup {None}]
      /\ bestRow' \in Ids \cup {None}
  BY <1>1, <1>2, <1>8 DEF TypeOK
<1>10. TypeOK' BY <1>1, <1>2, <1>4, <1>9 DEF TypeOK
<1>11. IndexSound' /\ BestExists' BY <1>1, <1>2 DEF IndexSound, BestExists
<1>12. \A i \in Ids : rows'[i] = IF w.op # "best" /\ w.id = i THEN w.entry ELSE rows[i]
  BY <1>1, <1>9
\* A statement of a row that is not the first is still to come.
<1>13. \A i \in Ids : ~PendingRow(i)' => ~PendingRow(i) \/ (w.op # "best" /\ w.id = i)
  BY <1>5 DEF PendingRow, IsRow
<1>14. CopyInv'
  <2> SUFFICES ASSUME failures' = 0 PROVE CopyInv' BY DEF CopyInv
  <2>1. /\ \A i \in Ids : ~PendingRow(i) => rows[i] = genomes[i]
        /\ \A k \in DOMAIN writes : IsRow(writes[k]) => writes[k].entry = genomes[writes[k].id]
        /\ ~PendingBest => bestRow = bestId
        /\ \A k \in DOMAIN writes : ~IsRow(writes[k]) => writes[k].id = bestId
        /\ \A k \in DOMAIN writes : writes[k].op = "delete" =>
             \/ bestRow # writes[k].id
             \/ \E j \in DOMAIN writes : j < k /\ ~IsRow(writes[j])
        /\ bestRow # None => rows[bestRow] # None
    BY <1>1, <1>2 DEF CopyInv
  <2>2. \A i \in Ids : ~PendingRow(i)' => rows'[i] = genomes'[i]
    BY <1>1, <1>5, <1>12, <1>13, <2>1 DEF IsRow
  <2>3. /\ \A k \in DOMAIN writes' : IsRow(writes'[k]) => writes'[k].entry = genomes'[writes'[k].id]
        /\ \A k \in DOMAIN writes' : ~IsRow(writes'[k]) => writes'[k].id = bestId'
    BY <1>1, <1>5, <2>1
  <2>4. CASE w.op = "best"
    <3>1. bestRow' = bestId' BY <1>1, <1>5, <2>1, <2>4 DEF IsRow
    <3>2. \A k \in DOMAIN writes' : writes'[k].op = "delete" => bestRow' # writes'[k].id
      <4> SUFFICES ASSUME NEW k \in DOMAIN writes', writes'[k].op = "delete",
                          bestRow' = writes'[k].id
                   PROVE  FALSE
        OBVIOUS
      <4>1. writes'[k].id \in Ids /\ writes'[k].entry = None BY <1>4 DEF QueueInv, IsRow
      <4>2. genomes'[writes'[k].id] = None BY <2>3, <4>1 DEF IsRow
      <4> QED BY <1>11, <3>1, <4>1, <4>2 DEF BestExists
    <3>3. bestRow' # None => rows'[bestRow'] # None
      <4> SUFFICES ASSUME bestRow' # None PROVE rows'[bestRow'] # None OBVIOUS
      <4>1. bestRow' \in Ids /\ genomes'[bestRow'] # None BY <1>9, <1>11, <3>1 DEF BestExists
      <4>2. ASSUME NEW i \in Ids, genomes'[i] # None PROVE ~PendingRow(i)'
        <5> SUFFICES ASSUME NEW k \in DOMAIN writes', IsRow(writes'[k]), writes'[k].id = i
                     PROVE  FALSE
          BY DEF PendingRow
        <5>1. writes'[k].entry # None BY <2>3, <4>2
        <5>2. writes'[k].op # "delete" BY <1>4, <5>1 DEF QueueInv
        <5>3. writes[k + 1] = writes'[k] /\ k + 1 \in DOMAIN writes /\ writes'[k] \in Statements
          BY <1>4, <1>5
        <5>4. writes[k + 1].op = "persist" BY <5>2, <5>3 DEF IsRow, Statements
        <5>5. Len(writes) = 1 BY <1>2, <5>3, <5>4 DEF QueueInv
        <5>6. k + 1 = 1 BY <1>3, <5>3, <5>5
        <5> QED BY <1>5, <2>4, <5>4, <5>6
      <4> QED BY <1>1, <2>2, <4>1, <4>2
    <3> QED BY <2>2, <2>3, <3>1, <3>2, <3>3 DEF CopyInv
  <2>5. CASE w.op # "best"
    <3>1. bestRow' = bestRow BY <1>1, <2>5
    <3>2. ~PendingBest' => bestRow' = bestId'
      <4>1. PendingBest => PendingBest'
        <5> SUFFICES ASSUME NEW k \in DOMAIN writes, ~IsRow(writes[k]) PROVE PendingBest'
          BY DEF PendingBest
        <5>1. k # 1 BY <1>5, <2>5 DEF IsRow
        <5> QED BY <1>5, <5>1 DEF PendingBest
      <4> QED BY <1>1, <2>1, <3>1, <4>1
    <3>3. ASSUME NEW k \in DOMAIN writes', writes'[k].op = "delete", bestRow' = writes'[k].id
          PROVE  \E j \in DOMAIN writes' : j < k /\ ~IsRow(writes'[j])
      <4>1. PICK j \in DOMAIN writes : j < k + 1 /\ ~IsRow(writes[j]) BY <1>5, <2>1, <3>1, <3>3
      <4>2. j # 1 BY <1>5, <2>5, <4>1 DEF IsRow
      <4>3. j - 1 \in DOMAIN writes' /\ writes'[j - 1] = writes[j] BY <1>5, <4>2
      <4> QED BY <1>6, <4>1, <4>3
    <3>4. bestRow' # None => rows'[bestRow'] # None
      <4> SUFFICES ASSUME bestRow # None PROVE rows'[bestRow] # None BY <3>1
      <4>1. bestRow \in Ids /\ rows[bestRow] # None BY <1>2, <2>1 DEF TypeOK
      <4>2. w.op = "delete" => bestRow # w.id BY <1>5, <1>6, <2>1
      <4> QED BY <1>8, <1>12, <2>5, <4>1, <4>2
    <3> QED BY <2>2, <2>3, <3>2, <3>3, <3>4 DEF CopyInv
  <2> QED BY <2>4, <2>5
<1>15. UniqueInv'
  <2> SUFFICES ASSUME failures' = 0, ~userStored' PROVE UniqueInv' BY DEF UniqueInv
  <2>1. failures = 0 /\ ~userStored BY <1>1
  <2>2. /\ \A i \in Ids : genomes[i] # None => hashToId[genomes[i].content] = i
        /\ \A i, j \in Ids : rows[i] # None /\ rows[j] # None /\ rows[i].content = rows[j].content
             => i = j
    BY <1>2, <2>1 DEF UniqueInv, OneEntryPerContent
  <2>3. CASE w.op = "persist"
    <3>1. \A i \in Ids : i # w.id => ~PendingRow(i)
      BY <1>3, <1>5, <1>8, <2>3 DEF PendingRow
    <3>2. \A i \in Ids : rows'[i] = genomes[i]
      BY <1>2, <1>5, <1>12, <2>1, <2>3, <3>1 DEF CopyInv, IsRow
    <3> QED BY <1>1, <2>2, <3>2 DEF UniqueInv, OneEntryPerContent
  <2>4. CASE w.op # "persist"
    <3>1. \A i \in Ids : rows'[i] = rows[i] \/ rows'[i] = None BY <1>8, <1>12, <2>4
    <3> QED BY <1>1, <2>2, <3>1 DEF UniqueInv, OneEntryPerContent
  <2> QED BY <2>3, <2>4
<1> QED BY <1>4, <1>10, <1>11, <1>14, <1>15 DEF RepositoryInv

LEMMA InvRestart ==
  ASSUME RepositoryInv, Restart
  PROVE  RepositoryInv'
PROOF
<1> USE Constants
<1> DEFINE Loaded(index) == [i \in Ids |->
      IF rows[i] # None THEN IF index[rows[i].content] = i THEN rows[i].content ELSE None
      ELSE None]
<1>0. PICK index \in LoadedIndex, R \in Removals(rows, LoadedBest) :
        /\ genomes' = Without(rows, R)
        /\ hashToId' = Unindexed(index, Loaded(index), R)
        /\ idToHash' = Without(Loaded(index), R)
        /\ bestId' = LoadedBest
        /\ writes' \in DeleteAll(R)
        /\ UNCHANGED <<database, failures, userStored>>
  BY DEF Restart
<1> DEFINE hashes == Loaded(index)
<1>1. R \in SUBSET Ids /\ LoadedBest \notin R BY RemovalsFacts
<1>2. UNCHANGED <<rows, bestRow, failures, userStored>> BY <1>0 DEF database
<1>3. TypeOK /\ CopyInv /\ UniqueInv BY DEF RepositoryInv
<1>4. rows \in Maps /\ index \in Indices
  BY <1>3 DEF TypeOK, Maps, Indices, LoadedIndex
<1>5. ASSUME NEW c \in Contents, index[c] # None
      PROVE  rows[index[c]] # None /\ rows[index[c]].content = c
  BY <1>5 DEF LoadedIndex, Present
<1>6. hashes \in Hashes /\ SoundFor(rows, index, hashes) BY <1>4, <1>5, LoadedSound
<1> HIDE DEF hashes
<1>7. /\ genomes' \in Maps /\ hashToId' \in Indices /\ idToHash' \in Hashes
      /\ SoundFor(genomes', hashToId', idToHash')
  <2>1. /\ genomes' = Without(rows, R) /\ hashToId' = Unindexed(index, hashes, R)
        /\ idToHash' = Without(hashes, R)
    BY <1>0 DEF hashes
  <2> QED BY <1>1, <1>4, <1>6, <2>1, RemovalSound
<1>8. writes' \in Seq(Statements) /\ QueueInv' /\ CopyInv'
  <2>1. failures = 0 => /\ genomes' = Without(rows, R) /\ bestId' = bestRow /\ bestRow \notin R
                        /\ bestRow # None => rows[bestRow] # None
    BY <1>0, <1>1, <1>3 DEF CopyInv, TypeOK, LoadedBest, Present
  <2>2. UNCHANGED <<database, failures>> BY <1>0
  <2> QED BY <1>0, <1>1, <2>1, <2>2, DeletesCopy
<1>9. bestId' \in Ids \cup {None} BY <1>0 DEF LoadedBest, Present
<1>10. TypeOK' BY <1>2, <1>3, <1>7, <1>8, <1>9 DEF TypeOK, Maps, Indices, Hashes
<1>11. IndexSound' BY <1>7 DEF SoundFor, IndexSound
<1>12. \A i \in Ids : genomes'[i] = IF i \in R THEN None ELSE rows[i] BY <1>0 DEF Without
<1>13. BestExists' BY <1>0, <1>1, <1>12 DEF BestExists, LoadedBest, Present
<1>14. UniqueInv'
  <2> SUFFICES ASSUME failures' = 0, ~userStored' PROVE UniqueInv' BY DEF UniqueInv
  <2>1. failures = 0 /\ ~userStored BY <1>2
  <2>2. \A i, j \in Ids : rows[i] # None /\ rows[j] # None /\ rows[i].content = rows[j].content
          => i = j
    BY <1>3, <2>1 DEF UniqueInv
  <2>3. ASSUME NEW i \in Ids, genomes'[i] # None PROVE hashToId'[genomes'[i].content] = i
    <3>1. i \notin R /\ genomes'[i] = rows[i] /\ rows[i] # None BY <1>12, <2>3
    <3>2. rows[i].content \in Contents BY <1>4, <3>1 DEF Maps, Entries
    \* The only row with the content is its own.
    <3>3. index[rows[i].content] = i
      <4> DEFINE owners == {j \in Present(rows) : rows[j].content = rows[i].content}
      <4>1. owners = {i} BY <2>2, <3>1 DEF Present
      <4>2. index[rows[i].content] \in owners BY <3>2, <4>1 DEF LoadedIndex
      <4> QED BY <4>1, <4>2
    <3> QED BY <1>0, <3>1, <3>2, <3>3 DEF Unindexed
  <2> QED BY <1>2, <2>2, <2>3 DEF UniqueInv, OneEntryPerContent
<1> QED BY <1>8, <1>10, <1>11, <1>13, <1>14 DEF RepositoryInv

LEMMA InvStutter ==
  ASSUME RepositoryInv, UNCHANGED vars
  PROVE  RepositoryInv'
PROOF
<1>1. /\ UNCHANGED <<genomes, hashToId, idToHash, bestId>> /\ UNCHANGED <<rows, bestRow>>
      /\ UNCHANGED <<writes, failures, userStored>>
  BY DEF vars, memory, database
<1>2. TypeOK' BY <1>1 DEF RepositoryInv, TypeOK
<1>3. QueueInv' /\ IndexSound' /\ BestExists' BY <1>1 DEF RepositoryInv, QueueInv, IndexSound, BestExists
<1>4. CopyInv' BY <1>1 DEF RepositoryInv, CopyInv, PendingRow, PendingBest
<1>5. UniqueInv' BY <1>1 DEF RepositoryInv, UniqueInv, OneEntryPerContent
<1> QED BY <1>2, <1>3, <1>4, <1>5 DEF RepositoryInv

LEMMA InvNext == RepositoryInv /\ [Next]_vars => RepositoryInv'
PROOF
<1> SUFFICES ASSUME RepositoryInv, [Next]_vars PROVE RepositoryInv' OBVIOUS
<1>1. ASSUME NEW id \in Ids, NEW entry \in Entries, Store(id, entry) PROVE RepositoryInv'
  BY <1>1, InvStore
<1>2. ASSUME NEW id \in Ids, NEW entry \in Entries, StoreOrUpdateByHash(id, entry)
      PROVE  RepositoryInv'
  BY <1>2, InvStoreOrUpdateByHash
<1>3. ASSUME NEW id \in Ids, Remove(id) PROVE RepositoryInv' BY <1>3, InvRemove
<1>4. ASSUME NEW id \in Ids, MarkAsBest(id) PROVE RepositoryInv' BY <1>4, InvMarkAsBest
<1>5. CASE PruneManagedByFitness BY <1>5, InvPrune
<1>6. CASE WriteDone BY <1>6, InvWriteDone
<1>7. CASE WriteFails BY <1>7, InvWriteFails
<1>8. CASE Restart BY <1>8, InvRestart
<1>9. CASE UNCHANGED vars BY <1>9, InvStutter
<1> QED BY <1>1, <1>2, <1>3, <1>4, <1>5, <1>6, <1>7, <1>8, <1>9 DEF Next

(***************************************************************************)
(* The theorems.                                                           *)
(***************************************************************************)

\* The invariant holds in every reachable state.
THEOREM RepositoryInvariant == Spec => []RepositoryInv
PROOF BY InvInit, InvNext, PTL DEF Spec

\* The types of the memory, the database and the statements under way.
THEOREM RepositoryTypes == Spec => []TypeOK
PROOF
<1>1. RepositoryInv => TypeOK BY DEF RepositoryInv
<1> QED BY <1>1, RepositoryInvariant, PTL

\* hashToId_ and idToHash_ never lead to a genome that is gone or has other content,
\* with any number of failing statements and crashes.
THEOREM IndicesAreSound == Spec => []IndexSound
PROOF
<1>1. RepositoryInv => IndexSound BY DEF RepositoryInv
<1> QED BY <1>1, RepositoryInvariant, PTL

\* bestId_ is the id of a stored genome, also after loading a database whose best_id
\* has lost its row.
THEOREM TheBestExists == Spec => []BestExists
PROOF
<1>1. RepositoryInv => BestExists BY DEF RepositoryInv
<1> QED BY <1>1, RepositoryInvariant, PTL

\* Between operations the database equals the memory until a statement fails, however
\* often the server crashes in the middle of an operation.
THEOREM DatabaseIsACopy == Spec => []WriteThrough
PROOF
<1>1. RepositoryInv => WriteThrough BY CopyWhenReady DEF RepositoryInv, WriteThrough
<1> QED BY <1>1, RepositoryInvariant, PTL

\* Without store() and without failing statements, storeOrUpdateByHash keeps one
\* genome per content.
THEOREM ContentsAreUnique == Spec => []OneEntryPerContent
PROOF
<1>1. RepositoryInv => OneEntryPerContent
  BY DEF RepositoryInv, UniqueInv, OneEntryPerContent
<1> QED BY <1>1, RepositoryInvariant, PTL
=============================================================================
