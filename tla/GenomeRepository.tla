-------------------------- MODULE GenomeRepository --------------------------
(***************************************************************************)
(* core/organisms/evolution/GenomeRepository.cpp: the genomes the server   *)
(* keeps in memory, the two indices of their content hashes, the id of the *)
(* best one, and the SQLite copy that is written through and loaded when   *)
(* the server starts.                                                      *)
(*                                                                         *)
(* Every operation holds the repository's mutex, changes the memory and    *)
(* then writes to the database, statement by statement; a statement that   *)
(* fails is logged and forgotten (execDb).  The server may crash before    *)
(* each statement.  So an operation is one step that queues its            *)
(* statements, and no other operation begins before they are done.         *)
(*                                                                         *)
(* A genome's content is what computeContentHash hashes (weights, scenario,*)
(* organism and brain); two contents never share a hash.  genomes_ and     *)
(* metadata_ always have the same ids and are one map here.  Of the        *)
(* metadata, an entry has its effective robust fitness and its bucket,     *)
(* which are left open when metadata are merged, and whether a training    *)
(* session manages it.  clear(), which only tests call, and the rows       *)
(* without a hash that an older version wrote are left out.                *)
(***************************************************************************)
EXTENDS Integers, Sequences, FiniteSets, Functions

CONSTANTS
  Ids,          \* genome ids
  Contents,     \* contents, and their hashes
  Buckets,      \* organism type, brain kind and genome pool
  Scores,       \* effective robust fitness
  MaxManaged,   \* genomeArchiveMaxSize, 0 for no limit
  MaxFailures,  \* bound on the number of failing statements
  None          \* no entry, no id, no hash

Entries == [content : Contents, bucket : Buckets, score : Scores, managed : BOOLEAN]

ASSUME RepositoryAssumption ==
  /\ IsFiniteSet(Ids) /\ Scores \subseteq Int
  /\ MaxManaged \in Nat /\ MaxFailures \in Nat
  /\ None \notin Ids /\ None \notin Contents /\ None \notin Entries

VARIABLES
  genomes,     \* genomes_ and metadata_
  hashToId,    \* hashToId_
  idToHash,    \* idToHash_
  bestId,      \* bestId_
  rows,        \* the table genomes
  bestRow,     \* best_id in the table repository_state
  writes,      \* statements of the operation under way
  failures,    \* statements that have failed so far
  userStored   \* store() has been called (history)

memory == <<genomes, hashToId, idToHash, bestId>>
database == <<rows, bestRow>>
vars == <<memory, database, writes, failures, userStored>>

Present(map) == {i \in Ids : map[i] # None}
Ready == writes = <<>>
-----------------------------------------------------------------------------
(* The statements.                                                         *)

\* persistGenome
Persist(id, entry) == [op |-> "persist", id |-> id, entry |-> entry]

\* deleteGenome
Delete(id) == [op |-> "delete", id |-> id, entry |-> None]

\* persistBestId
PersistBest(id) == [op |-> "best", id |-> id, entry |-> None]

\* A statement is executed in a transaction of its own.
WriteDone ==
  LET w == Head(writes) IN
  /\ writes # <<>>
  /\ rows' = IF w.op = "best" THEN rows ELSE [rows EXCEPT ![w.id] = w.entry]
  /\ bestRow' = IF w.op = "best" THEN w.id ELSE bestRow
  /\ writes' = Tail(writes)
  /\ UNCHANGED <<memory, failures, userStored>>

\* execDb catches the exception and the operation goes on.
WriteFails ==
  /\ writes # <<>> /\ failures < MaxFailures
  /\ writes' = Tail(writes)
  /\ failures' = failures + 1
  /\ UNCHANGED <<memory, database, userStored>>
-----------------------------------------------------------------------------
(* Removing genomes from memory (removeNoLock).                            *)

Without(map, R) == [i \in Ids |-> IF i \in R THEN None ELSE map[i]]

\* An entry of hashToId_ goes with its genome, if it is that genome's.
Unindexed(index, hashes, R) ==
  [c \in Contents |->
     IF index[c] \in R /\ hashes[index[c]] = c THEN None ELSE index[c]]

Managed(map, b) == {i \in Present(map) : map[i].managed /\ map[i].bucket = b}

\* pruneManagedByFitness: the sets of genomes it may remove, the lowest scores of
\* each bucket that is too large, but never the best.  Ties are broken by time and
\* id, which are left open.
Removals(map, best) ==
  {R \in SUBSET (Present(map) \ {best}) :
     \A b \in Buckets :
       LET bucket == Managed(map, b)
           excess == Cardinality(bucket) - MaxManaged
           candidates == bucket \ {best}
       IN  /\ R \subseteq UNION {Managed(map, d) : d \in Buckets}
           /\ IF MaxManaged = 0 \/ excess <= 0 THEN R \cap bucket = {}
              ELSE /\ Cardinality(R \cap bucket) =
                        IF excess <= Cardinality(candidates) THEN excess
                        ELSE Cardinality(candidates)
                   /\ \A r \in R \cap bucket, k \in candidates \ R :
                        map[r].score <= map[k].score}

\* The statements of a prune, in some order.
DeleteAll(R) ==
  {q \in [1..Cardinality(R) -> {Delete(i) : i \in R}] : Range(q) = {Delete(i) : i \in R}}
-----------------------------------------------------------------------------
(* The operations.                                                         *)

Init ==
  /\ genomes = [i \in Ids |-> None] /\ hashToId = [c \in Contents |-> None]
  /\ idToHash = [i \in Ids |-> None] /\ bestId = None
  /\ rows = [i \in Ids |-> None] /\ bestRow = None
  /\ writes = <<>> /\ failures = 0 /\ userStored = FALSE

OldHashKept(id, content) == hashToId

\* The hash of what the id held before no longer leads to it.
OldHashErased(id, content) ==
  [c \in Contents |->
     IF c = idToHash[id] /\ c # content /\ hashToId[c] = id THEN None ELSE hashToId[c]]

\* store, from the command GenomeSet: any content at any id.
Store(id, entry) ==
  /\ Ready
  /\ genomes' = [genomes EXCEPT ![id] = entry]
  /\ hashToId' = [OldHashErased(id, entry.content) EXCEPT ![entry.content] = id]
  /\ idToHash' = [idToHash EXCEPT ![id] = entry.content]
  /\ writes' = <<Persist(id, entry)>>
  /\ userStored' = TRUE
  /\ UNCHANGED <<bestId, database, failures>>

\* storeOrUpdateByHash, from the training loop: the id that has the content, or a new
\* one.  The metadata of the two are merged; the merged score is left open.
StoreOrUpdateByHash(id, entry) ==
  /\ Ready /\ entry.managed
  /\ IF hashToId[entry.content] # None THEN id = hashToId[entry.content]
     ELSE genomes[id] = None
  /\ genomes' = [genomes EXCEPT ![id] = entry]
  /\ hashToId' = [hashToId EXCEPT ![entry.content] = id]
  /\ idToHash' = [idToHash EXCEPT ![id] = entry.content]
  /\ writes' = <<Persist(id, entry)>>
  /\ UNCHANGED <<bestId, database, failures, userStored>>

PruneManagedByFitness ==
  /\ Ready
  /\ \E R \in Removals(genomes, bestId) :
       /\ genomes' = Without(genomes, R)
       /\ hashToId' = Unindexed(hashToId, idToHash, R)
       /\ idToHash' = Without(idToHash, R)
       /\ writes' \in DeleteAll(R)
  /\ UNCHANGED <<bestId, database, failures, userStored>>

BestNotCleared(id) == <<>>

\* Removing the best writes that there is none.
BestCleared(id) == IF bestId = id THEN <<PersistBest(None)>> ELSE <<>>

\* remove, from the command GenomeDelete, which checks that the genome exists.
Remove(id) ==
  /\ Ready /\ genomes[id] # None
  /\ genomes' = Without(genomes, {id})
  /\ hashToId' = Unindexed(hashToId, idToHash, {id})
  /\ idToHash' = Without(idToHash, {id})
  /\ bestId' = IF bestId = id THEN None ELSE bestId
  /\ writes' = BestCleared(id) \o <<Delete(id)>>
  /\ UNCHANGED <<database, failures, userStored>>

\* markAsBest
MarkAsBest(id) ==
  /\ Ready /\ genomes[id] # None
  /\ bestId' = id
  /\ writes' = <<PersistBest(id)>>
  /\ UNCHANGED <<genomes, hashToId, idToHash, database, failures, userStored>>

LoadedWithoutIndex == {[c \in Contents |-> None]}

\* loadFromDb reads the rows in any order: a hash leads to the first of its rows
\* with the highest score.
LoadedIndex ==
  {index \in [Contents -> Ids \cup {None}] :
     \A c \in Contents :
       LET owners == {i \in Present(rows) : rows[i].content = c} IN
       IF owners = {} THEN index[c] = None
       ELSE index[c] \in {i \in owners : \A j \in owners : rows[j].score <= rows[i].score}}

LoadedBestUnchecked == bestRow

\* ... and best_id counts only if its genome was loaded.
LoadedBest == IF bestRow \in Present(rows) THEN bestRow ELSE None

\* The server crashes, or exits, and starts again: loadFromDb, and then the prune of
\* StateMachine's constructor.
Restart ==
  \E index \in LoadedIndex : \E R \in Removals(rows, LoadedBest) :
    LET hashes == [i \in Ids |->
          IF rows[i] # None THEN IF index[rows[i].content] = i THEN rows[i].content ELSE None
          ELSE None]
    IN  /\ genomes' = Without(rows, R)
        /\ hashToId' = Unindexed(index, hashes, R)
        /\ idToHash' = Without(hashes, R)
        /\ bestId' = LoadedBest
        /\ writes' \in DeleteAll(R)
        /\ UNCHANGED <<database, failures, userStored>>

Next ==
  \/ \E id \in Ids, entry \in Entries : Store(id, entry) \/ StoreOrUpdateByHash(id, entry)
  \/ \E id \in Ids : Remove(id) \/ MarkAsBest(id)
  \/ PruneManagedByFitness \/ WriteDone \/ WriteFails \/ Restart

Spec == Init /\ [][Next]_vars
-----------------------------------------------------------------------------
(* Properties.                                                             *)

Statements == [op : {"persist", "delete", "best"}, id : Ids \cup {None},
               entry : Entries \cup {None}]

TypeOK ==
  /\ genomes \in [Ids -> Entries \cup {None}] /\ rows \in [Ids -> Entries \cup {None}]
  /\ hashToId \in [Contents -> Ids \cup {None}] /\ idToHash \in [Ids -> Contents \cup {None}]
  /\ bestId \in Ids \cup {None} /\ bestRow \in Ids \cup {None}
  /\ writes \in Seq(Statements)
  /\ failures \in 0..MaxFailures /\ userStored \in BOOLEAN

\* A hash never leads to a genome that is gone or has other content, after whatever
\* overwriting, removing, failing and restarting: storeOrUpdateByHash, which
\* overwrites the genome it finds, would destroy one or bring one back.
IndexSound ==
  /\ \A c \in Contents : hashToId[c] # None =>
       /\ genomes[hashToId[c]] # None /\ genomes[hashToId[c]].content = c
       /\ idToHash[hashToId[c]] = c
  /\ \A i \in Ids : idToHash[i] # None =>
       genomes[i] # None /\ genomes[i].content = idToHash[i]

\* The best genome exists, even when best_id in the database outlives its row
\* because a statement failed.
BestExists == bestId # None => genomes[bestId] # None

\* Between operations the database is a copy of the memory, unless a statement has
\* failed: a restart, or a crash between two statements, never makes them differ.
WriteThrough == Ready /\ failures = 0 => rows = genomes /\ bestRow = bestId

\* As long as only the training loop stores genomes and no statement fails, a content
\* is stored once and found by its hash, crashes included ("Reuses existing ID when
\* content matches").
OneEntryPerContent ==
  failures = 0 /\ ~userStored =>
    \A i \in Ids : genomes[i] # None => hashToId[genomes[i].content] = i
=============================================================================
