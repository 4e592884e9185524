---------------------- MODULE EvolutionTrainingProofs ----------------------
(***************************************************************************)
(* Proofs about EvolutionTraining.                                         *)
(*                                                                         *)
(* One inductive invariant, TrainingInv, carries every theorem.  PoolInv   *)
(* says that an evaluation under way is in one place only, so that what is *)
(* outstanding can be counted.  RequestInv and ScoringInv say that the     *)
(* individuals with a score and those whose result is outstanding make up  *)
(* the population without overlap, and that the outstanding samples are    *)
(* those the validation still waits for: hence nothing is outstanding when *)
(* a generation ends, and the next one may take its place.  BestInv ties   *)
(* the session's best score to the pending candidate and to the marks in   *)
(* the repository.  FreshInv says what a session starts from and leaves.   *)
(*                                                                         *)
(* The lemmas before it are about the operators of the model: a ranking    *)
(* puts every individual in one place and the best first, a median is not  *)
(* below every sample, a prune keeps the limit.                            *)
(***************************************************************************)
EXTENDS EvolutionTraining, IndexInduction, FiniteSetTheorems, FunctionTheorems,
        SequenceTheorems, TLAPS

Individuals == [genome : Nat, origin : Origins]

\* The population, its scores and its genomes.
PopulationTypes ==
  /\ config \in Configs
  /\ population \in Seq(Individuals)
  /\ Len(population) = IF at \notin Training THEN 0
                       ELSE IF pruneBeforeBreeding THEN 2 * PopulationSize
                       ELSE PopulationSize
  /\ fitnessScores \in [Indices -> Fitness \cup {0}] /\ scored \in SUBSET Indices
  /\ generation \in 0..Max({MaxGenerations, Horizon + 1})
  /\ pruneBeforeBreeding \in BOOLEAN
  /\ nextGenome \in Nat \ {0} /\ \A i \in Indices : population[i].genome < nextGenome

LoopTypes ==
  /\ at \in Training \cup {"idle", "unsaved", "restart", "shutdown"}
  /\ todo \in {"none", "complete", "finish"}
  /\ up = (at \in Training) /\ paused \in BOOLEAN /\ trainingComplete \in BOOLEAN
  /\ sessions \in 0..MaxSessions /\ commands \in 0..MaxCommands

CandidateTypes ==
  /\ pendingBest \in [robustness : BOOLEAN, index : Nat, firstSample : Fitness \cup {0}]
  /\ robustnessPass \in [active : BOOLEAN, generation : Int, index : Nat,
                         samples : Seq(Fitness)]
  /\ pendingBest.index \in Indices \cup {0} /\ robustnessPass.index \in Indices \cup {0}
  /\ pendingBest.robustness => pendingBest.index \in Indices /\ HasGenome(pendingBest.index)
  /\ bestFitnessAllTime \in Int /\ bestGenomeId \in Nat

\* Genomes that are or may come to be in the repository.
Storable(genome, fitness) ==
  genome \in Nat \ {NoGenome} /\ genome < nextGenome /\ fitness \in StoredFitness

RepositoryTypes ==
  /\ IsFiniteSet(DOMAIN archive) /\ archiveBest \in Nat
  /\ \A g \in DOMAIN archive : Storable(g, archive[g].fitness)
  /\ IsFiniteSet(candidates) /\ \A c \in candidates : Storable(c.genome, c.fitness)

\* Where the evaluations under way are: each in one place.
PoolInv ==
  /\ pending \in SUBSET Requests /\ IsFiniteSet(pending)
  /\ background \in Seq(Requests) /\ preview \in Seq(Requests) /\ batch \in Seq(Requests)
  /\ IsInjective(background) /\ IsInjective(preview) /\ IsInjective(batch)
  /\ pending \cap Range(background) = {} /\ pending \cap Range(preview) = {}
  /\ pending \cap Range(batch) = {} /\ Range(background) \cap Range(preview) = {}
  /\ Range(background) \cap Range(batch) = {} /\ Range(preview) \cap Range(batch) = {}

\* What a session starts from.
FreshInv ==
  at \notin Training \ {"enter"} =>
    /\ Outstanding = {} /\ todo = "none" /\ scored = {} /\ currentEval = 0
    /\ generation = 0 /\ ~pruneBeforeBreeding
    /\ pendingBest = NoCandidate /\ robustnessPass = NoPass
    /\ bestFitnessAllTime = Lowest /\ bestGenomeId = NoGenome

\* Where the tick is, and how far generations get.
TickInv ==
  /\ at = "loop" => batch = <<>>
  /\ todo # "none" => at \in {"drain", "visible"} /\ scored = Indices
  /\ background # <<>> \/ preview # <<>> \/ batch # <<>> \/ todo # "none" =>
       generation <= Horizon

\* An evaluation of the generation is determined by its index; one of the validation
\* is of the pass under way.
RequestInv ==
  /\ \A t \in OutstandingOf("generation") : t.sample = 0
  /\ \A t \in OutstandingOf("robustness") :
       robustnessPass.active /\ t.index = robustnessPass.index
  /\ robustnessPass.active =>
       /\ RobustCount > 0 /\ robustnessPass.generation = generation
       /\ robustnessPass.index \in Indices /\ HasGenome(robustnessPass.index)
       /\ Len(robustnessPass.samples) <= RobustCount
  /\ todo = "finish" => ~robustnessPass.active /\ ~pendingBest.robustness

\* EachScoredOnce, without what PoolInv says.
ScoringInv ==
  /\ ResultsMatchPopulation
  /\ at \in Training \ {"enter"} =>
       LET expected == {t.index : t \in OutstandingOf("generation")} IN
       /\ currentEval = Cardinality(scored)
       /\ scored \cap expected = {} /\ scored \cup expected = Indices
       /\ Cardinality(OutstandingOf("robustness")) =
            IF robustnessPass.active THEN RobustCount - Len(robustnessPass.samples) ELSE 0
       /\ todo = "finish" => Outstanding = {}

\* The session's best, where nothing but promotions changes it.
BestInv ==
  /\ bestFitnessAllTime >= Lowest
  /\ AllGenomic => \A i \in Indices : HasGenome(i)
  /\ AllGenomic /\ ArchiveMax = 0 /\ commands = 0 /\ bestFitnessAllTime # Lowest =>
       bestGenomeId # NoGenome /\ archiveBest # NoGenome
  /\ AllGenomic /\ RobustCount = 0 =>
       /\ pendingBest.robustness => pendingBest.firstSample > bestFitnessAllTime
       /\ \A i \in scored :
            \/ fitnessScores[i] <= bestFitnessAllTime
            \/ pendingBest.robustness /\ fitnessScores[i] <= pendingBest.firstSample

TrainingInv ==
  /\ PopulationTypes /\ LoopTypes /\ CandidateTypes /\ RepositoryTypes
  /\ PoolInv /\ FreshInv /\ TickInv /\ RequestInv /\ ScoringInv /\ BestInv
  /\ ArchiveBounded
-----------------------------------------------------------------------------
(* Finite orders.                                                          *)

\* In a strict total order on n elements, for each rank below n there is an element
\* with so many before it.
LEMMA RanksAreTaken ==
  ASSUME NEW S, IsFiniteSet(S), NEW R,
         \A x \in S : <<x, x>> \notin R,
         \A x, y, z \in S : <<x, y>> \in R /\ <<y, z>> \in R => <<x, z>> \in R,
         \A x, y \in S : x # y => <<x, y>> \in R \/ <<y, x>> \in R
  PROVE  \A k \in 1..Cardinality(S) :
           \E x \in S : Cardinality({y \in S : <<y, x>> \in R}) = k - 1
<1> DEFINE n == Cardinality(S)
           Before(x) == {y \in S : <<y, x>> \in R}
           rank == [x \in S |-> Cardinality(Before(x))]
<1>1. n \in Nat
  BY FS_CardinalityType
<1>2. ASSUME NEW x \in S
      PROVE  IsFiniteSet(Before(x)) /\ Cardinality(Before(x)) \in 0..(n - 1)
  <2>1. Before(x) \in SUBSET (S \ {x})
    OBVIOUS
  <2>2. IsFiniteSet(S \ {x}) /\ Cardinality(S \ {x}) = n - 1
    BY FS_RemoveElement
  <2> HIDE DEF Before, n
  <2>3. IsFiniteSet(Before(x)) /\ Cardinality(Before(x)) <= n - 1
    BY <2>1, <2>2, FS_Subset
  <2> QED
    BY <1>1, <2>3, FS_CardinalityType
<1>3. ASSUME NEW x \in S, NEW y \in S, <<x, y>> \in R PROVE rank[x] # rank[y]
  <2>1. Before(x) \cup {x} \in SUBSET Before(y) /\ x \notin Before(x)
    BY <1>3
  <2> HIDE DEF Before
  <2>2. IsFiniteSet(Before(x)) /\ IsFiniteSet(Before(y))
        /\ Cardinality(Before(x)) \in Nat /\ Cardinality(Before(y)) \in Nat
    BY <1>2, FS_CardinalityType
  <2>3. Cardinality(Before(x) \cup {x}) = Cardinality(Before(x)) + 1
    BY <2>1, <2>2, FS_AddElement
  <2>4. Cardinality(Before(x) \cup {x}) <= Cardinality(Before(y))
    BY <2>1, <2>2, FS_Subset
  <2> QED
    BY <2>2, <2>3, <2>4
<1>4. rank \in Injection(S, 0..(n - 1))
  <2> HIDE DEF Before, n
  <2>1. rank \in [S -> 0..(n - 1)]
    BY <1>2
  <2>2. \A x, y \in S : rank[x] = rank[y] => x = y
    BY <1>3
  <2> HIDE DEF rank
  <2> QED
    BY <2>1, <2>2 DEF Injection, IsInjective
<1>5. IsFiniteSet(0..(n - 1)) /\ Cardinality(0..(n - 1)) = n
  <2>1. 0 \in Int /\ n - 1 \in Int
    BY <1>1
  <2> HIDE DEF n
  <2>2. IsFiniteSet(0..(n - 1)) /\ Cardinality(0..(n - 1)) = IF 0 > n - 1 THEN 0 ELSE (n - 1) - 0 + 1
    BY <2>1, FS_Interval
  <2> QED
    BY <1>1, <2>2
<1>6. rank \in Surjection(S, 0..(n - 1))
  <2> HIDE DEF rank
  <2> QED
    BY <1>4, <1>5, FS_Injection
<1>7. \A r \in 0..(n - 1) : \E x \in S : rank[x] = r
  <2> HIDE DEF rank, n
  <2> QED
    BY <1>6 DEF Surjection
<1>8. \A r \in 0..(n - 1) : \E x \in S : Cardinality(Before(x)) = r
  BY <1>7
<1>9. ASSUME NEW k \in 1..n PROVE k - 1 \in 0..(n - 1)
  <2> HIDE DEF n
  <2> QED
    BY <1>1
<1> QED
  BY <1>8, <1>9

\* The larger and the smaller of two.
LEMMA MaxOfTwo ==
  ASSUME NEW a \in Int, NEW b \in Int
  PROVE  /\ Max({a, b}) \in {a, b} /\ Max({a, b}) >= a /\ Max({a, b}) >= b
         /\ Min({a, b}) \in {a, b} /\ Min({a, b}) <= a /\ Min({a, b}) <= b
<1>1. \E x \in {a, b} : \A y \in {a, b} : x >= y
  <2>1. CASE a >= b
    BY <2>1
  <2>2. CASE ~(a >= b)
    BY <2>2
  <2> QED
    BY <2>1, <2>2
<1>2. \E x \in {a, b} : \A y \in {a, b} : x =< y
  <2>1. CASE a <= b
    BY <2>1
  <2>2. CASE ~(a <= b)
    BY <2>2
  <2> QED
    BY <2>1, <2>2
<1>3. Max({a, b}) \in {a, b} /\ \A y \in {a, b} : Max({a, b}) >= y
  BY <1>1 DEF Max
<1>4. Min({a, b}) \in {a, b} /\ \A y \in {a, b} : Min({a, b}) =< y
  BY <1>2 DEF Min
<1> QED
  BY <1>3, <1>4

\* A finite set of integers has a largest member.
LEMMA MaxOfFinite ==
  ASSUME NEW S \in SUBSET Int, IsFiniteSet(S), S # {}
  PROVE  Max(S) \in S /\ \A y \in S : Max(S) >= y
<1> DEFINE R == {p \in S \X S : p[1] > p[2]}
<1>1. \A x, y \in S : <<x, y>> \in R <=> x > y
  OBVIOUS
<1>2. /\ \A x \in S : <<x, x>> \notin R
      /\ \A x, y, z \in S : <<x, y>> \in R /\ <<y, z>> \in R => <<x, z>> \in R
      /\ \A x, y \in S : x # y => <<x, y>> \in R \/ <<y, x>> \in R
  <2>1. \A x \in S : x \in Int
    OBVIOUS
  <2> HIDE DEF R
  <2> QED
    BY <1>1, <2>1
<1> HIDE DEF R
<1>3. Cardinality(S) \in Nat /\ Cardinality(S) # 0
  BY FS_CardinalityType, FS_EmptySet
<1>4. 1 \in 1..Cardinality(S) /\ 1 - 1 = 0
  BY <1>3
<1>5. PICK x \in S : Cardinality({y \in S : <<y, x>> \in R}) = 0
  <2>1. \A k \in 1..Cardinality(S) :
          \E x \in S : Cardinality({y \in S : <<y, x>> \in R}) = k - 1
    BY <1>2, RanksAreTaken, ZenonT(40)
  <2>2. \E x \in S : Cardinality({y \in S : <<y, x>> \in R}) = 1 - 1
    BY <1>4, <2>1
  <2> QED
    BY <1>4, <2>2
<1>6. {y \in S : <<y, x>> \in R} = {}
  <2> DEFINE B == {y \in S : <<y, x>> \in R}
  <2>1. B \in SUBSET S
    OBVIOUS
  <2> HIDE DEF B
  <2>2. IsFiniteSet(B)
    BY <2>1, FS_Subset
  <2>3. Cardinality(B) = 0
    BY <1>5 DEF B
  <2>4. B = {}
    BY <2>2, <2>3, FS_EmptySet
  <2> QED
    BY <2>4 DEF B
<1>7. \A y \in S : ~(y > x)
  BY <1>1, <1>6
<1>8. \A y \in S : x >= y
  BY <1>7
<1> QED
  BY <1>8 DEF Max
-----------------------------------------------------------------------------
(* The median.                                                             *)

\* The k-th smallest sample is one of the samples.
LEMMA OrderStatisticIsASample ==
  ASSUME NEW s \in Seq(Int), NEW k \in 1..Len(s)
  PROVE  \E i \in 1..Len(s) : OrderStatistic(s, k) = s[i]
<1> DEFINE D == 1..Len(s)
           R == {p \in D \X D : s[p[1]] < s[p[2]] \/ (s[p[1]] = s[p[2]] /\ p[1] < p[2])}
<1>0. Len(s) \in Nat /\ DOMAIN s = D /\ \A i \in D : s[i] \in Int /\ i \in Int
  OBVIOUS
<1>1. \A x, y \in D : <<x, y>> \in R <=> s[x] < s[y] \/ (s[x] = s[y] /\ x < y)
  OBVIOUS
<1> HIDE DEF R
<1>2. /\ \A x \in D : <<x, x>> \notin R
      /\ \A x, y, z \in D : <<x, y>> \in R /\ <<y, z>> \in R => <<x, z>> \in R
      /\ \A x, y \in D : x # y => <<x, y>> \in R \/ <<y, x>> \in R
  <2> HIDE DEF D
  <2>1. ASSUME NEW x \in D PROVE <<x, x>> \notin R
    BY <1>0, <1>1
  <2>2. ASSUME NEW x \in D, NEW y \in D, NEW z \in D, <<x, y>> \in R, <<y, z>> \in R
        PROVE  <<x, z>> \in R
    <3>1. s[x] \in Int /\ s[y] \in Int /\ s[z] \in Int /\ x \in Int /\ y \in Int /\ z \in Int
      BY <1>0
    <3>2. s[x] < s[y] \/ (s[x] = s[y] /\ x < y)
      BY <1>1, <2>2
    <3>3. s[y] < s[z] \/ (s[y] = s[z] /\ y < z)
      BY <1>1, <2>2
    <3>4. s[x] < s[z] \/ (s[x] = s[z] /\ x < z)
      BY <3>1, <3>2, <3>3
    <3> QED
      BY <1>1, <3>4
  <2>3. ASSUME NEW x \in D, NEW y \in D, x # y PROVE <<x, y>> \in R \/ <<y, x>> \in R
    BY <1>0, <1>1, <2>3
  <2> QED
    BY <2>1, <2>2, <2>3
<1>3. IsFiniteSet(D) /\ Cardinality(D) = Len(s)
  <2>1. IsFiniteSet(1..Len(s)) /\ Cardinality(1..Len(s)) = IF 1 > Len(s) THEN 0 ELSE Len(s) - 1 + 1
    BY <1>0, FS_Interval
  <2> QED
    BY <1>0, <2>1
<1>4. PICK i \in D : Cardinality({j \in D : <<j, i>> \in R}) = k - 1
  <2>1. k \in 1..Cardinality(D)
    BY <1>3
  <2> HIDE DEF D
  <2>2. \A r \in 1..Cardinality(D) :
          \E x \in D : Cardinality({y \in D : <<y, x>> \in R}) = r - 1
    BY <1>2, <1>3, RanksAreTaken, ZenonT(40)
  <2> QED
    BY <2>1, <2>2
<1> DEFINE B == {j \in D : <<j, i>> \in R}
           Less == {j \in DOMAIN s : s[j] < s[i]}
           Upto == {j \in DOMAIN s : s[j] <= s[i]}
<1>5. Less \in SUBSET B
  BY <1>0, <1>1
<1>6. B \cup {i} \in SUBSET Upto /\ i \notin B
  <2> HIDE DEF D
  <2>1. ASSUME NEW j \in B PROVE j \in DOMAIN s /\ s[j] <= s[i]
    <3>1. j \in D /\ (s[j] < s[i] \/ (s[j] = s[i] /\ j < i))
      BY <1>1
    <3>2. s[j] \in Int /\ s[i] \in Int
      BY <1>0, <3>1
    <3> QED
      BY <1>0, <3>1, <3>2
  <2>2. s[i] <= s[i] /\ i \in DOMAIN s
    BY <1>0
  <2> QED
    BY <1>2, <2>1, <2>2
<1>7. IsFiniteSet(B) /\ IsFiniteSet(Upto)
  <2>1. B \in SUBSET D /\ Upto \in SUBSET D
    BY <1>0
  <2> HIDE DEF B, Upto, D
  <2> QED
    BY <1>3, <2>1, FS_Subset
<1>8. Cardinality(B) = k - 1 /\ k \in Nat
  BY <1>4
<1> HIDE DEF B, Less, Upto
<1>9. IsFiniteSet(Less) /\ Cardinality(Less) <= k - 1
  BY <1>5, <1>7, <1>8, FS_Subset
<1>10. Cardinality(B \cup {i}) = k
  <2>1. Cardinality(B \cup {i}) = Cardinality(B) + 1
    BY <1>6, <1>7, FS_AddElement
  <2> QED
    BY <1>8, <2>1
<1>11. k <= Cardinality(Upto)
  BY <1>6, <1>7, <1>10, FS_Subset
<1>12. Cardinality(Less) < k /\ Cardinality(Upto) >= k
  <2>1. Cardinality(Less) \in Nat /\ Cardinality(Upto) \in Nat
    BY <1>7, <1>9, FS_CardinalityType
  <2> QED
    BY <1>8, <1>9, <1>11, <2>1
<1>13. s[i] \in Range(s)
  BY <1>0 DEF Range
<1>14. OrderStatistic(s, k) \in Range(s)
  <2>1. \E v \in Range(s) :
           /\ Cardinality({j \in DOMAIN s : s[j] < v}) < k
           /\ Cardinality({j \in DOMAIN s : s[j] <= v}) >= k
    BY <1>12, <1>13 DEF Less, Upto
  <2> QED
    BY <2>1 DEF OrderStatistic
<1> QED
  BY <1>0, <1>14 DEF Range

\* The median is not below all the samples.
LEMMA MedianAbove ==
  ASSUME NEW s \in Seq(Int), Len(s) > 0, NEW low \in Int, \A i \in 1..Len(s) : s[i] > low
  PROVE  Median(s) \in Int /\ Median(s) >= low
<1> DEFINE n == Len(s)
<1>1. n \in Nat /\ n > 0 /\ \A i \in 1..n : s[i] \in Int
  OBVIOUS
<1> HIDE DEF n
<1>2. ASSUME NEW k \in 1..n PROVE OrderStatistic(s, k) \in Int /\ OrderStatistic(s, k) > low
  <2>1. PICK i \in 1..n : OrderStatistic(s, k) = s[i]
    BY OrderStatisticIsASample DEF n
  <2> QED
    BY <1>1, <2>1 DEF n
<1>3. CASE n % 2 = 1
  <2>1. (n + 1) \div 2 \in 1..n
    BY <1>1, <1>3
  <2>2. Median(s) = OrderStatistic(s, (n + 1) \div 2)
    BY <1>3 DEF Median, n
  <2> DEFINE o == OrderStatistic(s, (n + 1) \div 2)
  <2>3. o \in Int /\ o > low
    BY <1>2, <2>1
  <2> HIDE DEF o
  <2>4. o >= low
    BY <2>3
  <2> QED
    BY <2>2, <2>3, <2>4 DEF o
<1>4. CASE n % 2 # 1
  <2>1. n \div 2 \in 1..n /\ n \div 2 + 1 \in 1..n
    BY <1>1, <1>4
  <2> DEFINE a == OrderStatistic(s, n \div 2)
             b == OrderStatistic(s, n \div 2 + 1)
  <2>2. Median(s) = (a + b) \div 2
    BY <1>4 DEF Median, n
  <2>3. a \in Int /\ a > low /\ b \in Int /\ b > low
    BY <1>2, <2>1
  <2> HIDE DEF a, b
  <2>4. (a + b) \div 2 \in Int /\ (a + b) \div 2 >= low
    BY <2>3
  <2> QED
    BY <2>2, <2>4
<1> QED
  BY <1>3, <1>4
-----------------------------------------------------------------------------
(* The repository: what is stored may be stored, and pruning keeps its      *)
(* limit.                                                                  *)

LEMMA ConfigTypes ==
  ASSUME config \in Configs
  PROVE  /\ PopulationSize \in Nat \ {0} /\ MaxGenerations \in Nat /\ RobustCount \in Nat
         /\ ArchiveMax \in Nat /\ config.diversityEliteCount \in Nat
         /\ config.diversityEliteFitnessEpsilon \in Nat
         /\ config.genomic \subseteq 1..PopulationSize
BY TrainingAssumption
   DEF EvolutionConfig, PopulationSize, MaxGenerations, RobustCount, ArchiveMax

LEMMA FitnessTypes ==
  /\ \A f \in StoredFitness : f \in Int
  /\ Fitness \cup {0} \subseteq StoredFitness
  /\ \A f \in Fitness : f \in Int /\ f > Lowest
  /\ \A old \in OldArchives : \A g \in DOMAIN old : old[g].fitness \in StoredFitness
  /\ \A entry \in Imports : entry.fitness \in StoredFitness
<1>1. \A f \in Fitness : f \in Int
  BY TrainingAssumption
<1>2. \A old \in OldArchives : \A g \in DOMAIN old : old[g].fitness \in Int
  BY ArchiveAssumption
<1>3. \A entry \in Imports : entry.fitness \in Int
  BY ImportAssumption
<1> QED
  BY <1>1, <1>2, <1>3, LowestAssumption DEF StoredFitness

GoodRepository(repo) ==
  IsFiniteSet(DOMAIN repo) /\ \A g \in DOMAIN repo : Storable(g, repo[g].fitness)

\* ArchiveBounded, for a repository in which no prune has seen the genomes of new.
Bounded(repo, new) == ArchiveMax > 0 => Cardinality(Managed(repo) \ new) <= ArchiveMax

LEMMA ManagedIsFinite ==
  ASSUME NEW repo, IsFiniteSet(DOMAIN repo)
  PROVE  IsFiniteSet(Managed(repo)) /\ Cardinality(Managed(repo)) \in Nat
<1>1. Managed(repo) \in SUBSET DOMAIN repo
  BY DEF Managed
<1>2. IsFiniteSet(Managed(repo))
  BY <1>1, FS_Subset
<1> QED
  BY <1>2, FS_CardinalityType

LEMMA StoredIsGood ==
  ASSUME NEW repo, GoodRepository(repo), NEW genome, NEW fitness, NEW samples,
         Storable(genome, fitness)
  PROVE  /\ GoodRepository(Stored(repo, genome, fitness, samples))
         /\ DOMAIN Stored(repo, genome, fitness, samples) = DOMAIN repo \cup {genome}
<1> DEFINE old == IF genome \in DOMAIN repo THEN repo[genome]
                  ELSE [fitness |-> fitness, samples |-> <<>>, managed |-> TRUE]
           entry == [fitness |-> Max({old.fitness, fitness}),
                     samples |-> Window(old.samples \o samples), managed |-> TRUE]
           new == [g \in DOMAIN repo \cup {genome} |-> IF g = genome THEN entry ELSE repo[g]]
<1>1. Stored(repo, genome, fitness, samples) = new
  BY DEF Stored
<1>2. old.fitness \in StoredFitness
  BY DEF GoodRepository, Storable
<1>3. Max({old.fitness, fitness}) \in StoredFitness
  <2> HIDE DEF old
  <2>1. old.fitness \in Int /\ fitness \in Int /\ fitness \in StoredFitness
    BY <1>2, FitnessTypes DEF Storable
  <2> DEFINE o == old.fitness
  <2> HIDE DEF o
  <2>2. Max({o, fitness}) \in {o, fitness}
    BY <2>1, MaxOfTwo DEF o
  <2> QED
    BY <1>2, <2>1, <2>2 DEF o
<1>4. entry.fitness \in StoredFitness
  BY <1>3
<1> HIDE DEF old, entry
<1>5. DOMAIN new = DOMAIN repo \cup {genome}
  OBVIOUS
<1>6. IsFiniteSet(DOMAIN new)
  <2>1. IsFiniteSet(DOMAIN repo \cup {genome})
    BY FS_AddElement DEF GoodRepository
  <2> QED
    BY <1>5, <2>1
<1>7. ASSUME NEW g \in DOMAIN new PROVE Storable(g, new[g].fitness)
  <2>1. CASE g = genome
    <3>1. new[g] = entry
      BY <2>1
    <3> QED
      BY <1>4, <2>1, <3>1 DEF Storable
  <2>2. CASE g # genome
    <3>1. new[g] = repo[g] /\ g \in DOMAIN repo
      BY <2>2
    <3> QED
      BY <3>1 DEF GoodRepository
  <2> QED
    BY <2>1, <2>2
<1> HIDE DEF new
<1> QED
  BY <1>1, <1>5, <1>6, <1>7 DEF GoodRepository

\* Pruning: the limit is kept although the best may not be removed.
LEMMA PruneBounds ==
  ASSUME NEW repo, GoodRepository(repo), config \in Configs, Prune(repo)
  PROVE  /\ GoodRepository(archive') /\ Bounded(archive', unpruned')
         /\ ArchiveMax = 0 => DOMAIN archive' = DOMAIN repo
<1>1. PICK R \in Removals(repo) : archive' = [g \in DOMAIN repo \ R |-> repo[g]]
  BY DEF Prune
<1> DEFINE D == Managed(repo)
<1>2. DOMAIN archive' = DOMAIN repo \ R /\ \A g \in DOMAIN repo \ R : archive'[g] = repo[g]
  BY <1>1
<1>3. IsFiniteSet(D) /\ Cardinality(D) \in Nat
  BY ManagedIsFinite DEF GoodRepository
<1>4. GoodRepository(archive')
  <2>1. IsFiniteSet(DOMAIN repo \ R)
    BY FS_Difference DEF GoodRepository
  <2> QED
    BY <1>2, <2>1 DEF GoodRepository
<1>5. ArchiveMax \in Nat
  BY ConfigTypes
<1>0. unpruned' = {} /\ Managed(archive') \ unpruned' = D \ R
  <2>1. unpruned' = {}
    BY DEF Prune
  <2>2. Managed(archive') = D \ R
    BY <1>2 DEF Managed
  <2> QED
    BY <2>1, <2>2
<1>6. CASE ArchiveMax = 0 \/ Cardinality(D) <= ArchiveMax
  <2>1. R = {}
    BY <1>1, <1>6 DEF Removals
  <2>2. DOMAIN archive' = DOMAIN repo /\ D \ R = D
    BY <1>2, <2>1
  <2> QED
    BY <1>0, <1>3, <1>4, <1>5, <1>6, <2>2 DEF Bounded
<1>7. CASE ~(ArchiveMax = 0 \/ Cardinality(D) <= ArchiveMax)
  <2> DEFINE M == D \ {archiveBest}
             e == Min({Cardinality(M), Cardinality(D) - ArchiveMax})
  <2>1. R \in SUBSET M /\ Cardinality(R) = e
    BY <1>1, <1>7 DEF Removals, kSubset
  <2>2. IsFiniteSet(M) /\ Cardinality(M) >= Cardinality(D) - 1
    <3> HIDE DEF D
    <3> QED
      BY <1>3, FS_RemoveElement
  <2>3. Cardinality(M) \in Nat
    BY <2>2, FS_CardinalityType
  <2> HIDE DEF M, D
  <2>4. e = Cardinality(D) - ArchiveMax
    <3> DEFINE a == Cardinality(M)
               b == Cardinality(D) - ArchiveMax
    <3>1. a \in Int /\ b \in Int /\ b <= a
      BY <1>3, <1>5, <1>7, <2>2, <2>3
    <3> HIDE DEF a, b
    <3>2. Min({a, b}) \in {a, b} /\ Min({a, b}) <= b
      BY <3>1, MaxOfTwo
    <3>3. Min({a, b}) = b
      BY <3>1, <3>2
    <3> QED
      BY <3>3 DEF a, b
  <2>5. R \cap D = R /\ D \cap R = R
    BY <2>1 DEF M
  <2>6. Cardinality(D \ R) = Cardinality(D) - Cardinality(R)
    BY <1>3, <2>5, FS_Difference, ZenonT(40)
  <2>7. Cardinality(D \ R) = ArchiveMax
    <3> HIDE DEF e
    <3> QED
      BY <1>3, <1>5, <2>1, <2>4, <2>6
  <2> QED
    BY <1>0, <1>4, <1>5, <1>7, <2>7 DEF Bounded
<1> QED
  BY <1>6, <1>7

LEMMA StoreManagedIsGood ==
  ASSUME GoodRepository(archive), config \in Configs, NEW genome, NEW fitness, NEW samples,
         Storable(genome, fitness), StoreManagedGenome(genome, fitness, samples)
  PROVE  /\ GoodRepository(archive') /\ Bounded(archive', unpruned')
         /\ ArchiveMax = 0 => genome \in DOMAIN archive'
<1>1. Prune(Stored(archive, genome, fitness, samples))
  BY DEF StoreManagedGenome
<1> DEFINE repo == Stored(archive, genome, fitness, samples)
<1>2. GoodRepository(repo) /\ DOMAIN repo = DOMAIN archive \cup {genome}
  BY StoredIsGood
<1>3. Prune(repo)
  BY <1>1
<1> HIDE DEF repo
<1> QED
  BY <1>2, <1>3, PruneBounds

\* storeBestGenome stores one of the population.
LEMMA CheckpointIsGood ==
  ASSUME PopulationTypes, GoodRepository(archive), Bounded(archive, unpruned), Checkpoint
  PROVE  GoodRepository(archive') /\ Bounded(archive', unpruned') /\ archiveBest' = archiveBest
<1> DEFINE owners == {i \in Indices : HasGenome(i)}
           Ahead(i, j) == \/ fitnessScores[j] < fitnessScores[i]
                          \/ fitnessScores[j] = fitnessScores[i] /\ i < j
           best == CHOOSE i \in owners : \A j \in owners \ {i} : Ahead(i, j)
<1>1. archiveBest' = archiveBest
  BY DEF Checkpoint
<1>2. CASE owners = {}
  <2>1. archive' = archive /\ unpruned' = unpruned
    BY <1>2 DEF Checkpoint
  <2> QED
    BY <1>1, <2>1
<1>3. CASE owners # {}
  <2>1. StoreManagedGenome(population[best].genome, fitnessScores[best], <<>>)
    BY <1>3 DEF Checkpoint
  <2>2. best \in owners
    <3> DEFINE R == {p \in owners \X owners : Ahead(p[1], p[2])}
    <3>1. \A x, y \in owners : <<x, y>> \in R <=> Ahead(x, y)
      OBVIOUS
    <3>2. \A x \in owners : x \in Int /\ fitnessScores[x] \in Int
      BY FitnessTypes DEF PopulationTypes, Indices
    <3> HIDE DEF R, owners
    <3>3. ASSUME NEW x \in owners PROVE <<x, x>> \notin R
      BY <3>1, <3>2
    <3>4. ASSUME NEW x \in owners, NEW y \in owners, NEW z \in owners,
                 <<x, y>> \in R, <<y, z>> \in R
          PROVE  <<x, z>> \in R
      <4>1. Ahead(x, y) /\ Ahead(y, z)
        BY <3>1, <3>4
      <4>2. Ahead(x, z)
        BY <3>2, <4>1
      <4> QED
        BY <3>1, <4>2
    <3>5. ASSUME NEW x \in owners, NEW y \in owners, x # y
          PROVE  <<x, y>> \in R \/ <<y, x>> \in R
      <4>1. Ahead(x, y) \/ Ahead(y, x)
        BY <3>2, <3>5
      <4> QED
        BY <3>1, <4>1
    <3> HIDE DEF Ahead
    <3>6. IsFiniteSet(owners)
      <4>1. owners \in SUBSET (1..Len(population)) /\ Len(population) \in Nat
        BY DEF owners, PopulationTypes, Indices
      <4>2. IsFiniteSet(1..Len(population))
        BY <4>1, FS_Interval
      <4> QED
        BY <4>1, <4>2, FS_Subset
    <3>7. \A k \in 1..Cardinality(owners) :
            \E x \in owners : Cardinality({y \in owners : <<y, x>> \in R}) = k - 1
      BY <3>3, <3>4, <3>5, <3>6, RanksAreTaken, ZenonT(40)
    <3>8. Cardinality(owners) \in Nat /\ Cardinality(owners) # 0
      BY <1>3, <3>6, FS_CardinalityType, FS_EmptySet
    <3>9. 1 \in 1..Cardinality(owners) /\ 1 - 1 = 0
      BY <3>8
    <3>10. PICK x \in owners : Cardinality({y \in owners : <<y, x>> \in R}) = 1 - 1
      BY <3>7, <3>9
    <3> DEFINE B == {y \in owners : <<y, x>> \in R}
    <3>11. B \in SUBSET owners /\ Cardinality(B) = 0
      BY <3>9, <3>10
    <3> HIDE DEF B
    <3>12. B = {}
      BY <3>6, <3>11, FS_Subset, FS_EmptySet
    <3>13. \A j \in owners \ {x} : Ahead(x, j)
      BY <3>1, <3>5, <3>12 DEF B
    <3> QED
      BY <3>13
  <2> HIDE DEF best
  <2>3. population[best] \in Individuals /\ population[best].genome # NoGenome
        /\ population[best].genome < nextGenome /\ fitnessScores[best] \in Fitness \cup {0}
    BY <2>2 DEF PopulationTypes, Indices, HasGenome
  <2>4. Storable(population[best].genome, fitnessScores[best])
    BY <2>3, FitnessTypes DEF Storable, Individuals
  <2>5. config \in Configs
    BY DEF PopulationTypes
  <2> QED
    BY <1>1, <2>1, <2>4, <2>5, StoreManagedIsGood
<1> QED
  BY <1>2, <1>3

\* A promotion stores the individual, and marks it if it has not been pruned.
LEMMA PromoteIsGood ==
  ASSUME PopulationTypes, GoodRepository(archive), archiveBest \in Nat,
         NEW i \in Indices, HasGenome(i), NEW first \in Fitness \cup {0}, NEW samples,
         NEW fitness, Promote(i, first, samples, fitness)
  PROVE  /\ GoodRepository(archive') /\ Bounded(archive', unpruned') /\ archiveBest' \in Nat
         /\ bestGenomeId' \in Nat \ {NoGenome} /\ bestFitnessAllTime' = fitness
         /\ ArchiveMax = 0 => archiveBest' = bestGenomeId'
<1> DEFINE genome == population[i].genome
<1>1. genome \in Nat \ {NoGenome} /\ genome < nextGenome
  <2>1. population[i] \in Individuals /\ population[i].genome < nextGenome
    BY DEF PopulationTypes, Indices
  <2> QED
    BY <2>1 DEF HasGenome, Individuals
<1>2. StoreManagedGenome(genome, first, samples) /\ MarkAsBest(genome)
      /\ bestGenomeId' = genome /\ bestFitnessAllTime' = fitness
  BY DEF Promote
<1>3. config \in Configs
  BY DEF PopulationTypes
<1> HIDE DEF genome
<1>4. Storable(genome, first)
  BY <1>1, FitnessTypes DEF Storable
<1>5. /\ GoodRepository(archive') /\ Bounded(archive', unpruned')
      /\ ArchiveMax = 0 => genome \in DOMAIN archive'
  BY <1>2, <1>3, <1>4, StoreManagedIsGood
<1>6. archiveBest' = IF genome \in DOMAIN archive' THEN genome ELSE archiveBest
  BY <1>2 DEF MarkAsBest
<1> QED
  BY <1>1, <1>2, <1>5, <1>6

\* The archive after k of the stores of a save.
StoredUpTo(order, f, k) ==
  IF k = 0 THEN archive
  ELSE Stored(f[k - 1], order[k].genome, order[k].fitness, <<order[k].fitness>>)

LEMMA StoredUpToExists ==
  ASSUME NEW order, Len(order) \in Nat
  PROVE  \E f : f = [k \in 0..Len(order) |-> StoredUpTo(order, f, k)]
<1> DEFINE Ok(n) == \E f : f = [k \in 0..n |-> StoredUpTo(order, f, k)]
           S == {n \in Nat : Ok(n)}
<1>1. Ok(0)
  <2> DEFINE e == [k \in 0..0 |-> archive]
  <2>1. e = [k \in 0..0 |-> StoredUpTo(order, e, k)]
    BY DEF StoredUpTo
  <2> QED
    BY <2>1
<1>2. ASSUME NEW n \in Nat, Ok(n) PROVE Ok(n + 1)
  <2> PICK f : f = [k \in 0..n |-> StoredUpTo(order, f, k)]
    BY <1>2
  <2> DEFINE g == [k \in 0..(n + 1) |-> IF k <= n THEN f[k] ELSE StoredUpTo(order, f, k)]
  <2>1. ASSUME NEW k \in 0..(n + 1) PROVE g[k] = StoredUpTo(order, g, k)
    <3>1. k # 0 => k - 1 \in 0..(n + 1) /\ k - 1 <= n
      OBVIOUS
    <3>2. k # 0 => g[k - 1] = f[k - 1]
      BY <3>1
    <3>3. g[k] = IF k <= n THEN f[k] ELSE StoredUpTo(order, f, k)
      OBVIOUS
    <3>4. k <= n => f[k] = StoredUpTo(order, f, k)
      OBVIOUS
    <3>5. StoredUpTo(order, g, k) = StoredUpTo(order, f, k)
      <4> HIDE DEF g
      <4> QED
        BY <3>2 DEF StoredUpTo
    <3> QED
      BY <3>3, <3>4, <3>5
  <2>2. g = [k \in 0..(n + 1) |-> StoredUpTo(order, g, k)]
    BY <2>1
  <2> QED
    BY <2>2
<1> HIDE DEF Ok
<1>3. \A n \in 0..Len(order) : n \in S
  <2>1. 0 \in S
    BY <1>1
  <2>2. \A n \in 0..Len(order) : n \in S /\ n + 1 <= Len(order) => n + 1 \in S
    BY <1>2
  <2> HIDE DEF S
  <2> QED
    BY <2>1, <2>2, IndicesUpTo
<1> QED
  BY <1>3 DEF Ok

LEMMA AllStoredIsGood ==
  ASSUME GoodRepository(archive), NEW T, NEW order \in Seq(T),
         \A c \in T : Storable(c.genome, c.fitness)
  PROVE  GoodRepository(AllStored(order))
<1> DEFINE P(f) == f = [k \in 0..Len(order) |-> StoredUpTo(order, f, k)]
           f == CHOOSE f : P(f)
<1>0. Len(order) \in Nat /\ \A k \in 1..Len(order) : order[k] \in T
  OBVIOUS
<1>1. P(f)
  <2>1. \E g : P(g)
    BY <1>0, StoredUpToExists
  <2> HIDE DEF P
  <2> QED
    BY <2>1
<1>2. AllStored(order) = f[Len(order)]
  BY DEF AllStored, StoredUpTo
<1> HIDE DEF f
<1>3. \A k \in 0..Len(order) : f[k] = StoredUpTo(order, f, k)
  BY <1>1
<1> HIDE DEF P
<1> DEFINE S == {k \in 0..Len(order) : GoodRepository(f[k])}
<1>4. 0 \in S
  <2>1. 0 \in 0..Len(order)
    BY <1>0
  <2>2. f[0] = archive
    BY <1>3, <2>1 DEF StoredUpTo
  <2> QED
    BY <2>1, <2>2
<1>5. ASSUME NEW k \in 0..Len(order), k \in S, k + 1 <= Len(order) PROVE k + 1 \in S
  <2>1. k + 1 \in 0..Len(order) /\ k + 1 \in 1..Len(order) /\ k + 1 # 0 /\ (k + 1) - 1 = k
    BY <1>0, <1>5
  <2> DEFINE c == order[k + 1]
  <2>2. f[k + 1] = Stored(f[k], c.genome, c.fitness, <<c.fitness>>)
    BY <1>3, <2>1 DEF StoredUpTo
  <2>3. Storable(c.genome, c.fitness)
    BY <1>0, <2>1
  <2> HIDE DEF c
  <2>4. GoodRepository(f[k])
    BY <1>5
  <2>5. GoodRepository(f[k + 1])
    <3> DEFINE repo == f[k]
    <3> HIDE DEF repo
    <3>1. GoodRepository(Stored(repo, c.genome, c.fitness, <<c.fitness>>))
      BY <2>3, <2>4, StoredIsGood DEF repo
    <3> QED
      BY <2>2, <3>1 DEF repo
  <2> QED
    BY <2>1, <2>5
<1>6. \A k \in 0..Len(order) : k \in S
  <2> HIDE DEF S
  <2> QED
    BY <1>0, <1>4, <1>5, IndicesUpTo
<1>7. Len(order) \in S
  BY <1>0, <1>6
<1> QED
  BY <1>2, <1>7
-----------------------------------------------------------------------------
(* The ranking.                                                            *)

\* Ranking puts the individuals of a set in some order, and first one whose score no
\* other exceeds.
LEMMA RankingIsComplete ==
  ASSUME PopulationTypes, NEW S \in SUBSET Indices
  PROVE  /\ IsFiniteSet(S) /\ Cardinality(S) \in Nat
         /\ InRankOrder(S) \in [1..Cardinality(S) -> S]
         /\ S # {} => 1 \in 1..Cardinality(S)
                      /\ \A j \in S : fitnessScores[j] <= fitnessScores[InRankOrder(S)[1]]
<1> DEFINE R == {p \in S \X S : Outranks(p[1], p[2])}
<1>1. \A x, y \in S : <<x, y>> \in R <=> Outranks(x, y)
  OBVIOUS
<1>2. \A x \in S : x \in Int /\ fitnessScores[x] \in Int
  BY FitnessTypes DEF PopulationTypes, Indices
<1>3. IsFiniteSet(S) /\ Cardinality(S) \in Nat
  <2>1. Len(population) \in Nat
    BY DEF PopulationTypes
  <2>2. IsFiniteSet(1..Len(population)) /\ S \in SUBSET (1..Len(population))
    BY <2>1, FS_Interval DEF Indices
  <2> QED
    BY <2>2, FS_Subset, FS_CardinalityType
<1> HIDE DEF R
<1>4. /\ \A x \in S : <<x, x>> \notin R
      /\ \A x, y, z \in S : <<x, y>> \in R /\ <<y, z>> \in R => <<x, z>> \in R
      /\ \A x, y \in S : x # y => <<x, y>> \in R \/ <<y, x>> \in R
  <2>1. ASSUME NEW x \in S PROVE <<x, x>> \notin R
    BY <1>1, <1>2 DEF Outranks
  <2>2. ASSUME NEW x \in S, NEW y \in S, NEW z \in S, <<x, y>> \in R, <<y, z>> \in R
        PROVE  <<x, z>> \in R
    <3>1. Outranks(x, y) /\ Outranks(y, z)
      BY <1>1, <2>2
    <3> DEFINE bx == IsOffspring(x)
               by == IsOffspring(y)
               bz == IsOffspring(z)
    <3>2. bx \in BOOLEAN /\ by \in BOOLEAN /\ bz \in BOOLEAN
      BY DEF IsOffspring
    <3> HIDE DEF bx, by, bz
    <3>3. /\ \/ fitnessScores[x] > fitnessScores[y]
             \/ fitnessScores[x] = fitnessScores[y] /\ ((bx /\ ~by) \/ (bx = by /\ x < y))
          /\ \/ fitnessScores[y] > fitnessScores[z]
             \/ fitnessScores[y] = fitnessScores[z] /\ ((by /\ ~bz) \/ (by = bz /\ y < z))
      BY <3>1 DEF Outranks, bx, by, bz
    <3>4. \/ fitnessScores[x] > fitnessScores[z]
          \/ fitnessScores[x] = fitnessScores[z] /\ ((bx /\ ~bz) \/ (bx = bz /\ x < z))
      BY <1>2, <3>2, <3>3
    <3> QED
      BY <1>1, <3>4 DEF Outranks, bx, bz
  <2>3. ASSUME NEW x \in S, NEW y \in S, x # y PROVE <<x, y>> \in R \/ <<y, x>> \in R
    <3> DEFINE bx == IsOffspring(x)
               by == IsOffspring(y)
    <3>2. bx \in BOOLEAN /\ by \in BOOLEAN
      BY DEF IsOffspring
    <3> HIDE DEF bx, by
    <3>3. \/ fitnessScores[x] > fitnessScores[y]
          \/ fitnessScores[x] = fitnessScores[y] /\ ((bx /\ ~by) \/ (bx = by /\ x < y))
          \/ fitnessScores[y] > fitnessScores[x]
          \/ fitnessScores[y] = fitnessScores[x] /\ ((by /\ ~bx) \/ (by = bx /\ y < x))
      BY <1>2, <2>3, <3>2
    <3> QED
      BY <1>1, <3>3 DEF Outranks, bx, by
  <2> QED
    BY <2>1, <2>2, <2>3
<1>5. \A k \in 1..Cardinality(S) :
        \E x \in S : Cardinality({y \in S : <<y, x>> \in R}) = k - 1
  BY <1>3, <1>4, RanksAreTaken, ZenonT(40)
<1>6. \A x \in S : {y \in S : <<y, x>> \in R} = {y \in S : Outranks(y, x)}
  BY <1>1
<1>7. \A k \in 1..Cardinality(S) :
        \E x \in S : Cardinality({y \in S : Outranks(y, x)}) = k - 1
  BY <1>5, <1>6
<1>8. \A k \in 1..Cardinality(S) :
        /\ InRankOrder(S)[k] \in S
        /\ Cardinality({y \in S : Outranks(y, InRankOrder(S)[k])}) = k - 1
  <2> TAKE k \in 1..Cardinality(S)
  <2>1. InRankOrder(S)[k] = CHOOSE i \in S : Cardinality({j \in S : Outranks(j, i)}) = k - 1
    BY DEF InRankOrder
  <2>2. \E x \in S : Cardinality({y \in S : Outranks(y, x)}) = k - 1
    BY <1>7
  <2> QED
    BY <2>1, <2>2
<1>9. InRankOrder(S) \in [1..Cardinality(S) -> S]
  BY <1>8 DEF InRankOrder
<1>10. ASSUME S # {}
       PROVE  1 \in 1..Cardinality(S)
              /\ \A j \in S : fitnessScores[j] <= fitnessScores[InRankOrder(S)[1]]
  <2>1. Cardinality(S) # 0
    BY <1>3, <1>10, FS_EmptySet
  <2>2. 1 \in 1..Cardinality(S) /\ 1 - 1 = 0
    BY <1>3, <2>1
  <2> DEFINE top == InRankOrder(S)[1]
             B == {y \in S : Outranks(y, top)}
  <2>3. top \in S /\ Cardinality(B) = 0
    BY <1>8, <2>2
  <2>4. B \in SUBSET S
    OBVIOUS
  <2> HIDE DEF top, B
  <2>5. B = {}
    BY <1>3, <2>3, <2>4, FS_Subset, FS_EmptySet
  <2>6. ASSUME NEW j \in S PROVE fitnessScores[j] <= fitnessScores[top]
    <3>1. ~Outranks(j, top)
      BY <2>5 DEF B
    <3>2. ~(fitnessScores[j] > fitnessScores[top])
      BY <3>1 DEF Outranks
    <3>3. fitnessScores[j] \in Int /\ fitnessScores[top] \in Int
      BY <1>2, <2>3
    <3> QED
      BY <3>2, <3>3
  <2> QED
    BY <2>2, <2>6 DEF top
<1> QED
  BY <1>3, <1>9, <1>10

LEMMA MinOfThree ==
  ASSUME NEW a \in Nat, NEW b \in Nat, NEW c \in Nat
  PROVE  Min({a, b, c}) \in Nat
<1>1. \E x \in {a, b, c} : \A y \in {a, b, c} : x =< y
  <2>1. CASE a <= b /\ a <= c
    BY <2>1
  <2>2. CASE b <= a /\ b <= c
    BY <2>2
  <2>3. CASE c <= a /\ c <= b
    BY <2>3
  <2> QED
    BY <2>1, <2>2, <2>3
<1>2. Min({a, b, c}) \in {a, b, c}
  BY <1>1 DEF Min
<1> QED
  BY <1>2

\* Pruning a doubled population selects as many individuals as survive, the first of
\* them one with the best score.
LEMMA SelectionIsSound ==
  ASSUME PopulationTypes, at \in Training, pruneBeforeBreeding, NEW picks \in DiversityPicks
  PROVE  /\ \A k \in 1..PopulationSize : Selected(picks)[k] \in Indices
         /\ \A j \in Indices : fitnessScores[j] <= fitnessScores[Selected(picks)[1]]
<1> DEFINE N == PopulationSize
           top == Head(Ranked)
           near == {i \in Indices \ {top} :
                      HasGenome(i) /\ fitnessScores[i] + config.diversityEliteFitnessEpsilon
                                        >= fitnessScores[top]}
           count == IF HasGenome(top)
                    THEN Min({config.diversityEliteCount, N - 1, Cardinality(near)}) ELSE 0
           Rest == Indices \ ({top} \cup Range(picks))
           others == InRankOrder(Rest)
           s == <<top>> \o picks \o others
<1>0. N \in Nat \ {0} /\ config.diversityEliteCount \in Nat /\ N - 1 \in Nat
  BY ConfigTypes DEF PopulationTypes
<1>1. Len(population) = 2 * N /\ Indices = 1..(2 * N) /\ 1 \in Indices
  <2>1. Len(population) = 2 * N
    BY DEF PopulationTypes
  <2> HIDE DEF N
  <2> QED
    BY <1>0, <2>1 DEF Indices
<1>2. IsFiniteSet(Indices) /\ Cardinality(Indices) = 2 * N
  <2> HIDE DEF N
  <2>1. 1 \in Int /\ 2 * N \in Int
    BY <1>0
  <2>2. IsFiniteSet(1..(2 * N))
        /\ Cardinality(1..(2 * N)) = IF 1 > 2 * N THEN 0 ELSE 2 * N - 1 + 1
    BY <2>1, FS_Interval
  <2> QED
    BY <1>0, <1>1, <2>2
<1>3. /\ Ranked \in [1..(2 * N) -> Indices]
      /\ \A j \in Indices : fitnessScores[j] <= fitnessScores[Ranked[1]]
  <2>1. Indices \in SUBSET Indices /\ Indices # {}
    BY <1>1
  <2> HIDE DEF N
  <2>2. /\ InRankOrder(Indices) \in [1..Cardinality(Indices) -> Indices]
        /\ \A j \in Indices : fitnessScores[j] <= fitnessScores[InRankOrder(Indices)[1]]
    BY <2>1, RankingIsComplete
  <2> QED
    BY <1>2, <2>2 DEF Ranked
<1>4. top = Ranked[1] /\ top \in Indices
  <2>1. Ranked \in Seq(Indices) /\ Len(Ranked) = 2 * N
    <3>1. 2 * N \in Nat
      BY <1>0
    <3> HIDE DEF N
    <3> QED
      BY <1>3, <3>1
  <2>2. top = Ranked[1]
    BY <2>1
  <2> QED
    BY <1>1, <1>3, <2>2
<1>5. picks \in [1..count -> near]
  BY DEF DiversityPicks
<1> HIDE DEF top, N
<1>6. near \in SUBSET Indices
  OBVIOUS
<1> HIDE DEF near
<1>7. count \in Nat
  <2>1. IsFiniteSet(near) /\ Cardinality(near) \in Nat
    BY <1>2, <1>6, FS_Subset, FS_CardinalityType
  <2> DEFINE c == Cardinality(near)
  <2> HIDE DEF c
  <2>2. Min({config.diversityEliteCount, N - 1, c}) \in Nat
    BY <1>0, <2>1, MinOfThree DEF c
  <2> QED
    BY <2>2 DEF c
<1> HIDE DEF count
<1>8. picks \in Seq(Indices) /\ Len(picks) = count
  <2>1. picks \in [1..count -> Indices]
    BY <1>5, <1>6
  <2> QED
    BY <1>7, <2>1
<1>9. IsFiniteSet(Range(picks)) /\ Cardinality(Range(picks)) <= count
  <2>1. picks \in Surjection(1..count, Range(picks))
    BY <1>5, Fun_RangeProperties
  <2>2. IsFiniteSet(1..count) /\ Cardinality(1..count) = IF 1 > count THEN 0 ELSE count - 1 + 1
    BY <1>7, FS_Interval
  <2>3. Cardinality(1..count) = count
    BY <1>7, <2>2
  <2> QED
    BY <2>1, <2>2, <2>3, FS_Surjection
<1>10. Cardinality(Rest) \in Nat /\ Cardinality(Rest) >= 2 * N - 1 - count
  <2> DEFINE G == {top} \cup Range(picks)
  <2>1. IsFiniteSet(G) /\ Cardinality(G) <= count + 1 /\ Cardinality(G) \in Nat
    <3>1. G = Range(picks) \cup {top}
      OBVIOUS
    <3>2. IsFiniteSet(Range(picks) \cup {top})
          /\ Cardinality(Range(picks) \cup {top}) =
               IF top \in Range(picks) THEN Cardinality(Range(picks))
               ELSE Cardinality(Range(picks)) + 1
      BY <1>9, FS_AddElement
    <3>3. Cardinality(Range(picks)) \in Nat
      BY <1>9, FS_CardinalityType
    <3> DEFINE r == Cardinality(Range(picks))
    <3> HIDE DEF r
    <3>4. Cardinality(G) = r \/ Cardinality(G) = r + 1
      BY <3>1, <3>2 DEF r
    <3>5. r \in Nat /\ r <= count
      BY <1>9, <3>3 DEF r
    <3> HIDE DEF G
    <3> QED
      BY <1>7, <3>1, <3>2, <3>4, <3>5
  <2> HIDE DEF G
  <2>2. /\ IsFiniteSet(Indices \ G)
        /\ Cardinality(Indices \ G) = Cardinality(Indices) - Cardinality(Indices \cap G)
    BY <1>2, FS_Difference
  <2>3. Cardinality(Indices \cap G) <= Cardinality(G)
    BY <2>1, FS_Intersection
  <2>4. Cardinality(Indices \cap G) \in Nat /\ Cardinality(Indices \ G) \in Nat
    BY <1>2, <2>2, FS_Intersection, FS_CardinalityType
  <2>5. Cardinality(Indices \ G) \in Nat /\ Cardinality(Indices \ G) >= 2 * N - 1 - count
    BY <1>0, <1>2, <1>7, <2>1, <2>2, <2>3, <2>4
  <2> QED
    BY <2>5 DEF G
<1>11. others \in Seq(Indices) /\ Len(others) = Cardinality(Rest)
  <2>1. Rest \in SUBSET Indices
    OBVIOUS
  <2> HIDE DEF Rest
  <2>2. others \in [1..Cardinality(Rest) -> Rest]
    BY <2>1, RankingIsComplete
  <2> HIDE DEF others
  <2>3. others \in [1..Cardinality(Rest) -> Indices]
    BY <2>1, <2>2
  <2> DEFINE c == Cardinality(Rest)
  <2>4. c \in Nat
    BY <1>10
  <2> HIDE DEF c
  <2> QED
    BY <2>3, <2>4 DEF c
<1> HIDE DEF others
<1>12. s \in Seq(Indices) /\ Len(s) >= 2 * N /\ s[1] = top /\ Len(s) \in Nat
  <2> DEFINE h == <<top>> \o picks
  <2>1. <<top>> \in Seq(Indices) /\ Len(<<top>>) = 1 /\ <<top>>[1] = top
    BY <1>4
  <2> DEFINE t == <<top>>
  <2> HIDE DEF t
  <2>2. h \in Seq(Indices) /\ Len(h) = 1 + count /\ h[1] = top
    <3>1. /\ t \o picks \in Seq(Indices) /\ Len(t \o picks) = Len(t) + Len(picks)
          /\ \A i \in 1..(Len(t) + Len(picks)) :
               (t \o picks)[i] = IF i <= Len(t) THEN t[i] ELSE picks[i - Len(t)]
      BY <1>8, <2>1, ConcatProperties DEF t
    <3>2. 1 \in 1..(Len(t) + Len(picks)) /\ 1 <= Len(t)
      BY <1>7, <1>8, <2>1 DEF t
    <3> QED
      BY <1>8, <2>1, <3>1, <3>2 DEF t
  <2> HIDE DEF h
  <2>3. /\ h \o others \in Seq(Indices) /\ Len(h \o others) = Len(h) + Len(others)
        /\ \A i \in 1..(Len(h) + Len(others)) :
             (h \o others)[i] = IF i <= Len(h) THEN h[i] ELSE others[i - Len(h)]
    BY <1>11, <2>2, ConcatProperties
  <2>4. 1 \in 1..(Len(h) + Len(others)) /\ 1 <= Len(h) /\ Len(h) + Len(others) >= 2 * N
    BY <1>0, <1>7, <1>10, <1>11, <2>2
  <2>5. (h \o others)[1] = top
    BY <2>2, <2>3, <2>4
  <2>6. s = h \o others
    BY DEF h
  <2>7. Len(h \o others) >= 2 * N /\ Len(h \o others) \in Nat
    BY <1>0, <2>3, <2>4
  <2> HIDE DEF s
  <2> QED
    BY <2>3, <2>5, <2>6, <2>7
<1>13. Selected(picks) = SubSeq(s, 1, N)
  BY DEF Selected, others, top, N
<1> HIDE DEF s
<1>14. \A i \in 1..N : s[i] \in Indices
  <2>1. \A i \in 1..N : i \in 1..Len(s)
    BY <1>0, <1>12
  <2> QED
    BY <1>12, <2>1
<1>15. \A i \in 1..N : SubSeq(s, 1, N)[i] = s[i]
  <2>1. \A i \in 1..(N - 1 + 1) : SubSeq(s, 1, N)[i] = s[1 + i - 1]
    BY <1>0, <1>14, SubSeqProperties
  <2>2. \A i \in 1..N : i \in 1..(N - 1 + 1) /\ 1 + i - 1 = i
    BY <1>0
  <2> QED
    BY <2>1, <2>2
<1>16. 1 \in 1..N
  BY <1>0
<1>17. Selected(picks)[1] = Ranked[1]
  BY <1>4, <1>12, <1>13, <1>15, <1>16
<1> QED
  BY <1>3, <1>13, <1>14, <1>15, <1>17 DEF N

\* Every survivor is an individual of the population, and one with the best score is
\* among them.
LEMMA SurvivorsAreSound ==
  ASSUME PopulationTypes, at \in Training, NEW survivors \in Survivors
  PROVE  /\ survivors \in Seq(Individuals) /\ Len(survivors) = PopulationSize
         /\ \A k \in 1..PopulationSize :
              \E i \in Indices : survivors[k].genome = population[i].genome
         /\ \E i \in Indices, k \in 1..PopulationSize :
              /\ \A j \in Indices : fitnessScores[j] <= fitnessScores[i]
              /\ survivors[k].genome = population[i].genome
<1> DEFINE N == PopulationSize
<1>0. N \in Nat \ {0} /\ 1 \in 1..N
  <2>1. N \in Nat \ {0}
    BY ConfigTypes DEF PopulationTypes
  <2> HIDE DEF N
  <2> QED
    BY <2>1
<1>1. \A i \in Indices : population[i] \in Individuals
  BY DEF PopulationTypes, Indices
<1>2. CASE pruneBeforeBreeding
  <2>1. PICK picks \in DiversityPicks :
          survivors = [k \in 1..N |->
                         [population[Selected(picks)[k]] EXCEPT !.origin = "EliteCarryover"]]
    BY <1>2 DEF Survivors
  <2>2. /\ \A k \in 1..N : Selected(picks)[k] \in Indices
        /\ \A j \in Indices : fitnessScores[j] <= fitnessScores[Selected(picks)[1]]
    BY <1>2, SelectionIsSound
  <2>3. ASSUME NEW k \in 1..N
        PROVE  /\ survivors[k] \in Individuals
               /\ survivors[k].genome = population[Selected(picks)[k]].genome
    <3> DEFINE p == population[Selected(picks)[k]]
    <3>1. p \in Individuals
      BY <1>1, <2>2
    <3>2. survivors[k] = [p EXCEPT !.origin = "EliteCarryover"]
      BY <2>1
    <3> HIDE DEF p
    <3>3. survivors[k] \in Individuals /\ survivors[k].genome = p.genome
      BY <3>1, <3>2 DEF Individuals, Origins
    <3> QED
      BY <3>3 DEF p
  <2>4. survivors \in [1..N -> Individuals]
    BY <2>1, <2>3
  <2>5. survivors \in Seq(Individuals) /\ Len(survivors) = N
    <3> HIDE DEF N
    <3> QED
      BY <1>0, <2>4
  <2>6. \A k \in 1..N : \E i \in Indices : survivors[k].genome = population[i].genome
    BY <2>2, <2>3
  <2>7. Selected(picks)[1] \in Indices
        /\ survivors[1].genome = population[Selected(picks)[1]].genome
    BY <1>0, <2>2, <2>3
  <2> QED
    BY <1>0, <2>2, <2>5, <2>6, <2>7
<1>3. CASE ~pruneBeforeBreeding
  <2>1. survivors = population
    BY <1>3 DEF Survivors
  <2>2. Len(population) = N /\ population \in Seq(Individuals) /\ Indices = 1..N
    BY <1>3 DEF PopulationTypes, Indices
  <2>3. Indices \in SUBSET Indices /\ Indices # {}
    BY <1>0, <2>2
  <2>4. /\ InRankOrder(Indices) \in [1..Cardinality(Indices) -> Indices]
        /\ 1 \in 1..Cardinality(Indices)
        /\ \A j \in Indices : fitnessScores[j] <= fitnessScores[InRankOrder(Indices)[1]]
    BY <2>3, RankingIsComplete
  <2>5. InRankOrder(Indices)[1] \in Indices
    BY <2>4
  <2>6. \E i \in Indices, k \in 1..N :
          /\ \A j \in Indices : fitnessScores[j] <= fitnessScores[i]
          /\ survivors[k].genome = population[i].genome
    BY <2>1, <2>2, <2>4, <2>5
  <2> QED
    BY <2>1, <2>2, <2>6
<1> QED
  BY <1>2, <1>3

\* The next generation: the survivors and as many children, with a genome where
\* everyone has one.
LEMMA NextPopulation ==
  ASSUME PopulationTypes, at \in Training, NEW survivors \in Survivors,
         NEW children \in Children(survivors)
  PROVE  /\ survivors \o children \in Seq(Individuals)
         /\ Len(survivors \o children) = 2 * PopulationSize
         /\ \A i \in 1..(2 * PopulationSize) :
              /\ (survivors \o children)[i].genome < nextGenome + PopulationSize
              /\ (\A j \in Indices : HasGenome(j)) =>
                   (survivors \o children)[i].genome # NoGenome
         /\ \E i \in Indices, k \in 1..PopulationSize :
              /\ \A j \in Indices : fitnessScores[j] <= fitnessScores[i]
              /\ (survivors \o children)[k].genome = population[i].genome
<1> DEFINE N == PopulationSize
           new == survivors \o children
           Good(p) == /\ p \in Individuals /\ p.genome < nextGenome + N
                      /\ (\A j \in Indices : HasGenome(j)) => p.genome # NoGenome
<1>0. N \in Nat \ {0} /\ nextGenome \in Nat \ {0}
  BY ConfigTypes DEF PopulationTypes
<1>1. /\ survivors \in Seq(Individuals) /\ Len(survivors) = N
      /\ \A k \in 1..N : \E i \in Indices : survivors[k].genome = population[i].genome
      /\ \E i \in Indices, k \in 1..N :
           /\ \A j \in Indices : fitnessScores[j] <= fitnessScores[i]
           /\ survivors[k].genome = population[i].genome
  BY SurvivorsAreSound
<1>2. \A i \in Indices : population[i].genome \in Nat /\ population[i].genome < nextGenome
  <2>1. \A i \in Indices : population[i] \in Individuals /\ population[i].genome < nextGenome
    BY DEF PopulationTypes, Indices
  <2> QED
    BY <2>1 DEF Individuals
<1> DEFINE Births == {b \in [parent : 1..N, mutant : BOOLEAN] :
                        b.mutant => survivors[b.parent].genome # NoGenome}
<1>3. PICK births \in [1..N -> Births] :
        children = [k \in 1..N |->
          IF births[k].mutant THEN Individual(nextGenome + k - 1, "OffspringMutated")
          ELSE Individual(survivors[births[k].parent].genome, "OffspringClone")]
  BY DEF Children
<1> HIDE DEF N
<1>4. ASSUME NEW k \in 1..N PROVE Good(survivors[k])
  <2>1. PICK i \in Indices : survivors[k].genome = population[i].genome
    BY <1>1
  <2>2. survivors[k] \in Individuals
    BY <1>1
  <2>3. survivors[k].genome < nextGenome + N
    <3> DEFINE g == population[i].genome
    <3>1. g \in Nat /\ g < nextGenome
      BY <1>2
    <3> HIDE DEF g
    <3>2. g < nextGenome + N
      BY <1>0, <3>1
    <3> QED
      BY <2>1, <3>2 DEF g
  <2> QED
    BY <2>1, <2>2, <2>3 DEF HasGenome
<1>5. ASSUME NEW k \in 1..N PROVE Good(children[k])
  <2>1. CASE births[k].mutant
    <3>1. children[k] = [genome |-> nextGenome + k - 1, origin |-> "OffspringMutated"]
      BY <1>3, <2>1 DEF Individual
    <3>2. nextGenome + k - 1 \in Nat /\ nextGenome + k - 1 < nextGenome + N
          /\ nextGenome + k - 1 # NoGenome
      BY <1>0 DEF NoGenome
    <3> DEFINE g == nextGenome + k - 1
    <3> HIDE DEF g
    <3>3. children[k] = [genome |-> g, origin |-> "OffspringMutated"]
      BY <3>1 DEF g
    <3>4. children[k] \in Individuals /\ children[k].genome = g
      BY <3>2, <3>3 DEF Individuals, Origins, g
    <3> QED
      BY <3>2, <3>4 DEF g
  <2>2. CASE ~births[k].mutant
    <3> DEFINE p == births[k].parent
    <3>1. p \in 1..N
      BY <1>3
    <3>2. children[k] = [genome |-> survivors[p].genome, origin |-> "OffspringClone"]
      BY <1>3, <2>2 DEF Individual
    <3> HIDE DEF p
    <3>3. Good(survivors[p])
      BY <1>4, <3>1
    <3>4. survivors[p].genome \in Nat
      BY <3>3 DEF Individuals
    <3>5. children[k] \in Individuals /\ children[k].genome = survivors[p].genome
      BY <3>2, <3>4 DEF Individuals, Origins
    <3> QED
      BY <3>3, <3>5
  <2> QED
    BY <2>1, <2>2
<1>6. children \in Seq(Individuals) /\ Len(children) = N
  <2>1. DOMAIN children = 1..N /\ \A k \in 1..N : children[k] \in Individuals
    BY <1>3, <1>5
  <2>2. children \in [1..N -> Individuals]
    BY <1>3, <2>1
  <2> QED
    BY <1>0, <2>2
<1> HIDE DEF Good
<1>7. /\ new \in Seq(Individuals) /\ Len(new) = N + N
      /\ \A i \in 1..(N + N) :
           new[i] = IF i <= N THEN survivors[i] ELSE children[i - N]
  <2>1. /\ new \in Seq(Individuals) /\ Len(new) = Len(survivors) + Len(children)
        /\ \A i \in 1..(Len(survivors) + Len(children)) :
             new[i] = IF i <= Len(survivors) THEN survivors[i]
                      ELSE children[i - Len(survivors)]
    BY <1>1, <1>6, ConcatProperties
  <2> HIDE DEF new
  <2> QED
    BY <1>1, <1>6, <2>1
<1> HIDE DEF new
<1>8. N + N = 2 * N
  BY <1>0
<1>9. ASSUME NEW i \in 1..(2 * N) PROVE Good(new[i])
  <2>1. CASE i <= N
    <3>1. i \in 1..N /\ i \in 1..(N + N)
      BY <1>0, <2>1
    <3> QED
      BY <1>4, <1>7, <2>1, <3>1
  <2>2. CASE ~(i <= N)
    <3>1. i - N \in 1..N /\ i \in 1..(N + N)
      BY <1>0, <2>2
    <3> QED
      BY <1>5, <1>7, <2>2, <3>1
  <2> QED
    BY <2>1, <2>2
<1>10. \A k \in 1..N : new[k] = survivors[k]
  <2>1. \A k \in 1..N : k \in 1..(N + N) /\ k <= N
    BY <1>0
  <2> QED
    BY <1>7, <2>1
<1>11. \E i \in Indices, k \in 1..N :
         /\ \A j \in Indices : fitnessScores[j] <= fitnessScores[i]
         /\ new[k].genome = population[i].genome
  BY <1>1, <1>10
<1> QED
  BY <1>7, <1>8, <1>9, <1>11 DEF Good, new, N
-----------------------------------------------------------------------------
(* The evaluations under way, in the set of those to be run and in three    *)
(* sequences of results.                                                   *)

LEMMA EmptyRange ==
  ASSUME NEW S, NEW s \in Seq(S)
  PROVE  /\ Range(s) \subseteq S /\ Range(<<>>) = {} /\ IsInjective(<<>>)
         /\ Range(s) = {} <=> s = <<>>
<1>1. Len(s) \in Nat /\ DOMAIN s = 1..Len(s) /\ \A i \in 1..Len(s) : s[i] \in S
  OBVIOUS
<1>2. Range(<<>>) = {} /\ IsInjective(<<>>)
  BY DEF Range, IsInjective
<1>3. Range(s) \subseteq S
  BY <1>1 DEF Range
<1>4. ASSUME s # <<>> PROVE Range(s) # {}
  <2>1. 1 \in DOMAIN s
    BY <1>1, <1>4
  <2> QED
    BY <2>1 DEF Range
<1> QED
  BY <1>2, <1>3, <1>4

LEMMA AppendOne ==
  ASSUME NEW S, NEW s \in Seq(S), NEW t \in S, IsInjective(s), t \notin Range(s)
  PROVE  /\ Append(s, t) \in Seq(S) /\ IsInjective(Append(s, t))
         /\ Range(Append(s, t)) = Range(s) \cup {t}
<1> DEFINE n == Len(s)
           a == Append(s, t)
<1>1. n \in Nat /\ DOMAIN s = 1..n
  OBVIOUS
<1>2. a \in Seq(S) /\ Len(a) = n + 1 /\ DOMAIN a = 1..(n + 1)
  OBVIOUS
<1>3. a[n + 1] = t
  OBVIOUS
<1>4. \A i \in 1..n : a[i] = s[i] /\ i \in 1..(n + 1)
  OBVIOUS
<1> HIDE DEF n, a
<1>5. \A i \in 1..(n + 1) : i \in 1..n \/ i = n + 1
  BY <1>1
<1>6. n + 1 \in 1..(n + 1)
  BY <1>1
<1>7. \A i \in 1..n : s[i] # t
  BY <1>1 DEF Range
<1>8. IsInjective(a)
  <2>1. \A i, j \in 1..n : s[i] = s[j] => i = j
    BY <1>1 DEF IsInjective
  <2>2. \A i, j \in 1..(n + 1) : a[i] = a[j] => i = j
    BY <1>3, <1>4, <1>5, <1>7, <2>1
  <2> QED
    BY <1>2, <2>2 DEF IsInjective
<1>9. Range(a) = Range(s) \cup {t}
  <2>1. ASSUME NEW x \in Range(a) PROVE x \in Range(s) \cup {t}
    BY <1>1, <1>2, <1>3, <1>4, <1>5 DEF Range
  <2>2. ASSUME NEW x \in Range(s) \cup {t} PROVE x \in Range(a)
    <3>1. CASE x \in Range(s)
      <4>1. PICK i \in 1..n : x = s[i]
        BY <1>1, <3>1 DEF Range
      <4>2. a[i] = x /\ i \in DOMAIN a
        BY <1>2, <1>4, <4>1
      <4> QED
        BY <4>2 DEF Range
    <3>2. CASE x = t
      BY <1>2, <1>3, <1>6, <3>2 DEF Range
    <3> QED
      BY <3>1, <3>2
  <2> QED
    BY <2>1, <2>2
<1> QED
  BY <1>2, <1>8, <1>9 DEF a

LEMMA TailOne ==
  ASSUME NEW S, NEW s \in Seq(S), s # <<>>, IsInjective(s)
  PROVE  /\ Tail(s) \in Seq(S) /\ IsInjective(Tail(s))
         /\ Head(s) \in Range(s) /\ Head(s) \in S
         /\ Range(Tail(s)) = Range(s) \ {Head(s)}
<1> DEFINE n == Len(s)
           a == Tail(s)
           h == Head(s)
<1>1. n \in Nat \ {0} /\ DOMAIN s = 1..n
  OBVIOUS
<1>2. a \in Seq(S) /\ Len(a) = n - 1 /\ DOMAIN a = 1..(n - 1)
  BY <1>1
<1>3. h = s[1] /\ 1 \in 1..n /\ h \in S
  BY <1>1
<1>4. \A i \in 1..(n - 1) : a[i] = s[i + 1] /\ i + 1 \in 1..n /\ i + 1 # 1
  BY <1>1
<1> HIDE DEF n, a, h
<1>5. \A i \in 1..n : i = 1 \/ (i - 1 \in 1..(n - 1) /\ (i - 1) + 1 = i)
  BY <1>1
<1>6. \A i, j \in 1..n : s[i] = s[j] => i = j
  BY <1>1 DEF IsInjective
<1>7. IsInjective(a)
  <2>1. ASSUME NEW i \in 1..(n - 1), NEW j \in 1..(n - 1), a[i] = a[j] PROVE i = j
    <3>1. i + 1 = j + 1
      BY <1>4, <1>6, <2>1
    <3>2. i \in Int /\ j \in Int
      OBVIOUS
    <3> QED
      BY <3>1, <3>2
  <2> QED
    BY <1>2, <2>1 DEF IsInjective
<1>8. Range(a) = Range(s) \ {h}
  <2>1. ASSUME NEW x \in Range(a) PROVE x \in Range(s) \ {h}
    <3>1. PICK i \in 1..(n - 1) : x = a[i]
      BY <1>2 DEF Range
    <3>2. x = s[i + 1] /\ i + 1 \in 1..n /\ i + 1 # 1
      BY <1>4, <3>1
    <3>3. x # s[1]
      BY <1>3, <1>6, <3>2
    <3> QED
      BY <1>1, <1>3, <3>2, <3>3 DEF Range
  <2>2. ASSUME NEW x \in Range(s) \ {h} PROVE x \in Range(a)
    <3>1. PICK i \in 1..n : x = s[i]
      BY <1>1 DEF Range
    <3>2. i # 1
      BY <1>3, <3>1
    <3>3. i - 1 \in 1..(n - 1) /\ a[i - 1] = s[i]
      BY <1>4, <1>5, <3>2
    <3> QED
      BY <1>2, <3>1, <3>3 DEF Range
  <2> QED
    BY <2>1, <2>2
<1>9. h \in Range(s)
  BY <1>1, <1>3 DEF Range
<1> QED
  BY <1>2, <1>3, <1>7, <1>8, <1>9 DEF a, h

LEMMA RangeCount ==
  ASSUME NEW S, NEW s \in Seq(S), IsInjective(s)
  PROVE  IsFiniteSet(Range(s)) /\ Cardinality(Range(s)) = Len(s) /\ Len(s) \in Nat
<1> DEFINE n == Len(s)
<1>1. n \in Nat /\ s \in [1..n -> S]
  OBVIOUS
<1>2. IsFiniteSet(1..n) /\ Cardinality(1..n) = n
  <2> HIDE DEF n
  <2>1. IsFiniteSet(1..n) /\ Cardinality(1..n) = IF 1 > n THEN 0 ELSE n - 1 + 1
    BY <1>1, FS_Interval
  <2> QED
    BY <1>1, <2>1
<1> HIDE DEF n
<1>3. s \in Surjection(1..n, Range(s))
  BY <1>1, Fun_RangeProperties
<1>4. s \in Injection(1..n, Range(s))
  BY <1>3 DEF Surjection, Injection
<1>5. IsFiniteSet(Range(s)) /\ Cardinality(Range(s)) = Cardinality(1..n)
  BY <1>2, <1>3, <1>4, FS_Surjection
<1> QED
  BY <1>1, <1>2, <1>5 DEF n

\* Nothing is in two places, so what is outstanding can be counted.
LEMMA OutstandingCount ==
  ASSUME PoolInv
  PROVE  /\ IsFiniteSet(Outstanding) /\ Outstanding \in SUBSET Requests
         /\ Cardinality(Outstanding) =
              Cardinality(pending) + Len(background) + Len(preview) + Len(batch)
         /\ Outstanding = {} <=>
              pending = {} /\ background = <<>> /\ preview = <<>> /\ batch = <<>>
<1> DEFINE P == pending
           B == Range(background)
           V == Range(preview)
           T == Range(batch)
<1>1. /\ IsFiniteSet(P) /\ IsFiniteSet(B) /\ IsFiniteSet(V) /\ IsFiniteSet(T)
      /\ Cardinality(B) = Len(background) /\ Cardinality(V) = Len(preview)
      /\ Cardinality(T) = Len(batch)
      /\ P \subseteq Requests /\ B \subseteq Requests /\ V \subseteq Requests
      /\ T \subseteq Requests
  BY RangeCount, EmptyRange DEF PoolInv
<1>2. P \cap B = {} /\ (P \cup B) \cap V = {} /\ (P \cup B \cup V) \cap T = {}
  BY DEF PoolInv
<1>3. (B = {} <=> background = <<>>) /\ (V = {} <=> preview = <<>>)
      /\ (T = {} <=> batch = <<>>)
  BY EmptyRange DEF PoolInv
<1>4. Outstanding = P \cup B \cup V \cup T
  BY DEF Outstanding
<1> HIDE DEF P, B, V, T
<1>5. /\ IsFiniteSet(P \cup B)
      /\ Cardinality(P \cup B) = Cardinality(P) + Cardinality(B) - Cardinality({})
  <2>1. Cardinality(P \cup B) = Cardinality(P) + Cardinality(B) - Cardinality(P \cap B)
    BY <1>1, FS_Union
  <2>2. IsFiniteSet(P \cup B)
    BY <1>1, FS_Union
  <2> QED
    BY <1>2, <2>1, <2>2
<1>6. /\ IsFiniteSet(P \cup B \cup V)
      /\ Cardinality(P \cup B \cup V) = Cardinality(P \cup B) + Cardinality(V) - Cardinality({})
  BY <1>1, <1>2, <1>5, FS_Union
<1>7. /\ IsFiniteSet(P \cup B \cup V \cup T)
      /\ Cardinality(P \cup B \cup V \cup T) =
           Cardinality(P \cup B \cup V) + Cardinality(T) - Cardinality({})
  BY <1>1, <1>2, <1>6, FS_Union
<1>8. Cardinality({}) = 0 /\ Cardinality(P) \in Nat /\ Cardinality(B) \in Nat
      /\ Cardinality(V) \in Nat /\ Cardinality(T) \in Nat
  BY <1>1, FS_EmptySet, FS_CardinalityType
<1>9. Cardinality(Outstanding) = Cardinality(P) + Cardinality(B) + Cardinality(V) + Cardinality(T)
  BY <1>4, <1>5, <1>6, <1>7, <1>8
<1> QED
  BY <1>1, <1>3, <1>4, <1>7, <1>9 DEF P

LEMMA PoolUnchanged ==
  ASSUME PoolInv, UNCHANGED <<pending, background, preview, batch>>
  PROVE  PoolInv' /\ Outstanding' = Outstanding
BY DEF PoolInv, Outstanding

\* An evaluation that finishes stays outstanding.
LEMMA PoolFinishes ==
  ASSUME PoolInv, NEW t \in pending, pending' = pending \ {t}, UNCHANGED batch,
         \/ background' = Append(background, t) /\ UNCHANGED preview
         \/ preview' = Append(preview, t) /\ UNCHANGED background
  PROVE  PoolInv' /\ Outstanding' = Outstanding
<1>1. pending' \in SUBSET Requests /\ IsFiniteSet(pending') /\ t \in Requests
  BY FS_RemoveElement DEF PoolInv
<1>2. t \notin Range(background) /\ t \notin Range(preview) /\ t \notin Range(batch)
  BY DEF PoolInv
<1>3. CASE background' = Append(background, t) /\ UNCHANGED preview
  <2>1. /\ background' \in Seq(Requests) /\ IsInjective(background')
        /\ Range(background') = Range(background) \cup {t}
    BY <1>1, <1>2, <1>3, AppendOne DEF PoolInv
  <2> QED
    BY <1>1, <1>2, <1>3, <2>1 DEF PoolInv, Outstanding
<1>4. CASE preview' = Append(preview, t) /\ UNCHANGED background
  <2>1. /\ preview' \in Seq(Requests) /\ IsInjective(preview')
        /\ Range(preview') = Range(preview) \cup {t}
    BY <1>1, <1>2, <1>4, AppendOne DEF PoolInv
  <2> QED
    BY <1>1, <1>2, <1>4, <2>1 DEF PoolInv, Outstanding
<1> QED
  BY <1>3, <1>4

\* So do the results that a tick collects.
LEMMA PoolCollected ==
  ASSUME PoolInv, batch = <<>>, UNCHANGED pending,
         \/ batch' = background /\ background' = <<>> /\ UNCHANGED preview
         \/ batch' = preview /\ preview' = <<>> /\ UNCHANGED background
  PROVE  PoolInv' /\ Outstanding' = Outstanding
<1>1. Range(<<>>) = {} /\ IsInjective(<<>>) /\ <<>> \in Seq(Requests)
  <2>1. <<>> \in Seq(Requests)
    OBVIOUS
  <2> QED
    BY <2>1, EmptyRange
<1>2. CASE batch' = background /\ background' = <<>> /\ UNCHANGED preview
  BY <1>1, <1>2 DEF PoolInv, Outstanding
<1>3. CASE batch' = preview /\ preview' = <<>> /\ UNCHANGED background
  BY <1>1, <1>3 DEF PoolInv, Outstanding
<1> QED
  BY <1>2, <1>3

\* A result that is processed is not outstanding any more.
LEMMA PoolProcessed ==
  ASSUME PoolInv, batch # <<>>, batch' = Tail(batch), UNCHANGED <<pending, background, preview>>
  PROVE  /\ PoolInv' /\ Outstanding' = Outstanding \ {Head(batch)}
         /\ Head(batch) \in Outstanding
<1>1. /\ batch' \in Seq(Requests) /\ IsInjective(batch') /\ Head(batch) \in Range(batch)
      /\ Range(batch') = Range(batch) \ {Head(batch)}
  BY TailOne DEF PoolInv
<1>2. Head(batch) \notin pending /\ Head(batch) \notin Range(background)
      /\ Head(batch) \notin Range(preview)
  BY <1>1 DEF PoolInv
<1> QED
  BY <1>1, <1>2 DEF PoolInv, Outstanding

\* What is submitted to a quiet pool is then all that is outstanding.
LEMMA PoolSubmitted ==
  ASSUME PoolInv, Outstanding = {}, NEW requests \in SUBSET Requests, IsFiniteSet(requests),
         Submit(requests), UNCHANGED <<background, preview, batch>>
  PROVE  PoolInv' /\ Outstanding' = requests
<1>1. pending = {} /\ background = <<>> /\ preview = <<>> /\ batch = <<>>
  BY OutstandingCount
<1>2. pending' = requests
  BY <1>1 DEF Submit
<1>3. Range(<<>>) = {}
  BY EmptyRange DEF PoolInv
<1> QED
  BY <1>1, <1>2, <1>3 DEF PoolInv, Outstanding

LEMMA PoolStopped ==
  ASSUME pending' = {}, background' = <<>>, preview' = <<>>, batch' = <<>>
  PROVE  PoolInv' /\ Outstanding' = {}
<1>1. Range(<<>>) = {} /\ IsInjective(<<>>) /\ <<>> \in Seq(Requests)
  <2>1. <<>> \in Seq(Requests)
    OBVIOUS
  <2> QED
    BY <2>1, EmptyRange
<1>2. IsFiniteSet({})
  BY FS_EmptySet
<1> QED
  BY <1>1, <1>2 DEF PoolInv, Outstanding
-----------------------------------------------------------------------------
(* What a step does not change.                                            *)

LEMMA PopulationSame ==
  ASSUME PopulationTypes, UNCHANGED <<config, populationVars>>,
         (at \in Training) = (at' \in Training)
  PROVE  PopulationTypes' /\ Indices' = Indices
BY DEF PopulationTypes, populationVars, Indices, PopulationSize, MaxGenerations

LEMMA CandidatesSame ==
  ASSUME CandidateTypes, UNCHANGED <<population, candidateVars, bestVars>>
  PROVE  CandidateTypes'
BY DEF CandidateTypes, candidateVars, bestVars, Indices, HasGenome

LEMMA RepositorySame ==
  ASSUME RepositoryTypes, ArchiveBounded, UNCHANGED <<config, repoVars, candidates, nextGenome>>
  PROVE  RepositoryTypes' /\ ArchiveBounded'
BY DEF RepositoryTypes, ArchiveBounded, repoVars, Storable, ArchiveMax, Managed

\* The limit holds for a part of what it held for.
LEMMA FewerStayBounded ==
  ASSUME ArchiveBounded, IsFiniteSet(DOMAIN archive), ArchiveMax' = ArchiveMax,
         ArchiveMax \in Nat,
         Managed(archive') \ unpruned' \in SUBSET (Managed(archive) \ unpruned)
  PROVE  ArchiveBounded'
<1> DEFINE S == Managed(archive) \ unpruned
           T == Managed(archive') \ unpruned'
<1>1. IsFiniteSet(S)
  BY ManagedIsFinite, FS_Difference
<1>2. T \in SUBSET S
  OBVIOUS
<1>3. ArchiveMax > 0 => Cardinality(S) <= ArchiveMax
  BY DEF ArchiveBounded
<1>4. ArchiveBounded' = (ArchiveMax > 0 => Cardinality(T) <= ArchiveMax)
  BY DEF ArchiveBounded
<1> HIDE DEF S, T
<1>5. IsFiniteSet(T) /\ Cardinality(T) <= Cardinality(S)
  BY <1>1, <1>2, FS_Subset
<1>6. Cardinality(T) \in Nat /\ Cardinality(S) \in Nat
  BY <1>1, <1>5, FS_CardinalityType
<1>7. ArchiveMax > 0 => Cardinality(T) <= ArchiveMax
  BY <1>3, <1>5, <1>6
<1> QED
  BY <1>4, <1>7

LEMMA RequestsSame ==
  ASSUME RequestInv, Outstanding' = Outstanding,
         UNCHANGED <<config, population, generation, candidateVars>>,
         todo' = "finish" => todo = "finish"
  PROVE  RequestInv'
<1>1. UNCHANGED <<config, population, generation, pendingBest, robustnessPass>>
  BY DEF candidateVars
<1> QED
  BY <1>1 DEF RequestInv, OutstandingOf, RobustCount, Indices, HasGenome

LEMMA ScoringSame ==
  ASSUME ScoringInv, Outstanding' = Outstanding,
         UNCHANGED <<config, population, generation, currentEval, scored, robustnessPass>>,
         at' \in Training \ {"enter"} => at \in Training \ {"enter"},
         todo' = "finish" => todo = "finish"
  PROVE  ScoringInv'
BY DEF ScoringInv, ResultsMatchPopulation, OutstandingOf, RobustCount, Indices

LEMMA BestSame ==
  ASSUME BestInv,
         UNCHANGED <<config, population, fitnessScores, scored, bestVars, archiveBest, pendingBest>>,
         commands' = 0 => commands = 0
  PROVE  BestInv'
<1>1. UNCHANGED <<config, population, fitnessScores, scored, bestFitnessAllTime, bestGenomeId,
                  archiveBest, pendingBest>>
  BY DEF bestVars
<1> QED
  BY <1>1 DEF BestInv, AllGenomic, PopulationSize, ArchiveMax, RobustCount, Indices, HasGenome
-----------------------------------------------------------------------------
(* Commands.                                                               *)

LEMMA PausePreserves ==
  ASSUME TrainingInv, EvolutionPauseSet
  PROVE  TrainingInv'
<1> USE DEF TrainingInv
<1>1. /\ UNCHANGED <<loopVars, poolVars, populationVars, candidateVars, bestVars, repoVars,
                     candidates, config, trainingComplete, sessions>>
      /\ paused' = ~paused
      /\ \/ commands' = commands
         \/ commands' = commands + 1 /\ commands < MaxCommands
  BY DEF EvolutionPauseSet
<1>2. UNCHANGED <<at, todo, batch, up, pending, background, preview, archiveBest,
                  population, fitnessScores, scored, generation, currentEval,
                  pruneBeforeBreeding, nextGenome, pendingBest, robustnessPass,
                  bestFitnessAllTime, bestGenomeId>>
  BY <1>1 DEF loopVars, poolVars, populationVars, candidateVars, bestVars, repoVars
<1>3. PoolInv' /\ Outstanding' = Outstanding
  BY <1>2, PoolUnchanged
<1>4. commands \in 0..MaxCommands /\ MaxCommands \in Nat
  BY TrainingAssumption DEF LoopTypes
<1>5. commands' \in 0..MaxCommands /\ (commands' = 0 => commands = 0)
  BY <1>1, <1>4
<1>6. LoopTypes'
  BY <1>1, <1>2, <1>5 DEF LoopTypes
<1>7. PopulationTypes' /\ Indices' = Indices
  BY <1>1, <1>2, PopulationSame
<1>8. CandidateTypes' /\ RepositoryTypes' /\ ArchiveBounded'
  BY <1>1, <1>2, CandidatesSame, RepositorySame
<1>9. RequestInv' /\ ScoringInv' /\ BestInv'
  BY <1>1, <1>2, <1>3, <1>5, RequestsSame, ScoringSame, BestSame
<1>10. FreshInv'
  BY <1>2, <1>3 DEF FreshInv
<1>11. TickInv'
  BY <1>2, <1>7 DEF TickInv
<1> QED
  BY <1>3, <1>6, <1>7, <1>8, <1>9, <1>10, <1>11

LEMMA DeletePreserves ==
  ASSUME TrainingInv, NEW g \in DOMAIN archive, GenomeDelete(g)
  PROVE  TrainingInv'
<1> USE DEF TrainingInv
<1>1. /\ UNCHANGED <<loopVars, poolVars, populationVars, candidateVars, bestVars,
                     candidates, config, paused, trainingComplete, sessions>>
      /\ commands' = commands + 1 /\ commands < MaxCommands
      /\ archive' = [h \in DOMAIN archive \ {g} |-> archive[h]]
      /\ archiveBest' = IF archiveBest = g THEN NoGenome ELSE archiveBest
      /\ unpruned' = unpruned \ {g}
  BY DEF GenomeDelete
<1>2. UNCHANGED <<at, todo, batch, up, pending, background, preview,
                  population, fitnessScores, scored, generation, currentEval,
                  pruneBeforeBreeding, nextGenome, pendingBest, robustnessPass,
                  bestFitnessAllTime, bestGenomeId>>
  BY <1>1 DEF loopVars, poolVars, populationVars, candidateVars, bestVars
<1>3. PoolInv' /\ Outstanding' = Outstanding
  BY <1>2, PoolUnchanged
<1>4. commands \in 0..MaxCommands /\ MaxCommands \in Nat
  BY TrainingAssumption DEF LoopTypes
<1>5. commands' \in 0..MaxCommands /\ commands' # 0
  BY <1>1, <1>4
<1>6. LoopTypes'
  BY <1>1, <1>2, <1>5 DEF LoopTypes
<1>7. PopulationTypes' /\ Indices' = Indices
  BY <1>1, <1>2, PopulationSame
<1>8. CandidateTypes'
  BY <1>1, <1>2, CandidatesSame
<1>9. RequestInv' /\ ScoringInv'
  BY <1>1, <1>2, <1>3, RequestsSame, ScoringSame
<1>10. BestInv'
  BY <1>1, <1>2, <1>5 DEF BestInv, AllGenomic, PopulationSize, ArchiveMax, RobustCount, Indices,
     HasGenome
<1>11. RepositoryTypes' /\ ArchiveBounded'
  <2>1. DOMAIN archive' = DOMAIN archive \ {g}
        /\ \A h \in DOMAIN archive' : archive'[h] = archive[h]
    BY <1>1
  <2>2. IsFiniteSet(DOMAIN archive \ {g}) /\ IsFiniteSet(DOMAIN archive)
    BY FS_RemoveElement DEF RepositoryTypes
  <2>3. RepositoryTypes'
    BY <1>1, <1>2, <2>1, <2>2 DEF RepositoryTypes, Storable, NoGenome
  <2>4. ArchiveMax' = ArchiveMax /\ ArchiveMax \in Nat
    BY <1>1, ConfigTypes DEF ArchiveMax, PopulationTypes
  <2>5. Managed(archive') \ unpruned' \in SUBSET (Managed(archive) \ unpruned)
    BY <1>1, <2>1 DEF Managed
  <2>6. ArchiveBounded'
    BY <2>2, <2>4, <2>5, FewerStayBounded
  <2> QED
    BY <2>3, <2>6
<1>12. FreshInv'
  BY <1>2, <1>3 DEF FreshInv
<1>13. TickInv'
  BY <1>2, <1>7 DEF TickInv
<1> QED
  BY <1>3, <1>6, <1>7, <1>8, <1>9, <1>10, <1>11, <1>12, <1>13

\* An import may go over the limit: no prune has seen it.
LEMMA GenomeSetPreserves ==
  ASSUME TrainingInv, NEW g \in 1..nextGenome, NEW entry \in Imports, GenomeSet(g, entry)
  PROVE  TrainingInv'
<1> USE DEF TrainingInv
<1>1. /\ UNCHANGED <<loopVars, poolVars, population, fitnessScores, scored, generation,
                     currentEval, pruneBeforeBreeding, candidateVars, bestVars, archiveBest,
                     candidates, config, paused, trainingComplete, sessions>>
      /\ commands' = commands + 1 /\ commands < MaxCommands
      /\ archive' = [h \in DOMAIN archive \cup {g} |-> IF h = g THEN entry ELSE archive[h]]
      /\ unpruned' = unpruned \cup {g}
      /\ nextGenome' = IF g = nextGenome THEN nextGenome + 1 ELSE nextGenome
  BY DEF GenomeSet
<1>2. UNCHANGED <<at, todo, batch, up, pending, background, preview, pendingBest,
                  robustnessPass, bestFitnessAllTime, bestGenomeId>>
  BY <1>1 DEF loopVars, poolVars, candidateVars, bestVars
<1>3. PoolInv' /\ Outstanding' = Outstanding
  BY <1>2, PoolUnchanged
<1>4. commands \in 0..MaxCommands /\ MaxCommands \in Nat
  BY TrainingAssumption DEF LoopTypes
<1>5. commands' \in 0..MaxCommands /\ commands' # 0
  BY <1>1, <1>4
<1>6. LoopTypes'
  BY <1>1, <1>2, <1>5 DEF LoopTypes
<1>7. /\ nextGenome \in Nat \ {0} /\ nextGenome' \in Nat \ {0}
      /\ g \in Nat \ {NoGenome} /\ g < nextGenome' /\ nextGenome <= nextGenome'
  <2>1. nextGenome \in Nat \ {0}
    BY DEF PopulationTypes
  <2> QED
    BY <1>1, <2>1 DEF NoGenome
<1>8. Indices' = Indices
  BY <1>1 DEF Indices
<1>9. PopulationTypes'
  <2>1. \A i \in Indices : population[i].genome \in Nat /\ population[i].genome < nextGenome
    <3>1. \A i \in Indices : population[i] \in Individuals
      BY DEF PopulationTypes, Indices
    <3> QED
      BY <3>1 DEF PopulationTypes, Individuals
  <2>2. \A i \in Indices' : population'[i].genome < nextGenome'
    BY <1>1, <1>7, <1>8, <2>1
  <2> QED
    BY <1>1, <1>2, <1>7, <1>8, <2>2 DEF PopulationTypes, PopulationSize, MaxGenerations
<1>10. CandidateTypes'
  BY <1>1, CandidatesSame
<1>11. RequestInv' /\ ScoringInv'
  BY <1>1, <1>2, <1>3, RequestsSame, ScoringSame
<1>12. BestInv'
  BY <1>1, <1>2, <1>5, BestSame
<1>13. RepositoryTypes' /\ ArchiveBounded'
  <2>1. /\ DOMAIN archive' = DOMAIN archive \cup {g} /\ archive'[g] = entry
        /\ \A h \in DOMAIN archive \ {g} : archive'[h] = archive[h]
    BY <1>1
  <2>2. IsFiniteSet(DOMAIN archive) /\ IsFiniteSet(DOMAIN archive')
    BY <2>1, FS_AddElement DEF RepositoryTypes
  <2>3. entry.fitness \in StoredFitness
    BY FitnessTypes
  <2>4. \A h \in DOMAIN archive : /\ h \in Nat \ {NoGenome} /\ h < nextGenome
                                   /\ archive[h].fitness \in StoredFitness
    BY DEF RepositoryTypes, Storable
  <2>5. ASSUME NEW h \in DOMAIN archive'
        PROVE  /\ h \in Nat \ {NoGenome} /\ h < nextGenome'
               /\ archive'[h].fitness \in StoredFitness
    <3>1. CASE h = g
      BY <1>7, <2>1, <2>3, <3>1
    <3>2. CASE h # g
      <4>1. h \in DOMAIN archive /\ archive'[h] = archive[h]
        BY <2>1, <3>2
      <4> QED
        BY <1>7, <2>4, <4>1
    <3> QED
      BY <3>1, <3>2
  <2>6. ASSUME NEW c \in candidates'
        PROVE  c.genome \in Nat \ {NoGenome} /\ c.genome < nextGenome'
               /\ c.fitness \in StoredFitness
    <3>1. Storable(c.genome, c.fitness)
      BY <1>1 DEF RepositoryTypes
    <3> QED
      BY <1>7, <3>1 DEF Storable
  <2>7. RepositoryTypes'
    BY <1>1, <2>2, <2>5, <2>6 DEF RepositoryTypes, Storable
  <2>8. ArchiveMax' = ArchiveMax /\ ArchiveMax \in Nat
    BY <1>1, ConfigTypes DEF ArchiveMax, PopulationTypes
  <2>9. Managed(archive') \ unpruned' \in SUBSET (Managed(archive) \ unpruned)
    BY <1>1, <2>1 DEF Managed
  <2>10. ArchiveBounded'
    BY <2>2, <2>8, <2>9, FewerStayBounded
  <2> QED
    BY <2>7, <2>10
<1>14. FreshInv'
  BY <1>1, <1>2, <1>3 DEF FreshInv
<1>15. TickInv'
  BY <1>1, <1>2, <1>8 DEF TickInv
<1> QED
  BY <1>3, <1>6, <1>9, <1>10, <1>11, <1>12, <1>13, <1>14, <1>15

\* Leaving an unsaved result without saving it.
LEMMA UnsavedPreserves ==
  ASSUME TrainingInv, ExitUnsaved \/ TrainingResultDiscard
  PROVE  TrainingInv'
<1> USE DEF TrainingInv
<1>1. /\ UNCHANGED <<todo, batch, poolVars, populationVars, candidateVars, bestVars,
                     repoVars, sessionVars>>
      /\ at = "unsaved" /\ at' \in {"idle", "shutdown"} /\ candidates' = {}
  BY DEF ExitUnsaved, TrainingResultDiscard
<1>2. UNCHANGED <<todo, batch, up, pending, background, preview, archiveBest, archive,
                  population, fitnessScores, scored, generation, currentEval,
                  pruneBeforeBreeding, nextGenome, pendingBest, robustnessPass, config,
                  bestFitnessAllTime, bestGenomeId, commands, paused, trainingComplete, sessions>>
  BY <1>1 DEF poolVars, populationVars, candidateVars, bestVars, repoVars, sessionVars
<1>3. PoolInv' /\ Outstanding' = Outstanding
  BY <1>2, PoolUnchanged
<1>4. at \notin Training /\ at' \notin Training /\ at' # "loop"
  BY <1>1 DEF Training
<1>6. LoopTypes'
  BY <1>1, <1>2, <1>4 DEF LoopTypes
<1>7. PopulationTypes' /\ Indices' = Indices
  BY <1>1, <1>2, <1>4, PopulationSame
<1>8. CandidateTypes'
  BY <1>1, <1>2, CandidatesSame
<1>9. RequestInv' /\ ScoringInv' /\ BestInv'
  BY <1>1, <1>2, <1>3, <1>4, RequestsSame, ScoringSame, BestSame
<1>10. FreshInv'
  BY <1>2, <1>3, <1>4 DEF FreshInv
<1>11. TickInv'
  BY <1>1, <1>2, <1>4, <1>7 DEF TickInv
<1>12. RepositoryTypes' /\ ArchiveBounded'
  <2>1. IsFiniteSet(candidates')
    BY <1>1, FS_EmptySet
  <2>2. unpruned' = unpruned
    BY <1>1 DEF repoVars
  <2> QED
    BY <1>1, <1>2, <2>1, <2>2 DEF RepositoryTypes, ArchiveBounded, Storable, ArchiveMax
<1> QED
  BY <1>3, <1>6, <1>7, <1>8, <1>9, <1>10, <1>11, <1>12

LEMMA SavePreserves ==
  ASSUME TrainingInv, TrainingResultSave
  PROVE  TrainingInv'
<1> USE DEF TrainingInv
<1>1. /\ UNCHANGED <<todo, batch, poolVars, populationVars, candidateVars, bestVars,
                     archiveBest, sessionVars>>
      /\ at = "unsaved" /\ at' \in {"idle", "restart"} /\ candidates' = {}
  BY DEF TrainingResultSave
<1>2. UNCHANGED <<todo, batch, up, pending, background, preview, archiveBest,
                  population, fitnessScores, scored, generation, currentEval,
                  pruneBeforeBreeding, nextGenome, pendingBest, robustnessPass, config,
                  bestFitnessAllTime, bestGenomeId, commands, paused, trainingComplete, sessions>>
  BY <1>1 DEF poolVars, populationVars, candidateVars, bestVars, sessionVars
<1>3. PoolInv' /\ Outstanding' = Outstanding
  BY <1>2, PoolUnchanged
<1>4. at \notin Training /\ at' \notin Training /\ at' # "loop"
  BY <1>1 DEF Training
<1>6. LoopTypes'
  BY <1>1, <1>2, <1>4 DEF LoopTypes
<1>7. PopulationTypes' /\ Indices' = Indices
  BY <1>1, <1>2, <1>4, PopulationSame
<1>8. CandidateTypes'
  BY <1>1, <1>2, CandidatesSame
<1>9. RequestInv' /\ ScoringInv' /\ BestInv'
  BY <1>1, <1>2, <1>3, <1>4, RequestsSame, ScoringSame, BestSame
<1>10. FreshInv'
  BY <1>2, <1>3, <1>4 DEF FreshInv
<1>11. TickInv'
  BY <1>1, <1>2, <1>4, <1>7 DEF TickInv
<1>12. RepositoryTypes' /\ ArchiveBounded'
  <2>0. PICK chosen \in SUBSET candidates :
          \E order \in SetToSeqs(chosen) : Prune(AllStored(order))
    BY DEF TrainingResultSave
  <2>1. PICK order \in SetToSeqs(chosen) : Prune(AllStored(order))
    BY <2>0
  <2>2. GoodRepository(archive)
    BY DEF RepositoryTypes, GoodRepository
  <2>3. order \in Seq(chosen)
    <3>1. order \in [1..Cardinality(chosen) -> chosen]
      BY <2>1 DEF SetToSeqs
    <3>2. Cardinality(chosen) \in Nat
      <4>1. IsFiniteSet(chosen)
        BY FS_Subset DEF RepositoryTypes
      <4> QED
        BY <4>1, FS_CardinalityType
    <3> QED
      BY <3>1, <3>2
  <2>4. \A c \in chosen : Storable(c.genome, c.fitness)
    BY DEF RepositoryTypes
  <2>5. GoodRepository(AllStored(order))
    BY <2>2, <2>3, <2>4, AllStoredIsGood
  <2>6. GoodRepository(archive') /\ Bounded(archive', unpruned')
    <3> DEFINE repo == AllStored(order)
    <3>1. config \in Configs /\ Prune(repo) /\ GoodRepository(repo)
      BY <2>1, <2>5 DEF PopulationTypes
    <3> HIDE DEF repo
    <3> QED
      BY <3>1, PruneBounds
  <2>7. IsFiniteSet(candidates')
    BY <1>1, FS_EmptySet
  <2> QED
    BY <1>1, <1>2, <2>6, <2>7
    DEF GoodRepository, Bounded, RepositoryTypes, ArchiveBounded, Storable, ArchiveMax
<1> QED
  BY <1>3, <1>6, <1>7, <1>8, <1>9, <1>10, <1>11, <1>12

LEMMA GenerationLimit ==
  ASSUME NEW c \in Configs
  PROVE  0 \in 0..Max({c.maxGenerations, Horizon + 1})
<1>1. c.maxGenerations \in Nat /\ Horizon + 1 \in Nat
  BY TrainingAssumption DEF EvolutionConfig
<1> DEFINE a == c.maxGenerations
           b == Horizon + 1
<1>2. a \in Int /\ b \in Int
  BY <1>1
<1> HIDE DEF a, b
<1>3. Max({a, b}) \in {a, b}
  BY <1>2, MaxOfTwo
<1>4. Max({a, b}) \in Nat
  BY <1>1, <1>3 DEF a, b
<1>5. 0 \in 0..Max({a, b})
  BY <1>4
<1> QED
  BY <1>5 DEF a, b

\* A genome brain starts from a new genome or from one of the repository's.
LEMMA StartPreserves ==
  ASSUME TrainingInv, NEW c \in Configs, EvolutionStart(c)
  PROVE  TrainingInv'
<1> USE DEF TrainingInv
<1> DEFINE N == c.populationSize
<1>1. /\ UNCHANGED <<todo, batch, pending, background, preview, paused,
                     trainingComplete, commands, scored, generation, currentEval,
                     pruneBeforeBreeding, candidateVars, bestVars, archive, archiveBest>>
      /\ config' = c /\ unpruned' = IF c = config THEN unpruned ELSE DOMAIN archive
      /\ at \in {"idle", "unsaved", "restart"} /\ at' = "enter" /\ up' = TRUE
      /\ sessions < MaxSessions /\ sessions' = sessions + 1 /\ candidates' = {}
      /\ nextGenome' = nextGenome + N /\ fitnessScores' = [i \in 1..N |-> 0]
  BY DEF EvolutionStart
<1>2. UNCHANGED <<pendingBest, robustnessPass, bestFitnessAllTime, bestGenomeId>>
  BY <1>1 DEF candidateVars, bestVars
<1>3. PoolInv' /\ Outstanding' = Outstanding
  BY <1>1, PoolUnchanged
<1>4. /\ at \notin Training \ {"enter"} /\ at' \notin Training \ {"enter"}
      /\ at' \in Training /\ at' # "loop"
  BY <1>1 DEF Training
<1>5. /\ Outstanding = {} /\ todo = "none" /\ scored = {} /\ currentEval = 0
      /\ generation = 0 /\ ~pruneBeforeBreeding
      /\ pendingBest = NoCandidate /\ robustnessPass = NoPass
      /\ bestFitnessAllTime = Lowest /\ bestGenomeId = NoGenome
  BY <1>4 DEF FreshInv
<1>6. LoopTypes'
  <2>1. sessions \in 0..MaxSessions /\ MaxSessions \in Nat
    BY TrainingAssumption DEF LoopTypes
  <2>2. sessions' \in 0..MaxSessions
    BY <1>1, <2>1
  <2> QED
    BY <1>1, <1>4, <2>2 DEF LoopTypes
<1>7. N \in Nat \ {0} /\ nextGenome \in Nat \ {0} /\ c.genomic \subseteq 1..N
  BY TrainingAssumption DEF EvolutionConfig, PopulationTypes
<1>8. PICK seeds \in [c.genomic -> DOMAIN archive \cup {NoGenome}] :
        population' = [i \in 1..N |->
          [genome |-> IF i \notin c.genomic THEN NoGenome
                      ELSE IF seeds[i] = NoGenome THEN nextGenome + i - 1 ELSE seeds[i],
           origin |-> "Seed"]]
  BY DEF EvolutionStart
<1>9. PopulationSize' = N /\ MaxGenerations' = c.maxGenerations
  BY <1>1 DEF PopulationSize, MaxGenerations
<1> HIDE DEF N
<1>10. ASSUME NEW i \in 1..N
       PROVE  /\ population'[i] \in Individuals /\ population'[i].genome < nextGenome + N
              /\ i \in c.genomic => population'[i].genome # NoGenome
  <2> DEFINE g == IF i \notin c.genomic THEN NoGenome
                  ELSE IF seeds[i] = NoGenome THEN nextGenome + i - 1 ELSE seeds[i]
  <2>1. g \in Nat /\ g < nextGenome + N /\ (i \in c.genomic => g # NoGenome)
    <3>1. CASE i \notin c.genomic
      BY <1>7, <3>1 DEF NoGenome
    <3>2. CASE i \in c.genomic /\ seeds[i] = NoGenome
      BY <1>7, <3>2 DEF NoGenome
    <3>3. CASE i \in c.genomic /\ seeds[i] # NoGenome
      <4>1. seeds[i] \in DOMAIN archive
        BY <1>8, <3>3
      <4>2. seeds[i] \in Nat /\ seeds[i] < nextGenome
        BY <4>1 DEF RepositoryTypes, Storable
      <4> QED
        BY <1>7, <3>3, <4>2
    <3> QED
      BY <3>1, <3>2, <3>3
  <2>2. population'[i] = [genome |-> g, origin |-> "Seed"]
    BY <1>8
  <2> HIDE DEF g
  <2>3. population'[i] \in Individuals /\ population'[i].genome = g
    BY <2>1, <2>2 DEF Individuals, Origins
  <2> QED
    BY <2>1, <2>3
<1>11. population' \in Seq(Individuals) /\ Len(population') = N
  <2>1. population' \in [1..N -> Individuals]
    BY <1>8, <1>10
  <2> QED
    BY <1>7, <2>1
<1>12. Indices' = 1..N
  BY <1>11 DEF Indices
<1>13. PopulationTypes'
  <2>1. fitnessScores' \in [1..N -> Fitness \cup {0}]
    BY <1>1
  <2>2. nextGenome' \in Nat \ {0} /\ \A i \in 1..N : population'[i].genome < nextGenome'
    BY <1>1, <1>7, <1>10
  <2>3. generation' \in 0..Max({MaxGenerations', Horizon + 1})
    BY <1>1, <1>5, <1>9, GenerationLimit
  <2>4. config' \in Configs /\ scored' \in SUBSET Indices' /\ pruneBeforeBreeding' = FALSE
    BY <1>1, <1>5 DEF PopulationTypes
  <2> QED
    BY <1>4, <1>9, <1>11, <1>12, <2>1, <2>2, <2>3, <2>4 DEF PopulationTypes
<1>14. CandidateTypes'
  BY <1>2, <1>5 DEF CandidateTypes, NoCandidate, NoPass
<1>15. RepositoryTypes' /\ ArchiveBounded'
  <2>1. \A g \in Nat : g < nextGenome => g < nextGenome'
    BY <1>1, <1>7
  <2>2. IsFiniteSet(candidates')
    BY <1>1, FS_EmptySet
  <2>3. RepositoryTypes'
    BY <1>1, <2>1, <2>2 DEF RepositoryTypes, Storable
  <2>4. CASE c = config
    <3>1. UNCHANGED <<config, archive, unpruned>>
      BY <1>1, <2>4
    <3> QED
      BY <2>3, <3>1 DEF ArchiveBounded, ArchiveMax
  <2>5. CASE c # config
    <3>1. Managed(archive') \ unpruned' = {}
      BY <1>1, <2>5 DEF Managed
    <3>2. ArchiveMax' \in Nat
      BY <1>1, TrainingAssumption DEF ArchiveMax, EvolutionConfig
    <3>3. Cardinality(Managed(archive') \ unpruned') = 0
      BY <3>1, FS_EmptySet
    <3> QED
      BY <2>3, <3>2, <3>3 DEF ArchiveBounded
  <2> QED
    BY <2>3, <2>4, <2>5
<1>16. FreshInv' /\ TickInv'
  <2>1. FreshInv'
    BY <1>1, <1>2, <1>3, <1>5 DEF FreshInv
  <2>2. background = <<>> /\ preview = <<>> /\ batch = <<>>
    BY <1>5, OutstandingCount
  <2> QED
    BY <1>1, <1>4, <1>5, <2>1, <2>2 DEF TickInv
<1>17. RequestInv' /\ ScoringInv'
  <2>1. Outstanding' = {} /\ todo' = "none" /\ robustnessPass' = NoPass
    BY <1>1, <1>2, <1>3, <1>5
  <2>2. ~robustnessPass'.active
    BY <2>1 DEF NoPass
  <2> QED
    BY <1>4, <2>1, <2>2 DEF RequestInv, ScoringInv, OutstandingOf, ResultsMatchPopulation
<1>18. BestInv'
  <2>1. /\ bestFitnessAllTime' = Lowest /\ scored' = {} /\ pendingBest' = NoCandidate
        /\ ~pendingBest'.robustness
    BY <1>1, <1>2, <1>5 DEF NoCandidate
  <2>2. AllGenomic' => \A i \in Indices' : HasGenome(i)'
    BY <1>1, <1>9, <1>10, <1>12 DEF AllGenomic, HasGenome
  <2>3. Lowest >= Lowest
    BY DEF Lowest
  <2> QED
    BY <2>1, <2>2, <2>3 DEF BestInv
<1> QED
  BY <1>3, <1>6, <1>13, <1>14, <1>15, <1>16, <1>17, <1>18

LEMMA FiniteRange ==
  ASSUME NEW S, NEW T, NEW f \in [S -> T], IsFiniteSet(S)
  PROVE  IsFiniteSet({f[x] : x \in S}) /\ Cardinality({f[x] : x \in S}) <= Cardinality(S)
<1>1. f \in Surjection(S, Range(f))
  BY Fun_RangeProperties
<1>2. Range(f) = {f[x] : x \in S}
  BY DEF Range
<1> QED
  BY <1>1, <1>2, FS_Surjection

LEMMA FiniteIndices ==
  ASSUME PopulationTypes
  PROVE  IsFiniteSet(Indices) /\ Cardinality(Indices) = Len(population)
         /\ Len(population) \in Nat /\ DOMAIN population = Indices
<1>1. Len(population) \in Nat /\ DOMAIN population = Indices
  BY DEF PopulationTypes, Indices
<1>2. IsFiniteSet(1..Len(population)) /\ Cardinality(1..Len(population)) =
        IF 1 > Len(population) THEN 0 ELSE Len(population) - 1 + 1
  BY <1>1, FS_Interval
<1> QED
  BY <1>1, <1>2 DEF Indices

\* A generation's requests: one for each individual.
LEMMA RequestsOfGeneration ==
  ASSUME NEW pop \in Seq(Individuals), NEW gen \in Nat
  PROVE  /\ GenerationRequests(pop, gen) \in SUBSET Requests
         /\ IsFiniteSet(GenerationRequests(pop, gen))
         /\ \A t \in GenerationRequests(pop, gen) :
              /\ t.kind = "generation" /\ t.sample = 0 /\ t.index \in 1..Len(pop)
              /\ t.genome = pop[t.index].genome /\ t.generation = gen
         /\ {t.index : t \in GenerationRequests(pop, gen)} = 1..Len(pop)
<1> DEFINE D == 1..Len(pop)
           f == [i \in D |-> [kind |-> "generation", index |-> i, sample |-> 0,
                              genome |-> pop[i].genome, generation |-> gen]]
           G == GenerationRequests(pop, gen)
<1>1. Len(pop) \in Nat /\ DOMAIN pop = D /\ \A i \in D : pop[i] \in Individuals
  OBVIOUS
<1>2. \A i \in D : pop[i].genome \in Nat /\ i \in Nat
  BY <1>1 DEF Individuals
<1>3. G = {f[i] : i \in D}
  BY <1>1 DEF GenerationRequests
<1>4. \A i \in D : f[i] = [kind |-> "generation", index |-> i, sample |-> 0,
                           genome |-> pop[i].genome, generation |-> gen]
  OBVIOUS
<1>5. f \in [D -> {f[i] : i \in D}]
  OBVIOUS
<1> HIDE DEF G, f
<1>6. ASSUME NEW i \in D
      PROVE  /\ f[i] \in Requests /\ f[i].kind = "generation" /\ f[i].sample = 0
             /\ f[i].index = i /\ f[i].genome = pop[i].genome /\ f[i].generation = gen
  <2> DEFINE g == pop[i].genome
  <2>1. g \in Nat /\ i \in Nat
    BY <1>2
  <2>2. f[i] = [kind |-> "generation", index |-> i, sample |-> 0, genome |-> g,
                generation |-> gen]
    BY <1>4
  <2> HIDE DEF g, D
  <2>3. f[i] \in Requests
    BY <2>1, <2>2 DEF Requests
  <2>4. f[i].kind = "generation" /\ f[i].sample = 0 /\ f[i].index = i /\ f[i].genome = g
        /\ f[i].generation = gen
    BY <2>2
  <2> QED
    BY <2>3, <2>4 DEF g
<1>7. IsFiniteSet(D)
  BY <1>1, FS_Interval
<1> HIDE DEF D
<1>8. IsFiniteSet(G)
  <2> DEFINE T == {f[i] : i \in D}
  <2>1. f \in [D -> T]
    BY <1>5
  <2>2. IsFiniteSet({f[x] : x \in D})
    <3> HIDE DEF T
    <3> QED
      BY <1>7, <2>1, FiniteRange
  <2> QED
    BY <1>3, <2>2
<1>9. {t.index : t \in G} = D
  BY <1>3, <1>6
<1> QED
  BY <1>3, <1>6, <1>8, <1>9 DEF G, D

LEMMA QueuePreserves ==
  ASSUME TrainingInv, QueueFirstGeneration
  PROVE  TrainingInv'
<1> USE DEF TrainingInv
<1> DEFINE G == GenerationRequests(population, generation)
<1>1. /\ UNCHANGED <<todo, batch, up, background, preview, populationVars, candidateVars,
                     bestVars, repoVars, candidates, sessionVars>>
      /\ at = "enter" /\ at' = "loop" /\ Submit(G)
  BY DEF QueueFirstGeneration
<1>2. UNCHANGED <<archiveBest, archive,
                  population, fitnessScores, scored, generation, currentEval,
                  pruneBeforeBreeding, nextGenome, pendingBest, robustnessPass, config,
                  bestFitnessAllTime, bestGenomeId, commands, paused, trainingComplete, sessions>>
  BY <1>1 DEF populationVars, candidateVars, bestVars, repoVars, sessionVars
<1>3. /\ at \notin Training \ {"enter"} /\ at' \in Training \ {"enter"}
      /\ at' \in Training /\ at \in Training
  BY <1>1 DEF Training
<1>4. /\ Outstanding = {} /\ todo = "none" /\ scored = {} /\ currentEval = 0
      /\ generation = 0 /\ pendingBest = NoCandidate /\ robustnessPass = NoPass
  BY <1>3 DEF FreshInv
<1>5. /\ G \in SUBSET Requests /\ IsFiniteSet(G)
      /\ \A t \in G : /\ t.kind = "generation" /\ t.sample = 0 /\ t.index \in Indices
                      /\ t.genome = population[t.index].genome /\ t.generation = generation
      /\ {t.index : t \in G} = Indices
  <2>1. population \in Seq(Individuals) /\ generation \in Nat
    BY <1>4 DEF PopulationTypes
  <2> QED
    BY <2>1, RequestsOfGeneration DEF Indices
<1> HIDE DEF G
<1>6. PoolInv' /\ Outstanding' = G
  BY <1>1, <1>4, <1>5, PoolSubmitted
<1>7. PopulationTypes' /\ Indices' = Indices
  BY <1>1, <1>2, <1>3, PopulationSame
<1>8. CandidateTypes' /\ RepositoryTypes' /\ ArchiveBounded'
  BY <1>1, <1>2, CandidatesSame, RepositorySame
<1>9. BestInv'
  BY <1>1, <1>2, BestSame
<1>10. LoopTypes'
  BY <1>1, <1>2, <1>3 DEF LoopTypes
<1>11. FreshInv'
  BY <1>3 DEF FreshInv
<1>12. TickInv'
  <2>1. batch = <<>> /\ background = <<>> /\ preview = <<>>
    BY <1>4, OutstandingCount
  <2> QED
    BY <1>1, <1>4, <2>1 DEF TickInv
<1>13. OutstandingOf("generation")' = G /\ OutstandingOf("robustness")' = {}
  BY <1>5, <1>6 DEF OutstandingOf
<1>14. ~robustnessPass'.active /\ todo' = "none"
  BY <1>1, <1>2, <1>4 DEF NoPass
<1>15. RequestInv'
  BY <1>5, <1>13, <1>14 DEF RequestInv
<1>16. ScoringInv'
  <2>1. ResultsMatchPopulation'
    BY <1>2, <1>5, <1>6, <1>7 DEF ResultsMatchPopulation
  <2>2. currentEval' = Cardinality(scored') /\ scored' = {}
    BY <1>2, <1>4, FS_EmptySet
  <2>3. Cardinality(OutstandingOf("robustness")') = 0
    BY <1>13, FS_EmptySet
  <2> QED
    BY <1>5, <1>7, <1>13, <1>14, <2>1, <2>2, <2>3 DEF ScoringInv
<1> QED
  BY <1>6, <1>7, <1>8, <1>9, <1>10, <1>11, <1>12, <1>15, <1>16

\* The Evolution object is left: only the repository and the candidates remain.
LEMMA LeavePreserves ==
  ASSUME TrainingInv, Leave, at' \in {"idle", "unsaved", "shutdown"},
         IsFiniteSet(candidates'), \A c \in candidates' : Storable(c.genome, c.fitness)
  PROVE  TrainingInv'
<1> USE DEF TrainingInv
<1>1. /\ Checkpoint /\ up' = FALSE
      /\ pending' = {} /\ background' = <<>> /\ preview' = <<>> /\ batch' = <<>>
      /\ todo' = "none" /\ paused' = FALSE /\ trainingComplete' = FALSE
      /\ population' = <<>> /\ fitnessScores' = <<>> /\ scored' = {}
      /\ generation' = 0 /\ currentEval' = 0 /\ pruneBeforeBreeding' = FALSE
      /\ pendingBest' = NoCandidate /\ robustnessPass' = NoPass
      /\ bestFitnessAllTime' = Lowest /\ bestGenomeId' = NoGenome
      /\ UNCHANGED <<config, nextGenome, sessions, commands>>
  BY DEF Leave, ExecutorStopped
<1>2. at' \notin Training /\ at' # "loop"
  BY DEF Training
<1>3. PoolInv' /\ Outstanding' = {}
  BY <1>1, PoolStopped
<1>4. Indices' = {} /\ Len(population') = 0
  BY <1>1 DEF Indices
<1>5. PopulationTypes'
  <2>1. population' \in Seq(Individuals) /\ fitnessScores' \in [Indices' -> Fitness \cup {0}]
    BY <1>1, <1>4
  <2>2. Max({MaxGenerations, Horizon + 1}) \in Nat /\ MaxGenerations' = MaxGenerations
    <3>1. MaxGenerations \in Nat /\ Horizon + 1 \in Nat
      BY ConfigTypes, TrainingAssumption DEF PopulationTypes
    <3> DEFINE a == MaxGenerations
               b == Horizon + 1
    <3>2. a \in Int /\ b \in Int
      BY <3>1
    <3> HIDE DEF a, b
    <3>3. Max({a, b}) \in {a, b}
      BY <3>2, MaxOfTwo
    <3> QED
      BY <1>1, <3>1, <3>3 DEF a, b, MaxGenerations
  <2>3. generation' \in 0..Max({MaxGenerations', Horizon + 1})
    BY <1>1, <2>2
  <2>4. config' \in Configs /\ nextGenome' \in Nat \ {0} /\ pruneBeforeBreeding' \in BOOLEAN
        /\ scored' \in SUBSET Indices' /\ \A i \in Indices' : population'[i].genome < nextGenome'
    BY <1>1, <1>4 DEF PopulationTypes
  <2> QED
    BY <1>2, <1>4, <2>1, <2>3, <2>4 DEF PopulationTypes
<1>6. LoopTypes'
  <2> DEFINE b == at' \in Training
  <2>1. b = FALSE
    BY <1>2
  <2>2. up' = b
    <3> HIDE DEF b
    <3> QED
      BY <1>1, <2>1
  <2> QED
    BY <1>1, <2>2 DEF LoopTypes
<1>7. CandidateTypes'
  BY <1>1 DEF CandidateTypes, NoCandidate, NoPass, Lowest, NoGenome
<1>8. RepositoryTypes' /\ ArchiveBounded'
  <2>1. GoodRepository(archive) /\ Bounded(archive, unpruned)
    BY DEF RepositoryTypes, GoodRepository, ArchiveBounded, Bounded
  <2>2. GoodRepository(archive') /\ Bounded(archive', unpruned') /\ archiveBest' = archiveBest
    BY <1>1, <2>1, CheckpointIsGood
  <2> QED
    BY <1>1, <2>2
    DEF RepositoryTypes, GoodRepository, ArchiveBounded, Bounded, Storable, ArchiveMax
<1>9. FreshInv' /\ TickInv'
  BY <1>1, <1>2, <1>3 DEF FreshInv, TickInv
<1>10. RequestInv' /\ ScoringInv'
  <2>1. ~robustnessPass'.active
    BY <1>1 DEF NoPass
  <2> QED
    BY <1>1, <1>2, <1>3, <2>1 DEF RequestInv, ScoringInv, OutstandingOf, ResultsMatchPopulation
<1>11. BestInv'
  <2>1. ~pendingBest'.robustness /\ Lowest >= Lowest
    BY <1>1 DEF NoCandidate, Lowest
  <2> QED
    BY <1>1, <1>4, <2>1 DEF BestInv
<1> QED
  BY <1>3, <1>5, <1>6, <1>7, <1>8, <1>9, <1>10, <1>11

\* The result of a training offers genomes that may be stored.
LEMMA TickCompletePreserves ==
  ASSUME TrainingInv, TickComplete
  PROVE  TrainingInv'
<1> USE DEF TrainingInv
<1> DEFINE owners == {j \in Indices : HasGenome(j)}
           f == [i \in owners |-> [index |-> i, genome |-> population[i].genome,
                                   fitness |-> fitnessScores[i]]]
           T == {f[i] : i \in owners}
<1>1. candidates' = T /\ Leave /\ at' = "unsaved"
  BY DEF TickComplete
<1>2. IsFiniteSet(owners)
  <2>1. IsFiniteSet(Indices) /\ owners \in SUBSET Indices
    BY FiniteIndices
  <2> HIDE DEF owners
  <2> QED
    BY <2>1, FS_Subset
<1>3. ASSUME NEW i \in owners PROVE Storable(f[i].genome, f[i].fitness)
  <2>1. population[i] \in Individuals /\ population[i].genome < nextGenome
        /\ fitnessScores[i] \in Fitness \cup {0} /\ population[i].genome # NoGenome
    BY DEF PopulationTypes, Indices, HasGenome
  <2>2. Storable(population[i].genome, fitnessScores[i])
    BY <2>1, FitnessTypes DEF Storable, Individuals
  <2>3. f[i].genome = population[i].genome /\ f[i].fitness = fitnessScores[i]
    OBVIOUS
  <2> QED
    BY <2>2, <2>3
<1>4. f \in [owners -> T]
  OBVIOUS
<1> HIDE DEF f, owners
<1>5. IsFiniteSet(T)
  <2>1. IsFiniteSet({f[x] : x \in owners})
    <3> HIDE DEF T
    <3> QED
      BY <1>2, <1>4, FiniteRange
  <2> QED
    BY <2>1
<1>6. \A c \in T : Storable(c.genome, c.fitness)
  BY <1>3
<1> HIDE DEF T
<1> QED
  BY <1>1, <1>5, <1>6, LeavePreserves

LEMMA StopPreserves ==
  ASSUME TrainingInv, EvolutionStop \/ Exit
  PROVE  TrainingInv'
<1>1. Leave /\ at' \in {"idle", "shutdown"} /\ candidates' = candidates
  BY DEF EvolutionStop, Exit
<1>2. IsFiniteSet(candidates) /\ \A c \in candidates : Storable(c.genome, c.fitness)
  BY DEF TrainingInv, RepositoryTypes
<1> QED
  BY <1>1, <1>2, LeavePreserves
-----------------------------------------------------------------------------
(* The pool, and the tick around the results.                              *)

\* Steps that only move results.
LEMMA MovePreserves ==
  ASSUME TrainingInv, PoolInv', Outstanding' = Outstanding, TickInv',
         at \in Training \ {"enter"}, at' \in Training \ {"enter"}, todo' = todo, up' = up,
         UNCHANGED <<populationVars, candidateVars, bestVars, repoVars, candidates, sessionVars>>
  PROVE  TrainingInv'
<1> USE DEF TrainingInv
<1>1. UNCHANGED <<archiveBest, archive,
                  population, fitnessScores, scored, generation, currentEval,
                  pruneBeforeBreeding, nextGenome, pendingBest, robustnessPass, config,
                  bestFitnessAllTime, bestGenomeId, commands, paused, trainingComplete, sessions>>
  BY DEF populationVars, candidateVars, bestVars, repoVars, sessionVars
<1>2. at \in Training /\ at' \in Training
  OBVIOUS
<1>3. PopulationTypes' /\ Indices' = Indices
  BY <1>1, <1>2, PopulationSame
<1>4. CandidateTypes' /\ RepositoryTypes' /\ ArchiveBounded'
  BY <1>1, CandidatesSame, RepositorySame
<1>5. BestInv' /\ RequestInv' /\ ScoringInv'
  BY <1>1, BestSame, RequestsSame, ScoringSame
<1>6. LoopTypes'
  BY <1>1, <1>2 DEF LoopTypes
<1>7. FreshInv'
  BY DEF FreshInv
<1> QED
  BY <1>3, <1>4, <1>5, <1>6, <1>7

LEMMA FinishPreserves ==
  ASSUME TrainingInv, NEW t \in pending, Finish(t)
  PROVE  TrainingInv'
<1> USE DEF TrainingInv
<1>1. /\ up /\ generation <= Horizon /\ pending' = pending \ {t}
      /\ \/ background' = Append(background, t) /\ UNCHANGED preview
         \/ preview' = Append(preview, t) /\ UNCHANGED background
      /\ UNCHANGED <<up, loopVars, populationVars, candidateVars, bestVars, repoVars,
                     candidates, sessionVars>>
  BY DEF Finish
<1>2. UNCHANGED <<at, todo, batch, generation, scored, population>>
  BY <1>1 DEF loopVars, populationVars
<1>3. PoolInv' /\ Outstanding' = Outstanding
  BY <1>1, <1>2, PoolFinishes
<1>4. at \in Training
  BY <1>1 DEF LoopTypes
<1>5. at # "enter"
  <2>1. t \in Outstanding
    BY DEF Outstanding
  <2>2. Outstanding # {}
    BY <2>1
  <2> QED
    BY <2>2 DEF FreshInv
<1>6. TickInv'
  BY <1>1, <1>2 DEF TickInv, Indices
<1> QED
  BY <1>1, <1>2, <1>3, <1>4, <1>5, <1>6, MovePreserves

LEMMA TickPreserves ==
  ASSUME TrainingInv, TickDrain \/ TickVisible \/ TickEnd
  PROVE  TrainingInv'
<1> USE DEF TrainingInv
<1>1. /\ at \in {"loop", "drain", "visible"} /\ at' \in {"loop", "drain", "visible"}
      /\ UNCHANGED <<todo, up, pending, populationVars, candidateVars, bestVars,
                     repoVars, candidates, sessionVars>>
  BY DEF TickDrain, TickVisible, TickEnd, poolVars
<1>2. at \in Training \ {"enter"} /\ at' \in Training \ {"enter"}
  BY <1>1 DEF Training
<1>3. UNCHANGED <<generation, scored, population>>
  BY <1>1 DEF populationVars
<1>4. batch = <<>> /\ todo = "none"
  BY DEF TickDrain, TickVisible, TickEnd, TickInv, LoopTypes
<1>5. \/ batch' = background /\ background' = <<>> /\ UNCHANGED preview /\ at' # "loop"
      \/ batch' = preview /\ preview' = <<>> /\ UNCHANGED background /\ at' # "loop"
      \/ UNCHANGED <<batch, background, preview>>
  BY DEF TickDrain, TickVisible, TickEnd, poolVars
<1>6. PoolInv' /\ Outstanding' = Outstanding
  BY <1>1, <1>4, <1>5, PoolCollected, PoolUnchanged
<1>7. TickInv'
  BY <1>1, <1>3, <1>4, <1>5 DEF TickInv
<1> QED
  BY <1>1, <1>2, <1>6, <1>7, MovePreserves
-----------------------------------------------------------------------------
(* Results.                                                                *)

\* When as many results have been counted as there are individuals, all have a score.
LEMMA AllEvaluated ==
  ASSUME PopulationTypes, Cardinality(scored) >= Len(population)
  PROVE  scored = Indices
<1>1. IsFiniteSet(Indices) /\ Cardinality(Indices) = Len(population) /\ Len(population) \in Nat
  BY FiniteIndices
<1>2. scored \in SUBSET Indices
  BY DEF PopulationTypes
<1>3. IsFiniteSet(scored) /\ Cardinality(scored) <= Cardinality(Indices)
      /\ (Cardinality(Indices) = Cardinality(scored) => Indices = scored)
  BY <1>1, <1>2, FS_Subset
<1>4. Cardinality(scored) \in Nat
  BY <1>3, FS_CardinalityType
<1> QED
  BY <1>1, <1>3, <1>4

\* What an outstanding generation result must look like is determined by its index.
LEMMA OneRequestPerIndex ==
  ASSUME PoolInv, RequestInv, ResultsMatchPopulation,
         NEW t \in OutstandingOf("generation"), NEW u \in OutstandingOf("generation"),
         t.index = u.index
  PROVE  t = u
<1>1. t \in Outstanding /\ u \in Outstanding /\ t.kind = "generation" /\ u.kind = "generation"
  BY DEF OutstandingOf
<1>2. t \in Requests /\ u \in Requests
  BY <1>1, OutstandingCount
<1>3. t.sample = 0 /\ u.sample = 0
  BY DEF RequestInv
<1>4. t.genome = u.genome /\ t.generation = u.generation
  BY <1>1 DEF ResultsMatchPopulation
<1> QED
  BY <1>1, <1>2, <1>3, <1>4 DEF Requests

\* The result of an individual: it gets its score, and may become the candidate.
LEMMA GenerationResultPreserves ==
  ASSUME TrainingInv, NEW fitness \in Fitness, ProcessGenerationResult(fitness)
  PROVE  TrainingInv'
<1> USE DEF TrainingInv
<1> DEFINE t == Head(batch)
           i == t.index
<1>1. /\ at \in {"drain", "visible"} /\ todo = "none" /\ batch # <<>>
      /\ t.kind = "generation" /\ i \in Indices /\ batch' = Tail(batch)
      /\ fitnessScores' = [fitnessScores EXCEPT ![i] = fitness]
      /\ scored' = scored \cup {i} /\ currentEval' = currentEval + 1
      /\ todo' = IF Evaluated(currentEval') THEN "complete" ELSE "none"
      /\ UNCHANGED <<at, poolVars, population, generation, pruneBeforeBreeding, nextGenome,
                     robustnessPass, repoVars, candidates, sessionVars>>
  BY DEF ProcessGenerationResult
<1>2. \/ /\ fitness > bestFitnessAllTime /\ HasGenome(i) /\ CandidateReplaced(fitness)
         /\ pendingBest' = [robustness |-> TRUE, index |-> i, firstSample |-> fitness]
         /\ UNCHANGED bestVars
      \/ /\ fitness > bestFitnessAllTime /\ ~HasGenome(i)
         /\ bestFitnessAllTime' = fitness /\ bestGenomeId' = NoGenome
         /\ pendingBest' = NoCandidate
      \/ /\ \/ fitness <= bestFitnessAllTime
            \/ HasGenome(i) /\ ~CandidateReplaced(fitness)
         /\ UNCHANGED <<pendingBest, bestVars>>
  BY DEF ProcessGenerationResult
<1>3. UNCHANGED <<at, up, pending, background, preview, archiveBest, archive, config, commands, paused,
                  trainingComplete, sessions>>
  BY <1>1 DEF poolVars, repoVars, sessionVars
<1>4. at \in Training \ {"enter"} /\ at \in Training /\ at' \in Training \ {"enter"} /\ at' # "loop"
  BY <1>1, <1>3 DEF Training
<1>5. /\ PoolInv' /\ Outstanding' = Outstanding \ {t} /\ t \in Outstanding
  BY <1>1, <1>3, PoolProcessed
<1> HIDE DEF t
<1>6. t \in OutstandingOf("generation")
  BY <1>1, <1>5 DEF OutstandingOf
<1>7. /\ OutstandingOf("generation")' = OutstandingOf("generation") \ {t}
      /\ OutstandingOf("robustness")' = OutstandingOf("robustness")
  BY <1>1, <1>5 DEF OutstandingOf
<1> DEFINE E == {r.index : r \in OutstandingOf("generation")}
<1>8. /\ currentEval = Cardinality(scored) /\ scored \cap E = {} /\ scored \cup E = Indices
      /\ Cardinality(OutstandingOf("robustness")) =
           IF robustnessPass.active THEN RobustCount - Len(robustnessPass.samples) ELSE 0
  BY <1>4 DEF ScoringInv
<1>9. i \in E
  BY <1>6
<1>10. {r.index : r \in OutstandingOf("generation")'} = E \ {i}
  <2>1. \A r \in OutstandingOf("generation") : r.index = i => r = t
    BY <1>6, OneRequestPerIndex DEF ScoringInv
  <2> QED
    BY <1>6, <1>7, <2>1
<1> HIDE DEF i, E
<1>11. i \notin scored /\ scored' \cap (E \ {i}) = {} /\ scored' \cup (E \ {i}) = Indices
       /\ scored' \in SUBSET Indices
  BY <1>1, <1>8, <1>9
<1>12. IsFiniteSet(scored) /\ Cardinality(scored) \in Nat
  <2>1. scored \in SUBSET Indices
    BY DEF PopulationTypes
  <2> QED
    BY <2>1, FiniteIndices, FS_Subset, FS_CardinalityType
<1>13. currentEval' = Cardinality(scored')
  <2>1. Cardinality(scored \cup {i}) = Cardinality(scored) + 1
    BY <1>11, <1>12, FS_AddElement
  <2> QED
    BY <1>1, <1>8, <2>1
<1>14. Indices' = Indices
  BY <1>1 DEF Indices
<1>15. fitnessScores' \in [Indices -> Fitness \cup {0}] /\ fitnessScores'[i] = fitness
       /\ \A j \in Indices \ {i} : fitnessScores'[j] = fitnessScores[j]
  BY <1>1 DEF PopulationTypes
<1>16. PopulationTypes'
  BY <1>1, <1>3, <1>11, <1>14, <1>15 DEF PopulationTypes, PopulationSize, MaxGenerations
<1>17. todo' = "complete" => scored' = Indices'
  <2> SUFFICES ASSUME todo' = "complete" PROVE scored' = Indices'
    OBVIOUS
  <2>1. Evaluated(currentEval')
    BY <1>1
  <2>2. Cardinality(scored') >= Len(population')
    BY <1>1, <1>13, <2>1 DEF Evaluated
  <2>3. IsFiniteSet(Indices) /\ Cardinality(Indices) = Len(population) /\ Len(population) \in Nat
    BY FiniteIndices
  <2>4. IsFiniteSet(scored') /\ Cardinality(scored') <= Cardinality(Indices)
        /\ (Cardinality(Indices) = Cardinality(scored') => Indices = scored')
    BY <1>11, <2>3, FS_Subset
  <2>5. Cardinality(scored') \in Nat
    BY <2>4, FS_CardinalityType
  <2> QED
    BY <1>1, <1>14, <2>2, <2>3, <2>4, <2>5
<1>18. generation <= Horizon
  BY <1>1 DEF TickInv
<1>19. LoopTypes'
  BY <1>1, <1>3 DEF LoopTypes
<1>20. TickInv'
  BY <1>1, <1>3, <1>4, <1>17, <1>18 DEF TickInv
<1>21. FreshInv'
  BY <1>4 DEF FreshInv
<1>22. RepositoryTypes' /\ ArchiveBounded'
  BY <1>1, <1>3, RepositorySame DEF repoVars
<1>23. CandidateTypes'
  <2>1. fitness \in Int /\ i \in Nat /\ i \in Indices
    BY <1>1, FitnessTypes DEF Indices, i
  <2>2. pendingBest' \in [robustness : BOOLEAN, index : Nat, firstSample : Fitness \cup {0}]
        /\ pendingBest'.index \in Indices \cup {0}
        /\ (pendingBest'.robustness => pendingBest'.index \in Indices
                                       /\ HasGenome(pendingBest'.index))
    <3>1. CASE pendingBest' = [robustness |-> TRUE, index |-> i, firstSample |-> fitness]
               /\ HasGenome(i)
      <4>1. pendingBest'.index = i
        BY <3>1
      <4> QED
        BY <2>1, <3>1, <4>1
    <3>2. CASE pendingBest' = NoCandidate
      BY <3>2 DEF NoCandidate
    <3>3. CASE pendingBest' = pendingBest
      BY <3>3 DEF CandidateTypes
    <3> QED
      BY <1>2, <3>1, <3>2, <3>3
  <2>3. bestFitnessAllTime' \in Int /\ bestGenomeId' \in Nat
    BY <1>2, <2>1 DEF CandidateTypes, bestVars, NoGenome
  <2>4. population' = population /\ robustnessPass' = robustnessPass
    BY <1>1
  <2> QED
    BY <1>14, <2>2, <2>3, <2>4 DEF CandidateTypes, HasGenome
<1>24. RequestInv'
  <2>1. todo' # "finish" /\ UNCHANGED <<robustnessPass, population, generation, config>>
    BY <1>1, <1>3
  <2> QED
    BY <1>7, <1>14, <2>1 DEF RequestInv, HasGenome, RobustCount
<1>25. ScoringInv'
  <2>1. ResultsMatchPopulation'
    BY <1>1, <1>5, <1>14 DEF ScoringInv, ResultsMatchPopulation
  <2>2. todo' # "finish" /\ RobustCount' = RobustCount
    BY <1>1, <1>3 DEF RobustCount
  <2> QED
    BY <1>1, <1>7, <1>8, <1>10, <1>11, <1>13, <1>14, <2>1, <2>2 DEF ScoringInv
<1>26. BestInv'
  <2>1. fitness \in Int /\ fitness > Lowest /\ fitness # Lowest /\ fitness >= Lowest
    BY FitnessTypes DEF Lowest
  <2>2. bestFitnessAllTime \in Int /\ bestFitnessAllTime >= Lowest
        /\ pendingBest.robustness \in BOOLEAN /\ pendingBest.firstSample \in Int
    BY FitnessTypes DEF CandidateTypes, BestInv
  <2>3. \A j \in scored : j \in Indices \ {i} /\ fitnessScores'[j] = fitnessScores[j]
                          /\ fitnessScores[j] \in Int
    BY <1>11, <1>15, FitnessTypes DEF PopulationTypes
  <2>4. \A j \in scored' : j \in scored \/ j = i
    BY <1>1 DEF i
  <2>5. AllGenomic' = AllGenomic /\ ArchiveMax' = ArchiveMax /\ RobustCount' = RobustCount
        /\ \A j \in Indices : HasGenome(j)' = HasGenome(j)
    BY <1>1, <1>3 DEF AllGenomic, PopulationSize, ArchiveMax, RobustCount, HasGenome
  <2>6. AllGenomic => \A j \in Indices : HasGenome(j)
    BY DEF BestInv
  <2>7. i \in Indices
    BY <1>1 DEF i
  <2> HIDE DEF TrainingInv
  <2>8. CASE /\ fitness > bestFitnessAllTime /\ HasGenome(i) /\ CandidateReplaced(fitness)
             /\ pendingBest' = [robustness |-> TRUE, index |-> i, firstSample |-> fitness]
             /\ UNCHANGED bestVars
    <3>1. pendingBest'.robustness = TRUE /\ pendingBest'.firstSample = fitness
          /\ UNCHANGED <<bestFitnessAllTime, bestGenomeId>>
      BY <2>8 DEF bestVars
    <3>2. ~pendingBest.robustness \/ fitness > pendingBest.firstSample
      BY <2>8 DEF CandidateReplaced
    <3>3. ASSUME AllGenomic /\ RobustCount = 0, NEW j \in scored'
          PROVE  fitnessScores'[j] <= fitness
      <4>1. CASE j = i
        BY <1>15, <2>1, <4>1
      <4>2. CASE j \in scored
        <5>1. \/ fitnessScores[j] <= bestFitnessAllTime
              \/ pendingBest.robustness /\ fitnessScores[j] <= pendingBest.firstSample
          BY <3>3, <4>2 DEF TrainingInv, BestInv
        <5>2. fitnessScores[j] \in Int /\ fitnessScores'[j] = fitnessScores[j]
          BY <2>3, <4>2
        <5> QED
          BY <2>1, <2>2, <2>8, <3>2, <5>1, <5>2
      <4> QED
        BY <2>4, <4>1, <4>2
    <3>4. BestInv => (AllGenomic /\ ArchiveMax = 0 /\ commands = 0 /\ bestFitnessAllTime # Lowest =>
            bestGenomeId # NoGenome /\ archiveBest # NoGenome)
      BY DEF BestInv
    <3>5. BestInv
      BY DEF TrainingInv
    <3> QED
      BY <1>3, <1>14, <2>2, <2>5, <2>6, <2>8, <3>1, <3>3, <3>4, <3>5 DEF BestInv
  <2>9. CASE /\ fitness > bestFitnessAllTime /\ ~HasGenome(i)
             /\ bestFitnessAllTime' = fitness /\ bestGenomeId' = NoGenome
             /\ pendingBest' = NoCandidate
    <3>1. ~AllGenomic'
      BY <2>5, <2>6, <2>7, <2>9
    <3> QED
      BY <2>1, <2>9, <3>1 DEF BestInv
  <2>10. CASE /\ \/ fitness <= bestFitnessAllTime
                 \/ HasGenome(i) /\ ~CandidateReplaced(fitness)
              /\ UNCHANGED <<pendingBest, bestVars>>
    <3>1. UNCHANGED <<pendingBest, bestFitnessAllTime, bestGenomeId>>
      BY <2>10 DEF bestVars
    <3>2. \/ fitness <= bestFitnessAllTime
          \/ pendingBest.robustness /\ fitness <= pendingBest.firstSample
      BY <2>1, <2>2, <2>10 DEF CandidateReplaced
    <3>3. BestInv
      BY DEF TrainingInv
    <3>4. ASSUME AllGenomic /\ RobustCount = 0, NEW j \in scored'
          PROVE  \/ fitnessScores'[j] <= bestFitnessAllTime
                 \/ pendingBest.robustness /\ fitnessScores'[j] <= pendingBest.firstSample
      <4>1. CASE j = i
        BY <1>15, <3>2, <4>1
      <4>2. CASE j \in scored
        BY <2>3, <3>3, <3>4, <4>2 DEF BestInv
      <4> QED
        BY <2>4, <4>1, <4>2
    <3> QED
      BY <1>3, <1>14, <2>2, <2>5, <2>6, <3>1, <3>3, <3>4 DEF BestInv
  <2> QED
    BY <1>2, <2>8, <2>9, <2>10 DEF i
<1> QED
  BY <1>5, <1>16, <1>19, <1>20, <1>21, <1>22, <1>23, <1>24, <1>25, <1>26

\* A sample of the validation: it is of the pass under way, and is never ignored.
LEMMA RobustnessSamplePreserves ==
  ASSUME TrainingInv, NEW fitness \in Fitness, ProcessRobustnessSample(fitness)
  PROVE  TrainingInv'
<1> USE DEF TrainingInv
<1> DEFINE t == Head(batch)
           samples == robustnessPass.samples
<1>1. /\ at \in {"drain", "visible"} /\ todo = "none" /\ batch # <<>>
      /\ t.kind = "robustness" /\ batch' = Tail(batch)
      /\ robustnessPass' = [robustnessPass EXCEPT !.samples =
           IF SampleAccepted(t) THEN Append(@, fitness) ELSE @]
      /\ todo' = IF Evaluated(currentEval) THEN "complete" ELSE "none"
      /\ UNCHANGED <<at, poolVars, populationVars, pendingBest, bestVars, repoVars,
                     candidates, sessionVars>>
  BY DEF ProcessRobustnessSample
<1>2. UNCHANGED <<up, pending, background, preview, archiveBest, archive, config, commands,
                  paused, trainingComplete, sessions, population, fitnessScores, scored,
                  generation, currentEval, pruneBeforeBreeding, nextGenome,
                  bestFitnessAllTime, bestGenomeId>>
  BY <1>1 DEF poolVars, repoVars, sessionVars, populationVars, bestVars
<1>3. at \in Training \ {"enter"} /\ at \in Training /\ at' \in Training \ {"enter"}
      /\ at' \in Training /\ at' # "loop"
  BY <1>1 DEF Training
<1>4. PoolInv' /\ Outstanding' = Outstanding \ {t} /\ t \in Outstanding
  BY <1>1, <1>2, PoolProcessed
<1> HIDE DEF t
<1>5. t \in OutstandingOf("robustness")
  BY <1>1, <1>4 DEF OutstandingOf
<1>6. /\ OutstandingOf("generation")' = OutstandingOf("generation")
      /\ OutstandingOf("robustness")' = OutstandingOf("robustness") \ {t}
  BY <1>1, <1>4 DEF OutstandingOf
<1>7. robustnessPass.active /\ t.index = robustnessPass.index
  BY <1>5 DEF RequestInv
<1>8. t.generation = robustnessPass.generation
  BY <1>4, <1>7 DEF RequestInv, ScoringInv, ResultsMatchPopulation
<1> DEFINE W == OutstandingOf("robustness")
<1>9. Cardinality(W) = RobustCount - Len(samples)
  BY <1>3, <1>7 DEF ScoringInv
<1>10. IsFiniteSet(W) /\ Cardinality(W) \in Nat /\ Cardinality(W) # 0
       /\ IsFiniteSet(W \ {t}) /\ Cardinality(W \ {t}) = Cardinality(W) - 1
  <2>1. IsFiniteSet(Outstanding)
    BY OutstandingCount
  <2>2. W \in SUBSET Outstanding
    BY DEF OutstandingOf
  <2> HIDE DEF W
  <2>3. IsFiniteSet(W)
    BY <2>1, <2>2, FS_Subset
  <2>4. t \in W
    BY <1>5 DEF W
  <2> QED
    BY <2>3, <2>4, FS_CardinalityType, FS_RemoveElement, FS_EmptySet
<1> HIDE DEF W
<1>11. samples \in Seq(Fitness) /\ RobustCount \in Nat
  BY ConfigTypes DEF CandidateTypes, PopulationTypes
<1>12. Len(samples) < RobustCount
  <2>1. Len(samples) \in Nat
    BY <1>11
  <2> QED
    BY <1>9, <1>10, <1>11, <2>1
<1>13. SampleAccepted(t)
  BY <1>7, <1>8, <1>12 DEF SampleAccepted
<1> DEFINE new == Append(samples, fitness)
<1>14. robustnessPass' = [robustnessPass EXCEPT !.samples = new]
  BY <1>1, <1>13
<1>15. new \in Seq(Fitness) /\ Len(new) = Len(samples) + 1 /\ Len(samples) \in Nat
  BY <1>11
<1>16. /\ robustnessPass' \in [active : BOOLEAN, generation : Int, index : Nat,
                               samples : Seq(Fitness)]
       /\ robustnessPass'.active /\ robustnessPass'.generation = robustnessPass.generation
       /\ robustnessPass'.index = robustnessPass.index /\ robustnessPass'.samples = new
  <2> HIDE DEF new
  <2> QED
    BY <1>7, <1>14, <1>15 DEF CandidateTypes
<1>17. PopulationTypes' /\ Indices' = Indices
  BY <1>1, <1>2, <1>3, PopulationSame
<1>18. CandidateTypes'
  BY <1>1, <1>2, <1>16, <1>17 DEF CandidateTypes, HasGenome
<1>19. RepositoryTypes' /\ ArchiveBounded'
  BY <1>1, <1>2, RepositorySame
<1>20. BestInv'
  BY <1>1, <1>2, BestSame
<1>21. LoopTypes'
  BY <1>1, <1>2 DEF LoopTypes
<1>22. FreshInv'
  BY <1>3 DEF FreshInv
<1>23. TickInv'
  <2>1. generation <= Horizon
    BY <1>1 DEF TickInv
  <2>2. todo' # "none" => scored = Indices
    <3>1. currentEval = Cardinality(scored)
      BY <1>3 DEF ScoringInv
    <3> QED
      BY <1>1, <3>1, AllEvaluated DEF Evaluated
  <2> QED
    BY <1>1, <1>2, <1>3, <1>17, <2>1, <2>2 DEF TickInv
<1>24. RequestInv'
  <2>1. RobustCount' = RobustCount /\ todo' # "finish"
    BY <1>1, <1>2 DEF RobustCount
  <2>2. Len(new) <= RobustCount
    BY <1>11, <1>12, <1>15
  <2> HIDE DEF new
  <2>3. OutstandingOf("robustness")' \in SUBSET OutstandingOf("robustness")
    BY <1>6
  <2> QED
    BY <1>2, <1>6, <1>7, <1>16, <1>17, <2>1, <2>2, <2>3 DEF RequestInv, HasGenome
<1>25. ScoringInv'
  <2>1. ResultsMatchPopulation'
    BY <1>2, <1>4, <1>17 DEF ScoringInv, ResultsMatchPopulation
  <2>2. RobustCount' = RobustCount /\ todo' # "finish"
    BY <1>1, <1>2 DEF RobustCount
  <2>3. Cardinality(OutstandingOf("robustness")') = RobustCount - Len(new)
    <3>1. OutstandingOf("robustness")' = W \ {t}
      BY <1>6 DEF W
    <3>2. Cardinality(W \ {t}) = RobustCount - Len(new)
      <4> HIDE DEF new, samples
      <4> QED
        BY <1>9, <1>10, <1>11, <1>15
    <3> QED
      BY <3>1, <3>2
  <2> HIDE DEF new
  <2> QED
    BY <1>2, <1>3, <1>6, <1>16, <1>17, <2>1, <2>2, <2>3 DEF ScoringInv
<1> QED
  BY <1>4, <1>17, <1>18, <1>19, <1>20, <1>21, <1>22, <1>23, <1>24, <1>25
-----------------------------------------------------------------------------
(* maybeCompleteGeneration.                                                *)

\* When every individual has its score, nothing is outstanding but the samples of
\* a validation.
LEMMA ScoredMeansCollected ==
  ASSUME TrainingInv, todo # "none"
  PROVE  /\ at \in {"drain", "visible"} /\ scored = Indices /\ generation <= Horizon
         /\ OutstandingOf("generation") = {}
         /\ ~robustnessPass.active \/ SamplesComplete => Outstanding = {}
<1> USE DEF TrainingInv
<1>1. at \in {"drain", "visible"} /\ scored = Indices /\ generation <= Horizon
  BY DEF TickInv
<1>2. at \in Training \ {"enter"}
  BY <1>1 DEF Training
<1> DEFINE E == {t.index : t \in OutstandingOf("generation")}
<1>3. scored \cap E = {} /\ scored \cup E = Indices
  BY <1>2 DEF ScoringInv
<1>4. E = {}
  BY <1>1, <1>3
<1>5. OutstandingOf("generation") = {}
  BY <1>4
<1>6. ASSUME ~robustnessPass.active \/ SamplesComplete PROVE Outstanding = {}
  <2> DEFINE W == OutstandingOf("robustness")
  <2>1. IsFiniteSet(Outstanding) /\ Outstanding \in SUBSET Requests
    BY OutstandingCount
  <2>2. W \in SUBSET Outstanding
    BY DEF OutstandingOf
  <2>3. Cardinality(W) = IF robustnessPass.active THEN RobustCount - Len(robustnessPass.samples)
                         ELSE 0
    BY <1>2 DEF ScoringInv
  <2> HIDE DEF W
  <2>4. IsFiniteSet(W) /\ Cardinality(W) \in Nat
    BY <2>1, <2>2, FS_Subset, FS_CardinalityType
  <2>5. robustnessPass.samples \in Seq(Fitness) /\ RobustCount \in Nat
    BY ConfigTypes DEF CandidateTypes, PopulationTypes
  <2>6. Len(robustnessPass.samples) \in Nat
    BY <2>5
  <2>7. Cardinality(W) = 0
    BY <1>6, <2>3, <2>4, <2>5, <2>6 DEF SamplesComplete
  <2>8. W = {}
    BY <2>4, <2>7, FS_EmptySet
  <2>9. \A t \in Outstanding : t.kind = "generation" \/ t.kind = "robustness"
    BY <2>1 DEF Requests
  <2> QED
    BY <1>5, <2>8, <2>9 DEF W, OutstandingOf
<1> QED
  BY <1>1, <1>5, <1>6

\* The steps of maybeCompleteGeneration that leave the repository alone.
LEMMA WaitPreserves ==
  ASSUME TrainingInv, AwaitSamples \/ NothingToValidate
  PROVE  TrainingInv'
<1> USE DEF TrainingInv
<1>1. /\ todo = "complete"
      /\ UNCHANGED <<at, batch, poolVars, populationVars, candidateVars, bestVars,
                     repoVars, candidates, sessionVars>>
      /\ \/ todo' = "none"
         \/ todo' = "finish" /\ ~robustnessPass.active /\ ~pendingBest.robustness
  BY DEF AwaitSamples, NothingToValidate
<1>2. UNCHANGED <<up, pending, background, preview, archiveBest, archive, config, commands,
                  paused, trainingComplete, sessions, population, fitnessScores, scored,
                  generation, currentEval, pruneBeforeBreeding, nextGenome, pendingBest,
                  robustnessPass, bestFitnessAllTime, bestGenomeId>>
  BY <1>1 DEF poolVars, repoVars, sessionVars, populationVars, bestVars, candidateVars
<1>3. PoolInv' /\ Outstanding' = Outstanding
  BY <1>1, <1>2, PoolUnchanged
<1>4. at \in {"drain", "visible"} /\ scored = Indices /\ generation <= Horizon
      /\ (~robustnessPass.active => Outstanding = {})
  BY <1>1, ScoredMeansCollected
<1>5. at \in Training \ {"enter"} /\ at' \in Training \ {"enter"} /\ at' # "loop"
  BY <1>1, <1>4 DEF Training
<1>6. PopulationTypes' /\ Indices' = Indices
  BY <1>1, <1>2, PopulationSame
<1>7. CandidateTypes' /\ RepositoryTypes' /\ ArchiveBounded'
  BY <1>1, <1>2, CandidatesSame, RepositorySame
<1>8. BestInv'
  BY <1>1, <1>2, BestSame
<1>9. LoopTypes'
  BY <1>1, <1>2 DEF LoopTypes
<1>10. FreshInv' /\ TickInv'
  BY <1>1, <1>2, <1>4, <1>5, <1>6 DEF FreshInv, TickInv
<1>11. RequestInv'
  BY <1>1, <1>2, <1>3, <1>6 DEF RequestInv, OutstandingOf, RobustCount, HasGenome
<1>12. ScoringInv'
  BY <1>1, <1>2, <1>3, <1>4, <1>5, <1>6
  DEF ScoringInv, ResultsMatchPopulation, OutstandingOf, RobustCount
<1> QED
  BY <1>3, <1>6, <1>7, <1>8, <1>9, <1>10, <1>11, <1>12

\* The best of the session after the candidate has been dealt with.
LEMMA ValidatedPreserves ==
  ASSUME TrainingInv, todo = "complete", todo' = "finish", Outstanding = {},
         UNCHANGED <<at, batch, poolVars, populationVars, candidates, sessionVars>>,
         pendingBest' \in {NoCandidate, pendingBest}, ~pendingBest'.robustness,
         robustnessPass' \in {NoPass, robustnessPass}, ~robustnessPass'.active,
         GoodRepository(archive'), Bounded(archive', unpruned'), archiveBest' \in Nat,
         bestFitnessAllTime' \in Int, bestGenomeId' \in Nat, BestInv'
  PROVE  TrainingInv'
<1> USE DEF TrainingInv
<1>1. UNCHANGED <<at, batch, up, pending, background, preview, config, commands, candidates,
                  paused, trainingComplete, sessions, population, fitnessScores, scored,
                  generation, currentEval, pruneBeforeBreeding, nextGenome>>
  BY DEF poolVars, sessionVars, populationVars
<1>2. PoolInv' /\ Outstanding' = {}
  BY <1>1, PoolUnchanged
<1>3. at \in {"drain", "visible"} /\ scored = Indices /\ generation <= Horizon
  BY ScoredMeansCollected
<1>4. at \in Training \ {"enter"} /\ at' \in Training \ {"enter"} /\ at' # "loop"
  BY <1>1, <1>3 DEF Training
<1>5. PopulationTypes' /\ Indices' = Indices
  BY <1>1, PopulationSame
<1>6. CandidateTypes'
  <2>1. /\ pendingBest' \in [robustness : BOOLEAN, index : Nat, firstSample : Fitness \cup {0}]
        /\ pendingBest'.index \in Indices \cup {0}
    <3>1. CASE pendingBest' = NoCandidate
      BY <3>1 DEF NoCandidate
    <3>2. CASE pendingBest' = pendingBest
      BY <3>2 DEF CandidateTypes
    <3> QED
      BY <3>1, <3>2
  <2>2. /\ robustnessPass' \in [active : BOOLEAN, generation : Int, index : Nat,
                                samples : Seq(Fitness)]
        /\ robustnessPass'.index \in Indices \cup {0}
    <3>1. CASE robustnessPass' = NoPass
      BY <3>1 DEF NoPass
    <3>2. CASE robustnessPass' = robustnessPass
      BY <3>2 DEF CandidateTypes
    <3> QED
      BY <3>1, <3>2
  <2> QED
    BY <1>5, <2>1, <2>2 DEF CandidateTypes
<1>7. RepositoryTypes' /\ ArchiveBounded'
  BY <1>1 DEF RepositoryTypes, GoodRepository, ArchiveBounded, Bounded, Storable, ArchiveMax
<1>8. LoopTypes'
  BY <1>1 DEF LoopTypes
<1>9. FreshInv' /\ TickInv'
  BY <1>1, <1>3, <1>4, <1>5 DEF FreshInv, TickInv
<1>10. RequestInv' /\ ScoringInv'
  <2>1. OutstandingOf("generation")' = {} /\ OutstandingOf("robustness")' = {}
        /\ OutstandingOf("generation") = {}
    BY <1>2 DEF OutstandingOf
  <2>2. currentEval' = Cardinality(scored')
    BY <1>1, <1>4 DEF ScoringInv
  <2>3. Cardinality(OutstandingOf("robustness")') = 0
    BY <2>1, FS_EmptySet
  <2> QED
    BY <1>1, <1>2, <1>3, <1>5, <2>1, <2>2, <2>3
    DEF RequestInv, ScoringInv, ResultsMatchPopulation
<1> QED
  BY <1>2, <1>5, <1>6, <1>7, <1>8, <1>9, <1>10

\* Without a validation the candidate has the highest score above the session's best,
\* and becomes the best.
LEMMA FinalizePendingPreserves ==
  ASSUME TrainingInv, FinalizePendingBest
  PROVE  TrainingInv'
<1> USE DEF TrainingInv
<1> DEFINE first == pendingBest.firstSample
<1>1. /\ todo = "complete" /\ RobustCount = 0 /\ todo' = "finish"
      /\ IF pendingBest.robustness /\ Promoted(first)
         THEN Promote(pendingBest.index, first, <<first>>, first)
         ELSE UNCHANGED <<repoVars, bestVars>>
      /\ pendingBest' = IF pendingBest.robustness THEN NoCandidate ELSE pendingBest
      /\ UNCHANGED <<at, batch, poolVars, populationVars, robustnessPass, candidates,
                     sessionVars>>
  BY DEF FinalizePendingBest
<1>2. UNCHANGED <<config, commands, population, fitnessScores, scored>>
  BY <1>1 DEF sessionVars, populationVars
<1>3. ~robustnessPass.active /\ Outstanding = {} /\ scored = Indices
  BY <1>1, ScoredMeansCollected DEF RequestInv
<1>4. ~pendingBest'.robustness /\ pendingBest' \in {NoCandidate, pendingBest}
  BY <1>1 DEF NoCandidate
<1>5. /\ pendingBest.robustness \in BOOLEAN /\ first \in Fitness \cup {0}
      /\ bestFitnessAllTime \in Int /\ bestGenomeId \in Nat /\ bestFitnessAllTime >= Lowest
      /\ pendingBest.robustness => pendingBest.index \in Indices /\ HasGenome(pendingBest.index)
  BY DEF CandidateTypes, BestInv
<1>6. first \in Int /\ first > Lowest /\ \A i \in Indices : fitnessScores[i] \in Int
  BY <1>5, FitnessTypes DEF Lowest, PopulationTypes
<1>7. GoodRepository(archive) /\ Bounded(archive, unpruned) /\ archiveBest \in Nat
  BY DEF RepositoryTypes, GoodRepository, ArchiveBounded, Bounded
<1>8. /\ GoodRepository(archive') /\ Bounded(archive', unpruned') /\ archiveBest' \in Nat
      /\ bestFitnessAllTime' \in Int /\ bestGenomeId' \in Nat /\ BestInv'
  <2>1. /\ AllGenomic' = AllGenomic /\ ArchiveMax' = ArchiveMax /\ RobustCount' = RobustCount
        /\ Indices' = Indices /\ \A j \in Indices : HasGenome(j)' = HasGenome(j)
    BY <1>2 DEF AllGenomic, PopulationSize, ArchiveMax, RobustCount, HasGenome, Indices
  <2>2. /\ AllGenomic => \A i \in Indices : HasGenome(i)
        /\ AllGenomic /\ ArchiveMax = 0 /\ commands = 0 /\ bestFitnessAllTime # Lowest =>
             bestGenomeId # NoGenome /\ archiveBest # NoGenome
        /\ AllGenomic =>
             /\ pendingBest.robustness => first > bestFitnessAllTime
             /\ \A i \in Indices :
                  \/ fitnessScores[i] <= bestFitnessAllTime
                  \/ pendingBest.robustness /\ fitnessScores[i] <= first
    BY <1>1, <1>3 DEF BestInv
  <2>3. CASE pendingBest.robustness /\ Promoted(first)
    <3>1. PICK i \in Indices : i = pendingBest.index /\ HasGenome(i)
      BY <1>5, <2>3
    <3>2. PICK f \in Fitness \cup {0} : f = first
      BY <1>5
    <3>3. Promote(i, f, <<f>>, f)
      BY <1>1, <2>3, <3>1, <3>2
    <3>4. /\ GoodRepository(archive') /\ Bounded(archive', unpruned') /\ archiveBest' \in Nat
          /\ bestGenomeId' \in Nat \ {NoGenome} /\ bestFitnessAllTime' = f
          /\ ArchiveMax = 0 => archiveBest' = bestGenomeId'
      BY <1>7, <3>1, <3>3, PromoteIsGood
    <3> HIDE DEF first, TrainingInv
    <3>5. ASSUME AllGenomic, NEW j \in Indices PROVE fitnessScores[j] <= bestFitnessAllTime'
      <4>1. fitnessScores[j] \in Int
        BY <1>6
      <4>2. first > bestFitnessAllTime /\ (fitnessScores[j] <= bestFitnessAllTime
                                            \/ fitnessScores[j] <= first)
        BY <2>2, <2>3, <3>5
      <4> QED
        BY <1>5, <1>6, <3>2, <3>4, <4>1, <4>2
    <3>6. bestFitnessAllTime' >= Lowest /\ bestFitnessAllTime' \in Int
      BY <1>6, <3>2, <3>4 DEF Lowest
    <3>7. BestInv'
      BY <1>2, <1>3, <1>4, <2>1, <2>2, <3>4, <3>5, <3>6 DEF BestInv
    <3> QED
      BY <3>4, <3>6, <3>7
  <2>4. CASE ~(pendingBest.robustness /\ Promoted(first))
    <3>1. UNCHANGED <<archive, archiveBest, unpruned, bestFitnessAllTime, bestGenomeId>>
      BY <1>1, <2>4 DEF repoVars, bestVars
    <3> HIDE DEF first
    <3>2. AllGenomic => ~pendingBest.robustness
      BY <2>2, <2>4 DEF Promoted
    <3>3. BestInv'
      BY <1>2, <1>3, <1>4, <1>5, <2>1, <2>2, <3>1, <3>2 DEF BestInv
    <3> QED
      BY <1>5, <1>7, <3>1, <3>3
  <2> QED
    BY <2>3, <2>4
<1> HIDE DEF TrainingInv
<1> QED
  BY <1>1, <1>3, <1>4, <1>8, ValidatedPreserves

\* A window of samples is not empty and its median is above the lowest score.
LEMMA WindowMedian ==
  ASSUME NEW s \in Seq(Fitness), Len(s) > 0
  PROVE  Median(Window(s)) \in Int /\ Median(Window(s)) >= Lowest
<1>1. SampleWindow \in Nat \ {0} /\ Len(s) \in Nat /\ Lowest \in Int
  BY TrainingAssumption DEF Lowest
<1>2. s \in Seq(Int) /\ \A i \in 1..Len(s) : s[i] > Lowest
  <2>1. \A i \in 1..Len(s) : s[i] \in Fitness
    OBVIOUS
  <2>2. \A i \in 1..Len(s) : s[i] \in Int /\ s[i] > Lowest
    BY <2>1, FitnessTypes DEF Lowest
  <2>3. \A f \in Fitness : f \in Int
    BY FitnessTypes
  <2> QED
    BY <2>2, <2>3
<1> DEFINE w == Window(s)
<1>3. w \in Seq(Int) /\ Len(w) \in Nat /\ Len(w) > 0 /\ \A i \in 1..Len(w) : w[i] > Lowest
  <2>1. CASE Len(s) <= SampleWindow
    BY <1>1, <1>2, <2>1 DEF Window
  <2>2. CASE ~(Len(s) <= SampleWindow)
    <3> DEFINE m == Len(s) - SampleWindow + 1
               n == Len(s)
    <3>1. w = SubSeq(s, m, n)
      BY <2>2 DEF Window
    <3>2. m \in 1..n /\ n \in 1..Len(s) /\ n \in Nat /\ m \in Int
      BY <1>1, <2>2
    <3> HIDE DEF m, n, w
    <3>3. /\ w \in Seq(Int) /\ Len(w) = n - m + 1
          /\ \A i \in 1..Len(w) : w[i] = s[m + i - 1] /\ m + i - 1 \in 1..Len(s)
      BY <1>2, <3>1, <3>2
    <3>4. Len(w) \in Nat /\ Len(w) > 0
      BY <3>2, <3>3
    <3>5. ASSUME NEW i \in 1..Len(w) PROVE w[i] > Lowest
      <4>1. w[i] = s[m + i - 1] /\ m + i - 1 \in 1..Len(s)
        BY <3>3
      <4> QED
        BY <1>2, <4>1
    <3> QED
      BY <3>3, <3>4, <3>5
  <2> QED
    BY <2>1, <2>2
<1> HIDE DEF w
<1>4. Median(w) \in Int /\ Median(w) >= Lowest
  BY <1>1, <1>3, MedianAbove
<1> QED
  BY <1>4 DEF w

\* A validated candidate becomes the best if its median is above the session's best.
LEMMA FinalizeRobustPreserves ==
  ASSUME TrainingInv, FinalizeRobustnessPass
  PROVE  TrainingInv'
<1> USE DEF TrainingInv
<1> DEFINE samples == Window(robustnessPass.samples)
           robust == Median(samples)
<1>1. /\ todo = "complete" /\ robustnessPass.active /\ SamplesComplete /\ todo' = "finish"
      /\ IF Promoted(robust)
         THEN Promote(robustnessPass.index, pendingBest.firstSample, samples, robust)
         ELSE UNCHANGED <<repoVars, bestVars>>
      /\ robustnessPass' = NoPass /\ pendingBest' = NoCandidate
      /\ UNCHANGED <<at, batch, poolVars, populationVars, candidates, sessionVars>>
  BY DEF FinalizeRobustnessPass
<1>2. UNCHANGED <<config, commands, population, fitnessScores, scored>>
  BY <1>1 DEF sessionVars, populationVars
<1>3. Outstanding = {}
  BY <1>1, ScoredMeansCollected
<1>4. ~pendingBest'.robustness /\ ~robustnessPass'.active
  BY <1>1 DEF NoCandidate, NoPass
<1>5. RobustCount > 0 /\ RobustCount \in Nat
      /\ robustnessPass.index \in Indices /\ HasGenome(robustnessPass.index)
  BY <1>1, ConfigTypes DEF RequestInv, PopulationTypes
<1>6. robust \in Int /\ robust >= Lowest
  <2>1. PICK s \in Seq(Fitness) : s = robustnessPass.samples
    BY DEF CandidateTypes
  <2>2. Len(s) \in Nat /\ Len(s) >= RobustCount
    BY <1>1, <2>1 DEF SamplesComplete
  <2>3. Len(s) > 0
    BY <1>5, <2>2
  <2> QED
    BY <2>1, <2>3, WindowMedian
<1> HIDE DEF robust, samples
<1>7. GoodRepository(archive) /\ Bounded(archive, unpruned) /\ archiveBest \in Nat
  BY DEF RepositoryTypes, GoodRepository, ArchiveBounded, Bounded
<1>8. /\ GoodRepository(archive') /\ Bounded(archive', unpruned') /\ archiveBest' \in Nat
      /\ bestFitnessAllTime' \in Int /\ bestGenomeId' \in Nat /\ BestInv'
  <2>1. /\ AllGenomic' = AllGenomic /\ ArchiveMax' = ArchiveMax /\ RobustCount' = RobustCount
        /\ Indices' = Indices /\ \A j \in Indices : HasGenome(j)' = HasGenome(j)
    BY <1>2 DEF AllGenomic, PopulationSize, ArchiveMax, RobustCount, HasGenome, Indices
  <2>2. RobustCount' # 0
    BY <1>5, <2>1
  <2>3. CASE Promoted(robust)
    <3>1. PICK i \in Indices : i = robustnessPass.index /\ HasGenome(i)
      BY <1>5
    <3>2. PICK f \in Fitness \cup {0} : f = pendingBest.firstSample
      BY DEF CandidateTypes
    <3>3. PICK s, r : s = samples /\ r = robust
      OBVIOUS
    <3>4. Promote(i, f, s, r)
      BY <1>1, <2>3, <3>1, <3>2, <3>3
    <3>5. /\ GoodRepository(archive') /\ Bounded(archive', unpruned') /\ archiveBest' \in Nat
          /\ bestGenomeId' \in Nat \ {NoGenome} /\ bestFitnessAllTime' = r
          /\ ArchiveMax = 0 => archiveBest' = bestGenomeId'
      BY <1>7, <3>1, <3>4, PromoteIsGood
    <3>6. BestInv'
      BY <1>6, <2>1, <2>2, <3>3, <3>5 DEF BestInv
    <3> QED
      BY <1>6, <3>3, <3>5, <3>6
  <2>4. CASE ~Promoted(robust)
    <3>1. UNCHANGED <<archive, archiveBest, unpruned, bestFitnessAllTime, bestGenomeId>>
      BY <1>1, <2>4 DEF repoVars, bestVars
    <3>2. BestInv'
      BY <1>2, <2>1, <2>2, <3>1 DEF BestInv
    <3> QED
      BY <1>7, <3>1, <3>2 DEF CandidateTypes
  <2> QED
    BY <2>3, <2>4
<1> HIDE DEF TrainingInv
<1> QED
  BY <1>1, <1>3, <1>4, <1>8, ValidatedPreserves

\* The samples a validation asks for.
ValidationRequests(i, g, gen, n) ==
  {[kind |-> "robustness", index |-> i, sample |-> k, genome |-> g, generation |-> gen] :
     k \in 1..n}

LEMMA RequestsOfValidation ==
  ASSUME NEW i \in Nat, NEW g \in Nat, NEW gen \in Nat, NEW n \in Nat
  PROVE  /\ ValidationRequests(i, g, gen, n) \in SUBSET Requests
         /\ IsFiniteSet(ValidationRequests(i, g, gen, n))
         /\ Cardinality(ValidationRequests(i, g, gen, n)) = n
         /\ \A t \in ValidationRequests(i, g, gen, n) :
              t.kind = "robustness" /\ t.index = i /\ t.genome = g /\ t.generation = gen
<1> DEFINE G == ValidationRequests(i, g, gen, n)
           D == 1..n
           f == [k \in D |-> [kind |-> "robustness", index |-> i, sample |-> k,
                              genome |-> g, generation |-> gen]]
<1>1. \A k \in D : f[k] = [kind |-> "robustness", index |-> i, sample |-> k,
                           genome |-> g, generation |-> gen]
  OBVIOUS
<1>2. G = {f[k] : k \in D} /\ f \in [D -> G]
  BY DEF ValidationRequests
<1>3. IsFiniteSet(D) /\ Cardinality(D) = n
  <2>1. IsFiniteSet(1..n) /\ Cardinality(1..n) = IF 1 > n THEN 0 ELSE n - 1 + 1
    BY FS_Interval
  <2> QED
    BY <2>1
<1>4. \A k \in D : k \in Nat
  OBVIOUS
<1> HIDE DEF f, D, G
<1>5. ASSUME NEW k \in D
      PROVE  /\ f[k] \in Requests /\ f[k].kind = "robustness" /\ f[k].index = i
             /\ f[k].genome = g /\ f[k].generation = gen /\ f[k].sample = k
  <2>1. f[k] = [kind |-> "robustness", index |-> i, sample |-> k, genome |-> g,
                generation |-> gen] /\ k \in Nat
    BY <1>1, <1>4
  <2>2. f[k] \in Requests
    BY <2>1 DEF Requests
  <2> QED
    BY <2>1, <2>2
<1>6. f \in Injection(D, G)
  BY <1>2, <1>5 DEF Injection, IsInjective
<1>7. f \in Surjection(D, G)
  BY <1>2 DEF Surjection
<1>8. IsFiniteSet(G) /\ Cardinality(G) = n
  BY <1>3, <1>6, <1>7, FS_Surjection
<1> QED
  BY <1>2, <1>5, <1>8 DEF G

\* A validation starts when nothing else is outstanding.
LEMMA StartPassPreserves ==
  ASSUME TrainingInv, StartRobustnessPass
  PROVE  TrainingInv'
<1> USE DEF TrainingInv
<1> DEFINE i == pendingBest.index
           g == population[i].genome
           G == {[kind |-> "robustness", index |-> i, sample |-> n,
                  genome |-> g, generation |-> generation] : n \in 1..RobustCount}
<1>1. /\ todo = "complete" /\ todo' = "none" /\ RobustCount > 0
      /\ ~robustnessPass.active /\ pendingBest.robustness
      /\ robustnessPass' = [active |-> TRUE, generation |-> generation, index |-> i,
                            samples |-> <<>>]
      /\ pendingBest' = [pendingBest EXCEPT !.robustness = FALSE]
      /\ Submit(G)
      /\ UNCHANGED <<at, batch, up, background, preview, populationVars, bestVars,
                     repoVars, candidates, sessionVars>>
  BY DEF StartRobustnessPass
<1>2. UNCHANGED <<archiveBest, archive, config, commands,
                  paused, trainingComplete, sessions, population, fitnessScores, scored,
                  generation, currentEval, pruneBeforeBreeding, nextGenome,
                  bestFitnessAllTime, bestGenomeId>>
  BY <1>1 DEF repoVars, sessionVars, populationVars, bestVars
<1>3. at \in {"drain", "visible"} /\ scored = Indices /\ generation <= Horizon
      /\ Outstanding = {}
  BY <1>1, ScoredMeansCollected
<1>4. at \in Training \ {"enter"} /\ at' \in Training \ {"enter"} /\ at' # "loop"
  BY <1>1, <1>3 DEF Training
<1>5. i \in Nat /\ i \in Indices /\ HasGenome(i)
  BY <1>1 DEF CandidateTypes
<1>6. g \in Nat
  <2>1. population[i] \in Individuals
    BY <1>5 DEF PopulationTypes, Indices
  <2> QED
    BY <2>1 DEF Individuals
<1>7. generation \in Nat /\ RobustCount \in Nat
  BY ConfigTypes DEF PopulationTypes
<1>8. /\ G \in SUBSET Requests /\ IsFiniteSet(G) /\ Cardinality(G) = RobustCount
      /\ \A t \in G : /\ t.kind = "robustness" /\ t.index = i /\ t.genome = g
                      /\ t.generation = generation
  <2> HIDE DEF g, i
  <2>1. PICK a \in Nat, b \in Nat, c \in Nat, m \in Nat :
          a = i /\ b = g /\ c = generation /\ m = RobustCount
    BY <1>5, <1>6, <1>7
  <2>2. G = ValidationRequests(a, b, c, m)
    BY <2>1 DEF ValidationRequests
  <2> HIDE DEF G
  <2> QED
    BY <2>1, <2>2, RequestsOfValidation
<1> HIDE DEF G
<1>9. PoolInv' /\ Outstanding' = G
  <2>1. PICK R \in SUBSET Requests : R = G /\ IsFiniteSet(R)
    BY <1>8
  <2> QED
    BY <1>1, <1>3, <2>1, PoolSubmitted
<1>10. PopulationTypes' /\ Indices' = Indices
  BY <1>1, <1>2, PopulationSame
<1>11. RepositoryTypes' /\ ArchiveBounded'
  BY <1>1, <1>2, RepositorySame
<1>12. /\ pendingBest' \in [robustness : BOOLEAN, index : Nat, firstSample : Fitness \cup {0}]
       /\ ~pendingBest'.robustness /\ pendingBest'.index = i
  BY <1>1 DEF CandidateTypes
<1>13. /\ robustnessPass' \in [active : BOOLEAN, generation : Int, index : Nat,
                               samples : Seq(Fitness)]
       /\ robustnessPass'.active /\ robustnessPass'.generation = generation
       /\ robustnessPass'.index = i /\ robustnessPass'.samples = <<>>
       /\ Len(robustnessPass'.samples) = 0
  <2> HIDE DEF i
  <2> QED
    BY <1>1, <1>5, <1>7
<1>14. CandidateTypes'
  BY <1>2, <1>5, <1>10, <1>12, <1>13 DEF CandidateTypes
<1>15. LoopTypes'
  BY <1>1, <1>2 DEF LoopTypes
<1>16. FreshInv' /\ TickInv'
  BY <1>1, <1>2, <1>3, <1>4, <1>10 DEF FreshInv, TickInv
<1>17. OutstandingOf("generation")' = {} /\ OutstandingOf("robustness")' = G
       /\ OutstandingOf("generation") = {} /\ RobustCount' = RobustCount
  BY <1>2, <1>3, <1>8, <1>9 DEF OutstandingOf, RobustCount
<1>18. RequestInv'
  BY <1>1, <1>2, <1>5, <1>7, <1>8, <1>10, <1>13, <1>17 DEF RequestInv, HasGenome
<1>19. ScoringInv'
  <2>1. ResultsMatchPopulation'
    BY <1>2, <1>5, <1>8, <1>9, <1>10 DEF ResultsMatchPopulation
  <2>2. currentEval' = Cardinality(scored')
    BY <1>2, <1>4 DEF ScoringInv
  <2>3. Cardinality(OutstandingOf("robustness")') = RobustCount - 0
    BY <1>7, <1>8, <1>17
  <2> HIDE DEF i
  <2> QED
    BY <1>1, <1>2, <1>3, <1>10, <1>13, <1>17, <2>1, <2>2, <2>3 DEF ScoringInv
<1>20. BestInv'
  <2>1. /\ AllGenomic' = AllGenomic /\ ArchiveMax' = ArchiveMax
        /\ \A j \in Indices : HasGenome(j)' = HasGenome(j)
    BY <1>2 DEF AllGenomic, PopulationSize, ArchiveMax, HasGenome
  <2>2. RobustCount' # 0
    BY <1>1, <1>7, <1>17
  <2> QED
    BY <1>2, <1>10, <2>1, <2>2 DEF BestInv
<1> QED
  BY <1>9, <1>10, <1>11, <1>14, <1>15, <1>16, <1>18, <1>19, <1>20
-----------------------------------------------------------------------------
(* The end of a generation.                                                *)

\* At the end of a generation nothing is outstanding and no candidate is left.
LEMMA FinishedMeansQuiet ==
  ASSUME TrainingInv, todo = "finish"
  PROVE  /\ at \in {"drain", "visible"} /\ scored = Indices /\ generation <= Horizon
         /\ Outstanding = {} /\ background = <<>> /\ preview = <<>> /\ batch = <<>>
         /\ pending = {} /\ ~robustnessPass.active /\ ~pendingBest.robustness
<1>1. at \in {"drain", "visible"} /\ scored = Indices /\ generation <= Horizon
      /\ (~robustnessPass.active => Outstanding = {})
  BY ScoredMeansCollected
<1>2. ~robustnessPass.active /\ ~pendingBest.robustness /\ PoolInv
  BY DEF TrainingInv, RequestInv
<1>3. Outstanding = {}
  BY <1>1, <1>2
<1> QED
  BY <1>1, <1>2, <1>3, OutstandingCount

\* The generations that can be reached.
LEMMA GenerationBound ==
  ASSUME PopulationTypes
  PROVE  /\ Max({MaxGenerations, Horizon + 1}) \in Nat
         /\ Max({MaxGenerations, Horizon + 1}) >= MaxGenerations
         /\ Max({MaxGenerations, Horizon + 1}) >= Horizon + 1
         /\ MaxGenerations \in Nat /\ Horizon \in Nat /\ generation \in Nat
<1>1. MaxGenerations \in Nat /\ Horizon \in Nat /\ Horizon + 1 \in Nat
  BY ConfigTypes, TrainingAssumption DEF PopulationTypes
<1> DEFINE a == MaxGenerations
           b == Horizon + 1
<1>2. a \in Int /\ b \in Int
  BY <1>1
<1> HIDE DEF a, b
<1>3. Max({a, b}) \in {a, b} /\ Max({a, b}) >= a /\ Max({a, b}) >= b
  BY <1>2, MaxOfTwo
<1>4. Max({a, b}) \in Nat
  BY <1>1, <1>3 DEF a, b
<1> QED
  BY <1>1, <1>3, <1>4 DEF a, b, PopulationTypes

LEMMA CompletePreserves ==
  ASSUME TrainingInv, CompleteTraining
  PROVE  TrainingInv'
<1>1. /\ todo = "finish" /\ trainingComplete' = TRUE /\ generation' = MaxGenerations
      /\ todo' = "none"
      /\ UNCHANGED <<at, batch, poolVars, population, fitnessScores, scored, currentEval,
                     pruneBeforeBreeding, nextGenome, candidateVars, bestVars, repoVars,
                     candidates, config, paused, sessions, commands>>
  BY DEF CompleteTraining
<1>2. UNCHANGED <<up, pending, background, preview, archiveBest, archive, pendingBest,
                  robustnessPass, bestFitnessAllTime, bestGenomeId>>
  BY <1>1 DEF poolVars, repoVars, bestVars, candidateVars
<1>3. /\ at \in {"drain", "visible"} /\ scored = Indices
      /\ Outstanding = {} /\ background = <<>> /\ preview = <<>> /\ batch = <<>>
      /\ ~robustnessPass.active
  BY <1>1, FinishedMeansQuiet
<1> USE DEF TrainingInv
<1>4. PoolInv' /\ Outstanding' = {}
  BY <1>1, <1>2, <1>3, PoolUnchanged
<1>5. at \in Training \ {"enter"} /\ at' \in Training \ {"enter"} /\ at' # "loop"
  BY <1>1, <1>3 DEF Training
<1>6. Indices' = Indices
  BY <1>1 DEF Indices
<1>7. PopulationTypes'
  <2>1. generation' \in 0..Max({MaxGenerations, Horizon + 1})
    BY <1>1, GenerationBound
  <2> HIDE DEF TrainingInv
  <2>2. PopulationTypes
    BY DEF TrainingInv
  <2>3. PopulationSize' = PopulationSize /\ MaxGenerations' = MaxGenerations
    BY <1>1 DEF PopulationSize, MaxGenerations
  <2> QED
    BY <1>1, <1>6, <2>1, <2>2, <2>3 DEF PopulationTypes
<1>8. CandidateTypes' /\ RepositoryTypes' /\ ArchiveBounded'
  BY <1>1, <1>2, CandidatesSame, RepositorySame
<1>9. BestInv'
  BY <1>1, <1>2, BestSame
<1>10. LoopTypes'
  BY <1>1, <1>2 DEF LoopTypes
<1>11. FreshInv' /\ TickInv'
  BY <1>1, <1>2, <1>3, <1>5 DEF FreshInv, TickInv
<1>12. OutstandingOf("generation")' = {} /\ OutstandingOf("robustness")' = {}
       /\ OutstandingOf("generation") = {} /\ Cardinality(OutstandingOf("robustness")') = 0
  <2>1. OutstandingOf("generation")' = {} /\ OutstandingOf("robustness")' = {}
        /\ OutstandingOf("generation") = {}
    BY <1>3, <1>4 DEF OutstandingOf
  <2> QED
    BY <2>1, FS_EmptySet
<1>13. RequestInv'
  BY <1>1, <1>2, <1>3, <1>12 DEF RequestInv
<1>14. ScoringInv'
  <2>1. currentEval' = Cardinality(scored')
    BY <1>1, <1>5 DEF ScoringInv
  <2> QED
    BY <1>1, <1>2, <1>3, <1>4, <1>6, <1>12, <2>1 DEF ScoringInv, ResultsMatchPopulation
<1> QED
  BY <1>4, <1>7, <1>8, <1>9, <1>10, <1>11, <1>13, <1>14

\* The next generation takes the place of the last when no result of it is left.
LEMMA AdvancePreserves ==
  ASSUME TrainingInv, AdvanceGeneration
  PROVE  TrainingInv'
<1> DEFINE N == PopulationSize
<1>1. /\ todo = "finish" /\ todo' = "none" /\ ~LastGeneration
      /\ generation' = generation + 1 /\ currentEval' = 0 /\ scored' = {}
      /\ fitnessScores' = [i \in DOMAIN population' |-> 0]
      /\ pruneBeforeBreeding' = TRUE /\ nextGenome' = nextGenome + N
      /\ pendingBest' = NoCandidate /\ Submit(GenerationRequests(population', generation'))
      /\ UNCHANGED <<at, batch, up, background, preview, robustnessPass,
                     bestFitnessAllTime, candidates, sessionVars>>
  BY DEF AdvanceGeneration
<1>2. UNCHANGED <<config, paused, trainingComplete, sessions, commands>>
  BY <1>1 DEF sessionVars
<1>3. /\ at \in {"drain", "visible"} /\ generation <= Horizon
      /\ Outstanding = {} /\ background = <<>> /\ preview = <<>> /\ batch = <<>>
      /\ ~robustnessPass.active
  BY <1>1, FinishedMeansQuiet
<1> USE DEF TrainingInv
<1>4. at \in Training /\ at' \in Training \ {"enter"} /\ at' # "loop" /\ at' \in Training
  BY <1>1, <1>3 DEF Training
<1>5. PICK survivors \in Survivors : \E children \in Children(survivors) :
             population' = survivors \o children
  BY DEF AdvanceGeneration
<1>6. PICK children \in Children(survivors) : population' = survivors \o children
  BY <1>5
<1>7. PICK pop : pop = survivors \o children
  OBVIOUS
<1>8. /\ pop \in Seq(Individuals) /\ Len(pop) = 2 * N
      /\ \A i \in 1..(2 * N) :
           /\ pop[i].genome < nextGenome + N
           /\ (\A j \in Indices : HasGenome(j)) => pop[i].genome # NoGenome
  BY <1>4, <1>7, NextPopulation
<1>9. population' = pop /\ Indices' = 1..(2 * N) /\ DOMAIN population' = 1..(2 * N)
  BY <1>6, <1>7, <1>8 DEF Indices
<1>10. N \in Nat \ {0} /\ nextGenome \in Nat \ {0} /\ generation \in Nat /\ Horizon \in Nat
       /\ PopulationSize' = N /\ MaxGenerations' = MaxGenerations
  BY <1>2, ConfigTypes, GenerationBound DEF PopulationTypes, PopulationSize, MaxGenerations
<1> HIDE DEF N
<1>11. PopulationTypes'
  <2>1. generation' \in 0..Max({MaxGenerations, Horizon + 1})
    <3>1. PICK m \in Nat : m = Max({MaxGenerations, Horizon + 1}) /\ m >= Horizon + 1
      BY GenerationBound
    <3>2. generation' \in 0..m
      BY <1>1, <1>3, <1>10, <3>1
    <3> QED
      BY <3>1, <3>2
  <2>2. fitnessScores' \in [1..(2 * N) -> Fitness \cup {0}]
    BY <1>1, <1>9
  <2>3. nextGenome' \in Nat \ {0} /\ nextGenome' = nextGenome + N
    BY <1>1, <1>10 DEF N
  <2>4. config' \in Configs
    BY <1>2 DEF PopulationTypes
  <2> HIDE DEF TrainingInv
  <2> QED
    BY <1>1, <1>4, <1>8, <1>9, <1>10, <2>1, <2>2, <2>3, <2>4 DEF PopulationTypes
<1>12. GoodRepository(archive') /\ Bounded(archive', unpruned') /\ archiveBest' = archiveBest
       /\ bestGenomeId' \in {archiveBest, bestGenomeId}
  <2>1. GoodRepository(archive) /\ Bounded(archive, unpruned)
    BY DEF RepositoryTypes, GoodRepository, ArchiveBounded, Bounded
  <2>2. CASE generation % SaveInterval = 0
    <3>1. Checkpoint /\ bestGenomeId' = TrackedBest
      BY <2>2 DEF AdvanceGeneration
    <3>2. GoodRepository(archive') /\ Bounded(archive', unpruned') /\ archiveBest' = archiveBest
      BY <2>1, <3>1, CheckpointIsGood
    <3> QED
      BY <3>1, <3>2 DEF TrackedBest
  <2>3. CASE generation % SaveInterval # 0
    BY <2>1, <2>3 DEF AdvanceGeneration, repoVars
  <2> QED
    BY <2>2, <2>3
<1>13. RepositoryTypes' /\ ArchiveBounded'
  <2>1. \A g \in Nat : g < nextGenome => g < nextGenome'
    BY <1>1, <1>10 DEF N
  <2>2. candidates' = candidates /\ ArchiveMax' = ArchiveMax
    BY <1>1, <1>2 DEF ArchiveMax
  <2> QED
    BY <1>12, <2>1, <2>2
    DEF RepositoryTypes, GoodRepository, ArchiveBounded, Bounded, Storable
<1>14. CandidateTypes'
  <2>1. /\ pendingBest' \in [robustness : BOOLEAN, index : Nat, firstSample : Fitness \cup {0}]
        /\ pendingBest'.index = 0 /\ ~pendingBest'.robustness
    BY <1>1 DEF NoCandidate
  <2>2. robustnessPass'.index \in Indices' \cup {0}
    <3>1. Indices \subseteq Indices'
      <4>1. Len(population) <= 2 * N /\ Len(population) \in Nat
        BY <1>4, <1>10 DEF PopulationTypes, N
      <4> QED
        BY <1>9, <1>10, <4>1 DEF Indices
    <3> QED
      BY <1>1, <3>1 DEF CandidateTypes
  <2>3. bestFitnessAllTime' \in Int /\ bestGenomeId' \in Nat
    BY <1>1, <1>12 DEF CandidateTypes, RepositoryTypes
  <2> QED
    BY <1>1, <2>1, <2>2, <2>3 DEF CandidateTypes
<1>15. LoopTypes'
  BY <1>1, <1>2 DEF LoopTypes
<1>16. FreshInv' /\ TickInv'
  BY <1>1, <1>3, <1>4 DEF FreshInv, TickInv
<1>17. PICK gen \in Nat : gen = generation'
  BY <1>1, <1>10
<1> DEFINE G == GenerationRequests(pop, gen)
<1>18. /\ G \in SUBSET Requests /\ IsFiniteSet(G)
       /\ \A t \in G : /\ t.kind = "generation" /\ t.sample = 0 /\ t.index \in 1..Len(pop)
                       /\ t.genome = pop[t.index].genome /\ t.generation = gen
       /\ {t.index : t \in G} = 1..Len(pop)
  BY <1>8, RequestsOfGeneration
<1>19. Submit(G)
  BY <1>1, <1>9, <1>17
<1> HIDE DEF G
<1>20. PoolInv' /\ Outstanding' = G
  <2>1. PICK R \in SUBSET Requests : R = G /\ IsFiniteSet(R)
    BY <1>18
  <2> QED
    BY <1>1, <1>3, <1>19, <2>1, PoolSubmitted
<1>21. OutstandingOf("generation")' = G /\ OutstandingOf("robustness")' = {}
  BY <1>18, <1>20 DEF OutstandingOf
<1>22. RequestInv'
  BY <1>1, <1>3, <1>18, <1>21 DEF RequestInv
<1>23. ScoringInv'
  <2>1. 1..Len(pop) = Indices'
    BY <1>8, <1>9
  <2>2. ResultsMatchPopulation'
    BY <1>9, <1>17, <1>18, <1>20, <2>1 DEF ResultsMatchPopulation
  <2>3. currentEval' = Cardinality(scored') /\ scored' = {}
    BY <1>1, FS_EmptySet
  <2>4. Cardinality(OutstandingOf("robustness")') = 0
    BY <1>21, FS_EmptySet
  <2> QED
    BY <1>1, <1>3, <1>18, <1>21, <2>1, <2>2, <2>3, <2>4 DEF ScoringInv
<1>24. BestInv'
  <2>1. /\ AllGenomic' = AllGenomic /\ ArchiveMax' = ArchiveMax
    BY <1>2 DEF AllGenomic, PopulationSize, ArchiveMax
  <2>2. AllGenomic' => \A j \in Indices' : HasGenome(j)'
    <3>1. AllGenomic => \A j \in Indices : HasGenome(j)
      BY DEF BestInv
    <3> QED
      BY <1>8, <1>9, <2>1, <3>1 DEF HasGenome
  <2>3. ~pendingBest'.robustness /\ scored' = {} /\ bestFitnessAllTime' = bestFitnessAllTime
    BY <1>1 DEF NoCandidate
  <2> QED
    BY <1>2, <1>12, <2>1, <2>2, <2>3 DEF BestInv
<1> QED
  BY <1>11, <1>13, <1>14, <1>15, <1>16, <1>20, <1>22, <1>23, <1>24
-----------------------------------------------------------------------------
(* The invariant.                                                          *)

LEMMA InitEstablishes ==
  ASSUME Init
  PROVE  TrainingInv
<1>1. /\ config \in Configs /\ archive \in OldArchives
      /\ archiveBest \in DOMAIN archive \cup {NoGenome}
      /\ at = "idle" /\ todo = "none" /\ batch = <<>> /\ up = FALSE /\ pending = {}
      /\ background = <<>> /\ preview = <<>> /\ paused = FALSE /\ trainingComplete = FALSE
      /\ sessions = 0 /\ commands = 0 /\ population = <<>> /\ fitnessScores = <<>>
      /\ scored = {} /\ generation = 0 /\ currentEval = 0 /\ pruneBeforeBreeding = FALSE
      /\ pendingBest = NoCandidate /\ robustnessPass = NoPass
      /\ bestFitnessAllTime = Lowest /\ bestGenomeId = NoGenome /\ candidates = {}
      /\ unpruned = DOMAIN archive /\ nextGenome = Max(DOMAIN archive \cup {NoGenome}) + 1
  BY DEF Init
<1>2. at \notin Training /\ at # "loop"
  BY <1>1 DEF Training
<1>3. Range(<<>>) = {} /\ IsInjective(<<>>) /\ <<>> \in Seq(Requests)
  <2>1. <<>> \in Seq(Requests)
    OBVIOUS
  <2> QED
    BY <2>1, EmptyRange
<1>4. PoolInv /\ Outstanding = {}
  BY <1>1, <1>3, FS_EmptySet DEF PoolInv, Outstanding
<1>5. Indices = {} /\ Len(population) = 0
  BY <1>1 DEF Indices
<1>6. /\ IsFiniteSet(DOMAIN archive) /\ DOMAIN archive \subseteq Nat \ {NoGenome}
      /\ ArchiveBounded
  <2>1. Managed(archive) \ unpruned = {}
    BY <1>1 DEF Managed
  <2>2. ArchiveMax \in Nat
    BY <1>1, ConfigTypes
  <2>3. ArchiveBounded
    BY <2>1, <2>2, FS_EmptySet DEF ArchiveBounded
  <2> QED
    BY <1>1, <2>3, ArchiveAssumption
<1>7. nextGenome \in Nat \ {0} /\ \A g \in DOMAIN archive : g < nextGenome
  <2> DEFINE S == DOMAIN archive \cup {NoGenome}
  <2>1. S \in SUBSET Nat /\ S \in SUBSET Int /\ S # {}
    BY <1>6 DEF NoGenome
  <2>2. IsFiniteSet(S)
    BY <1>6, FS_AddElement
  <2>3. nextGenome = Max(S) + 1
    BY <1>1
  <2>4. DOMAIN archive \subseteq S
    OBVIOUS
  <2> HIDE DEF S
  <2>5. PICK T \in SUBSET Int : T = S
    BY <2>1
  <2>6. Max(T) \in T /\ \A y \in T : Max(T) >= y
    BY <2>1, <2>2, <2>5, MaxOfFinite
  <2>7. Max(S) \in Nat /\ \A y \in S : y \in Nat /\ Max(S) >= y
    BY <2>1, <2>5, <2>6
  <2>8. ASSUME NEW y \in S PROVE y < nextGenome
    BY <2>3, <2>7
  <2> QED
    BY <2>3, <2>4, <2>7, <2>8
<1>8. PopulationTypes
  <2>1. population \in Seq(Individuals) /\ fitnessScores \in [Indices -> Fitness \cup {0}]
    BY <1>1, <1>5
  <2>2. generation \in 0..Max({MaxGenerations, Horizon + 1})
    <3>1. MaxGenerations \in Nat /\ Horizon + 1 \in Nat
      BY <1>1, ConfigTypes, TrainingAssumption
    <3> DEFINE a == MaxGenerations
               b == Horizon + 1
    <3>2. a \in Int /\ b \in Int
      BY <3>1
    <3> HIDE DEF a, b
    <3>3. Max({a, b}) \in {a, b}
      BY <3>2, MaxOfTwo
    <3>4. Max({a, b}) \in Nat
      BY <3>1, <3>3 DEF a, b
    <3> QED
      BY <1>1, <3>4 DEF a, b
  <2>3. /\ config \in Configs /\ scored \in SUBSET Indices /\ pruneBeforeBreeding \in BOOLEAN
        /\ \A i \in Indices : population[i].genome < nextGenome
    BY <1>1, <1>5
  <2> QED
    BY <1>2, <1>5, <1>7, <2>1, <2>2, <2>3 DEF PopulationTypes
<1>9. LoopTypes
  <2> DEFINE b == at \in Training
  <2>1. b = FALSE
    BY <1>2
  <2>2. up = b
    <3> HIDE DEF b
    <3> QED
      BY <1>1, <2>1
  <2>3. sessions \in 0..MaxSessions /\ commands \in 0..MaxCommands
    BY <1>1, TrainingAssumption
  <2> QED
    BY <1>1, <2>2, <2>3 DEF LoopTypes
<1>10. CandidateTypes
  BY <1>1 DEF CandidateTypes, NoCandidate, NoPass, Lowest, NoGenome
<1>11. RepositoryTypes
  <2>1. \A g \in DOMAIN archive : archive[g].fitness \in StoredFitness
    BY <1>1, FitnessTypes
  <2>2. \A g \in DOMAIN archive : Storable(g, archive[g].fitness)
    BY <1>6, <1>7, <2>1 DEF Storable
  <2>3. archiveBest \in Nat
    BY <1>1, <1>6 DEF NoGenome
  <2>4. IsFiniteSet(candidates) /\ candidates = {}
    BY <1>1, FS_EmptySet
  <2> QED
    BY <1>6, <2>2, <2>3, <2>4 DEF RepositoryTypes
<1>12. FreshInv /\ TickInv
  BY <1>1, <1>2, <1>4 DEF FreshInv, TickInv
<1>13. RequestInv /\ ScoringInv
  <2>1. ~robustnessPass.active
    BY <1>1 DEF NoPass
  <2> QED
    BY <1>1, <1>2, <1>4, <2>1 DEF RequestInv, ScoringInv, OutstandingOf, ResultsMatchPopulation
<1>14. BestInv
  <2>1. ~pendingBest.robustness /\ Lowest >= Lowest
    BY <1>1 DEF NoCandidate, Lowest
  <2> QED
    BY <1>1, <1>5, <2>1 DEF BestInv
<1> QED
  BY <1>4, <1>6, <1>8, <1>9, <1>10, <1>11, <1>12, <1>13, <1>14 DEF TrainingInv

LEMMA StutterPreserves ==
  ASSUME TrainingInv, UNCHANGED vars
  PROVE  TrainingInv'
<1> USE DEF TrainingInv
<1>1. UNCHANGED <<loopVars, poolVars, populationVars, candidateVars, bestVars, repoVars,
                  candidates, sessionVars>>
  BY DEF vars
<1>2. UNCHANGED <<at, todo, batch, up, pending, background, preview, archiveBest, archive,
                  population, fitnessScores, scored, generation, currentEval,
                  pruneBeforeBreeding, nextGenome, pendingBest, robustnessPass, config,
                  bestFitnessAllTime, bestGenomeId, commands, paused, trainingComplete, sessions>>
  BY <1>1
  DEF loopVars, poolVars, populationVars, candidateVars, bestVars, repoVars, sessionVars
<1>3. PoolInv' /\ Outstanding' = Outstanding
  BY <1>2, PoolUnchanged
<1>4. PopulationTypes' /\ Indices' = Indices
  BY <1>1, <1>2, PopulationSame
<1>5. CandidateTypes' /\ RepositoryTypes' /\ ArchiveBounded'
  BY <1>1, <1>2, CandidatesSame, RepositorySame
<1>6. BestInv' /\ RequestInv' /\ ScoringInv'
  BY <1>1, <1>2, <1>3, BestSame, RequestsSame, ScoringSame
<1>7. LoopTypes' /\ TickInv'
  BY <1>2, <1>4 DEF LoopTypes, TickInv
<1>8. FreshInv'
  BY <1>2, <1>3 DEF FreshInv
<1> QED
  BY <1>3, <1>4, <1>5, <1>6, <1>7, <1>8

\* Every operation of the training loop, the pool and the user keeps the invariant.
THEOREM TrainingInvariant == Spec => []TrainingInv
<1>1. Init => TrainingInv
  BY InitEstablishes
<1>2. TrainingInv /\ [Next]_vars => TrainingInv'
  <2> SUFFICES ASSUME TrainingInv, [Next]_vars PROVE TrainingInv'
    OBVIOUS
  <2>1. CASE UNCHANGED vars
    BY <2>1, StutterPreserves
  <2>2. CASE Commands
    BY <2>2, StartPreserves, StopPreserves, PausePreserves, UnsavedPreserves, SavePreserves,
       GenomeSetPreserves, DeletePreserves DEF Commands
  <2>3. CASE Tick
    <3>1. CASE \E f \in Fitness : ProcessGenerationResult(f) \/ ProcessRobustnessSample(f)
      BY <3>1, GenerationResultPreserves, RobustnessSamplePreserves
    <3> QED
      BY <2>3, <3>1, QueuePreserves, TickPreserves, TickCompletePreserves,
         FinalizePendingPreserves, StartPassPreserves, WaitPreserves, FinalizeRobustPreserves,
         CompletePreserves, AdvancePreserves DEF Tick
  <2>4. CASE \E t \in pending : Finish(t)
    BY <2>4, FinishPreserves
  <2> QED
    BY <2>1, <2>2, <2>3, <2>4 DEF Next
<1> QED
  BY <1>1, <1>2, PTL DEF Spec
-----------------------------------------------------------------------------
(* What it says.                                                           *)

\* Every variable of the training loop, its pool and its repository has its type,
\* whatever the configuration and the number of sessions.
THEOREM TrainingTypes == Spec => []TypeOK
<1>1. TrainingInv => TypeOK
  <2> SUFFICES ASSUME TrainingInv PROVE TypeOK
    OBVIOUS
  <2> USE DEF TrainingInv
  <2>1. Outstanding \subseteq Requests
    BY OutstandingCount
  <2>2. \A i \in Indices : population[i] \in [genome : Nat, origin : Origins]
    <3>1. \A i \in Indices : population[i] \in Individuals
      BY DEF PopulationTypes, Indices
    <3> QED
      BY <3>1 DEF Individuals
  <2>3. DOMAIN fitnessScores = Indices /\ scored \subseteq Indices
        /\ Range(fitnessScores) \subseteq Fitness \cup {0}
    BY DEF PopulationTypes, Range
  <2>4. currentEval \in 0..Len(population)
    <3>1. IsFiniteSet(Indices) /\ Cardinality(Indices) = Len(population)
          /\ Len(population) \in Nat
      BY FiniteIndices
    <3>2. CASE at \in Training \ {"enter"}
      <4>1. currentEval = Cardinality(scored)
        BY <3>2 DEF ScoringInv
      <4>2. IsFiniteSet(scored) /\ Cardinality(scored) <= Cardinality(Indices)
        BY <2>3, <3>1, FS_Subset
      <4>3. Cardinality(scored) \in Nat
        BY <4>2, FS_CardinalityType
      <4> QED
        BY <3>1, <4>1, <4>2, <4>3
    <3>3. CASE at \notin Training \ {"enter"}
      BY <3>1, <3>3 DEF FreshInv
    <3> QED
      BY <3>2, <3>3
  <2>5. \A g \in DOMAIN archive : g < nextGenome /\ archive[g].fitness \in StoredFitness
    BY DEF RepositoryTypes, Storable
  <2>6. Len(population) \in {0, PopulationSize, 2 * PopulationSize}
    BY DEF PopulationTypes
  <2>7. /\ at \in Training \cup {"idle", "unsaved", "restart", "shutdown"}
        /\ todo \in {"none", "complete", "finish"}
        /\ up = (at \in Training) /\ paused \in BOOLEAN /\ trainingComplete \in BOOLEAN
        /\ sessions \in 0..MaxSessions /\ commands \in 0..MaxCommands
    BY DEF LoopTypes
  <2>8. /\ pendingBest.index \in Indices \cup {0} /\ robustnessPass.index \in Indices \cup {0}
        /\ bestGenomeId \in Nat /\ bestFitnessAllTime \in Int /\ archiveBest \in Nat
    BY DEF CandidateTypes, RepositoryTypes
  <2>9. generation \in 0..Max({MaxGenerations, Horizon + 1}) /\ pruneBeforeBreeding \in BOOLEAN
    BY DEF PopulationTypes
  <2> HIDE DEF TrainingInv
  <2> QED
    BY <2>1, <2>2, <2>3, <2>4, <2>5, <2>6, <2>7, <2>8, <2>9 DEF TypeOK
<1> QED
  BY <1>1, TrainingInvariant, PTL

\* processResult applies a result, which names its individual by position only, to
\* the individual that was evaluated: no result outlives its generation or session.
THEOREM ResultsMeetTheirIndividuals == Spec => []ResultsMatchPopulation
<1>1. TrainingInv => ResultsMatchPopulation
  BY DEF TrainingInv, ScoringInv
<1> QED
  BY <1>1, TrainingInvariant, PTL

\* maybeCompleteGeneration declares a generation complete by its counter: each
\* individual has been counted once, and a validation waits for exactly its samples.
THEOREM ScoredOnce == Spec => []EachScoredOnce
<1>1. TrainingInv => EachScoredOnce
  BY OutstandingCount DEF TrainingInv, ScoringInv, EachScoredOnce
<1> QED
  BY <1>1, TrainingInvariant, PTL

\* Without a validation no record of a generation is lost, in whatever order the
\* results of its individuals are processed.
THEOREM RecordsAreCounted == Spec => []RecordsCount
<1>1. TrainingInv => RecordsCount
  <2> SUFFICES ASSUME TrainingInv, todo = "finish", RobustCount = 0, AllGenomic,
                      NEW i \in Indices
               PROVE  fitnessScores[i] <= bestFitnessAllTime
    BY DEF RecordsCount
  <2>1. scored = Indices /\ ~pendingBest.robustness
    BY FinishedMeansQuiet
  <2> QED
    BY <2>1 DEF TrainingInv, BestInv
<1> QED
  BY <1>1, TrainingInvariant, PTL

\* Checkpoints, promotions and saves prune what they store, although the archive's
\* best genome may not be removed: only what a client has imported, or what was there
\* when the limit changed, can exceed the limit, and only until the next store.
THEOREM ArchiveStaysBounded == Spec => []ArchiveBounded
<1>1. TrainingInv => ArchiveBounded
  BY DEF TrainingInv
<1> QED
  BY <1>1, TrainingInvariant, PTL

\* advanceGeneration keeps an individual that no other outscored, whatever the
\* diversity picks are: it is one of the survivors.
THEOREM TheBestSurvives == Spec => BestSurvives
<1> DEFINE Kept == \E i \in Indices, k \in 1..PopulationSize :
                     /\ \A j \in Indices : fitnessScores[j] <= fitnessScores[i]
                     /\ population'[k].genome = population[i].genome
<1>1. TrainingInv /\ [Next]_vars => [todo = "finish" /\ ~LastGeneration => Kept]_vars
  <2> SUFFICES ASSUME TrainingInv, Next, todo = "finish", ~LastGeneration
               PROVE  Kept
    OBVIOUS
  <2>1. at \in {"drain", "visible"} /\ pending = {}
    BY FinishedMeansQuiet
  <2>2. ~Commands
    BY <2>1 DEF Commands, EvolutionStart, EvolutionStop, EvolutionPauseSet, Exit, ExitUnsaved,
       TrainingResultSave, TrainingResultDiscard, GenomeSet, GenomeDelete
  <2>3. AdvanceGeneration
    BY <2>1, <2>2 DEF Next, Tick, QueueFirstGeneration, TickDrain, TickVisible, TickEnd,
       TickComplete, ProcessGenerationResult, ProcessRobustnessSample, FinalizePendingBest,
       StartRobustnessPass, AwaitSamples, FinalizeRobustnessPass, NothingToValidate,
       CompleteTraining
  <2>4. PICK survivors \in Survivors : \E children \in Children(survivors) :
               population' = survivors \o children
    BY <2>3 DEF AdvanceGeneration
  <2>5. PICK children \in Children(survivors) : population' = survivors \o children
    BY <2>4
  <2>6. PopulationTypes /\ at \in Training
    BY <2>1 DEF TrainingInv, Training
  <2>7. \E i \in Indices, k \in 1..PopulationSize :
          /\ \A j \in Indices : fitnessScores[j] <= fitnessScores[i]
          /\ (survivors \o children)[k].genome = population[i].genome
    BY <2>6, NextPopulation
  <2> QED
    BY <2>5, <2>7
<1> QED
  BY <1>1, TrainingInvariant, PTL DEF Spec, BestSurvives

\* Where nothing but promotions can change the session's best, a session without a
\* best genome has no best score either: whatever is promoted then is no fall.
LEMMA PromotionRises ==
  ASSUME TrainingInv, AllGenomic, ArchiveMax = 0, commands = 0,
         NEW fitness \in Int, fitness >= Lowest, Promoted(fitness)
  PROVE  fitness >= bestFitnessAllTime
<1>1. bestFitnessAllTime \in Int
  BY DEF TrainingInv, CandidateTypes
<1>2. bestFitnessAllTime # Lowest => bestGenomeId # NoGenome
  BY DEF TrainingInv, BestInv
<1>3. bestFitnessAllTime = Lowest \/ fitness > bestFitnessAllTime
  BY <1>2 DEF Promoted
<1> QED
  BY <1>1, <1>3

\* The two steps that may promote.
LEMMA FinalizingRises ==
  ASSUME TrainingInv, AllGenomic, ArchiveMax = 0, commands = 0,
         FinalizePendingBest \/ FinalizeRobustnessPass
  PROVE  bestFitnessAllTime' >= bestFitnessAllTime
<1>1. bestFitnessAllTime \in Int
  BY DEF TrainingInv, CandidateTypes
<1>2. CASE FinalizePendingBest
  <2> DEFINE first == pendingBest.firstSample
  <2>1. first \in Int /\ first >= Lowest
    <3>1. first \in Fitness \cup {0}
      BY DEF TrainingInv, CandidateTypes
    <3> QED
      BY <3>1, FitnessTypes DEF Lowest
  <2>2. \/ Promoted(first) /\ bestFitnessAllTime' = first
        \/ bestFitnessAllTime' = bestFitnessAllTime
    BY <1>2 DEF FinalizePendingBest, Promote, bestVars
  <2>3. PICK f \in Int : f = first
    BY <2>1
  <2> HIDE DEF first
  <2>4. Promoted(f) => f >= bestFitnessAllTime
    BY <2>1, <2>3, PromotionRises
  <2> QED
    BY <1>1, <2>2, <2>3, <2>4
<1>3. CASE FinalizeRobustnessPass
  <2> DEFINE robust == Median(Window(robustnessPass.samples))
  <2>1. \/ Promoted(robust) /\ bestFitnessAllTime' = robust
        \/ bestFitnessAllTime' = bestFitnessAllTime
    BY <1>3 DEF FinalizeRobustnessPass, Promote, bestVars
  <2>2. robust \in Int /\ robust >= Lowest
    <3>1. PICK s \in Seq(Fitness) : s = robustnessPass.samples
      BY DEF TrainingInv, CandidateTypes
    <3>2. RobustCount \in Nat /\ RobustCount > 0
      BY <1>3, ConfigTypes DEF FinalizeRobustnessPass, TrainingInv, RequestInv, PopulationTypes
    <3>3. Len(s) \in Nat /\ Len(s) >= RobustCount
      BY <1>3, <3>1 DEF FinalizeRobustnessPass, SamplesComplete
    <3>4. Len(s) > 0
      BY <3>2, <3>3
    <3> QED
      BY <3>1, <3>4, WindowMedian
  <2>3. PICK f \in Int : f = robust
    BY <2>2
  <2> HIDE DEF robust
  <2>4. Promoted(f) => f >= bestFitnessAllTime
    BY <2>2, <2>3, PromotionRises
  <2> QED
    BY <1>1, <2>1, <2>3, <2>4
<1> QED
  BY <1>2, <1>3

\* bestFitnessAllTime only rises while the repository keeps the session's best, even
\* where the median of a validation is below the score that started it.
THEOREM BestDoesNotFall == Spec => BestNeverFalls
<1> DEFINE Rises == AllGenomic /\ ArchiveMax = 0 /\ commands = 0 /\ ({at, at'} \subseteq Training) =>
                      bestFitnessAllTime' >= bestFitnessAllTime
<1>1. TrainingInv /\ [Next]_vars => [Rises]_vars
  <2> SUFFICES ASSUME TrainingInv, Next, AllGenomic, ArchiveMax = 0, commands = 0,
                      at \in Training, at' \in Training
               PROVE  bestFitnessAllTime' >= bestFitnessAllTime
    OBVIOUS
  <2>1. bestFitnessAllTime \in Int
    BY DEF TrainingInv, CandidateTypes
  <2>2. CASE FinalizePendingBest \/ FinalizeRobustnessPass
    BY <2>2, FinalizingRises
  <2>3. ASSUME NEW f \in Fitness, ProcessGenerationResult(f)
        PROVE  bestFitnessAllTime' >= bestFitnessAllTime
    <3>1. f \in Int
      BY FitnessTypes
    <3>2. \/ f > bestFitnessAllTime /\ bestFitnessAllTime' = f
          \/ bestFitnessAllTime' = bestFitnessAllTime
      BY <2>3 DEF ProcessGenerationResult, bestVars
    <3> QED
      BY <2>1, <3>1, <3>2
  <2>4. ~EvolutionStop /\ ~Exit /\ ~ExitUnsaved /\ ~TrainingResultSave
        /\ ~TrainingResultDiscard /\ (\A c \in Configs : ~EvolutionStart(c)) /\ ~TickComplete
    BY DEF Training, EvolutionStop, Exit, ExitUnsaved, TrainingResultSave,
       TrainingResultDiscard, EvolutionStart, TickComplete
  <2>5. CASE \/ EvolutionPauseSet \/ \E g \in DOMAIN archive : GenomeDelete(g)
             \/ \E g \in 1..nextGenome, entry \in Imports : GenomeSet(g, entry)
    <3>1. UNCHANGED bestVars
      BY <2>5 DEF EvolutionPauseSet, GenomeDelete, GenomeSet
    <3> QED
      BY <2>1, <3>1 DEF bestVars
  <2>6. CASE \E f \in Fitness : ProcessRobustnessSample(f)
    BY <2>1, <2>6 DEF ProcessRobustnessSample, bestVars
  <2>7. CASE \/ QueueFirstGeneration \/ TickDrain \/ TickVisible \/ TickEnd \/ AwaitSamples
             \/ StartRobustnessPass \/ NothingToValidate \/ CompleteTraining \/ AdvanceGeneration
    BY <2>1, <2>7 DEF QueueFirstGeneration, TickDrain, TickVisible, TickEnd, AwaitSamples,
       StartRobustnessPass, NothingToValidate, CompleteTraining, AdvanceGeneration, bestVars
  <2>8. CASE \E t \in pending : Finish(t)
    BY <2>1, <2>8 DEF Finish, bestVars
  <2> QED
    BY <2>2, <2>3, <2>4, <2>5, <2>6, <2>7, <2>8 DEF Next, Commands, Tick
<1> QED
  BY <1>1, TrainingInvariant, PTL DEF Spec, BestNeverFalls
-----------------------------------------------------------------------------
(* The training loop is a caller the evaluation pool allows.               *)

LEMMA CommandsKeepContract ==
  ASSUME TrainingInv, Commands
  PROVE  [Pool!PoolNext]_(Pool!poolState)
<1>1. up = (at \in Training)
  BY DEF TrainingInv, LoopTypes
<1>2. CASE \E c \in Configs : EvolutionStart(c)
  <2>1. ~up
    BY <1>1, <1>2 DEF EvolutionStart, Training
  <2>2. Pool!PoolStart
    BY <1>2, <2>1 DEF EvolutionStart, Pool!PoolStart
  <2> QED
    BY <2>2 DEF Pool!PoolNext
<1>3. CASE EvolutionStop \/ Exit
  <2>1. up
    BY <1>1, <1>3 DEF EvolutionStop, Exit, Training
  <2>2. Pool!PoolStop
    BY <1>3, <2>1 DEF EvolutionStop, Exit, Leave, ExecutorStopped, Pool!PoolStop
  <2> QED
    BY <2>2 DEF Pool!PoolNext
<1>4. CASE \/ EvolutionPauseSet \/ ExitUnsaved \/ TrainingResultSave \/ TrainingResultDiscard
           \/ \E g \in DOMAIN archive : GenomeDelete(g)
           \/ \E g \in 1..nextGenome, entry \in Imports : GenomeSet(g, entry)
  <2>1. UNCHANGED poolVars
    BY <1>4 DEF EvolutionPauseSet, ExitUnsaved, TrainingResultSave, TrainingResultDiscard,
       GenomeDelete, GenomeSet
  <2> QED
    BY <2>1 DEF poolVars, Pool!poolState
<1> QED
  BY <1>2, <1>3, <1>4 DEF Commands

\* A submission: the pool is up and quiet, and what is submitted are requests.
LEMMA SubmissionKeepsContract ==
  ASSUME TrainingInv, TrainingInv', at \in Training, Outstanding = {},
         UNCHANGED <<up, background, preview>>
  PROVE  Pool!PoolSubmit
<1>1. up
  BY DEF TrainingInv, LoopTypes
<1>2. pending = {} /\ background = <<>> /\ preview = <<>>
  BY OutstandingCount DEF TrainingInv
<1>3. pending' \in SUBSET Requests
  BY DEF TrainingInv, PoolInv
<1> QED
  BY <1>1, <1>2, <1>3 DEF Pool!PoolSubmit, Pool!Quiet

LEMMA TickKeepsContract ==
  ASSUME TrainingInv, TrainingInv', Tick
  PROVE  [Pool!PoolNext]_(Pool!poolState)
<1>1. up = (at \in Training)
  BY DEF TrainingInv, LoopTypes
<1>2. CASE QueueFirstGeneration
  <2>1. at \in Training /\ Outstanding = {} /\ UNCHANGED <<up, background, preview>>
    BY <1>2 DEF QueueFirstGeneration, TrainingInv, FreshInv, Training
  <2>2. Pool!PoolSubmit
    BY <2>1, SubmissionKeepsContract
  <2> QED
    BY <2>2 DEF Pool!PoolNext
<1>3. CASE StartRobustnessPass
  <2>1. todo = "complete" /\ ~robustnessPass.active /\ UNCHANGED <<up, background, preview>>
    BY <1>3 DEF StartRobustnessPass
  <2>2. at \in {"drain", "visible"} /\ Outstanding = {}
    BY <2>1, ScoredMeansCollected
  <2>3. at \in Training
    BY <2>2 DEF Training
  <2>4. Pool!PoolSubmit
    BY <2>1, <2>2, <2>3, SubmissionKeepsContract
  <2> QED
    BY <2>4 DEF Pool!PoolNext
<1>4. CASE AdvanceGeneration
  <2>1. todo = "finish" /\ UNCHANGED <<up, background, preview>>
    BY <1>4 DEF AdvanceGeneration
  <2>2. at \in {"drain", "visible"} /\ Outstanding = {}
    BY <2>1, FinishedMeansQuiet
  <2>3. at \in Training
    BY <2>2 DEF Training
  <2>4. Pool!PoolSubmit
    BY <2>1, <2>2, <2>3, SubmissionKeepsContract
  <2> QED
    BY <2>4 DEF Pool!PoolNext
<1>5. CASE TickDrain
  <2>1. Pool!PoolDrain
    BY <1>1, <1>5 DEF TickDrain, Training, Pool!PoolDrain
  <2> QED
    BY <2>1 DEF Pool!PoolNext
<1>6. CASE TickVisible
  <2>1. Pool!PoolTick
    BY <1>1, <1>6 DEF TickVisible, Training, Pool!PoolTick
  <2> QED
    BY <2>1 DEF Pool!PoolNext
<1>7. CASE TickComplete
  <2>1. up
    BY <1>1, <1>7 DEF TickComplete, Training
  <2>2. Pool!PoolStop
    BY <1>7, <2>1 DEF TickComplete, Leave, ExecutorStopped, Pool!PoolStop
  <2> QED
    BY <2>2 DEF Pool!PoolNext
<1>8. CASE \/ TickEnd \/ FinalizePendingBest \/ AwaitSamples \/ FinalizeRobustnessPass
           \/ NothingToValidate \/ CompleteTraining
           \/ \E f \in Fitness : ProcessGenerationResult(f) \/ ProcessRobustnessSample(f)
  <2>1. UNCHANGED poolVars
    BY <1>8 DEF TickEnd, FinalizePendingBest, AwaitSamples, FinalizeRobustnessPass,
       NothingToValidate, CompleteTraining, ProcessGenerationResult, ProcessRobustnessSample
  <2> QED
    BY <2>1 DEF poolVars, Pool!poolState
<1> QED
  BY <1>2, <1>3, <1>4, <1>5, <1>6, <1>7, <1>8 DEF Tick

\* The training loop never calls the executor in a way it asserts against: it submits
\* a generation or a validation only when it holds no uncollected result.
THEOREM LoopKeepsContract == Spec => CallerKeepsContract
<1>1. Init => Pool!PoolInit
  BY DEF Init, Pool!PoolInit, Pool!Quiet
<1>2. TrainingInv /\ TrainingInv' /\ [Next]_vars => [Pool!PoolNext]_(Pool!poolState)
  <2> SUFFICES ASSUME TrainingInv, TrainingInv', [Next]_vars
               PROVE  [Pool!PoolNext]_(Pool!poolState)
    OBVIOUS
  <2>1. CASE UNCHANGED vars
    BY <2>1 DEF vars, poolVars, Pool!poolState
  <2>2. ASSUME NEW t \in pending, Finish(t) PROVE [Pool!PoolNext]_(Pool!poolState)
    <3>1. Pool!PoolFinish(t)
      BY <2>2 DEF Finish, Pool!PoolFinish
    <3> QED
      BY <3>1 DEF Pool!PoolNext
  <2> QED
    BY <2>1, <2>2, CommandsKeepContract, TickKeepsContract DEF Next
<1> QED
  BY <1>1, <1>2, TrainingInvariant, PTL DEF Spec, CallerKeepsContract, Pool!PoolSpec
=============================================================================
