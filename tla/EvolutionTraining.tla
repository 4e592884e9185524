------------------------- MODULE EvolutionTraining -------------------------
(***************************************************************************)
(* server/states/Evolution.cpp: the training loop of the server's main     *)
(* thread, between its evaluation pool and its genome repository.          *)
(*                                                                         *)
(* Between two ticks the main thread handles commands.  A tick collects    *)
(* the finished evaluations, first the background ones (drainResults), and *)
(* then the previewed ones (visibleTick), and processes them one by one.   *)
(* The last result of a generation validates the candidate for the best    *)
(* genome, with a further round of evaluations or without, and then breeds *)
(* and submits the next generation, all inside processResult.  The pool's  *)
(* threads finish evaluations at any time in between; EvaluationPool says  *)
(* what they may do and what their caller must not.                        *)
(*                                                                         *)
(* A genome is a number; a mutation makes a new one.  The repository keeps *)
(* one entry for each genome, as storeOrUpdateByHash does.  All genomes of *)
(* a session are of one brain kind, one organism and one pool: one bucket  *)
(* of the archive, whose entries are the managed ones.                     *)
(* A fitness is an even integer, so that a median is an integer too.       *)
(***************************************************************************)
EXTENDS Integers, Sequences, SequencesExt, FiniteSetsExt

CONSTANTS
  Configs,          \* the configurations a user may train with
  Fitness,          \* what an evaluation may measure
  SaveInterval,     \* generations between two checkpoints
  SampleWindow,     \* kRobustFitnessSampleWindow
  OldArchives,      \* what earlier sessions may have left in the repository
  Imports,          \* the metadata a client may import a genome with
  MaxSessions,      \* bound on the number of training sessions
  MaxCommands,      \* bound on the number of pauses, imports and deletions
  Horizon           \* bound: later generations are submitted and never evaluated

\* The part of EvolutionConfig that the loop's control depends on, and which of the
\* individuals of the first generation have a genome.
EvolutionConfig ==
  [populationSize : Nat \ {0}, genomic : SUBSET Nat,
   maxGenerations : Nat,                \* 0 for no limit
   robustFitnessEvaluationCount : Nat,  \* 0 for no validation
   diversityEliteCount : Nat, diversityEliteFitnessEpsilon : Nat,
   genomeArchiveMaxSize : Nat]          \* 0 for no limit

ASSUME TrainingAssumption ==
  /\ \A c \in Configs : c \in EvolutionConfig /\ c.genomic \subseteq 1..c.populationSize
  /\ \A f \in Fitness : f \in Int /\ f % 2 = 0
  /\ SaveInterval \in Nat \ {0} /\ SampleWindow \in Nat \ {0}
  /\ MaxSessions \in Nat /\ MaxCommands \in Nat /\ Horizon \in Nat

NoGenome == 0      \* std::nullopt, INVALID_GENOME_ID
Lowest == -1000    \* std::numeric_limits<double>::lowest()

ASSUME LowestAssumption == \A f \in Fitness : f > Lowest

\* What earlier sessions left may be more than a session's limit allows:
\* StateMachine's constructor prunes it to the limit of the user settings, and a
\* session may be started with another.
ASSUME ArchiveAssumption ==
  \A old \in OldArchives :
    /\ IsFiniteSet(DOMAIN old) /\ DOMAIN old \subseteq Nat \ {NoGenome}
    /\ \A g \in DOMAIN old : old[g].fitness \in Int

ASSUME ImportAssumption == \A entry \in Imports : entry.fitness \in Int

VARIABLES
  config,              \* evolutionConfig of this session, or of the last one
  at,                  \* where the main thread is: a server state, or inside a tick
  todo,                \* what is left to do of the result in hand
  batch,               \* results collected and not processed yet
  up, pending,         \* the evaluation pool, as EvaluationPool describes it
  background, preview,
  paused,              \* trainingPaused_
  population,          \* individuals: genome and origin
  fitnessScores,
  scored,              \* indices that have their score in this generation (history)
  generation, currentEval,
  pendingBest,         \* pendingBest_: robustness flag, index and first sample
  robustnessPass,      \* robustnessPass_: active, generation, index and samples
  bestFitnessAllTime, bestGenomeId,
  pruneBeforeBreeding,
  trainingComplete,
  archive,             \* repository: genome -> fitness, robust samples and
                       \* whether it is managed, that is of this bucket and with
                       \* a trainingSessionId
  archiveBest,         \* repository: bestId_
  unpruned,            \* genomes no prune has seen since they were stored, or
                       \* since the limit changed (history)
  candidates,          \* the genomes an unsaved training result offers
  nextGenome,          \* the next new genome
  sessions,            \* sessions started so far
  commands             \* pauses, imports and deletions so far

poolVars == <<up, pending, background, preview>>
loopVars == <<at, todo, batch>>
populationVars == <<population, fitnessScores, scored, generation, currentEval,
                    pruneBeforeBreeding, nextGenome>>
candidateVars == <<pendingBest, robustnessPass>>
bestVars == <<bestFitnessAllTime, bestGenomeId>>
repoVars == <<archive, archiveBest, unpruned>>
sessionVars == <<config, paused, trainingComplete, sessions, commands>>
vars == <<loopVars, poolVars, populationVars, candidateVars, bestVars, repoVars,
          candidates, sessionVars>>

PopulationSize == config.populationSize
MaxGenerations == config.maxGenerations
RobustCount == config.robustFitnessEvaluationCount
ArchiveMax == config.genomeArchiveMaxSize

Training == {"enter", "loop", "drain", "visible"}
Origins == {"Seed", "EliteCarryover", "OffspringClone", "OffspringMutated"}
Individual(g, o) == [genome |-> g, origin |-> o]
HasGenome(i) == population[i].genome # NoGenome
Indices == 1..Len(population)
-----------------------------------------------------------------------------
(* The repository, as the training loop uses it.                           *)

\* The k-th smallest of the samples.
OrderStatistic(samples, k) ==
  CHOOSE v \in Range(samples) :
    /\ Cardinality({i \in DOMAIN samples : samples[i] < v}) < k
    /\ Cardinality({i \in DOMAIN samples : samples[i] <= v}) >= k

\* computeMedian
Median(samples) ==
  LET n == Len(samples) IN
  IF n % 2 = 1 THEN OrderStatistic(samples, (n + 1) \div 2)
  ELSE (OrderStatistic(samples, n \div 2) + OrderStatistic(samples, n \div 2 + 1)) \div 2

\* effectiveRobustFitness
Effective(entry) ==
  IF entry.samples = <<>> THEN entry.fitness ELSE Median(entry.samples)

\* Only the latest kRobustFitnessSampleWindow samples are kept.
Window(samples) ==
  IF Len(samples) <= SampleWindow THEN samples
  ELSE SubSeq(samples, Len(samples) - SampleWindow + 1, Len(samples))

\* storeOrUpdateByHash of a managed genome: one that is already there keeps its
\* samples, and takes over the session's id.
Stored(repo, genome, fitness, samples) ==
  LET old == IF genome \in DOMAIN repo THEN repo[genome]
             ELSE [fitness |-> fitness, samples |-> <<>>, managed |-> TRUE]
      entry == [fitness |-> Max({old.fitness, fitness}),
                samples |-> Window(old.samples \o samples), managed |-> TRUE]
  IN  [g \in DOMAIN repo \cup {genome} |-> IF g = genome THEN entry ELSE repo[g]]

\* The genomes that a limit of the archive applies to.
Managed(repo) == {g \in DOMAIN repo : repo[g].managed}

\* pruneManagedByFitness: the sets of genomes it may remove.  Ties are broken by
\* time and id, which are left open here; the marked best is never removed.
Removals(repo) ==
  LET removable == Managed(repo) \ {archiveBest}
      excess == Min({Cardinality(removable), Cardinality(Managed(repo)) - ArchiveMax})
  IN  IF ArchiveMax = 0 \/ Cardinality(Managed(repo)) <= ArchiveMax THEN {{}}
      ELSE {R \in kSubset(excess, removable) :
              \A r \in R, k \in removable \ R : Effective(repo[r]) <= Effective(repo[k])}

Prune(repo) ==
  /\ \E R \in Removals(repo) : archive' = [g \in DOMAIN repo \ R |-> repo[g]]
  /\ unpruned' = {}

StoredUnpruned(genome, fitness, samples) ==
  /\ archive' = Stored(archive, genome, fitness, samples)
  /\ UNCHANGED unpruned

\* storeManagedGenome: store, then prune.
StoreManagedGenome(genome, fitness, samples) ==
  Prune(Stored(archive, genome, fitness, samples))

\* markAsBest does nothing for a genome that is not there.
MarkAsBest(genome) ==
  archiveBest' = IF genome \in DOMAIN archive' THEN genome ELSE archiveBest

\* storeBestGenome, up to its last step: the first of the individuals with the
\* highest score is stored as a checkpoint.
Checkpoint ==
  LET owners == {i \in Indices : HasGenome(i)}
      best == CHOOSE i \in owners : \A j \in owners \ {i} :
                \/ fitnessScores[j] < fitnessScores[i]
                \/ fitnessScores[j] = fitnessScores[i] /\ i < j
  IN  /\ IF owners = {} THEN UNCHANGED <<archive, unpruned>>
         ELSE StoreManagedGenome(population[best].genome, fitnessScores[best], <<>>)
      /\ UNCHANGED archiveBest

\* The last step of storeBestGenome: bestGenomeId becomes the repository's best.
TrackedBest ==
  IF \E i \in Indices : HasGenome(i) THEN archiveBest ELSE bestGenomeId
-----------------------------------------------------------------------------
(* Sessions.                                                               *)

NoCandidate == [robustness |-> FALSE, index |-> 0, firstSample |-> 0]
NoPass == [active |-> FALSE, generation |-> -1, index |-> 0, samples |-> <<>>]

Init ==
  /\ config \in Configs
  /\ at = "idle" /\ todo = "none" /\ batch = <<>>
  /\ up = FALSE /\ pending = {} /\ background = <<>> /\ preview = <<>>
  /\ paused = FALSE /\ trainingComplete = FALSE
  /\ sessions = 0 /\ commands = 0
  /\ population = <<>> /\ fitnessScores = <<>> /\ scored = {}
  /\ generation = 0 /\ currentEval = 0 /\ pruneBeforeBreeding = FALSE
  /\ pendingBest = NoCandidate /\ robustnessPass = NoPass
  /\ bestFitnessAllTime = Lowest /\ bestGenomeId = NoGenome
  /\ archive \in OldArchives /\ archiveBest \in DOMAIN archive \cup {NoGenome}
  /\ unpruned = DOMAIN archive
  /\ candidates = {} /\ nextGenome = Max(DOMAIN archive \cup {NoGenome}) + 1

\* queueGenerationTasks: one request for each individual.  The generation is
\* history; only robustness requests carry it.
GenerationRequests(individuals, gen) ==
  {[kind |-> "generation", index |-> i, sample |-> 0,
    genome |-> individuals[i].genome, generation |-> gen] : i \in DOMAIN individuals}

\* onEnter, up to executor_->start(): a genome brain starts from a random genome or
\* from one of the repository's (seedGenomes, warm start).  EvolutionStart brings a
\* configuration; the restart after a save keeps the one of the session before.
EvolutionStart(c) ==
  /\ at \in {"idle", "unsaved", "restart"} /\ sessions < MaxSessions
  /\ at = "restart" => c = config
  /\ config' = c
  /\ \E seeds \in [c.genomic -> DOMAIN archive \cup {NoGenome}] :
       population' = [i \in 1..c.populationSize |->
         [genome |-> IF i \notin c.genomic THEN NoGenome
                     ELSE IF seeds[i] = NoGenome THEN nextGenome + i - 1 ELSE seeds[i],
          origin |-> "Seed"]]
  /\ nextGenome' = nextGenome + c.populationSize
  /\ fitnessScores' = [i \in 1..c.populationSize |-> 0]
  /\ unpruned' = IF c = config THEN unpruned ELSE DOMAIN archive
  /\ sessions' = sessions + 1
  /\ candidates' = {}
  /\ at' = "enter" /\ up' = TRUE
  /\ UNCHANGED <<todo, batch, pending, background, preview, paused, trainingComplete,
                 commands, scored, generation, currentEval, pruneBeforeBreeding,
                 candidateVars, bestVars, archive, archiveBest>>

\* generationBatchSubmit and robustnessPassSubmit append to the task queue.
Submit(requests) == pending' = pending \cup requests

\* onEnter ends: queueGenerationTasks.
QueueFirstGeneration ==
  /\ at = "enter"
  /\ at' = "loop"
  /\ Submit(GenerationRequests(population, generation))
  /\ UNCHANGED <<todo, batch, up, background, preview, populationVars, candidateVars,
                 bestVars, repoVars, candidates, sessionVars>>

ExecutorLeftRunning == UNCHANGED poolVars

\* executor_->stop()
ExecutorStopped == up' = FALSE /\ pending' = {} /\ background' = <<>> /\ preview' = <<>>

\* The Evolution object is left: its executor is stopped, onExit stores a
\* checkpoint, and its members are gone.
Leave ==
  /\ Checkpoint /\ ExecutorStopped
  /\ todo' = "none" /\ batch' = <<>> /\ paused' = FALSE /\ trainingComplete' = FALSE
  /\ population' = <<>> /\ fitnessScores' = <<>> /\ scored' = {}
  /\ generation' = 0 /\ currentEval' = 0 /\ pruneBeforeBreeding' = FALSE
  /\ pendingBest' = NoCandidate /\ robustnessPass' = NoPass
  /\ bestFitnessAllTime' = Lowest /\ bestGenomeId' = NoGenome
  /\ UNCHANGED <<config, nextGenome, sessions, commands>>

\* EvolutionStop goes to Idle; it stores the checkpoint twice, to the same effect.
EvolutionStop ==
  /\ at = "loop" /\ Leave
  /\ at' = "idle" /\ UNCHANGED candidates

Exit ==
  /\ at = "loop" /\ Leave
  /\ at' = "shutdown" /\ UNCHANGED candidates

\* Exit in UnsavedTrainingResult: its candidates are lost.
ExitUnsaved ==
  /\ at = "unsaved"
  /\ candidates' = {}
  /\ at' = "shutdown"
  /\ UNCHANGED <<todo, batch, poolVars, populationVars, candidateVars, bestVars,
                 repoVars, sessionVars>>

\* MaxCommands bounds the pauses; whatever is paused can be resumed.
EvolutionPauseSet ==
  /\ at = "loop" /\ (paused \/ commands < MaxCommands)
  /\ paused' = ~paused
  /\ commands' = IF paused THEN commands ELSE commands + 1
  /\ UNCHANGED <<loopVars, poolVars, populationVars, candidateVars, bestVars, repoVars,
                 candidates, config, trainingComplete, sessions>>

\* GenomeSet is handled in every state of the server, and does not prune.  The client
\* brings a genome, a new one or one that the server has had before, with metadata
\* that replaces what the repository knows of it.  (A known id with another content,
\* or a known content under another id, is GenomeRepository's subject.)
GenomeSet(g, entry) ==
  /\ at \in {"idle", "loop", "unsaved"} /\ commands < MaxCommands
  /\ commands' = commands + 1
  /\ archive' = [h \in DOMAIN archive \cup {g} |-> IF h = g THEN entry ELSE archive[h]]
  /\ unpruned' = unpruned \cup {g}
  /\ nextGenome' = IF g = nextGenome THEN nextGenome + 1 ELSE nextGenome
  /\ UNCHANGED <<loopVars, poolVars, population, fitnessScores, scored, generation,
                 currentEval, pruneBeforeBreeding, candidateVars, bestVars, archiveBest,
                 candidates, config, paused, trainingComplete, sessions>>

\* GenomeDelete is handled in every state of the server.
GenomeDelete(g) ==
  /\ at \in {"idle", "loop", "unsaved"} /\ commands < MaxCommands
  /\ commands' = commands + 1
  /\ archive' = [h \in DOMAIN archive \ {g} |-> archive[h]]
  /\ archiveBest' = IF archiveBest = g THEN NoGenome ELSE archiveBest
  /\ unpruned' = unpruned \ {g}
  /\ UNCHANGED <<loopVars, poolVars, populationVars, candidateVars, bestVars,
                 candidates, config, paused, trainingComplete, sessions>>

\* One storeOrUpdateByHash after the other, each with one robust sample.
AllStored(order) ==
  LET stored[k \in 0..Len(order)] ==
        IF k = 0 THEN archive
        ELSE Stored(stored[k - 1], order[k].genome, order[k].fitness, <<order[k].fitness>>)
  IN  stored[Len(order)]

\* UnsavedTrainingResult stores the chosen candidates (all of them if none is
\* named), in the order of a hash table, prunes once, and goes to Idle or, on
\* request, straight into the next session.
TrainingResultSave ==
  /\ at = "unsaved"
  /\ \E chosen \in SUBSET candidates : \E order \in SetToSeqs(chosen) :
       /\ chosen = {} => candidates = {}
       /\ Prune(AllStored(order))
  /\ candidates' = {}
  /\ at' \in {"idle"} \cup {s \in {"restart"} : sessions < MaxSessions}
  /\ UNCHANGED <<todo, batch, poolVars, populationVars, candidateVars, bestVars,
                 archiveBest, sessionVars>>

TrainingResultDiscard ==
  /\ at = "unsaved"
  /\ candidates' = {}
  /\ at' = "idle"
  /\ UNCHANGED <<todo, batch, poolVars, populationVars, candidateVars, bestVars,
                 repoVars, sessionVars>>
-----------------------------------------------------------------------------
(* The evaluation pool: an evaluation finishes, in the background or as the *)
(* preview.                                                                *)

Finish(t) ==
  /\ up /\ generation <= Horizon
  /\ pending' = pending \ {t}
  /\ \/ background' = Append(background, t) /\ UNCHANGED preview
     \/ preview' = Append(preview, t) /\ UNCHANGED background
  /\ UNCHANGED <<up, loopVars, populationVars, candidateVars, bestVars, repoVars,
                 candidates, sessionVars>>
-----------------------------------------------------------------------------
(* A tick: collect the results and process them one by one.                *)

\* drainResults begins: completedDrain.
TickDrain ==
  /\ at = "loop"
  /\ at' = "drain"
  /\ batch' = background /\ background' = <<>>
  /\ UNCHANGED <<todo, up, pending, preview, populationVars, candidateVars, bestVars,
                 repoVars, candidates, sessionVars>>

\* The background results are done: visibleTick, unless training is complete.
TickVisible ==
  /\ at = "drain" /\ todo = "none" /\ batch = <<>> /\ ~trainingComplete
  /\ at' = "visible"
  /\ batch' = preview /\ preview' = <<>>
  /\ UNCHANGED <<todo, up, pending, background, populationVars, candidateVars, bestVars,
                 repoVars, candidates, sessionVars>>

TickEnd ==
  /\ at = "visible" /\ todo = "none" /\ batch = <<>> /\ ~trainingComplete
  /\ at' = "loop"
  /\ UNCHANGED <<todo, batch, poolVars, populationVars, candidateVars, bestVars,
                 repoVars, candidates, sessionVars>>

\* broadcastTrainingResult: the population is offered to the user, whether or not
\* the UI acknowledges it.
TickComplete ==
  /\ at \in {"drain", "visible"} /\ todo = "none" /\ batch = <<>> /\ trainingComplete
  /\ candidates' = {[index |-> i, genome |-> population[i].genome, fitness |-> fitnessScores[i]] :
                      i \in {j \in Indices : HasGenome(j)}}
  /\ Leave
  /\ at' = "unsaved"

CandidateKept(fitness) == ~pendingBest.robustness

\* replacePendingCandidate
CandidateReplaced(fitness) == ~pendingBest.robustness \/ fitness > pendingBest.firstSample

EvaluatedSurvivors(evals) == evals >= PopulationSize

\* The first test of maybeCompleteGeneration.
Evaluated(evals) == evals >= Len(population)

\* processResult, a GenerationEval, up to maybeCompleteGeneration.
ProcessGenerationResult(fitness) ==
  LET i == Head(batch).index IN
  /\ at \in {"drain", "visible"} /\ todo = "none" /\ batch # <<>>
  /\ Head(batch).kind = "generation" /\ i \in Indices
  /\ batch' = Tail(batch)
  /\ fitnessScores' = [fitnessScores EXCEPT ![i] = fitness]
  /\ scored' = scored \cup {i}
  /\ currentEval' = currentEval + 1
  /\ todo' = IF Evaluated(currentEval') THEN "complete" ELSE "none"
  /\ \/ /\ fitness > bestFitnessAllTime /\ HasGenome(i) /\ CandidateReplaced(fitness)
        /\ pendingBest' = [robustness |-> TRUE, index |-> i, firstSample |-> fitness]
        /\ UNCHANGED bestVars
     \/ /\ fitness > bestFitnessAllTime /\ ~HasGenome(i)
        /\ bestFitnessAllTime' = fitness /\ bestGenomeId' = NoGenome
        /\ pendingBest' = NoCandidate
     \/ /\ \/ fitness <= bestFitnessAllTime
           \/ HasGenome(i) /\ ~CandidateReplaced(fitness)
        /\ UNCHANGED <<pendingBest, bestVars>>
  /\ UNCHANGED <<at, poolVars, population, generation, pruneBeforeBreeding, nextGenome,
                 robustnessPass, repoVars, candidates, sessionVars>>

\* A sample of the pass under way; any other is ignored.
SampleAccepted(r) ==
  /\ robustnessPass.active /\ r.generation = robustnessPass.generation
  /\ r.index = robustnessPass.index /\ Len(robustnessPass.samples) < RobustCount

\* processResult, a RobustnessEval: handleRobustnessSampleResult.
ProcessRobustnessSample(fitness) ==
  /\ at \in {"drain", "visible"} /\ todo = "none" /\ batch # <<>>
  /\ Head(batch).kind = "robustness"
  /\ batch' = Tail(batch)
  /\ robustnessPass' = [robustnessPass EXCEPT !.samples =
       IF SampleAccepted(Head(batch)) THEN Append(@, fitness) ELSE @]
  /\ todo' = IF Evaluated(currentEval) THEN "complete" ELSE "none"
  /\ UNCHANGED <<at, poolVars, populationVars, pendingBest, bestVars, repoVars,
                 candidates, sessionVars>>
-----------------------------------------------------------------------------
(* maybeCompleteGeneration, entered when every individual has been         *)
(* evaluated.                                                              *)

PromotedAnyway(fitness) == TRUE

\* A candidate becomes the best of the session if there is none yet, or if it is
\* better.  (By more than 1e-12, the tolerance of a tie: two values of Fitness are
\* further apart.)
Promoted(fitness) == bestGenomeId = NoGenome \/ fitness > bestFitnessAllTime

Promote(i, firstSample, samples, fitness) ==
  /\ StoreManagedGenome(population[i].genome, firstSample, samples)
  /\ MarkAsBest(population[i].genome)
  /\ bestGenomeId' = population[i].genome
  /\ bestFitnessAllTime' = fitness

\* finalizePendingBestWithoutRobustnessPass
FinalizePendingBest ==
  LET first == pendingBest.firstSample IN
  /\ todo = "complete" /\ RobustCount = 0
  /\ IF pendingBest.robustness /\ Promoted(first)
     THEN Promote(pendingBest.index, first, <<first>>, first)
     ELSE UNCHANGED <<repoVars, bestVars>>
  /\ pendingBest' = IF pendingBest.robustness THEN NoCandidate ELSE pendingBest
  /\ todo' = "finish"
  /\ UNCHANGED <<at, batch, poolVars, populationVars, robustnessPass, candidates,
                 sessionVars>>

\* startRobustnessPass: the candidate is evaluated RobustCount times more.
StartRobustnessPass ==
  LET i == pendingBest.index IN
  /\ todo = "complete" /\ RobustCount > 0
  /\ ~robustnessPass.active /\ pendingBest.robustness
  /\ robustnessPass' = [active |-> TRUE, generation |-> generation, index |-> i,
                         samples |-> <<>>]
  /\ pendingBest' = [pendingBest EXCEPT !.robustness = FALSE]
  /\ Submit({[kind |-> "robustness", index |-> i, sample |-> n,
              genome |-> population[i].genome, generation |-> generation] :
               n \in 1..RobustCount})
  /\ todo' = "none"
  /\ UNCHANGED <<at, batch, up, background, preview, populationVars, bestVars,
                 repoVars, candidates, sessionVars>>

FirstSampleSuffices == Len(robustnessPass.samples) > 0

OneMoreSample == Len(robustnessPass.samples) > RobustCount

\* robustnessPass_.pendingSamples <= 0
SamplesComplete == Len(robustnessPass.samples) >= RobustCount

\* The pass still waits for samples.
AwaitSamples ==
  /\ todo = "complete" /\ robustnessPass.active /\ ~SamplesComplete
  /\ todo' = "none"
  /\ UNCHANGED <<at, batch, poolVars, populationVars, candidateVars, bestVars,
                 repoVars, candidates, sessionVars>>

\* finalizeRobustnessPass
FinalizeRobustnessPass ==
  LET samples == Window(robustnessPass.samples)
      robustFitness == Median(samples)
  IN
  /\ todo = "complete" /\ robustnessPass.active /\ SamplesComplete
  /\ IF Promoted(robustFitness)
     THEN Promote(robustnessPass.index, pendingBest.firstSample, samples, robustFitness)
     ELSE UNCHANGED <<repoVars, bestVars>>
  /\ robustnessPass' = NoPass /\ pendingBest' = NoCandidate
  /\ todo' = "finish"
  /\ UNCHANGED <<at, batch, poolVars, populationVars, candidates, sessionVars>>

\* There is no candidate to validate.
NothingToValidate ==
  /\ todo = "complete" /\ RobustCount > 0
  /\ ~robustnessPass.active /\ ~pendingBest.robustness
  /\ todo' = "finish"
  /\ UNCHANGED <<at, batch, poolVars, populationVars, candidateVars, bestVars,
                 repoVars, candidates, sessionVars>>

LastGeneration == MaxGenerations > 0 /\ generation + 1 >= MaxGenerations

CompleteTraining ==
  /\ todo = "finish" /\ LastGeneration
  /\ trainingComplete' = TRUE
  /\ generation' = MaxGenerations
  /\ todo' = "none"
  /\ UNCHANGED <<at, batch, poolVars, population, fitnessScores, scored, currentEval,
                 pruneBeforeBreeding, nextGenome, candidateVars, bestVars, repoVars,
                 candidates, config, paused, sessions, commands>>
-----------------------------------------------------------------------------
(* advanceGeneration and queueGenerationTasks.                             *)

IsOffspring(i) == population[i].origin \in {"OffspringClone", "OffspringMutated"}

OutranksReversed(i, j) ==
  \/ fitnessScores[i] < fitnessScores[j]
  \/ fitnessScores[i] = fitnessScores[j] /\ i < j

\* The order of pruning: by score, offspring before parents, then by position.
Outranks(i, j) ==
  \/ fitnessScores[i] > fitnessScores[j]
  \/ /\ fitnessScores[i] = fitnessScores[j]
     /\ \/ IsOffspring(i) /\ ~IsOffspring(j)
        \/ IsOffspring(i) = IsOffspring(j) /\ i < j

\* Individuals from the best to the worst: each stands behind those that outrank it.
InRankOrder(S) ==
  [k \in 1..Cardinality(S) |->
     CHOOSE i \in S : Cardinality({j \in S : Outranks(j, i)}) = k - 1]

Ranked == InRankOrder(Indices)

\* selectDiversityElitePositions: genomes near the best score, chosen by their
\* distance to the ones already chosen; the distances are left open.
DiversityPicks ==
  LET top == Head(Ranked)
      near == {i \in Indices \ {top} :
                 HasGenome(i) /\ fitnessScores[i] + config.diversityEliteFitnessEpsilon >= fitnessScores[top]}
      count == IF HasGenome(top) THEN Min({config.diversityEliteCount, PopulationSize - 1, Cardinality(near)})
               ELSE 0
  IN  {picks \in [1..count -> near] : IsInjective(picks)}

\* The top individual, the diversity picks and then the best of the others.
Selected(picks) ==
  LET top == Head(Ranked)
      others == InRankOrder(Indices \ ({top} \cup Range(picks)))
  IN  SubSeq(<<top>> \o picks \o others, 1, PopulationSize)

Survivors ==
  IF pruneBeforeBreeding
  THEN {[k \in 1..PopulationSize |->
           [population[Selected(picks)[k]] EXCEPT !.origin = "EliteCarryover"]] :
             picks \in DiversityPicks}
  ELSE {population}

\* A child is a clone, or, if its parent has a genome, a mutant.  Tournament
\* selection draws with replacement and may return any individual; how likely a
\* mutation is (EvolutionMutationControlsSet, the plateau controls) is left open.
Children(survivors) ==
  LET Births == {b \in [parent : 1..PopulationSize, mutant : BOOLEAN] :
                   b.mutant => survivors[b.parent].genome # NoGenome}
  IN  {[k \in 1..PopulationSize |->
          IF births[k].mutant
          THEN Individual(nextGenome + k - 1, "OffspringMutated")
          ELSE Individual(survivors[births[k].parent].genome, "OffspringClone")] :
         births \in [1..PopulationSize -> Births]}

AdvanceGeneration ==
  /\ todo = "finish" /\ ~LastGeneration
  /\ IF generation % SaveInterval = 0
     THEN Checkpoint /\ bestGenomeId' = TrackedBest
     ELSE UNCHANGED <<repoVars, bestGenomeId>>
  /\ \E survivors \in Survivors : \E children \in Children(survivors) :
       population' = survivors \o children
  /\ generation' = generation + 1
  /\ currentEval' = 0 /\ scored' = {}
  /\ fitnessScores' = [i \in DOMAIN population' |-> 0]
  /\ pruneBeforeBreeding' = TRUE
  /\ nextGenome' = nextGenome + PopulationSize
  /\ pendingBest' = NoCandidate
  /\ Submit(GenerationRequests(population', generation'))
  /\ todo' = "none"
  /\ UNCHANGED <<at, batch, up, background, preview, robustnessPass,
                 bestFitnessAllTime, candidates, sessionVars>>
-----------------------------------------------------------------------------
Commands ==
  \/ \E c \in Configs : EvolutionStart(c)
  \/ EvolutionStop \/ EvolutionPauseSet \/ Exit \/ ExitUnsaved
  \/ TrainingResultSave \/ TrainingResultDiscard
  \/ \E g \in 1..nextGenome, entry \in Imports : GenomeSet(g, entry)
  \/ \E g \in DOMAIN archive : GenomeDelete(g)

Tick ==
  \/ QueueFirstGeneration \/ TickDrain \/ TickVisible \/ TickEnd \/ TickComplete
  \/ \E f \in Fitness : ProcessGenerationResult(f) \/ ProcessRobustnessSample(f)
  \/ FinalizePendingBest \/ StartRobustnessPass \/ AwaitSamples
  \/ FinalizeRobustnessPass \/ NothingToValidate \/ CompleteTraining
  \/ AdvanceGeneration

Next == Commands \/ Tick \/ \E t \in pending : Finish(t)

Spec == Init /\ [][Next]_vars

\* The main loop keeps ticking, and the pool finishes what it has while it is not
\* paused (EvaluationExecutor's BatchCompletes).
Fairness == WF_vars(Tick) /\ WF_vars(~paused /\ \E t \in pending : Finish(t))

FairSpec == Spec /\ Fairness
-----------------------------------------------------------------------------
(* Properties.                                                             *)

Requests ==
  [kind : {"generation", "robustness"}, index : Nat, sample : Nat, genome : Nat,
   generation : Nat]

\* Submitted evaluations whose result has not been processed.
Outstanding == pending \cup Range(background) \cup Range(preview) \cup Range(batch)
OutstandingOf(kind) == {t \in Outstanding : t.kind = kind}

\* The fitness an entry of the repository may have.
StoredFitness ==
  Fitness \cup {0} \cup {entry.fitness : entry \in Imports}
    \cup UNION {{old[g].fitness : g \in DOMAIN old} : old \in OldArchives}

TypeOK ==
  /\ at \in Training \cup {"idle", "unsaved", "restart", "shutdown"}
  /\ todo \in {"none", "complete", "finish"}
  /\ up = (at \in Training) /\ paused \in BOOLEAN /\ trainingComplete \in BOOLEAN
  /\ Outstanding \subseteq Requests
  /\ \A i \in Indices : population[i] \in [genome : Nat, origin : Origins]
  /\ DOMAIN fitnessScores = Indices /\ scored \subseteq Indices
  /\ Len(population) \in {0, PopulationSize, 2 * PopulationSize}
  /\ Range(fitnessScores) \subseteq Fitness \cup {0}
  /\ generation \in 0..Max({MaxGenerations, Horizon + 1}) /\ currentEval \in 0..Len(population)
  /\ pendingBest.index \in Indices \cup {0} /\ robustnessPass.index \in Indices \cup {0}
  /\ bestGenomeId \in Nat /\ archiveBest \in Nat /\ bestFitnessAllTime \in Int
  /\ pruneBeforeBreeding \in BOOLEAN /\ sessions \in 0..MaxSessions /\ commands \in 0..MaxCommands
  /\ \A g \in DOMAIN archive : g < nextGenome /\ archive[g].fitness \in StoredFitness

\* A generation result carries only an index: it is applied to the individual that
\* was evaluated, never to one that a prune or another session has put in its place.
ResultsMatchPopulation ==
  \A t \in Outstanding :
    /\ t.index \in Indices /\ t.genome = population[t.index].genome
    /\ t.generation = generation

\* currentEval, by which the generation is declared complete, counts each
\* individual once: every individual has its score or is still to be scored, never
\* both, and the validation of the best candidate waits for exactly its samples.
EachScoredOnce ==
  at \in Training \ {"enter"} =>
    LET expected == {t.index : t \in OutstandingOf("generation")} IN
    /\ currentEval = Cardinality(scored)
    /\ scored \cap expected = {} /\ scored \cup expected = Indices
    /\ Cardinality(Outstanding) =
         Cardinality(pending) + Len(background) + Len(preview) + Len(batch)
    /\ Cardinality(OutstandingOf("robustness")) =
         IF robustnessPass.active THEN RobustCount - Len(robustnessPass.samples) ELSE 0
    /\ todo = "finish" => Outstanding = {}

\* The training loop is a caller EvaluationPool allows: it submits a generation or
\* a validation only when it has collected every earlier result, even when the
\* submission happens in the middle of a batch of results.
Pool == INSTANCE EvaluationPool WITH Tasks <- Requests

CallerKeepsContract == Pool!PoolSpec

AllGenomic == config.genomic = 1..PopulationSize

\* The best score of a session never falls, although a candidate's validated score
\* may be below the first score that made it a candidate.  This needs a repository
\* that keeps the session's best genome: storeBestGenome forgets a best that has
\* been pruned or deleted, and the next candidate is then promoted whatever its
\* score.
BestNeverFalls ==
  [][AllGenomic /\ ArchiveMax = 0 /\ commands = 0 /\ ({at, at'} \subseteq Training) =>
       bestFitnessAllTime' >= bestFitnessAllTime]_vars

\* When a generation has been completed without further validation, no score of it
\* is above the best score of the session: a record is not lost, in whatever order
\* the results arrive.  It can be in a mixed population, where a brain without a
\* genome that sets a record resets the pending candidate, even a better one.
RecordsCount ==
  todo = "finish" /\ RobustCount = 0 /\ AllGenomic =>
    \A i \in Indices : fitnessScores[i] <= bestFitnessAllTime

\* Pruning keeps the individual with the best score.
BestSurvives ==
  [][todo = "finish" /\ ~LastGeneration =>
       \E i \in Indices, k \in 1..PopulationSize :
         /\ \A j \in Indices : fitnessScores[j] <= fitnessScores[i]
         /\ population'[k].genome = population[i].genome]_vars

\* The archive outgrows its limit only by what a client has imported, or by what was
\* there when the limit changed, and only until the next store: the managed genomes
\* that a prune has seen are within the limit, so every path on which training or a
\* save stores a genome prunes, and the protection of the best does not make the
\* pruning fall short.
ArchiveBounded ==
  ArchiveMax > 0 => Cardinality(Managed(archive) \ unpruned) <= ArchiveMax

\* The genome that a session promotes is the repository's best from then on.
PromotionMarks ==
  [][bestGenomeId' # bestGenomeId /\ bestGenomeId' # NoGenome =>
       bestGenomeId' = archiveBest']_vars

\* Training ends, unless it is paused for good.
TrainingEnds == <>[]~paused => (at \in Training ~> at \notin Training)
=============================================================================
