# TLA+ models of dirtsim

dirtsim is a cell-based physics sandbox in which organisms evolve. A server
process simulates worlds and trains genomes, a UI process shows them, an
operating-system manager and an audio process support both, and all of them talk
over WebSockets. This directory models the parts of the server and of the common
network layer whose correctness depends on the order in which threads, results and
messages meet, checks them with TLC on small instances, and proves the safety
properties that those checks pass with TLAPS for all instances.

Paths below are relative to `src/apps/src/`.

## 1. Inventory

| Component | State | Operations | Hard behaviour | What makes it correct |
|---|---|---|---|---|
| Evaluation pool `server/evolution/EvaluationExecutor.cpp` | task queue, result queue, preview slot and its results, atomic counters, two mutex/condition-variable pairs, worker threads | start, stop, pauseSet, allowedConcurrencySet, two submissions, two collections, scenarioConfigOverrideSet | worker threads against the caller; wake-ups without the mutex; a raw pointer to a runner on a worker's stack | each evaluation delivered exactly once; no stale pointer; concurrency limit; every batch ends; stop returns |
| Training loop `server/states/Evolution.cpp`, `UnsavedTrainingResult.cpp` | population, scores, counters, candidate for the best, validation pass, best of the session | session commands; tick: collect, process, validate, prune, breed, submit | results in any order through two channels, the next generation submitted in the middle of a batch, commands between ticks | each individual scored once; results applied to the individual they were measured on; records not lost; best not pruned; training ends |
| Genome repository `core/organisms/evolution/GenomeRepository.cpp` | genomes, metadata, two hash indices, best id, SQLite copy | store, storeOrUpdateByHash, prune, remove, markAsBest, load | failing writes, crash between two writes, indices out of step | archive bounded, best present, indices and database agree |
| WebSocket requests `core/network/WebSocketService.cpp` | map of pending requests, a mutex and response per request, connection | sendBinaryAndReceive, sendJsonAndReceive, response routing | timeouts racing late answers, reconnections, two levels of mutex | a call gets its own answer or an error, and returns |
| WebSocket clients (same file, and `server/StateMachine.cpp`) | connected clients, ids, protocols, the UI client; render and event subscriptions | onOpen, hello, command, onClosed, access changes; subscribe, broadcast | library callback threads; lookups and insertions in two critical sections; subscription vectors without a mutex | nothing of a closed client remains; one UI client; subscribers exist; a broadcast reaches everyone |
| Event queue `core/SynchronizedQueue.h` | a deque under a mutex | push, pop, shutdown | network threads against the main thread | order kept, nothing lost |
| Server state machine `server/StateMachine.cpp`, `server/states/` | current state | one handler for each event and state | events that arrive in a state that was just left | each command answered once; legal transitions |
| NES runtime `core/scenarios/nes/SmolnesRuntimeBackend.c` | emulator thread, frame targets, savestates, pacing | start, run frames, save, load, pace, stop | requests with timeouts against the emulator thread, one condition variable for both | exactly the requested frames run; a load restores; every call returns |
| SMB search `server/search/`, `server/states/SearchActive.cpp` | search tree, stack, transposition table, best leaf, plan | expand, prune, backtrack, complete; pause, stop | pruning by losses closed on another path; savestates released while others are needed; commands between ticks | every closed loss has a proof; the stack can be restored; the plan is that of the best live node; the search ends |
| UI state machine `ui/state-machine/` | mirror of the server's state | commands, broadcasts | reconnections, stale broadcasts | the mirror follows the server |
| OS manager, Wi-Fi scanner, peer discovery `os-manager/` | worker threads, requests | connect, scan, probe | cancellation, timeouts | requests end |
| Audio engine `audio/` | command ring, voices | note on/off | lock-free ring at its limit | no note hangs |
| Physics, organisms, scenarios, rendering, CLI | world grids | tick, draw | (sequential) | numerical |

They interact as follows. Network threads decode a command, wrap it with a callback
that answers it, and push it to the **event queue**. The server's main thread pops
it and hands it to the current state of the **state machine**. In the state
`Evolution` that thread also runs the **training loop** once per iteration: it
collects results from the **evaluation pool** and writes genomes to the
**repository**. To tell the UI that training is over it makes a blocking **WebSocket
request**, as every client of the system does; progress and frames go out as
broadcasts to the **WebSocket clients** that have subscribed. In the state
`SearchActive` each iteration ticks the **search**, which loads a savestate into the
**NES runtime** and runs one frame.

`PROJECT.json` lists under "components" what each part's models cover, and under
"hazards" the places of the code that are hard to test, with the properties that
watch them.

## 2. Modules

### EvaluationPool and EvaluationExecutor

`EvaluationPool` is what the pool promises: submitted evaluations finish at most
once, through one of two channels, in the order of finishing per channel; `stop`
forgets everything; only a *quiet* caller, one that has collected all its results,
submits.

`EvaluationExecutor` is the implementation. Its variables have the names of the
members of `EvaluationExecutor::Impl` (`taskQueue`, `activeEvaluations`,
`allowedConcurrency`, `resultQueue`, `visible.activeHandle`, ...); `pc[w]` is where
a worker is in the lambda that `start` runs, `mainPc` where the caller is inside a
method that takes several critical sections. An action is one critical section or
one access to an atomic. The two condition variables are modelled with their wait
sets: testing the predicate (`WorkerPredicate`, `WorkerCompare`, `WorkerGate`) and
going to sleep (`WorkerBlock`, `WorkerPark`) are steps of their own with the mutex held
in between, so a notifier that takes the mutex cannot fall between them, and one that
does not can. `stop` and the end of an evaluation do not take `taskMutex`; `pauseSet`
takes `pauseMutex`. `allowedConcurrencySet` does not take `taskMutex` either: the limit
is read in `WorkerPredicate` (into `limitRead`), compared in `WorkerCompare`, and the
evaluation counted in `WorkerTake`, and the caller may lower it after each of these.
The history variable `overrun` counts the starts above the limit since it was last
stored. An evaluation is an identity and the version of the scenario override
it carries; what a simulation computes is left out.

### EvolutionTraining

The training loop as the main thread executes it. `at` is the server state, or the
place inside a tick; `todo` is what is left to do of one result. A tick is split
where pool threads can act in between: collect the background results (`TickDrain`),
process them one by one, collect the previewed ones (`TickVisible`), process them,
end. `ProcessGenerationResult`, `ProcessRobustnessSample`, then
`FinalizePendingBest`, `StartRobustnessPass`, `AwaitSamples`,
`FinalizeRobustnessPass`, `NothingToValidate` and at last `CompleteTraining` or
`AdvanceGeneration` are `processResult` and the functions it calls. Pool threads
appear as `Finish`. Commands (`EvolutionStart`, `EvolutionStop`,
`EvolutionPauseSet`, `GenomeSet`, `GenomeDelete`, `Exit`, `TrainingResultSave`,
`TrainingResultDiscard`) are handled between ticks.

Data: a genome is a number, a mutant a new number. The archive maps a genome to its
fitness, its last robust samples and whether it is *managed*: of the bucket in
question and with a `trainingSessionId`, which is what `pruneManagedByFitness` counts
and removes. `GenomeSet` stores whatever metadata the client sends (`Imports`), managed
or not, and does not prune. The history variable `unpruned` holds the genomes that no
prune has seen since they were stored or since the limit changed. A fitness is an even integer, so that the
median of two is an integer. Tournament selection, mutation strength and genome
distances are nondeterministic choices; the sort, the tie-breaks, the pruning rule
and the median are computed. `config` is the session's `EvolutionConfig`; each
`EvolutionStart` brings one, and the restart after a save keeps the one it had.

The two models meet in `EvaluationPool`: `EvaluationExecutor` implements it for a
quiet caller (`ImplementsPool`, proved), and `EvolutionTraining` is a quiet caller
(`CallerKeepsContract`: its actions are steps of `PoolSpec`; proved as well). The
caller's contract in `EvaluationExecutor` (`Submit` only when `outstanding = {}`) is
therefore justified and not assumed.

### WebSocketRequests

Requester threads block in `sendBinaryAndReceive` or `sendJsonAndReceive`; receiver
threads are the library's callbacks and route a response by its correlation id. Both
`pendingMutex_` and the mutex of each `PendingRequest` are modelled, and a step ends
where a thread asks for its next mutex. The peer is a service of the same code: it
answers a request once, late, out of order or never. The connection closes and
reopens at any time; requests and responses on it are lost, pending requests stay,
as in `disconnect`. The two encodings are kept because a response is encoded in the
protocol the peer last saw on the connection, which two concurrent requests of
different encodings can change under each other.

### GenomeRepository

`genomes` is `genomes_` with `metadata_` (they always have the same ids), `hashToId`
and `idToHash` are the two indices, `rows` and `bestRow` the SQLite tables. Every
method holds the repository's mutex, changes the memory, and then executes its SQL
statements one by one; `execDb` logs a statement that fails and goes on. So an
operation is one step that puts its statements into `writes`, `WriteDone` or
`WriteFails` takes them off one at a time, and no operation begins before `writes` is
empty. `Restart` is possible at any moment: what is still in `writes` is lost,
`loadFromDb` rebuilds the memory from the rows, read in any order, and
`StateMachine`'s constructor prunes. A content is what `computeContentHash` hashes;
collisions of the 64-bit hash are left out. The merged metadata of
`storeOrUpdateByHash` are any entry with that content; how a merge computes the robust
score is in `EvolutionTraining`.

### WebSocketClients

The clients of a service that listens, and the subscriptions the server keeps for
them. `connectedClients`, `clientProtocols`, `clientHellos`, `connectionIds`,
`connectionRegistry` and `nextConnectionId` are the maps of `WebSocketService`; an
action is one critical section of `clientsMutex_`. The library's threads run
`OnOpen`, `OnClientHello`, `OnClientMessage`, `WebSocketAccessSet` and `OnClosed`; a
command that needs a new connection id is handled in two steps (`OnClientMessage`
draws the id, `GetConnectionId` registers it and queues the command), and so is a
disconnect (`OnClosed` erases the client from the service, then
`OnClientDisconnect` and `OnClientDisconnectEvents` remove its subscriptions). The
main thread takes commands from `eventQueue`, checks the client (`HandleEvent`), and
changes `subscribedClients` or `eventSubscribers` in a step of its own; broadcasts
visit one element per step and keep the end they began with, as the range-based
loops do; a send to a client that closes finds it closed and erases its id, or throws
and leaves it. `main.op` is what the main thread is doing.

The library is assumed to run the callbacks of one socket one after the other; a
client that reconnects is a new socket. The two vectors have no mutex. A simultaneous
access to them is undefined behaviour, which a model cannot give a meaning to; what
the model shows are the orders of whole operations. In two of them the code really
loses something, and two properties except exactly these, by a variable that records
them: `overtaken` (a disconnect between the check and the effect of the client's own
command: the subscription then stays for good, and each later broadcast looks the
absent client up in vain) and `main.disturbed` (a removal while a loop runs moves the
elements under it, and a client may be passed over once).

### SmolnesRuntime

The emulator's thread and the driver, over `runtimeMutex` and `runtimeCond`.
`runtime` holds the members of `SmolnesRuntimeHandle` that the mutex guards;
`emulator` is where its thread is (`begin`, `running`, `present`, `parked`, ...),
`caller` what `NesSmolnesScenarioDriver` is doing, and `asleep` who waits on the
condition variable. An action is one critical section, from taking the mutex to
releasing it or waiting; that a step has failed and that the driver then stops the
runtime are two (`RunFramesFail`, `StopFailed`). The machine is abstracted to the buttons its frames ran
with: that tells every two histories apart that a caller could. Starting may fail, the
ROM may not load, a wait may time out or end for no reason.

`disturbed` records that frames have run which no step asked for, and is the
exception in `StepExact` and `LoadRestores`. They run in real-time pacing, by design,
and when a savestate is loaded before the first frame: applying it clears
`waitingForInitialFrameRequest` (`SmolnesRuntimeBackend.c`, 740-778), so that the thread
does not wait and runs one frame at once. `SmbSearchHarness.cpp` (232-250) works around
it with a warm-up step, and `SmbDfsSearch::startFromFixture`, which does not, is saved by
the reload of the parent before the first expansion. A load at a frame boundary ends
the exception, and the model lets it.

### SmbDfsSearch

`SmbDfsSearch` with the server state `SearchActive` that owns it. A node carries what
the search stores for it: parent, action, counters of the evaluator, transposition
key, outcome, whether it still holds its savestate. `Expand` is one tick that tries an
action: what the emulator shows is an arbitrary `seen`, restricted only by what the
code derives from the same frame (`Possible`); the evaluator's counters (`Summary`),
the order of the checks (`Event`), the lookup and the publication in the table and the
best leaf are computed. `Backtrack` pops a node whose actions are used up. The action
order is an arbitrary member of `Orders`. Since the emulator is arbitrary here, that an
expansion really starts from its parent's frame is `LoadRestores` and `StepExact` of
SmolnesRuntime.

The transposition table is a heuristic: its key holds Mario's position, speed and a
few bytes of memory, not the whole machine, so no model can show that a pruned node is
lost. `ClosedLossProved` says what the code does guarantee: each closed loss is
justified by the kind of pruning, by all its children, or by an earlier closed loss
with the same key that was as far, as early and as little stalled.

### Mutated definitions

Some definitions are used by no action (`NotifyAllForgotten`, `IdNotAdvanced`,
`AfterSendReturns`, ...). Each stands directly before the definition it would replace
and is a mistake that one of the properties must reveal; PROJECT.json pairs them
under "mutants".

## 3. Runs

`tlc -workers 2 -config <cfg> <module>`.

| Run | Module, configuration | Distinct states | Result |
|---|---|---|---|
| executor_safety | MCEvaluationExecutor, Executor_safety.cfg | 2.8 million | holds |
| executor_liveness | MCEvaluationExecutor, Executor_liveness.cfg | 75 thousand | holds |
| executor_stop | MCEvaluationExecutor, Executor_stop.cfg | | `StopReturns` violated |
| requests | WebSocketRequests, Requests.cfg | 309 thousand | holds |
| requests_deadlock | WebSocketRequests, Requests_deadlock.cfg | | `RequestReturns` violated |
| training_safety | MCEvolutionTraining, Training_safety.cfg | 629 thousand | holds |
| training_archive | MCEvolutionTraining, Training_archive.cfg | 609 thousand | holds |
| training_mark | MCEvolutionTraining, Training_mark.cfg | | `PromotionMarks` violated |
| repository | MCGenomeRepository, Repository.cfg | 694 thousand | holds |
| clients | MCWebSocketClients, Clients.cfg | 1.1 million | holds |
| smolnes | SmolnesRuntime, Smolnes.cfg | 659 thousand | holds |
| search | MCSmbDfsSearch, Search.cfg | 184 thousand | holds |

**executor_safety.** Two workers, a batch of three evaluations of two passes, one
override: both workers busy, one task queued, an override in every phase of an
evaluation and between its passes. `ExactlyOnce`: an outstanding evaluation is in
exactly one place. `AssertsHold`: the assertions of the two submissions never fire,
although a worker frees the preview slot on its own thread. `NoDanglingRunner`:
`scenarioConfigOverrideSet` reaches only runners that exist. `FreshConfig` and
`ConfigNeverReverts`: an override reaches all queued work and is never undone by a
later pass. `ConcurrencyRespected`: no start exceeds the limit its worker read, and a
limit that is lowered is exceeded by at most one start before it takes hold.
`ImplementsPool`: the refinement.

That one start happens. With one evaluation running and a limit of 2, a worker finds its
predicate true, the caller lowers the limit to 1, and the worker counts itself all the
same: `activeEvaluationsGet` then returns 2. It is at most one, since only the owner of
`taskMutex` can hold an old limit, and whoever takes the mutex next reads the new one.

**executor_liveness.** Two workers, two evaluations, a limit of one or two, pauses.
`BatchCompletes`: no wake-up a batch depends on is lost. `StopHeldBySleeperOnly`: a
`stop` that does not return is held by a worker asleep on `taskCv`, never by a pause
or a running simulation.

**executor_stop.** `stop` sets its flag and notifies without `taskMutex`. A worker
that has evaluated its predicate and not yet gone to sleep misses the notification;
nobody notifies again, and `stop`, called from the server's main thread, joins it
forever.

**requests.** Two requesters, two receivers, three calls: a call can time out, its
thread call again, and its late response arrive while the other thread waits.
`OwnAnswer`, `NoLeak`, `TimeoutMeansNoAnswer` are what callers rely on;
`InversionNeedsTimeout` and `ReturnsUnlessInverted` confine the one way of getting
stuck.

**requests_deadlock.** That way exists: after a timeout the requester asks for
`pendingMutex_` holding its request's mutex, while a receiver that holds
`pendingMutex_` asks for that mutex to deliver a late response. Both block for good,
and so does every later request.

**training_safety.** Three configurations: two genomes, three generations, diversity
elites and no validation; a genome and a brain without one, with two validation
samples per candidate; and training without end with an unlimited archive.
`ResultsMatchPopulation` and `EachScoredOnce`: results are applied to the individuals
they were measured on, each once, although pruning and breeding reuse the indices.
`RecordsCount`, `BestNeverFalls`, `BestSurvives`: the best is found in whatever order
results arrive, is not lowered by a noisy validation, and is not pruned.
`CallerKeepsContract`: see above.

`RecordsCount` and `BestNeverFalls` are stated under conditions, because the code
keeps them only then. In a mixed population a brain without a genome that sets a
record resets the pending candidate, even one that scored higher
(`Evolution.cpp:1192`). And when the session's best genome has left the archive,
pruned or deleted, `storeBestGenome` sets `bestGenomeId` to nothing
(`Evolution.cpp:2473`), and the next candidate is promoted whatever its validated
score (`Evolution.cpp:1513`).

**training_archive.** Two sessions whose limits on the archive may differ, on an archive
that earlier sessions have filled, with validation, saves, and one pause, import or
deletion. `ArchiveBounded`: the managed genomes that a prune has seen are within the
limit. So the archive outgrows it only by what a client has imported or what was there
when the limit changed, and only until training or a save stores again: each of those
stores prunes, and the protected best does not make it fall short. `TrainingEnds`: a
session that is not paused for good is left.

The plain cap that `EvolutionConfig.h:17` describes ("otherwise cap per
organismType+brainKind") does not hold, and the property does not claim it: `GenomeSet`
(`server/StateMachine.cpp:1674`) stores a managed genome in a full archive and nothing
prunes after it, and the prune at startup uses the limit of the user settings, not that
of the session.

**training_mark.** A promoted genome is stored, the archive pruned, and only then is
the genome marked. In an archive full of better genomes from another scenario the
new best is the first to be pruned, and `markAsBest` then marks nothing.

**repository.** Three ids, two contents, an archive of one genome, one failing
statement and any number of crashes. `IndexSound`: no hash leads to a genome that is
gone or has other content. `BestExists`: the best is a stored genome, also when the
row of the best in the database has disappeared and `best_id` has not. `WriteThrough`:
without failures the database is a copy of the memory between operations. A crash
between the two statements of a removal restarts with a genome that is no longer the
best, and memory and database agree about it. `OneEntryPerContent`: deduplication
works across crashes. It is stated for as long as nobody calls `store` (command
`GenomeSet`), because afterwards it fails: `store` gives a second id the hash of the
first (`GenomeRepository.cpp:441`), and when the second is removed the first is no
longer found by its content, so that `storeOrUpdateByHash` stores the content again
under a new id although its comment says "Reuses existing ID when content matches"
(`GenomeRepository.h:58`).

**clients.** A local client that speaks JSON and a remote one that speaks binary, four
messages. `OneUiClient`: a second UI client never gets in, also when a rejected one
sends another hello or the first is closing. `RegistryFollowsClients`: ids, hellos and
protocols go with their client, although an id is registered in a second critical
section and broadcasts erase ids on another thread. `SubscribersBacked` and
`BroadcastComplete`: see the exceptions above; in all other interleavings the
subscribers exist, are listed once, and receive what they asked for.

**smolnes.** Episodes of three frames with savestates, loads, pacing, timeouts, stops
and restarts. `StepExact`: a step that returns has run its frame, with its buttons,
from the machine that it found, also after a timeout, a load or a restart.
`LoadRestores`: a load that returns has put back machine, frame number and controller,
and the emulator waits. `SavestateAtBoundary`: the frame number of a savestate is that
of its machine. `CallsReturn`: every call returns; since no timeout is fair, none is
needed, so no wake-up is lost.

**search.** Trees of up to three expansions, with every reason to prune, a milestone, a
budget, failures, pauses and stops. `StackRestorable`, `ClosedLossProved`,
`PlanOfTheBest` (a pruned node never becomes the best leaf, however far it came, which
`SmbDfsSearch_test.cpp:1701` tests for one case), and `SearchEnds`: a stop is followed
even by a search that is paused afterwards.

### Bounds

`MaxOverrides`, `MaxCalls`, `MaxSessions` and `MaxCommands` cap how often the
environment acts; `Horizon` is the last generation whose evaluations finish (later
ones are submitted and stay). Generation 1 is the first with a doubled population, a
prune before breeding and carried-over elites, and every later one is like it; so
`Horizon = 1` reaches all of `advanceGeneration`, and with `maxGenerations = 3` the
submission of generation 2. Two fitness values make a record, a tie and a regress;
`SampleWindow = 2` with two samples makes the window drop samples when a genome is
validated twice. `SaveInterval = 2` gives generations with and without a checkpoint.
The limits on the archive are 1 and 2, and the archive holds two genomes at first: a
session may find one more than it allows, and one import makes a full archive one too
large. A pause counts against `MaxCommands`, its end does not, so training_archive with
`MaxCommands = 1` has both; the other runs of the loop have no commands.
Two workers are enough for a task to be queued while another is claimed, retired or
delivered, since a third worker would stand in one of the same places. The proofs
remove these and the following bounds for the safety properties.

For the repository, three ids make a duplicate next to a different content, and an
archive of one genome makes a prune of two; `MaxFailures = 1` makes every pair of
memory and database that one lost statement leads to.

For the clients, `MaxMessages = 4` lets both clients say hello and subscribe, or one of
them subscribe twice and change its stream, and everything else (closing, broadcasting,
rejecting) needs no message. `HelloInputs` and `CommandInputs` hold a UI and an
events-only client and one command of each effect.

For the runtime, `MaxEpisodeFrames = 3` is the driver's own limit on steps; three frames
allow a savestate, a step beyond it, a load and a step again. Frames that run in real
time are bounded by the same number. Two button states tell right from wrong input.

For the search, three nodes below the root reach a node with two children, a closed
loss in the table and a second node with its key; `StallFrameLimit = 2` and
`VelocityThreshold = 2` make both prunings happen at the second frame and not at the
first. `StopAfterBestFrontier = 2` is the last of three positions, so that a milestone
and its absence both occur. `Orders` has nodes with one action and with two.

Deadlock checking is on for the repository and the runtime and off elsewhere: the pool
may be off and idle, a search that is over stays over, and the bounded environment may
have used up its calls, messages, sessions or commands. That nobody waits for good is
what the liveness properties say instead.

### Fairness

- Pool: worker threads are scheduled (weak fairness of each worker); a simulation
  ends because `TrainingRunner` stops at `maxSimulationTime` (strong fairness of the
  last step, since a pause may interrupt it); the main loop polls both result
  channels on every iteration (strong fairness of the two collections, which are
  not available inside another method); a method of the caller that has begun goes
  on. Nothing is assumed of the commands.
- Requests: each requester continues when it can, which includes that its timeout
  expires; each receiver finishes what it routes. Nothing is assumed of the peer or
  of the connection.
- Training: the main loop keeps ticking; the pool finishes evaluations while it is
  not paused, which is `BatchCompletes`.
- Runtime: the emulator's thread is scheduled, and a call that the driver has begun
  goes on when it can. Nothing is assumed of timeouts or of spurious wake-ups.
- Search: the main loop keeps ticking. Nothing is assumed of the commands.

## 4. Proofs

All are for every value of the constants that satisfies the modules' assumptions: any
finite nonempty pool, any batches without repetitions, any number of passes and
overrides (`ExecutorAssumption`); any sets of requesters and receivers, any number of
calls (`RequestsAssumption`, `MessagesAssumption`); any finite set of ids, any contents,
archive limit and number of failures (`RepositoryAssumption`); any set of clients and
number of messages (`ClientsAssumption`); any set of controller states and episodes of
any length (`SmolnesAssumption`); any action orders without repetitions, positions,
keys and limits (`SearchAssumption`); any populations, generations, elites, validation
counts, archive limits, sessions, commands and horizon (`TrainingAssumption`), any
scores above the lowest (`LowestAssumption`).

`ArchiveAssumption` is about what the first session finds in the repository: finitely
many genomes, managed or not, with integer scores. Their number is not restricted, since
the prune at startup (`server/StateMachine.cpp:791`) uses the limit of the user
settings and a session may bring another. `ImportAssumption` says that the scores which
clients import are integers.

**EvaluationExecutorProofs.** `TypeCorrect`, `RunnerPointerSafe`, `LimitKept`,
`EvaluatedOnce`, `SubmitAssertsHold`, `ExecutorImplementsPool`, `QueueIsFresh`,
`ConfigsOnlyGrow`. The argument has four layers.

1. `ControlInv` ties each worker's place to what it holds: a job from taking a task
   to delivering it, the preview slot only while it holds a job, a published runner
   only while the runner lives. None of the properties is inductive alone: that a
   published pointer is withdrawn before its runner is gone needs that only the
   owner of the slot publishes.
2. `CountInv`: `activeEvaluations` equals the number of busy workers. It gives the
   type of the counter. `LockInv` (a part of `ControlInv`) says who owns `taskMutex`
   between predicate, comparison and increment. `LimitInv` adds what the owner knows:
   once it has compared, the count is below the limit it read, since only the owner
   increments; and once a start has exceeded a lowered limit, a worker that is choosing
   has read the limit in force. It makes `ConcurrencyRespected` inductive.
3. `OnceInv`: the places an evaluation can be in are disjoint and, except while a
   stop is under way, cover what is outstanding. With `ControlInv` it shows that the
   preview slot is free when nothing is outstanding (the assertions), and it is what
   the refinement needs: `pending` is `outstanding` without what was delivered, and a
   delivery is the step that moves one task.
4. `ConfigInv`: no configuration is ahead of the caller's override, every queued task
   has the newest one, and a worker that has run a pass would construct its next runner
   with a configuration at least as new (`HasRun(w) => runnerCfg[w] <=
   SnapshotConfig(w)`). The last part is what `ConfigNeverReverts` needs: the runner of
   the previewed evaluation is changed directly, and what carries the change over to
   its next pass is the snapshot in the handle, not the task the worker took.

**WebSocketRequestsProofs.** `RequestsTypeCorrect`, `CorrelationSafe`,
`MapDoesNotLeak`, `TimeoutIsFinal`, `OnlyLateAnswersInvert`, all from `RequestsInv`:
who holds which mutex (`LockInv`), ids are never reused and number their calls
(`IdInv`), every message on its way carries its call (`LabelInv`), and a request and
its response are in at most one place (`OnceInv`). `OnceInv` is the strengthening that
`InversionNeedsTimeout` needs: a requester with its response cannot meet a receiver
that carries another response to the same request.

**GenomeRepositoryProofs.** `RepositoryTypes`, `IndicesAreSound`, `TheBestExists`,
`DatabaseIsACopy`, `ContentsAreUnique`, all from `RepositoryInv`. `IndexSound` and
`BestExists` are kept by the operations themselves, and by a restart because the index
is rebuilt from the rows. `WriteThrough` speaks of quiet states only, and a crash comes
in the middle; `CopyInv` is its strengthening for every state: what no statement in
`writes` touches is equal already, each statement writes what the memory holds, and no
row is deleted while `best_id` still names it. The last part is why `removeNoLock` must
clear `best_id` before it deletes the row. `UniqueInv` adds that contents are unique in
the rows too, which a restart turns into uniqueness in memory.

**WebSocketClientsProofs.** `RegistryTypeCorrect`, `SingleUi`, `NothingLeftBehind`, from
`RegistryInv`. Two facts carry it. An id is drawn once and is then in a handler, in the
maps or gone (`IdsDrawnOnce`), so that the second critical section of `getConnectionId`
cannot give an id away twice. And a socket's callbacks take turns (`CallbacksInTurn`),
so that `OnClosed` never runs between the two sections for the same client: without
this assumption on the library a closed client would stay registered.

`SubscribersAreBacked` and `BroadcastsAreComplete` follow from `SubscriptionInv`, which
adds the two vectors and the main thread. Each client is listed once (`ListedOnce`); one
that is listed is connected, its disconnect is still to come, or its command was
overtaken (`AllBacked`), and the same is true of the client of a command that has been
checked and not carried out (`CommandBacked`). `LoopCovers` is the invariant of a
broadcast: a client it is for and has not reached is ahead of the loop, or gone for
good, since an id is never drawn again.

**SmolnesRuntimeProofs.** `RuntimeTypeCorrect`, `SavestatesAreOfBoundaries`, from
`RuntimeInv`: each savestate is whole, its frame number is the length of its machine
(`Whole`), and so is the runtime's own counter except between the end of a frame and
its presentation, where it is one behind (`InStep`). The exception is why a savestate is
captured after counting and never elsewhere, and why a start must find no emulator.

`StepsAreExact` and `LoadsAreExact` follow from `LockstepInv`. While nothing disturbs
the emulator there are three situations: no frame is asked for and none is run
(`Still`), a step's frame is to be run or to be counted (`StepUnderWay`), or it has been
counted and the caller has not returned (`StepDone`). Each fixes target, counter,
machine and the place of the emulator's thread, so a timeout, a load or a stop finds one
of them and leaves one of them. `ControllerFollows` adds that buttons which have been
latched are those last asked for, in the runtime and in every savestate.

**SmbDfsSearchProofs.** `StackAlwaysRestorable`, `ClosedLossesAreProved`,
`PlanIsOfTheBest`, from `SearchInv`: parents are older than their children (`Tree`), the
stack is an increasing sequence (`StackGrows`) of nodes that were found alive
(`StackAlive`). `ActionsTried` is the strengthening that closing a node by its children
needs: while it may still become a closed loss, each action tried so far led to a closed
loss or to the node above it on the stack. Nodes are only added and a closed loss stays
one, so each keeps its justification. The plan is a recursion along parents; that a
longer tree gives an older node the same plan is shown with the least node for which it
would not.

**IndexInduction.** `LeastIndex` and `IndicesUpTo`: induction over indices, stated about
a set of them and not about a predicate, so that the provers can apply it.

**EvolutionTrainingProofs.** `TrainingTypes`, `ResultsMeetTheirIndividuals`,
`ScoredOnce`, `RecordsAreCounted`, `ArchiveStaysBounded`, `TheBestSurvives`,
`BestDoesNotFall`, `LoopKeepsContract`, from `TrainingInv`.

1. `PoolInv`: an evaluation under way is in one place only, so that what is outstanding
   can be counted; collecting moves results, and processing one takes exactly one away.
2. `RequestInv` and `ScoringInv`: the individuals with a score and those with an
   outstanding evaluation make up the population without overlap, an outstanding
   evaluation is determined by its index, and there are as many outstanding samples as
   the validation still waits for. The code knows none of this: it has a counter,
   `currentEval`, and a list of samples. That both being complete means that nothing is
   outstanding is what lets the next generation take over the indices
   (`ResultsMatchPopulation`), and it is the contract of the pool
   (`CallerKeepsContract`).
3. `BestInv`: without a validation each scored individual is at most the session's best,
   or at most the pending candidate, which is then above the session's best; and where
   nothing is pruned or deleted a best score has a best genome and a mark. This makes
   `RecordsCount` and `BestNeverFalls` inductive.
4. `FreshInv` and `TickInv`: what a session starts from and leaves, and where in a tick
   results can be.

The lemmas are about the operators: the ranking gives every individual one place and
puts the best first (`RanksAreTaken`, by counting), the median is not below every
sample, and a prune reaches its limit although it may not remove the best. For
`ArchiveBounded` every store of the loop is followed by a prune, after which nothing is
`unpruned`; an import or a changed limit adds to `unpruned` what it lets in, and a
deletion only removes.

**Only proved.** The type invariants of WebSocketRequests, GenomeRepository,
WebSocketClients and SmolnesRuntime are in no run, since the proofs cover them.

**Only model-checked.** Liveness (`BatchCompletes`, `StopHeldBySleeperOnly`,
`ReturnsUnlessInverted`, `TrainingEnds`, `CallsReturn`, `SearchEnds`), which is out of
the prover's reach under fairness. Every other property of a passing run is a theorem.

## 5. What is not modelled

- In the pool: the merge of the fitness of the four duck-clock passes, frames and
  timers, the NES tokenizer; a data race inside `TrainingRunner` when the caller
  changes its configuration while the worker steps it (the step and the change are
  atomic here).
- In the training loop: telemetry, progress broadcasts, playback of the best, CPU
  auto-tuning (it only calls `allowedConcurrencySet`, modelled in the pool) and the
  plateau controls, which change the strength of mutations. All genomes are of one
  bucket, or unmanaged. An import under a known id with another content, or of a known
  content under another id, appears only in GenomeRepository. The main
  thread's wait of up to five seconds for the UI's acknowledgement is one step.
- In the repository: `clear`, which only tests call; rows without a hash, written by an
  older schema; SQLite itself (a statement happens or does not).
- In the network layer: framing and encodings beyond "binary or text";
  `stopListening(true)`, which runs once when the server process ends;
  `setClientRenderFormat` and `broadcastBinary`, which no production code calls.
  The format of a response is that of the client's last message when the response
  is sent (`WebSocketServiceInterface.h:151`), not always that of the request.
- In the NES runtime: the emulation, snapshots of memory, video and audio, profiling,
  and the clock that paces frames in real time.
- In the search: reading Mario's state from memory, how actions are ordered, the trace
  and what only feeds it, options that switch prunings off, harness and fixtures,
  playback of plans.
- The UI process, the OS manager, the Wi-Fi scanner, peer discovery and the simulation
  states of the server: not yet (see the plan).
- Physics, rendering, audio synthesis, emulation and the CLI: numerical, third-party
  or pure I/O.

## 6. Plan

Done: EvaluationPool, EvaluationExecutor, WebSocketRequests, EvolutionTraining,
GenomeRepository, WebSocketClients, SmolnesRuntime and SmbDfsSearch, with proofs of all
their safety properties. Next, in this order:

1. **ServerStates** with the event queue: every command is answered once, whatever
   state it meets; and **UiTraining**, composed with it over WebSocketRequests.
2. The Wi-Fi scanner's probe handshake, the OS manager's connect worker with its
   cancellation, the audio engine's command ring.
