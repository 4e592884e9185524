------------------------- MODULE EvaluationExecutor -------------------------
(***************************************************************************)
(* server/evolution/EvaluationExecutor.cpp: the thread pool that evaluates *)
(* the individuals of a training generation.                               *)
(*                                                                         *)
(* Threads: one caller (the server's state-machine thread, the only one    *)
(* that calls the public methods) and the pool's Workers.  A worker takes  *)
(* a task from taskQueue under taskMutex, tries to claim the single        *)
(* preview slot (visible.activeHandle), runs Passes simulation passes, and *)
(* delivers its result to visible.completed (preview) or to resultQueue.   *)
(*                                                                         *)
(* taskCv is modelled at the grain where wake-ups can be lost: a worker    *)
(* evaluates the wait predicate (WorkerPredicate, WorkerCompare), and only *)
(* a step later is it in the condition variable's wait set (WorkerBlock);  *)
(* between the two it owns taskMutex, and a notification that does not     *)
(* take taskMutex reaches nobody.  Likewise the limit the predicate read   *)
(* may have changed by the time the worker counts itself (WorkerTake).     *)
(* Each access to an atomic, and each critical section, is a step.         *)
(* pauseCv and pauseMutex are modelled the same way.  Spurious wake-ups    *)
(* only re-evaluate the predicate and are left out.                        *)
(*                                                                         *)
(* What a simulation computes (fitness, frames, timers) is abstracted away:*)
(* a task is its identity and the version of the scenario config override  *)
(* it carries.                                                             *)
(***************************************************************************)
EXTENDS Integers, Sequences, FiniteSets, Functions

CONSTANTS
  Workers,       \* the pool; start() spawns all of them
  Tasks,         \* identities of evaluation requests
  Batches,       \* the request sequences a caller may submit
  Passes,        \* simulation passes per evaluation (4 for duck clock, else 1)
  MaxOverrides,  \* bound on scenario config changes
  None           \* no worker, no task, a null pointer

ASSUME ExecutorAssumption ==
  /\ IsFiniteSet(Workers) /\ Workers # {}
  /\ None \notin Workers
  /\ Passes \in Nat \ {0}
  /\ MaxOverrides \in Nat
  /\ \A b \in Batches : b \in Seq(Tasks) /\ IsInjective(b)
  /\ None \notin [task : Tasks, cfg : 0..MaxOverrides]

VARIABLES
  mainPc,             \* where the caller's thread is
  stopRequested,      \* atomic stop flag
  paused,             \* guarded by pauseMutex
  pauseMutex,         \* the worker that owns pauseMutex between steps, or None
  taskMutex,          \* the worker that owns taskMutex between steps, or None
  taskQueue,          \* queued evaluations
  activeEvaluations,  \* atomic counter
  allowedConcurrency, \* atomic limit
  limitRead,          \* the limit the owner of taskMutex read in its predicate
  overrun,            \* history: starts above the limit since it was last stored
  resultQueue,        \* background results not drained yet
  activeHandle,       \* the worker that owns the preview slot, or None
  completed,          \* preview results not collected yet
  pc,                 \* where each worker is
  job,                \* the queued evaluation each worker holds, or None
  pass,               \* passes the worker's evaluation has finished
  handleCfg,          \* handle->queued.scenarioConfigOverride of each worker
  handleRunner,       \* the workers whose handle->runner is not null
  runnerCfg,          \* the config the worker's live runner simulates
  override,           \* the caller's latest scenarioConfigOverride_
  target,             \* scenarioConfigOverrideSet's copy of activeHandle
  outstanding,        \* tasks submitted whose result the caller has not got
  asserted            \* every DIRTSIM_ASSERT evaluated so far held

poolVars == <<taskMutex, taskQueue, activeEvaluations, allowedConcurrency>>
limitVars == <<limitRead, overrun>>
flagVars == <<stopRequested, paused, pauseMutex>>
workVars == <<job, pass, runnerCfg>>
slotVars == <<activeHandle, handleCfg, handleRunner>>
callVars == <<override, outstanding, asserted>>
vars == <<mainPc, pc, resultQueue, completed, target,
          poolVars, limitVars, flagVars, workVars, slotVars, callVars>>

Configs == 0..MaxOverrides
Queued == [task : Tasks, cfg : Configs]

\* queuedEvaluationMake: a request with the override of the submission.
QueuedEvaluation(t, c) == [task |-> t, cfg |-> c]

TasksOf(q) == [i \in DOMAIN q |-> q[i].task]

\* The worker states in which activeEvaluations counts the worker.
Busy == {"claim", "snapshot", "construct", "gate", "parking", "parked",
         "step", "unpublish", "finish", "retire"}

\* The worker states in which a TrainingRunner lives on the worker's stack.
RunnerLive == {"construct", "gate", "parking", "parked", "step", "unpublish"}

WorkerStates == Busy \cup {"none", "ready", "comparing", "taking", "blocking", "waiting",
                         "notify", "deliver", "exited"}

MainStates == {"off", "idle", "waking", "unpausing", "notifying", "joining",
               "capturing", "applying"}
-----------------------------------------------------------------------------
(* The condition variables taskCv and pauseCv.                             *)

NotifyAllForgotten == pc

NotifyAll == [w \in Workers |-> IF pc[w] = "waiting" THEN "ready" ELSE pc[w]]

NotifyAllPause == [w \in Workers |-> IF pc[w] = "parked" THEN "gate" ELSE pc[w]]

\* notify_one wakes some waiter when there is one.
NotifyOne(f) ==
  LET waiters == {w \in Workers : f[w] = "waiting"}
  IN  IF waiters = {} THEN {f} ELSE {[f EXCEPT ![w] = "ready"] : w \in waiters}
-----------------------------------------------------------------------------
(* The caller's operations.                                                *)

Init ==
  /\ mainPc = "off"
  /\ stopRequested = FALSE /\ paused = FALSE /\ pauseMutex = None
  /\ taskMutex = None /\ taskQueue = <<>>
  /\ activeEvaluations = 0 /\ allowedConcurrency = 0
  /\ limitRead = 0 /\ overrun = 0
  /\ resultQueue = <<>> /\ completed = <<>>
  /\ activeHandle = None /\ target = None
  /\ pc = [w \in Workers |-> "none"]
  /\ job = [w \in Workers |-> None]
  /\ pass = [w \in Workers |-> 0]
  /\ handleCfg = [w \in Workers |-> 0]
  /\ handleRunner = {}
  /\ runnerCfg = [w \in Workers |-> 0]
  /\ override = 0 /\ outstanding = {} /\ asserted = TRUE

\* start() on an executor without workers: its leading stop() finds nothing.
Start ==
  /\ mainPc = "off"
  /\ mainPc' = "idle"
  /\ allowedConcurrency' = Cardinality(Workers)
  /\ activeEvaluations' = 0 /\ overrun' = 0
  /\ paused' = FALSE /\ stopRequested' = FALSE
  /\ activeHandle' = None /\ completed' = <<>>
  /\ pc' = [w \in Workers |-> "ready"]
  /\ UNCHANGED <<limitRead, pauseMutex, taskMutex, taskQueue, resultQueue, target, workVars,
                 handleCfg, handleRunner, callVars>>

PauseLockSkipped == TRUE

\* lock_guard(pauseMutex) of pauseSet and stop.
PauseLock == pauseMutex = None

\* paused changes with pauseMutex held, so every worker that is to wait on
\* pauseCv already does when the notification comes.
PauseSet(p) ==
  /\ mainPc = "idle" /\ PauseLock
  /\ paused' = p
  /\ pc' = NotifyAllPause
  /\ UNCHANGED <<limitVars, mainPc, resultQueue, completed, target, stopRequested, pauseMutex,
                 poolVars, workVars, slotVars, callVars>>

\* The clamp is to 0..backgroundWorkerCount; the store takes no mutex.
AllowedConcurrencySet(n) ==
  /\ mainPc = "idle"
  /\ allowedConcurrency' = IF n > Cardinality(Workers) THEN Cardinality(Workers) ELSE n
  /\ overrun' = 0
  /\ mainPc' = "waking"
  /\ UNCHANGED <<limitRead, pc, resultQueue, completed, target, taskMutex, taskQueue,
                 activeEvaluations, flagVars, workVars, slotVars, callVars>>

\* generationBatchSubmit: asserts the preview slot is free, replaces the queue.
GenerationBatchSubmit(b) ==
  /\ mainPc = "idle"
  /\ taskMutex = None
  /\ asserted' = (asserted /\ activeHandle = None)
  /\ taskQueue' = [i \in DOMAIN b |-> QueuedEvaluation(b[i], override)]
  /\ outstanding' = Range(b) \cup (outstanding \ Range(TasksOf(taskQueue)))
  /\ mainPc' = "waking"
  /\ UNCHANGED <<limitVars, pc, resultQueue, completed, target, taskMutex,
                 activeEvaluations, allowedConcurrency, flagVars, workVars,
                 slotVars, override>>

\* robustnessPassSubmit: asserts the preview slot is free, appends the samples.
RobustnessPassSubmit(b) ==
  /\ mainPc = "idle"
  /\ taskMutex = None
  /\ asserted' = (asserted /\ activeHandle = None)
  /\ taskQueue' = taskQueue \o [i \in DOMAIN b |-> QueuedEvaluation(b[i], override)]
  /\ outstanding' = outstanding \cup Range(b)
  /\ mainPc' = "waking"
  /\ UNCHANGED <<limitVars, pc, resultQueue, completed, target, taskMutex,
                 activeEvaluations, allowedConcurrency, flagVars, workVars,
                 slotVars, override>>

\* The taskCv.notify_all() that ends the three operations above.  It runs after
\* taskMutex has been released.
WakeWorkers ==
  /\ mainPc = "waking"
  /\ pc' = NotifyAll
  /\ mainPc' = "idle"
  /\ UNCHANGED <<limitVars, resultQueue, completed, target, poolVars, flagVars, workVars,
                 slotVars, callVars>>

\* completedDrain swaps the background results out.
CompletedDrain ==
  /\ mainPc = "idle"
  /\ resultQueue' = <<>>
  /\ outstanding' = outstanding \ Range(resultQueue)
  /\ UNCHANGED <<limitVars, mainPc, pc, completed, target, poolVars, flagVars, workVars,
                 slotVars, override, asserted>>

\* visibleTick collects the preview results; the frame and the progress flag
\* it also returns only feed broadcasts.
VisibleTick ==
  /\ mainPc = "idle"
  /\ completed' = <<>>
  /\ outstanding' = outstanding \ Range(completed)
  /\ UNCHANGED <<limitVars, mainPc, pc, resultQueue, target, poolVars, flagVars, workVars,
                 slotVars, override, asserted>>

WithOverrideAtFront(q, c) == [i \in DOMAIN q |-> IF i = 1 THEN [q[i] EXCEPT !.cfg = c] ELSE q[i]]

\* Every queued evaluation takes the new override.
WithOverride(q, c) == [i \in DOMAIN q |-> [q[i] EXCEPT !.cfg = c]]

\* scenarioConfigOverrideSet, first critical section: the queued tasks.  The
\* caller has stored the new override just before the call.  It makes one only for
\* scenarios without an NES driver (makeScenarioConfigFromUserSettings), so no
\* brain needs a tokenizer whose error would return early, and every queued task
\* is of the session's scenario, so the filter on scenarioId passes them all.
OverrideQueued ==
  /\ mainPc = "idle" /\ taskMutex = None
  /\ override < MaxOverrides
  /\ override' = override + 1
  /\ taskQueue' = WithOverride(taskQueue, override + 1)
  /\ mainPc' = "capturing"
  /\ UNCHANGED <<limitVars, pc, resultQueue, completed, target, taskMutex,
                 activeEvaluations, allowedConcurrency, flagVars, workVars,
                 slotVars, outstanding, asserted>>

\* Second critical section: copy the shared pointer to the active handle.
OverrideCapture ==
  /\ mainPc = "capturing"
  /\ target' = activeHandle
  /\ mainPc' = IF activeHandle = None THEN "idle" ELSE "applying"
  /\ UNCHANGED <<limitVars, pc, resultQueue, completed, poolVars, flagVars, workVars,
                 slotVars, callVars>>

\* Third, under the handle's mutex: update the handle and, through its raw
\* pointer, the runner.  The runner's own thread steps it without that mutex,
\* so a concurrent step may or may not see the new config.  When the
\* evaluation has ended meanwhile, target is None and the handle is garbage.
OverrideApply ==
  /\ mainPc = "applying"
  /\ mainPc' = "idle" /\ target' = None
  /\ IF target = None
       THEN UNCHANGED <<handleCfg, runnerCfg>>
       ELSE /\ handleCfg' = [handleCfg EXCEPT ![target] = override]
            /\ \/ /\ target \in handleRunner
                  /\ runnerCfg' = [runnerCfg EXCEPT ![target] = override]
               \/ /\ target \notin handleRunner \/ pc[target] = "step"
                  /\ UNCHANGED runnerCfg
  /\ UNCHANGED <<limitVars, pc, resultQueue, completed, poolVars, flagVars, job, pass,
                 activeHandle, handleRunner, callVars>>

\* stop(): the flag is raised without taskMutex ...
StopRequest ==
  /\ mainPc = "idle"
  /\ stopRequested' = TRUE
  /\ mainPc' = "unpausing"
  /\ UNCHANGED <<limitVars, pc, resultQueue, completed, target, paused, pauseMutex, poolVars,
                 workVars, slotVars, callVars>>

\* ... the pause is lifted under pauseMutex and pauseCv notified ...
StopUnpause ==
  /\ mainPc = "unpausing" /\ PauseLock
  /\ paused' = FALSE
  /\ pc' = NotifyAllPause
  /\ mainPc' = "notifying"
  /\ UNCHANGED <<limitVars, resultQueue, completed, target, stopRequested, pauseMutex, poolVars,
                 workVars, slotVars, callVars>>

\* ... the workers waiting for a task are woken, without taskMutex ...
StopNotify ==
  /\ mainPc = "notifying"
  /\ pc' = NotifyAll
  /\ mainPc' = "joining"
  /\ UNCHANGED <<limitVars, resultQueue, completed, target, flagVars, poolVars, workVars,
                 slotVars, callVars>>

ResultsLeft == resultQueue

\* resultQueue.clear(), once no worker can add to it.
ResultsCleared == <<>>

\* ... and when every worker has been joined all queues are emptied.
StopJoined ==
  /\ mainPc = "joining"
  /\ \A w \in Workers : pc[w] = "exited"
  /\ mainPc' = "off"
  /\ pc' = [w \in Workers |-> "none"]
  /\ allowedConcurrency' = 0 /\ activeEvaluations' = 0 /\ overrun' = 0
  /\ taskQueue' = <<>> /\ resultQueue' = ResultsCleared
  /\ activeHandle' = None /\ completed' = <<>>
  /\ stopRequested' = FALSE
  /\ outstanding' = {}
  /\ UNCHANGED <<limitRead, target, paused, pauseMutex, taskMutex, workVars, handleCfg,
                 handleRunner, override, asserted>>
-----------------------------------------------------------------------------
(* A worker thread.                                                        *)

SlotFreeOffByOne == activeEvaluations <= limitRead

SlotFree == activeEvaluations < limitRead

\* taskCv.wait(lock, predicate), with taskMutex held from here until the worker
\* takes a task, waits or leaves: the flag, the queue, and the load of the limit,
\* which allowedConcurrencySet stores without taskMutex.  (Two loads in one step: the
\* caller stores flag and limit one after the other, so a moment between gives both.)
WorkerPredicate(w) ==
  /\ pc[w] = "ready" /\ taskMutex = None
  /\ \/ /\ stopRequested
        /\ pc' = [pc EXCEPT ![w] = "exited"]
        /\ UNCHANGED <<taskMutex, limitRead>>
     \/ /\ ~stopRequested /\ taskQueue = <<>>
        /\ taskMutex' = w
        /\ pc' = [pc EXCEPT ![w] = "blocking"]
        /\ UNCHANGED limitRead
     \/ /\ ~stopRequested /\ taskQueue # <<>>
        /\ taskMutex' = w
        /\ limitRead' = allowedConcurrency
        /\ pc' = [pc EXCEPT ![w] = "comparing"]
  /\ UNCHANGED <<overrun, mainPc, resultQueue, completed, target, taskQueue,
                 activeEvaluations, allowedConcurrency, flagVars, workVars,
                 slotVars, callVars>>

\* The load of the count, and the comparison.  The order of the two loads is the
\* compiler's: while taskMutex is held the count only falls, so a worker that loads
\* the count first starts less often, and one it keeps from starting is where a
\* worker is that found the pool full just before the count fell.
WorkerCompare(w) ==
  /\ pc[w] = "comparing"
  /\ pc' = [pc EXCEPT ![w] = IF SlotFree THEN "taking" ELSE "blocking"]
  /\ limitRead' = IF SlotFree THEN limitRead ELSE 0
  /\ UNCHANGED <<overrun, mainPc, resultQueue, completed, target, poolVars, flagVars,
                 workVars, slotVars, callVars>>

\* The predicate held: leave on stop, else pop a task, count it and release
\* taskMutex.  The limit may have been lowered since it was read.
WorkerTake(w) ==
  /\ pc[w] = "taking"
  /\ taskMutex' = None /\ limitRead' = 0
  /\ \/ /\ stopRequested
        /\ pc' = [pc EXCEPT ![w] = "exited"]
        /\ UNCHANGED <<job, taskQueue, activeEvaluations, overrun>>
     \/ /\ ~stopRequested
        /\ job' = [job EXCEPT ![w] = Head(taskQueue)]
        /\ taskQueue' = Tail(taskQueue)
        /\ activeEvaluations' = activeEvaluations + 1
        /\ overrun' = IF activeEvaluations < allowedConcurrency THEN overrun ELSE overrun + 1
        /\ pc' = [pc EXCEPT ![w] = "claim"]
  /\ UNCHANGED <<mainPc, resultQueue, completed, target, allowedConcurrency,
                 pass, runnerCfg, flagVars, slotVars, callVars>>

\* Enter the wait set and release taskMutex, atomically.
WorkerBlock(w) ==
  /\ pc[w] = "blocking"
  /\ pc' = [pc EXCEPT ![w] = "waiting"]
  /\ taskMutex' = None
  /\ UNCHANGED <<limitVars, mainPc, resultQueue, completed, target, taskQueue,
                 activeEvaluations, allowedConcurrency, flagVars, workVars,
                 slotVars, callVars>>

\* visibleEvaluationTryClaim: the first worker to find the slot free previews.
WorkerClaim(w) ==
  /\ pc[w] = "claim"
  /\ IF activeHandle = None
       THEN /\ activeHandle' = w
            /\ handleCfg' = [handleCfg EXCEPT ![w] = job[w].cfg]
       ELSE UNCHANGED <<activeHandle, handleCfg>>
  /\ pass' = [pass EXCEPT ![w] = 0]
  /\ pc' = [pc EXCEPT ![w] = "snapshot"]
  /\ UNCHANGED <<limitVars, mainPc, resultQueue, completed, target, poolVars, flagVars,
                 job, runnerCfg, handleRunner, callVars>>

SnapshotOfTask(w) == job[w].cfg

\* visibleQueuedSnapshot: a preview reads the handle, which an override may have
\* changed; a background evaluation keeps the config it was queued with.
SnapshotConfig(w) == IF activeHandle = w THEN handleCfg[w] ELSE job[w].cfg

\* The config the next pass is constructed with.
WorkerSnapshot(w) ==
  /\ pc[w] = "snapshot"
  /\ runnerCfg' = [runnerCfg EXCEPT ![w] = SnapshotConfig(w)]
  /\ pc' = [pc EXCEPT ![w] = "construct"]
  /\ UNCHANGED <<limitVars, mainPc, resultQueue, completed, target, poolVars, flagVars,
                 job, pass, slotVars, callVars>>

\* The TrainingRunner exists; a preview publishes a pointer to it.
WorkerPublish(w) ==
  /\ pc[w] = "construct"
  /\ handleRunner' = IF activeHandle = w THEN handleRunner \cup {w} ELSE handleRunner
  /\ pc' = [pc EXCEPT ![w] = "gate"]
  /\ UNCHANGED <<limitVars, mainPc, resultQueue, completed, target, poolVars, flagVars,
                 workVars, activeHandle, handleCfg, callVars>>

\* The loop head: leave on stop; with pauseMutex held, decide to wait on pauseCv
\* while paused; else step.
WorkerGate(w) ==
  /\ pc[w] = "gate"
  /\ \/ /\ stopRequested
        /\ pc' = [pc EXCEPT ![w] = "unpublish"]
        /\ UNCHANGED pauseMutex
     \/ /\ ~stopRequested /\ ~paused /\ pauseMutex = None
        /\ pc' = [pc EXCEPT ![w] = "step"]
        /\ UNCHANGED pauseMutex
     \/ /\ ~stopRequested /\ paused /\ pauseMutex = None
        /\ pc' = [pc EXCEPT ![w] = "parking"]
        /\ pauseMutex' = w
  /\ UNCHANGED <<limitVars, mainPc, resultQueue, completed, target, poolVars, stopRequested,
                 paused, workVars, slotVars, callVars>>

\* Enter pauseCv's wait set and release pauseMutex, atomically.
WorkerPark(w) ==
  /\ pc[w] = "parking"
  /\ pc' = [pc EXCEPT ![w] = "parked"]
  /\ pauseMutex' = None
  /\ UNCHANGED <<limitVars, mainPc, resultQueue, completed, target, poolVars, stopRequested,
                 paused, workVars, slotVars, callVars>>

\* runner.step(1) returns: the simulation is still running, or has ended.
WorkerStep(w, ended) ==
  /\ pc[w] = "step"
  /\ pc' = [pc EXCEPT ![w] = IF ended THEN "unpublish" ELSE "gate"]
  /\ UNCHANGED <<limitVars, mainPc, resultQueue, completed, target, poolVars, flagVars,
                 workVars, slotVars, callVars>>

HandleKept(w) == UNCHANGED <<activeHandle, target>>

\* visibleEvaluationRelease / the second half of visibleEvaluationComplete.
ReleaseHandle(w) ==
  /\ activeHandle' = IF activeHandle = w THEN None ELSE activeHandle
  /\ target' = IF activeHandle = w /\ target = w THEN None ELSE target

PointerKept(w) == handleRunner

\* handle->runner = nullptr, under the handle's mutex.
PointerWithdrawn(w) == handleRunner \ {w}

\* The end of runEvaluationPass: the pointer is withdrawn before the runner
\* dies.  On stop the evaluation is abandoned; otherwise the next pass starts
\* or the evaluation is finished.
WorkerPassEnd(w) ==
  /\ pc[w] = "unpublish"
  /\ handleRunner' = PointerWithdrawn(w)
  /\ \/ /\ stopRequested
        /\ job' = [job EXCEPT ![w] = None]
        /\ ReleaseHandle(w)
        /\ pc' = [pc EXCEPT ![w] = "retire"]
        /\ UNCHANGED pass
     \/ /\ ~stopRequested
        /\ pass' = [pass EXCEPT ![w] = @ + 1]
        /\ pc' = [pc EXCEPT ![w] = IF pass[w] + 1 < Passes THEN "snapshot" ELSE "finish"]
        /\ UNCHANGED <<job, activeHandle, target>>
  /\ UNCHANGED <<limitVars, mainPc, resultQueue, completed, poolVars, flagVars, runnerCfg,
                 handleCfg, callVars>>

PreviewKeepsResult(w) == job

\* finishResult returns nullopt for a preview: the worker loop has nothing to queue.
PreviewKeepsNothing(w) == [job EXCEPT ![w] = None]

\* finishResult: a preview frees the slot and files its result in one critical
\* section; a background evaluation hands its result to the worker loop.
WorkerFinish(w) ==
  /\ pc[w] = "finish"
  /\ pc' = [pc EXCEPT ![w] = "retire"]
  /\ IF activeHandle = w
       THEN /\ completed' = IF stopRequested THEN completed
                            ELSE Append(completed, job[w].task)
            /\ job' = PreviewKeepsNothing(w)
            /\ ReleaseHandle(w)
       ELSE UNCHANGED <<completed, job, activeHandle, target>>
  /\ UNCHANGED <<limitVars, mainPc, resultQueue, poolVars, flagVars, pass, runnerCfg,
                 handleCfg, handleRunner, callVars>>

CountRetiredTwice == activeEvaluations - 2

\* activeEvaluations.fetch_sub(1)
CountRetired == activeEvaluations - 1

\* The count drops without taskMutex ...
WorkerRetire(w) ==
  /\ pc[w] = "retire"
  /\ activeEvaluations' = CountRetired
  /\ pc' = [pc EXCEPT ![w] = "notify"]
  /\ UNCHANGED <<limitVars, mainPc, resultQueue, completed, target, taskMutex, taskQueue,
                 allowedConcurrency, flagVars, workVars, slotVars, callVars>>

\* ... and then taskCv.notify_one(), without it too.
WorkerNotify(w) ==
  /\ pc[w] = "notify"
  /\ pc' \in NotifyOne([pc EXCEPT ![w] = "deliver"])
  /\ UNCHANGED <<limitVars, mainPc, resultQueue, completed, target, poolVars, flagVars,
                 workVars, slotVars, callVars>>

\* Leave on stop (dropping the result), else queue a background result.
WorkerDeliver(w) ==
  /\ pc[w] = "deliver"
  /\ job' = [job EXCEPT ![w] = None]
  /\ resultQueue' = IF stopRequested \/ job[w] = None THEN resultQueue
                    ELSE Append(resultQueue, job[w].task)
  /\ pc' = [pc EXCEPT ![w] = IF stopRequested THEN "exited" ELSE "ready"]
  /\ UNCHANGED <<limitVars, mainPc, completed, target, poolVars, flagVars, pass, runnerCfg,
                 slotVars, callVars>>

Worker(w) ==
  \/ WorkerPredicate(w) \/ WorkerCompare(w) \/ WorkerTake(w) \/ WorkerBlock(w)
  \/ WorkerClaim(w) \/ WorkerSnapshot(w) \/ WorkerPublish(w)
  \/ WorkerGate(w) \/ WorkerPark(w) \/ \E ended \in BOOLEAN : WorkerStep(w, ended)
  \/ WorkerPassEnd(w) \/ WorkerFinish(w)
  \/ WorkerRetire(w) \/ WorkerNotify(w) \/ WorkerDeliver(w)
-----------------------------------------------------------------------------
(* The contract of the caller (states/Evolution.cpp): it submits only when *)
(* it has received the result of everything it submitted before, and never *)
(* lowers the concurrency below one.  EvolutionTraining shows that the     *)
(* training loop keeps it.                                                 *)

Submit ==
  /\ outstanding = {}
  /\ \E b \in Batches : GenerationBatchSubmit(b) \/ RobustnessPassSubmit(b)

Override == OverrideQueued \/ OverrideCapture \/ OverrideApply

Stop == StopRequest \/ StopUnpause \/ StopNotify \/ StopJoined

Caller ==
  \/ Start \/ Submit \/ WakeWorkers \/ CompletedDrain \/ VisibleTick \/ Override \/ Stop
  \/ \E p \in BOOLEAN : PauseSet(p)
  \/ \E n \in 1..Cardinality(Workers) : AllowedConcurrencySet(n)

Next == Caller \/ \E w \in Workers : Worker(w)

\* Threads are scheduled; the caller's tick polls both result queues on every
\* iteration of the server's main loop; a simulation ends, because
\* TrainingRunner stops at maxSimulationTime.
Fairness ==
  /\ \A w \in Workers : /\ WF_vars(Worker(w))
                        /\ SF_vars(WorkerStep(w, TRUE))
  /\ SF_vars(CompletedDrain) /\ SF_vars(VisibleTick)
  /\ WF_vars(WakeWorkers \/ OverrideCapture \/ OverrideApply)
  /\ WF_vars(StopUnpause \/ StopNotify \/ StopJoined)

Spec == Init /\ [][Next]_vars
FairSpec == Spec /\ Fairness
-----------------------------------------------------------------------------
(* Properties.                                                             *)

(* The names above that no action uses (NotifyAllForgotten, ...) are the   *)
(* mistakes the properties are there to catch, each before the definition  *)
(* it would replace.                                                       *)

TypeOK ==
  /\ mainPc \in MainStates
  /\ stopRequested \in BOOLEAN /\ paused \in BOOLEAN /\ asserted \in BOOLEAN
  /\ taskMutex \in Workers \cup {None} /\ pauseMutex \in Workers \cup {None}
  /\ activeHandle \in Workers \cup {None} /\ target \in Workers \cup {None}
  /\ taskQueue \in Seq(Queued)
  /\ activeEvaluations \in 0..Cardinality(Workers)
  /\ allowedConcurrency \in 0..Cardinality(Workers)
  /\ limitRead \in 0..Cardinality(Workers) /\ overrun \in Nat
  /\ resultQueue \in Seq(Tasks) /\ completed \in Seq(Tasks)
  /\ pc \in [Workers -> WorkerStates]
  /\ job \in [Workers -> Queued \cup {None}]
  /\ pass \in [Workers -> 0..Passes]
  /\ handleCfg \in [Workers -> Configs] /\ runnerCfg \in [Workers -> Configs]
  /\ handleRunner \subseteq Workers
  /\ override \in Configs
  /\ outstanding \subseteq Tasks

Holders == {w \in Workers : job[w] # None}
Held == {job[w].task : w \in Holders}
Delivered == Range(resultQueue) \cup Range(completed)

\* No evaluation is lost, run twice or delivered twice, whichever way it is
\* delivered: a task the caller still waits for is in exactly one of the task
\* queue, one worker's hands, the background results and the preview results;
\* and only a stop() that is under way may have dropped one (runEvaluationTask's
\* nullopt, the worker loop's early return).
ExactlyOnce ==
  /\ IsInjective(TasksOf(taskQueue)) /\ IsInjective(resultQueue) /\ IsInjective(completed)
  /\ \A v, w \in Holders : job[v].task = job[w].task => v = w
  /\ Range(TasksOf(taskQueue)) \cap (Held \cup Delivered) = {}
  /\ Held \cap Delivered = {}
  /\ Range(resultQueue) \cap Range(completed) = {}
  /\ Range(TasksOf(taskQueue)) \cup Held \cup Delivered \subseteq outstanding
  /\ ~stopRequested => outstanding \subseteq Range(TasksOf(taskQueue)) \cup Held \cup Delivered

\* The threads, queues and mutexes implement EvaluationPool: whatever the
\* interleaving, a caller of the public methods sees an object that finishes each
\* submitted evaluation at most once and forgets everything on stop().
Pool == INSTANCE EvaluationPool WITH
  up <- mainPc # "off",
  pending <- outstanding \ Delivered,
  background <- resultQueue,
  preview <- completed

ImplementsPool == Pool!PoolSpec

\* The DIRTSIM_ASSERTs of generationBatchSubmit and robustnessPassSubmit never
\* fire for a caller that waits for all its results: the preview slot is free by
\* the time the last result can be collected, though a worker frees it on its
\* own thread.
AssertsHold == asserted

\* scenarioConfigOverrideSet never follows a pointer to a runner that is gone:
\* the only handle it can reach with a non-null runner belongs to a worker whose
\* TrainingRunner is on its stack, in the pass it is running.
NoDanglingRunner ==
  /\ \A w \in handleRunner : activeHandle = w /\ pc[w] \in RunnerLive
  /\ target # None => target = activeHandle

\* Once scenarioConfigOverrideSet has returned, no queued evaluation starts with
\* an older config.
FreshConfig ==
  mainPc \notin {"capturing", "applying"} =>
    \A q \in Range(taskQueue) : q.cfg = override

\* An evaluation that has run with a config never falls back to an older one, in
\* the same pass or in a later one: visibleQueuedSnapshot re-reads the handle, and
\* the handle keeps what scenarioConfigOverrideSet stored.
HasRun(w) ==
  /\ job[w] # None
  /\ pc[w] \in Busy \ {"claim"} /\ (pc[w] = "snapshot" => pass[w] > 0)

ConfigNeverReverts ==
  [][\A w \in Workers : HasRun(w) /\ job'[w] = job[w] => runnerCfg'[w] >= runnerCfg[w]]_vars

\* The evaluations the pool runs at once.  Starting one never takes their number
\* over the limit its worker read, although the count is decremented outside
\* taskMutex; and a limit that allowedConcurrencySet lowers, without taskMutex, is
\* exceeded by at most one start before it takes hold: only the worker that owned
\* taskMutex can have read the old one.
Running == {w \in Workers : pc[w] \in Busy}

ConcurrencyRespected ==
  [][Running' \ Running # {} => Cardinality(Running') <= limitRead /\ overrun' <= 1]_vars

\* A batch is evaluated to the end once the pool stays unpaused: no wake-up of
\* taskCv or pauseCv that a batch depends on is lost.
BatchCompletes ==
  <>[]~paused => (outstanding # {} ~> (outstanding = {} \/ stopRequested))

\* stop() returns, whatever the workers were doing.
StopReturns == stopRequested ~> ~stopRequested

\* stop() waits neither for a pause nor for the end of a simulation; nothing but
\* a worker that went to sleep on taskCv after the notification can hold it.
StopHeldBySleeperOnly ==
  stopRequested ~> (~stopRequested \/ \E w \in Workers : pc[w] = "waiting")
=============================================================================
