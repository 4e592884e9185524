---------------------- MODULE EvaluationExecutorProofs ----------------------
(***************************************************************************)
(* Proofs about EvaluationExecutor, for every pool size, batch, number of  *)
(* passes and number of config overrides.                                  *)
(***************************************************************************)
EXTENDS EvaluationExecutor, FiniteSetTheorems, SequenceTheorems, TLAPS

\* What the variables hold, the count apart.
Typing ==
  /\ mainPc \in MainStates
  /\ stopRequested \in BOOLEAN /\ paused \in BOOLEAN /\ asserted \in BOOLEAN
  /\ taskMutex \in Workers \cup {None} /\ pauseMutex \in Workers \cup {None}
  /\ activeHandle \in Workers \cup {None} /\ target \in Workers \cup {None}
  /\ taskQueue \in Seq(Queued)
  /\ activeEvaluations \in Int
  /\ allowedConcurrency \in 0..Cardinality(Workers)
  /\ limitRead \in 0..Cardinality(Workers) /\ overrun \in Nat
  /\ resultQueue \in Seq(Tasks) /\ completed \in Seq(Tasks)
  /\ pc \in [Workers -> WorkerStates]
  /\ job \in [Workers -> Queued \cup {None}]
  /\ pass \in [Workers -> 0..Passes]
  /\ handleCfg \in [Workers -> Configs] /\ runnerCfg \in [Workers -> Configs]
  /\ handleRunner \subseteq Workers
  /\ override \in Configs
  /\ outstanding \subseteq Tasks

Holding == Busy \ {"retire"}

\* How a worker's place in its loop and what it holds go together.
WorkerInv ==
  \A w \in Workers :
    /\ pc[w] \in Holding => job[w] # None
    /\ pc[w] \notin Busy \cup {"notify", "deliver"} => job[w] = None
    /\ pc[w] \in Holding \ {"claim", "finish"} => pass[w] < Passes
    /\ w \in handleRunner => activeHandle = w /\ pc[w] \in RunnerLive
    /\ activeHandle = w => pc[w] \in Holding \ {"claim"}

\* How the caller's place and the shared flags go together.
CallerInv ==
  /\ stopRequested <=> mainPc \in {"unpausing", "notifying", "joining"}
  /\ \A w \in Workers : pc[w] = "none" <=> mainPc = "off"
  /\ \A w \in Workers : pc[w] = "exited" => stopRequested
  /\ target # None => mainPc = "applying" /\ target = activeHandle

\* A worker past the predicate's first test owns taskMutex, so no task leaves the
\* queue under it.
Choosing == {"comparing", "taking"}

LockInv ==
  \A w \in Workers :
    /\ pc[w] \in Choosing \cup {"blocking"} => taskMutex = w
    /\ pc[w] \in Choosing => taskQueue # <<>>

ControlInv == Typing /\ WorkerInv /\ CallerInv /\ LockInv

LEMMA ConfigFacts ==
  /\ 0 \in Configs
  /\ \A c \in Configs : c < MaxOverrides => c + 1 \in Configs
  /\ Configs \subseteq Nat
PROOF BY ExecutorAssumption DEF Configs, ExecutorAssumption

LEMMA WorkersFacts == Cardinality(Workers) \in Nat /\ Workers # {} /\ None \notin Workers
PROOF BY ExecutorAssumption, FS_CardinalityType DEF ExecutorAssumption

LEMMA FunctionIsSeq ==
  ASSUME NEW S, NEW n \in Nat, NEW f \in [1..n -> S]
  PROVE  f \in Seq(S) /\ Len(f) = n
PROOF
<1>1. f \in Seq(S) BY SeqDef
<1>2. DOMAIN f = 1..n /\ DOMAIN f = 1..Len(f) /\ Len(f) \in Nat BY <1>1, LenProperties
<1> QED BY <1>1, <1>2

LEMMA BatchQueued ==
  ASSUME NEW b \in Batches, NEW c \in Configs
  PROVE  /\ [i \in DOMAIN b |-> QueuedEvaluation(b[i], c)] \in Seq(Queued)
         /\ Range(b) \subseteq Tasks
PROOF
<1> DEFINE q == [i \in DOMAIN b |-> QueuedEvaluation(b[i], c)]
<1>1. b \in Seq(Tasks) BY ExecutorAssumption DEF ExecutorAssumption
<1>2. DOMAIN b = 1..Len(b) /\ Len(b) \in Nat /\ \A i \in DOMAIN b : b[i] \in Tasks
  BY <1>1, LenProperties
<1>3. q \in [1..Len(b) -> Queued] BY <1>2 DEF QueuedEvaluation, Queued
<1>4. q \in Seq(Queued) BY <1>2, <1>3, FunctionIsSeq
<1> QED BY <1>2, <1>4 DEF Range

LEMMA OverrideQueuedType ==
  ASSUME NEW q \in Seq(Queued), NEW c \in Configs
  PROVE  WithOverride(q, c) \in Seq(Queued)
PROOF
<1>1. DOMAIN q = 1..Len(q) /\ Len(q) \in Nat /\ \A i \in DOMAIN q : q[i] \in Queued
  BY LenProperties
<1>2. WithOverride(q, c) \in [1..Len(q) -> Queued] BY <1>1 DEF WithOverride, Queued
<1> QED BY <1>1, <1>2, FunctionIsSeq

LEMMA QueuedFacts ==
  /\ None \notin Queued
  /\ \A q \in Queued : q.task \in Tasks /\ q.cfg \in Configs
PROOF BY ExecutorAssumption DEF ExecutorAssumption, Queued, Configs

LEMMA EmptyQueues == <<>> \in Seq(Queued) /\ <<>> \in Seq(Tasks)
PROOF BY EmptySeq

LEMMA ControlInit == Init => ControlInv
PROOF
<1> SUFFICES ASSUME Init PROVE ControlInv OBVIOUS
<1>1. Typing
  <2>1. pc \in [Workers -> WorkerStates] BY DEF Init, WorkerStates, Busy
  <2>2. taskQueue \in Seq(Queued) /\ resultQueue \in Seq(Tasks) /\ completed \in Seq(Tasks)
    BY EmptyQueues DEF Init
  <2>3. /\ allowedConcurrency \in 0..Cardinality(Workers)
        /\ limitRead \in 0..Cardinality(Workers) /\ overrun \in Nat
    BY WorkersFacts DEF Init
  <2>4. pass \in [Workers -> 0..Passes] BY ExecutorAssumption DEF Init, ExecutorAssumption
  <2>5. handleCfg \in [Workers -> Configs] /\ runnerCfg \in [Workers -> Configs]
    BY ConfigFacts DEF Init
  <2>6. job \in [Workers -> Queued \cup {None}] BY DEF Init
  <2>7. mainPc \in MainStates BY DEF Init, MainStates
  <2>8. stopRequested \in BOOLEAN /\ paused \in BOOLEAN /\ asserted \in BOOLEAN BY DEF Init
  <2> QED BY <2>1, <2>2, <2>3, <2>4, <2>5, <2>6, <2>7, <2>8, ConfigFacts DEF Init, Typing
<1>2. WorkerInv
  BY WorkersFacts DEF Init, WorkerInv, Busy, Holding
<1>3. CallerInv
  BY DEF Init, CallerInv
<1>4. LockInv BY DEF Init, LockInv, Choosing
<1> QED BY <1>1, <1>2, <1>3, <1>4 DEF ControlInv

\* Every operation of the caller keeps the control invariant.
LEMMA ControlCaller ==
  ASSUME ControlInv, Caller PROVE ControlInv'
PROOF
<1> USE ConfigFacts, WorkersFacts
<1> USE DEF ControlInv, poolVars, limitVars, flagVars, workVars, slotVars, callVars
<1>1. CASE Start
  <2>1. Typing'
    <3>1. pc' \in [Workers -> WorkerStates] BY <1>1 DEF Start, WorkerStates, Busy
    <3>2. completed' \in Seq(Tasks) /\ taskQueue' \in Seq(Queued) /\ resultQueue' \in Seq(Tasks)
      BY <1>1, EmptyQueues DEF Start, Typing
    <3>3. allowedConcurrency' \in 0..Cardinality(Workers) /\ overrun' \in Nat BY <1>1 DEF Start
    <3>4. mainPc' \in MainStates BY <1>1 DEF Start, MainStates
    <3>5. stopRequested' \in BOOLEAN /\ paused' \in BOOLEAN BY <1>1 DEF Start, Typing
    <3> QED BY <1>1, <3>1, <3>2, <3>3, <3>4, <3>5 DEF Start, Typing
  <2>2. WorkerInv' BY <1>1 DEF Typing, WorkerInv, CallerInv, WorkerStates, Busy, Holding, RunnerLive, Start
  <2>3. CallerInv' BY <1>1 DEF Typing, WorkerInv, CallerInv, MainStates, WorkerStates, Busy, Holding, Start
  <2>4. LockInv' BY <1>1 DEF Typing, LockInv, Choosing, Start
  <2> QED BY <2>1, <2>2, <2>3, <2>4
<1>2. CASE WakeWorkers
  <2>1. Typing' BY <1>2 DEF Typing, MainStates, WorkerStates, Busy, WakeWorkers, NotifyAll
  <2>2. WorkerInv' BY <1>2 DEF Typing, WorkerInv, CallerInv, WorkerStates, Busy, Holding, RunnerLive, WakeWorkers, NotifyAll
  <2>3. CallerInv' BY <1>2 DEF Typing, WorkerInv, CallerInv, MainStates, WorkerStates, Busy, Holding, WakeWorkers, NotifyAll
  <2>4. LockInv' BY <1>2 DEF Typing, LockInv, Choosing, WakeWorkers, NotifyAll
  <2> QED BY <2>1, <2>2, <2>3, <2>4
<1>3. CASE CompletedDrain
  <2>1. Typing' BY <1>3 DEF Typing, MainStates, WorkerStates, Busy, CompletedDrain
  <2>2. WorkerInv' BY <1>3 DEF Typing, WorkerInv, CallerInv, WorkerStates, Busy, Holding, RunnerLive, CompletedDrain
  <2>3. CallerInv' BY <1>3 DEF Typing, WorkerInv, CallerInv, MainStates, WorkerStates, Busy, Holding, CompletedDrain
  <2>4. LockInv' BY <1>3 DEF Typing, LockInv, Choosing, CompletedDrain
  <2> QED BY <2>1, <2>2, <2>3, <2>4
<1>4. CASE VisibleTick
  <2>1. Typing' BY <1>4 DEF Typing, MainStates, WorkerStates, Busy, VisibleTick
  <2>2. WorkerInv' BY <1>4 DEF Typing, WorkerInv, CallerInv, WorkerStates, Busy, Holding, RunnerLive, VisibleTick
  <2>3. CallerInv' BY <1>4 DEF Typing, WorkerInv, CallerInv, MainStates, WorkerStates, Busy, Holding, VisibleTick
  <2>4. LockInv' BY <1>4 DEF Typing, LockInv, Choosing, VisibleTick
  <2> QED BY <2>1, <2>2, <2>3, <2>4
<1>5. CASE OverrideQueued
  <2>1. Typing' BY OverrideQueuedType, <1>5 DEF Typing, MainStates, WorkerStates, Busy, OverrideQueued
  <2>2. WorkerInv' BY <1>5 DEF Typing, WorkerInv, CallerInv, WorkerStates, Busy, Holding, RunnerLive, OverrideQueued
  <2>3. CallerInv' BY <1>5 DEF Typing, WorkerInv, CallerInv, MainStates, WorkerStates, Busy, Holding, OverrideQueued
  <2>4. LockInv' BY <1>5 DEF Typing, LockInv, Choosing, OverrideQueued
  <2> QED BY <2>1, <2>2, <2>3, <2>4
<1>6. CASE OverrideCapture
  <2>1. Typing' BY <1>6 DEF Typing, MainStates, WorkerStates, Busy, OverrideCapture
  <2>2. WorkerInv' BY <1>6 DEF Typing, WorkerInv, CallerInv, WorkerStates, Busy, Holding, RunnerLive, OverrideCapture
  <2>3. CallerInv' BY <1>6 DEF Typing, WorkerInv, CallerInv, MainStates, WorkerStates, Busy, Holding, OverrideCapture
  <2>4. LockInv' BY <1>6 DEF Typing, LockInv, Choosing, OverrideCapture
  <2> QED BY <2>1, <2>2, <2>3, <2>4
<1>7. CASE OverrideApply
  <2>1. Typing'
    <3>1. CASE target = None BY <1>7, <3>1 DEF OverrideApply, Typing, MainStates
    <3>2. CASE target # None
      <4>1. handleCfg' \in [Workers -> Configs]
        BY <1>7, <3>2 DEF OverrideApply, Typing
      <4>2. runnerCfg' \in [Workers -> Configs]
        <5>1. runnerCfg' = runnerCfg \/ runnerCfg' = [runnerCfg EXCEPT ![target] = override]
          BY <1>7, <3>2 DEF OverrideApply
        <5> QED BY <5>1 DEF Typing
      <4> QED BY <1>7, <4>1, <4>2 DEF OverrideApply, Typing, MainStates
    <3> QED BY <3>1, <3>2
  <2>2. WorkerInv' BY <1>7 DEF Typing, WorkerInv, CallerInv, WorkerStates, Busy, Holding, RunnerLive, OverrideApply
  <2>3. CallerInv' BY <1>7 DEF Typing, WorkerInv, CallerInv, MainStates, WorkerStates, Busy, Holding, OverrideApply
  <2>4. LockInv' BY <1>7 DEF Typing, LockInv, Choosing, OverrideApply
  <2> QED BY <2>1, <2>2, <2>3, <2>4
<1>8. CASE StopRequest
  <2>1. Typing' BY <1>8 DEF Typing, MainStates, WorkerStates, Busy, StopRequest
  <2>2. WorkerInv' BY <1>8 DEF Typing, WorkerInv, CallerInv, WorkerStates, Busy, Holding, RunnerLive, StopRequest
  <2>3. CallerInv' BY <1>8 DEF Typing, WorkerInv, CallerInv, MainStates, WorkerStates, Busy, Holding, StopRequest
  <2>4. LockInv' BY <1>8 DEF Typing, LockInv, Choosing, StopRequest
  <2> QED BY <2>1, <2>2, <2>3, <2>4
<1>9. CASE StopUnpause
  <2>1. Typing' BY <1>9 DEF Typing, MainStates, WorkerStates, Busy, StopUnpause, PauseLock, NotifyAllPause
  <2>2. WorkerInv' BY <1>9 DEF Typing, WorkerInv, CallerInv, WorkerStates, Busy, Holding, RunnerLive, StopUnpause, PauseLock, NotifyAllPause
  <2>3. CallerInv' BY <1>9 DEF Typing, WorkerInv, CallerInv, MainStates, WorkerStates, Busy, Holding, StopUnpause, PauseLock, NotifyAllPause
  <2>4. LockInv' BY <1>9 DEF Typing, LockInv, Choosing, StopUnpause, NotifyAllPause
  <2> QED BY <2>1, <2>2, <2>3, <2>4
<1>10. CASE StopNotify
  <2>1. Typing' BY <1>10 DEF Typing, MainStates, WorkerStates, Busy, StopNotify, NotifyAll
  <2>2. WorkerInv' BY <1>10 DEF Typing, WorkerInv, CallerInv, WorkerStates, Busy, Holding, RunnerLive, StopNotify, NotifyAll
  <2>3. CallerInv' BY <1>10 DEF Typing, WorkerInv, CallerInv, MainStates, WorkerStates, Busy, Holding, StopNotify, NotifyAll
  <2>4. LockInv' BY <1>10 DEF Typing, LockInv, Choosing, StopNotify, NotifyAll
  <2> QED BY <2>1, <2>2, <2>3, <2>4
<1>11. CASE StopJoined
  <2>1. Typing'
    <3>1. pc' \in [Workers -> WorkerStates] BY <1>11 DEF StopJoined, WorkerStates, Busy
    <3>2. completed' \in Seq(Tasks) /\ taskQueue' \in Seq(Queued) /\ resultQueue' \in Seq(Tasks)
      BY <1>11, EmptyQueues DEF StopJoined, Typing, ResultsCleared
    <3>3. allowedConcurrency' \in 0..Cardinality(Workers) /\ overrun' \in Nat BY <1>11 DEF StopJoined
    <3>4. mainPc' \in MainStates BY <1>11 DEF StopJoined, MainStates
    <3>5. stopRequested' \in BOOLEAN /\ paused' \in BOOLEAN BY <1>11 DEF StopJoined, Typing
    <3> QED BY SMTT(30), <1>11, <3>1, <3>2, <3>3, <3>4, <3>5 DEF StopJoined, Typing
  <2>2. WorkerInv' BY <1>11 DEF Typing, WorkerInv, CallerInv, WorkerStates, Busy, Holding, RunnerLive, StopJoined, ResultsCleared
  <2>3. CallerInv' BY <1>11 DEF Typing, WorkerInv, CallerInv, MainStates, WorkerStates, Busy, Holding, StopJoined, ResultsCleared
  <2>4. LockInv' BY <1>11 DEF Typing, LockInv, Choosing, StopJoined
  <2> QED BY <2>1, <2>2, <2>3, <2>4
<1>12. CASE \E p \in BOOLEAN : PauseSet(p)
  <2>1. Typing' BY <1>12 DEF Typing, MainStates, WorkerStates, Busy, PauseSet, PauseLock, NotifyAllPause
  <2>2. WorkerInv' BY <1>12 DEF Typing, WorkerInv, CallerInv, WorkerStates, Busy, Holding, RunnerLive, PauseSet, PauseLock, NotifyAllPause
  <2>3. CallerInv' BY <1>12 DEF Typing, WorkerInv, CallerInv, MainStates, WorkerStates, Busy, Holding, PauseSet, PauseLock, NotifyAllPause
  <2>4. LockInv' BY <1>12 DEF Typing, LockInv, Choosing, PauseSet, NotifyAllPause
  <2> QED BY <2>1, <2>2, <2>3, <2>4
<1>13. CASE \E k \in 1..Cardinality(Workers) : AllowedConcurrencySet(k)
  <2>1. Typing' BY SMTT(30), <1>13 DEF Typing, MainStates, WorkerStates, Busy, AllowedConcurrencySet
  <2>2. WorkerInv' BY <1>13 DEF Typing, WorkerInv, CallerInv, WorkerStates, Busy, Holding, RunnerLive, AllowedConcurrencySet
  <2>3. CallerInv' BY <1>13 DEF Typing, WorkerInv, CallerInv, MainStates, WorkerStates, Busy, Holding, AllowedConcurrencySet
  <2>4. LockInv' BY <1>13 DEF Typing, LockInv, Choosing, AllowedConcurrencySet
  <2> QED BY <2>1, <2>2, <2>3, <2>4
<1>14. CASE Submit
  <2>1. Typing'
    <3>1. PICK b \in Batches : GenerationBatchSubmit(b) \/ RobustnessPassSubmit(b)
      BY <1>14 DEF Submit
    <3> DEFINE q == [i \in DOMAIN b |-> QueuedEvaluation(b[i], override)]
    <3>2. q \in Seq(Queued) /\ Range(b) \subseteq Tasks BY BatchQueued DEF Typing
    <3>3. taskQueue \o q \in Seq(Queued) BY <3>2, ConcatProperties DEF Typing
    <3> HIDE DEF q
    <3>4. taskQueue' \in Seq(Queued) BY <3>1, <3>2, <3>3 DEF GenerationBatchSubmit, RobustnessPassSubmit, q
    <3> QED BY <3>1, <3>2, <3>4 DEF Typing, MainStates, GenerationBatchSubmit, RobustnessPassSubmit
  <2>2. WorkerInv' BY <1>14 DEF Typing, WorkerInv, CallerInv, WorkerStates, Busy, Holding, RunnerLive, Submit, GenerationBatchSubmit, RobustnessPassSubmit
  <2>3. CallerInv' BY <1>14 DEF Typing, WorkerInv, CallerInv, MainStates, WorkerStates, Busy, Holding, Submit, GenerationBatchSubmit, RobustnessPassSubmit
  <2>4. LockInv' BY <1>14 DEF Typing, LockInv, Choosing, Submit, GenerationBatchSubmit, RobustnessPassSubmit
  <2> QED BY <2>1, <2>2, <2>3, <2>4
<1> QED BY <1>1, <1>2, <1>3, <1>4, <1>5, <1>6, <1>7, <1>8, <1>9, <1>10, <1>11, <1>12, <1>13, <1>14 DEF Caller, Override, Stop

\* notify_one wakes at most one worker, and only one that waits.
LEMMA NotifyOneFacts ==
  ASSUME NEW f \in [Workers -> WorkerStates], NEW g \in NotifyOne(f)
  PROVE  /\ g \in [Workers -> WorkerStates]
         /\ \A v \in Workers : g[v] = f[v] \/ (f[v] = "waiting" /\ g[v] = "ready")
PROOF BY DEF NotifyOne, WorkerStates

\* Every step of a worker keeps the control invariant.
LEMMA ControlWorker ==
  ASSUME ControlInv, NEW w \in Workers, Worker(w) PROVE ControlInv'
PROOF
<1> USE ConfigFacts, WorkersFacts
<1> USE DEF ControlInv, poolVars, limitVars, flagVars, workVars, slotVars, callVars
<1>1. CASE WorkerTake(w)
  <2>1. Typing'
    <3>1. CASE stopRequested
      <4>1. /\ UNCHANGED <<mainPc, stopRequested, paused, asserted, pauseMutex, activeHandle, target,
                            taskQueue, activeEvaluations, allowedConcurrency, overrun, resultQueue,
                            completed, job, pass, handleCfg, runnerCfg, handleRunner, override,
                            outstanding>>
            /\ taskMutex' = None /\ limitRead' = 0 /\ pc' = [pc EXCEPT ![w] = "exited"]
        BY <1>1, <3>1 DEF WorkerTake
      <4>2. pc' \in [Workers -> WorkerStates] BY <4>1 DEF Typing, WorkerStates
      <4>3. limitRead' \in 0..Cardinality(Workers) BY <4>1
      <4> QED BY <4>1, <4>2, <4>3 DEF Typing
    <3>2. CASE ~stopRequested
      <4>1. Head(taskQueue) \in Queued /\ Tail(taskQueue) \in Seq(Queued)
        BY <1>1, HeadTailProperties DEF WorkerTake, Typing, LockInv, Choosing
      <4>2. /\ job' = [job EXCEPT ![w] = Head(taskQueue)] /\ taskQueue' = Tail(taskQueue)
            /\ activeEvaluations' = activeEvaluations + 1 /\ taskMutex' = None
            /\ pc' = [pc EXCEPT ![w] = "claim"]
            /\ limitRead' = 0 /\ (overrun' = overrun \/ overrun' = overrun + 1)
        BY <1>1, <3>2 DEF WorkerTake
      <4>3. job' \in [Workers -> Queued \cup {None}] BY <4>1, <4>2 DEF Typing
      <4>4. pc' \in [Workers -> WorkerStates] BY <4>2 DEF Typing, WorkerStates, Busy
      <4>5. limitRead' \in 0..Cardinality(Workers) /\ overrun' \in Nat BY <4>2 DEF Typing
      <4> QED BY SMTT(30), <1>1, <4>1, <4>2, <4>3, <4>4, <4>5 DEF WorkerTake, Typing
    <3> QED BY <3>1, <3>2
  <2>2. WorkerInv'
    <3>1. Head(taskQueue) \in Queued
      BY <1>1, HeadTailProperties DEF WorkerTake, Typing, LockInv, Choosing
    <3> QED BY SMTT(30), <1>1, <3>1, QueuedFacts
        DEF Typing, WorkerInv, CallerInv, WorkerStates, Busy, Holding, RunnerLive, WorkerTake
  <2>3. CallerInv' BY SMTT(30), <1>1 DEF Typing, WorkerInv, CallerInv, WorkerStates, Busy, Holding, WorkerTake
  <2>4. LockInv' BY <1>1 DEF Typing, LockInv, Choosing, WorkerTake
  <2> QED BY <2>1, <2>2, <2>3, <2>4
<1>2. CASE WorkerBlock(w)
  <2>1. Typing' BY <1>2 DEF Typing, WorkerInv, WorkerStates, Busy, Holding, WorkerBlock
  <2>2. WorkerInv' BY <1>2 DEF Typing, WorkerInv, CallerInv, WorkerStates, Busy, Holding, RunnerLive, WorkerBlock
  <2>3. CallerInv' BY <1>2 DEF Typing, WorkerInv, CallerInv, WorkerStates, Busy, Holding, WorkerBlock
  <2>4. LockInv' BY <1>2 DEF Typing, LockInv, Choosing, WorkerBlock
  <2> QED BY <2>1, <2>2, <2>3, <2>4
<1>3. CASE WorkerClaim(w)
  <2>1. Typing'
    <3>1. job[w] \in Queued BY <1>3 DEF WorkerClaim, WorkerInv, Typing, Busy, Holding
    <3>2. handleCfg' \in [Workers -> Configs] BY <1>3, <3>1, QueuedFacts DEF WorkerClaim, Typing
    <3>3. pass' \in [Workers -> 0..Passes]
      BY <1>3, ExecutorAssumption DEF WorkerClaim, Typing, ExecutorAssumption
    <3>4. pc' \in [Workers -> WorkerStates] BY <1>3 DEF WorkerClaim, Typing, WorkerStates, Busy
    <3> QED BY <1>3, <3>2, <3>3, <3>4 DEF WorkerClaim, Typing
  <2>2. WorkerInv'
    <3>1. 0 < Passes BY ExecutorAssumption DEF ExecutorAssumption
    <3> QED BY <1>3, <3>1 DEF Typing, WorkerInv, Busy, Holding, RunnerLive, WorkerClaim
  <2>3. CallerInv' BY <1>3 DEF Typing, WorkerInv, CallerInv, WorkerStates, Busy, Holding, WorkerClaim
  <2>4. LockInv' BY <1>3 DEF Typing, LockInv, Choosing, WorkerClaim
  <2> QED BY <2>1, <2>2, <2>3, <2>4
<1>4. CASE WorkerSnapshot(w)
  <2>1. Typing' BY QueuedFacts, <1>4 DEF Typing, WorkerInv, WorkerStates, Busy, Holding, WorkerSnapshot, SnapshotConfig
  <2>2. WorkerInv' BY QueuedFacts, <1>4 DEF Typing, WorkerInv, CallerInv, WorkerStates, Busy, Holding, RunnerLive, WorkerSnapshot, SnapshotConfig
  <2>3. CallerInv' BY <1>4 DEF Typing, WorkerInv, CallerInv, WorkerStates, Busy, Holding, WorkerSnapshot, SnapshotConfig
  <2>4. LockInv' BY <1>4 DEF Typing, LockInv, Choosing, WorkerSnapshot
  <2> QED BY <2>1, <2>2, <2>3, <2>4
<1>5. CASE WorkerPublish(w)
  <2>1. Typing' BY <1>5 DEF Typing, WorkerInv, WorkerStates, Busy, Holding, WorkerPublish
  <2>2. WorkerInv' BY <1>5 DEF Typing, WorkerInv, CallerInv, WorkerStates, Busy, Holding, RunnerLive, WorkerPublish
  <2>3. CallerInv' BY <1>5 DEF Typing, WorkerInv, CallerInv, WorkerStates, Busy, Holding, WorkerPublish
  <2>4. LockInv' BY <1>5 DEF Typing, LockInv, Choosing, WorkerPublish
  <2> QED BY <2>1, <2>2, <2>3, <2>4
<1>6. CASE WorkerGate(w)
  <2>1. Typing' BY <1>6 DEF Typing, WorkerInv, WorkerStates, Busy, Holding, WorkerGate
  <2>2. WorkerInv' BY SMTT(30), <1>6 DEF Typing, WorkerInv, CallerInv, WorkerStates, Busy, Holding, RunnerLive, WorkerGate
  <2>3. CallerInv' BY <1>6 DEF Typing, WorkerInv, CallerInv, WorkerStates, Busy, Holding, WorkerGate
  <2>4. LockInv' BY <1>6 DEF Typing, LockInv, Choosing, WorkerGate
  <2> QED BY <2>1, <2>2, <2>3, <2>4
<1>7. CASE WorkerPark(w)
  <2>1. Typing' BY <1>7 DEF Typing, WorkerInv, WorkerStates, Busy, Holding, WorkerPark
  <2>2. WorkerInv' BY <1>7 DEF Typing, WorkerInv, CallerInv, WorkerStates, Busy, Holding, RunnerLive, WorkerPark
  <2>3. CallerInv' BY <1>7 DEF Typing, WorkerInv, CallerInv, WorkerStates, Busy, Holding, WorkerPark
  <2>4. LockInv' BY <1>7 DEF Typing, LockInv, Choosing, WorkerPark
  <2> QED BY <2>1, <2>2, <2>3, <2>4
<1>8. CASE \E ended \in BOOLEAN : WorkerStep(w, ended)
  <2>1. Typing'
    <3>1. pc' \in [Workers -> WorkerStates] BY <1>8 DEF WorkerStep, Typing, WorkerStates, Busy
    <3> QED BY <1>8, <3>1 DEF WorkerStep, Typing
  <2>2. WorkerInv' BY <1>8 DEF Typing, WorkerInv, CallerInv, WorkerStates, Busy, Holding, RunnerLive, WorkerStep
  <2>3. CallerInv' BY <1>8 DEF Typing, WorkerInv, CallerInv, WorkerStates, Busy, Holding, WorkerStep
  <2>4. LockInv' BY <1>8 DEF Typing, LockInv, Choosing, WorkerStep
  <2> QED BY <2>1, <2>2, <2>3, <2>4
<1>9. CASE WorkerPassEnd(w)
  <2>1. Typing'
    <3>1. pass[w] \in 0..Passes /\ pass[w] < Passes
      BY <1>9 DEF WorkerPassEnd, WorkerInv, Typing, Busy, Holding
    <3>2. pass' \in [Workers -> 0..Passes]
      <4>1. pass[w] + 1 \in 0..Passes BY <3>1, ExecutorAssumption DEF ExecutorAssumption
      <4> QED BY ZenonT(40), <1>9, <4>1 DEF WorkerPassEnd, Typing
    <3>3. pc' \in [Workers -> WorkerStates] BY <1>9 DEF WorkerPassEnd, Typing, WorkerStates, Busy
    <3>4. job' \in [Workers -> Queued \cup {None}] BY <1>9 DEF WorkerPassEnd, Typing
    <3>5. activeHandle' \in Workers \cup {None} /\ target' \in Workers \cup {None}
      BY <1>9 DEF WorkerPassEnd, ReleaseHandle, Typing
    <3> QED BY <1>9, <3>2, <3>3, <3>4, <3>5 DEF WorkerPassEnd, PointerWithdrawn, Typing
  <2>2. WorkerInv'
    <3>1. CASE stopRequested
      BY <1>9, <3>1 DEF Typing, WorkerInv, Busy, Holding, RunnerLive, WorkerPassEnd,
                        PointerWithdrawn, ReleaseHandle
    <3>2. CASE ~stopRequested
      <4>1. pass[w] \in Nat /\ Passes \in Nat
        BY ExecutorAssumption DEF Typing, ExecutorAssumption
      <4>2. pc' = [pc EXCEPT ![w] = IF pass[w] + 1 < Passes THEN "snapshot" ELSE "finish"]
            /\ pass' = [pass EXCEPT ![w] = pass[w] + 1]
            /\ UNCHANGED <<job, activeHandle>> /\ handleRunner' = handleRunner \ {w}
            /\ pc[w] = "unpublish"
        BY <1>9, <3>2 DEF WorkerPassEnd, PointerWithdrawn
      <4> QED BY <4>1, <4>2 DEF Typing, WorkerInv, Busy, Holding, RunnerLive
    <3> QED BY <3>1, <3>2
  <2>3. CallerInv' BY <1>9 DEF Typing, WorkerInv, CallerInv, WorkerStates, Busy, Holding, WorkerPassEnd, PointerWithdrawn, ReleaseHandle
  <2>4. LockInv' BY SMTT(30), <1>9 DEF Typing, LockInv, Choosing, WorkerPassEnd
  <2> QED BY <2>1, <2>2, <2>3, <2>4
<1>10. CASE WorkerFinish(w)
  <2>1. Typing'
    <3>1. job[w] \in Queued BY <1>10 DEF WorkerFinish, WorkerInv, Typing, Busy, Holding
    <3>2. Append(completed, job[w].task) \in Seq(Tasks)
      BY <3>1, QueuedFacts, AppendProperties DEF Typing
    <3>3. completed' \in Seq(Tasks) BY <1>10, <3>2 DEF WorkerFinish, Typing
    <3>4. pc' \in [Workers -> WorkerStates] BY <1>10 DEF WorkerFinish, Typing, WorkerStates, Busy
    <3>5. job' \in [Workers -> Queued \cup {None}]
      BY <1>10 DEF WorkerFinish, PreviewKeepsNothing, Typing
    <3>6. activeHandle' \in Workers \cup {None} /\ target' \in Workers \cup {None}
      BY <1>10 DEF WorkerFinish, ReleaseHandle, Typing
    <3> QED BY <1>10, <3>3, <3>4, <3>5, <3>6 DEF WorkerFinish, Typing
  <2>2. WorkerInv' BY SMTT(30), QueuedFacts, AppendProperties, <1>10 DEF Typing, WorkerInv, CallerInv, WorkerStates, Busy, Holding, RunnerLive, WorkerFinish, PreviewKeepsNothing, ReleaseHandle
  <2>3. CallerInv' BY <1>10 DEF Typing, WorkerInv, CallerInv, WorkerStates, Busy, Holding, WorkerFinish, PreviewKeepsNothing, ReleaseHandle
  <2>4. LockInv' BY <1>10 DEF Typing, LockInv, Choosing, WorkerFinish
  <2> QED BY <2>1, <2>2, <2>3, <2>4
<1>11. CASE WorkerNotify(w)
  <2>1. /\ pc' \in [Workers -> WorkerStates]
        /\ pc'[w] = "deliver"
        /\ \A v \in Workers \ {w} : pc'[v] = pc[v] \/ (pc[v] = "waiting" /\ pc'[v] = "ready")
    <3> DEFINE f == [pc EXCEPT ![w] = "deliver"]
    <3>1. f \in [Workers -> WorkerStates] BY DEF Typing, WorkerStates
    <3>2. pc' \in NotifyOne(f) BY <1>11 DEF WorkerNotify
    <3> HIDE DEF f
    <3>3. /\ pc' \in [Workers -> WorkerStates]
          /\ \A v \in Workers : pc'[v] = f[v] \/ (f[v] = "waiting" /\ pc'[v] = "ready")
      BY <3>1, <3>2, NotifyOneFacts
    <3> QED BY <3>3 DEF f, Typing
  <2>2. Typing' BY <1>11, <2>1 DEF Typing, WorkerNotify
  <2>3. WorkerInv' BY ZenonT(40), <1>11, <2>1 DEF Typing, WorkerInv, Busy, Holding, RunnerLive, WorkerNotify
  <2>4. CallerInv' BY <1>11, <2>1 DEF Typing, WorkerInv, CallerInv, WorkerNotify
  <2>5. LockInv' BY <1>11, <2>1 DEF Typing, LockInv, Choosing, WorkerNotify
  <2> QED BY <2>2, <2>3, <2>4, <2>5
<1>12. CASE WorkerDeliver(w)
  <2>1. Typing'
    <3>1. resultQueue' \in Seq(Tasks)
      BY <1>12, QueuedFacts, AppendProperties DEF WorkerDeliver, Typing
    <3>2. pc' \in [Workers -> WorkerStates] BY <1>12 DEF WorkerDeliver, Typing, WorkerStates
    <3>3. job' \in [Workers -> Queued \cup {None}] BY <1>12 DEF WorkerDeliver, Typing
    <3> QED BY <1>12, <3>1, <3>2, <3>3 DEF WorkerDeliver, Typing
  <2>2. WorkerInv' BY SMTT(30), <1>12 DEF Typing, WorkerInv, Busy, Holding, RunnerLive, WorkerDeliver
  <2>3. CallerInv' BY <1>12 DEF Typing, WorkerInv, CallerInv, WorkerStates, Busy, Holding, WorkerDeliver
  <2>4. LockInv' BY <1>12 DEF Typing, LockInv, Choosing, WorkerDeliver
  <2> QED BY <2>1, <2>2, <2>3, <2>4
<1>13. CASE WorkerPredicate(w)
  <2>1. Typing' BY <1>13 DEF Typing, WorkerStates, Busy, WorkerPredicate
  <2>2. WorkerInv' BY SMTT(30), <1>13 DEF Typing, WorkerInv, Busy, Holding, RunnerLive, WorkerPredicate
  <2>3. CallerInv' BY <1>13 DEF Typing, WorkerInv, CallerInv, WorkerStates, Busy, Holding, WorkerPredicate
  <2>4. LockInv' BY <1>13 DEF Typing, LockInv, Choosing, WorkerPredicate
  <2> QED BY <2>1, <2>2, <2>3, <2>4
<1>14. CASE WorkerCompare(w)
  <2>1. Typing' BY <1>14 DEF Typing, WorkerStates, Busy, WorkerCompare
  <2>2. WorkerInv' BY <1>14 DEF Typing, WorkerInv, Busy, Holding, RunnerLive, WorkerCompare
  <2>3. CallerInv' BY <1>14 DEF Typing, WorkerInv, CallerInv, WorkerStates, Busy, Holding, WorkerCompare
  <2>4. LockInv' BY <1>14 DEF Typing, LockInv, Choosing, WorkerCompare
  <2> QED BY <2>1, <2>2, <2>3, <2>4
<1>15. CASE WorkerRetire(w)
  <2>1. Typing' BY SMTT(30), <1>15 DEF Typing, WorkerStates, Busy, WorkerRetire, CountRetired
  <2>2. WorkerInv' BY <1>15 DEF Typing, WorkerInv, Busy, Holding, RunnerLive, WorkerRetire
  <2>3. CallerInv' BY <1>15 DEF Typing, WorkerInv, CallerInv, WorkerStates, Busy, Holding, WorkerRetire
  <2>4. LockInv' BY <1>15 DEF Typing, LockInv, Choosing, WorkerRetire
  <2> QED BY <2>1, <2>2, <2>3, <2>4
<1> QED BY <1>1, <1>2, <1>3, <1>4, <1>5, <1>6, <1>7, <1>8, <1>9, <1>10, <1>11, <1>12, <1>13, <1>14,
           <1>15 DEF Worker

LEMMA ControlStutter ==
  ASSUME ControlInv, UNCHANGED vars PROVE ControlInv'
PROOF BY DEF ControlInv, Typing, WorkerInv, CallerInv, LockInv, vars, poolVars, limitVars, flagVars,
             workVars, slotVars, callVars

LEMMA ControlInvariant == Spec => []ControlInv
PROOF
<1>1. Init => ControlInv BY ControlInit
<1>2. ControlInv /\ [Next]_vars => ControlInv'
  BY ControlCaller, ControlWorker, ControlStutter DEF Next
<1> QED BY <1>1, <1>2, PTL DEF Spec

(***************************************************************************)
(* The count of running evaluations.                                       *)
(***************************************************************************)

\* The atomic counter, though decremented outside taskMutex, is the number of
\* workers between taking a task and retiring it.
CountInv == activeEvaluations = Cardinality(Running)

LEMMA RunningFinite ==
  ASSUME Typing
  PROVE  IsFiniteSet(Running) /\ Cardinality(Running) \in 0..Cardinality(Workers)
PROOF
<1>1. Running \in SUBSET Workers BY DEF Running
<1> QED BY <1>1, ExecutorAssumption, FS_Subset, FS_CardinalityType DEF ExecutorAssumption

\* A step starts one evaluation (of the worker whose predicate held), retires one,
\* resets the pool, or leaves the running evaluations alone.
LEMMA RunningStep ==
  ASSUME ControlInv, [Next]_vars
  PROVE  \/ \E w \in Workers \ Running :
              /\ Running' = Running \cup {w} /\ activeEvaluations' = activeEvaluations + 1
              /\ pc[w] = "taking"
         \/ \E w \in Running :
              Running' = Running \ {w} /\ activeEvaluations' = activeEvaluations - 1
         \/ Running' = {} /\ activeEvaluations' = 0
         \/ Running' = Running /\ activeEvaluations' = activeEvaluations
PROOF
<1> USE DEF ControlInv, Typing, poolVars, limitVars, flagVars, workVars, slotVars, callVars
<1>1. CASE Start \/ StopJoined BY <1>1 DEF Start, StopJoined, Running, Busy
<1>2. CASE WakeWorkers \/ StopNotify
  BY <1>2 DEF WakeWorkers, StopNotify, NotifyAll, Running, Busy
<1>3. CASE StopUnpause \/ \E p \in BOOLEAN : PauseSet(p)
  BY <1>3 DEF StopUnpause, PauseSet, NotifyAllPause, Running, Busy
<1>4. CASE CompletedDrain \/ VisibleTick \/ StopRequest \/ Override \/ Submit
           \/ \E n \in 1..Cardinality(Workers) : AllowedConcurrencySet(n)
  BY <1>4 DEF CompletedDrain, VisibleTick, StopRequest, Override, OverrideQueued, OverrideCapture,
              OverrideApply, Submit, GenerationBatchSubmit, RobustnessPassSubmit,
              AllowedConcurrencySet, Running
<1>5. CASE UNCHANGED vars BY <1>5 DEF vars, Running
<1>6. ASSUME NEW w \in Workers, WorkerTake(w)
      PROVE  \/ /\ w \notin Running /\ Running' = Running \cup {w}
                /\ activeEvaluations' = activeEvaluations + 1
                /\ pc[w] = "taking"
             \/ Running' = Running /\ activeEvaluations' = activeEvaluations
  BY <1>6 DEF WorkerTake, Running, Busy
<1>7. ASSUME NEW w \in Workers, WorkerRetire(w)
      PROVE  w \in Running /\ Running' = Running \ {w} /\ activeEvaluations' = activeEvaluations - 1
  BY <1>7 DEF WorkerRetire, CountRetired, Running, Busy
<1>8. ASSUME NEW w \in Workers, Worker(w), ~WorkerTake(w), ~WorkerRetire(w)
      PROVE  Running' = Running /\ activeEvaluations' = activeEvaluations
  BY SMTT(30), <1>8 DEF Worker, WorkerPredicate, WorkerCompare, WorkerBlock, WorkerClaim, WorkerSnapshot,
              WorkerPublish, WorkerGate, WorkerPark, WorkerStep, WorkerPassEnd, WorkerFinish,
              WorkerNotify, NotifyOne, WorkerDeliver, Running, Busy
<1> QED BY <1>1, <1>2, <1>3, <1>4, <1>5, <1>6, <1>7, <1>8 DEF Next, Caller, Stop, Worker

LEMMA CountInvariant == Spec => []CountInv
PROOF
<1>1. Init => CountInv
  <2>1. Init => Running = {} BY DEF Init, Running, Busy
  <2> QED BY <2>1, FS_EmptySet DEF Init, CountInv
<1>2. ControlInv /\ CountInv /\ [Next]_vars => CountInv'
  <2> SUFFICES ASSUME ControlInv, CountInv, [Next]_vars PROVE CountInv' OBVIOUS
  <2>1. IsFiniteSet(Running) /\ Cardinality(Running) \in Int BY RunningFinite DEF ControlInv
  <2>2. CASE \E w \in Workers \ Running :
               Running' = Running \cup {w} /\ activeEvaluations' = activeEvaluations + 1
    BY <2>1, <2>2, FS_AddElement DEF CountInv
  <2>3. CASE \E w \in Running :
               Running' = Running \ {w} /\ activeEvaluations' = activeEvaluations - 1
    BY <2>1, <2>3, FS_RemoveElement DEF CountInv
  <2>4. CASE Running' = {} /\ activeEvaluations' = 0 BY <2>4, FS_EmptySet DEF CountInv
  <2>5. CASE Running' = Running /\ activeEvaluations' = activeEvaluations BY <2>5 DEF CountInv
  <2> QED BY <2>2, <2>3, <2>4, <2>5, RunningStep
<1> QED BY <1>1, <1>2, ControlInvariant, PTL DEF Spec

\* Type correctness, for any pool: in particular the counter of running
\* evaluations never leaves 0..the number of workers.
THEOREM TypeCorrect == Spec => []TypeOK
PROOF
<1>1. ControlInv /\ CountInv => TypeOK
  BY RunningFinite DEF ControlInv, Typing, CountInv, TypeOK
<1> QED BY <1>1, ControlInvariant, CountInvariant, PTL

\* scenarioConfigOverrideSet never reaches a TrainingRunner that is gone.
THEOREM RunnerPointerSafe == Spec => []NoDanglingRunner
PROOF
<1>1. ControlInv => NoDanglingRunner
  BY DEF ControlInv, Typing, WorkerInv, CallerInv, NoDanglingRunner
<1> QED BY <1>1, ControlInvariant, PTL

\* The limit a worker read still covers it when it is about to count itself, because
\* without taskMutex the count can only fall; and once a start has exceeded a lowered
\* limit, every worker past the load has read the limit in force.
LimitInv ==
  /\ \A w \in Workers : pc[w] = "taking" => activeEvaluations < limitRead
  /\ overrun \in {0, 1}
  /\ overrun = 1 => \A w \in Workers : pc[w] \in Choosing => limitRead = allowedConcurrency

LEMMA LimitCaller ==
  ASSUME ControlInv, LimitInv, Caller PROVE LimitInv'
PROOF
<1> USE DEF ControlInv, Typing, poolVars, limitVars, flagVars, workVars, slotVars, callVars, Choosing
<1>1. CASE Start \/ StopJoined BY <1>1 DEF Start, StopJoined, LimitInv
<1>2. CASE WakeWorkers \/ StopNotify BY <1>2 DEF WakeWorkers, StopNotify, NotifyAll, LimitInv
<1>3. CASE StopUnpause \/ \E p \in BOOLEAN : PauseSet(p)
  BY <1>3 DEF StopUnpause, PauseSet, NotifyAllPause, LimitInv
<1>4. CASE \E n \in 1..Cardinality(Workers) : AllowedConcurrencySet(n)
  BY <1>4 DEF AllowedConcurrencySet, LimitInv
<1>5. CASE CompletedDrain \/ VisibleTick \/ StopRequest \/ Override \/ Submit
  <2>1. UNCHANGED <<pc, activeEvaluations, allowedConcurrency, limitRead, overrun>>
    BY <1>5 DEF CompletedDrain, VisibleTick, StopRequest, Override, OverrideQueued, OverrideCapture,
                OverrideApply, Submit, GenerationBatchSubmit, RobustnessPassSubmit
  <2> QED BY <2>1 DEF LimitInv
<1> QED BY <1>1, <1>2, <1>3, <1>4, <1>5 DEF Caller, Stop

LEMMA LimitWorker ==
  ASSUME ControlInv, LimitInv, NEW w \in Workers, Worker(w) PROVE LimitInv'
PROOF
<1> USE DEF ControlInv, Typing, poolVars, limitVars, flagVars, workVars, slotVars, callVars, Choosing
<1>1. CASE WorkerPredicate(w)
  <2>1. \A v \in Workers : pc[v] \notin Choosing BY <1>1, WorkersFacts DEF WorkerPredicate, LockInv
  <2>2. \A v \in Workers : pc'[v] \in Choosing => v = w /\ pc'[v] = "comparing" /\ limitRead' = allowedConcurrency
    BY <1>1, <2>1 DEF WorkerPredicate
  <2>3. UNCHANGED <<overrun, allowedConcurrency>> BY <1>1 DEF WorkerPredicate
  <2> QED BY <2>2, <2>3 DEF LimitInv
<1>2. CASE WorkerCompare(w) BY <1>2 DEF WorkerCompare, SlotFree, LockInv, LimitInv
<1>3. CASE WorkerTake(w)
  <2>1. \A v \in Workers : pc'[v] \notin Choosing BY <1>3 DEF WorkerTake, LockInv
  <2>2. activeEvaluations < limitRead BY <1>3 DEF WorkerTake, LimitInv
  <2>3. overrun' \in {0, 1} BY <1>3, <2>2 DEF WorkerTake, LimitInv
  <2> QED BY <2>1, <2>3 DEF LimitInv
<1>4. CASE WorkerRetire(w) BY <1>4 DEF WorkerRetire, CountRetired, LimitInv
<1>5. CASE WorkerNotify(w)
  <2>1. pc' \in [Workers -> WorkerStates]
        /\ \A v \in Workers : pc'[v] = pc[v] \/ pc'[v] \in {"deliver", "ready"}
    <3> DEFINE f == [pc EXCEPT ![w] = "deliver"]
    <3>1. f \in [Workers -> WorkerStates] BY DEF WorkerStates
    <3>2. pc' \in NotifyOne(f) BY <1>5 DEF WorkerNotify
    <3>3. \A v \in Workers : f[v] = pc[v] \/ f[v] = "deliver" OBVIOUS
    <3> HIDE DEF f
    <3> QED BY <3>1, <3>2, <3>3, NotifyOneFacts
  <2>2. UNCHANGED <<activeEvaluations, allowedConcurrency, limitRead, overrun>>
    BY <1>5 DEF WorkerNotify
  <2> QED BY <2>1, <2>2 DEF LimitInv
<1>6. CASE \/ WorkerBlock(w) \/ WorkerClaim(w) \/ WorkerSnapshot(w) \/ WorkerPublish(w) \/ WorkerGate(w)
           \/ WorkerPark(w) \/ (\E ended \in BOOLEAN : WorkerStep(w, ended)) \/ WorkerPassEnd(w)
           \/ WorkerFinish(w) \/ WorkerDeliver(w)
  <2>1. UNCHANGED <<activeEvaluations, allowedConcurrency, limitRead, overrun>>
        /\ \A v \in Workers : pc'[v] = pc[v] \/ pc'[v] \notin Choosing
    BY <1>6 DEF WorkerBlock, WorkerClaim, WorkerSnapshot, WorkerPublish, WorkerGate, WorkerPark,
                WorkerStep, WorkerPassEnd, WorkerFinish, WorkerDeliver
  <2> QED BY <2>1 DEF LimitInv
<1> QED BY <1>1, <1>2, <1>3, <1>4, <1>5, <1>6 DEF Worker

LEMMA LimitInvariant == Spec => []LimitInv
PROOF
<1>1. Init => LimitInv BY DEF Init, LimitInv, Choosing
<1>2. ControlInv /\ LimitInv /\ [Next]_vars => LimitInv'
  <2> SUFFICES ASSUME ControlInv, LimitInv, [Next]_vars PROVE LimitInv' OBVIOUS
  <2>1. CASE UNCHANGED vars BY <2>1 DEF LimitInv, vars, poolVars, limitVars
  <2> QED BY <2>1, LimitCaller, LimitWorker DEF Next
<1> QED BY <1>1, <1>2, ControlInvariant, PTL DEF Spec

\* Starting an evaluation never takes their number over the limit its worker read, and
\* at most one start exceeds a limit that allowedConcurrencySet has lowered meanwhile.
THEOREM LimitKept == Spec => ConcurrencyRespected
PROOF
<1>1. ControlInv /\ CountInv /\ LimitInv /\ LimitInv' /\ [Next]_vars
        => [Running' \ Running # {} => Cardinality(Running') <= limitRead /\ overrun' <= 1]_vars
  <2> SUFFICES ASSUME ControlInv, CountInv, LimitInv, LimitInv', [Next]_vars, Running' \ Running # {}
               PROVE  Cardinality(Running') <= limitRead /\ overrun' <= 1
    OBVIOUS
  <2>1. PICK w \in Workers \ Running : Running' = Running \cup {w} /\ pc[w] = "taking"
    BY RunningStep
  <2>2. activeEvaluations < limitRead BY <2>1 DEF LimitInv
  <2>3. Cardinality(Running') = Cardinality(Running) + 1
    BY <2>1, RunningFinite, FS_AddElement DEF ControlInv
  <2>4. overrun' <= 1 BY DEF LimitInv
  <2> QED BY <2>2, <2>3, <2>4, RunningFinite, WorkersFacts DEF CountInv, ControlInv, Typing
<1> QED BY <1>1, ControlInvariant, CountInvariant, LimitInvariant, PTL DEF Spec, ConcurrencyRespected

(***************************************************************************)
(* Every evaluation is in one place.                                       *)
(***************************************************************************)

\* ExactlyOnce is inductive together with the control invariant and the fact that
\* a stopped executor owes its caller nothing.
OnceInv == ExactlyOnce /\ (mainPc = "off" => outstanding = {})

HolderSet(j) == {w \in Workers : j[w] # None}
HeldBy(j) == {j[w].task : w \in HolderSet(j)}
OneHolderEach(j) == \A v, w \in HolderSet(j) : j[v].task = j[w].task => v = w

LEMMA EmptyRanges ==
  /\ Range(<<>>) = {} /\ IsInjective(<<>>)
  /\ Range(TasksOf(<<>>)) = {} /\ IsInjective(TasksOf(<<>>))
PROOF BY DEF Range, IsInjective, TasksOf

LEMMA EmptyWhenRangeEmpty ==
  ASSUME NEW q \in Seq(Queued), Range(TasksOf(q)) = {} PROVE q = <<>>
PROOF
<1> SUFFICES ASSUME q # <<>> PROVE FALSE OBVIOUS
<1>1. 1 \in DOMAIN q BY EmptySeq, LenProperties
<1>2. q[1].task \in Range(TasksOf(q)) BY <1>1 DEF Range, TasksOf
<1> QED BY <1>2

LEMMA AppendOnce ==
  ASSUME NEW s \in Seq(Tasks), NEW t \in Tasks
  PROVE  /\ Range(Append(s, t)) = Range(s) \cup {t}
         /\ IsInjective(s) /\ t \notin Range(s) => IsInjective(Append(s, t))
PROOF
<1>1. /\ Append(s, t) \in Seq(Tasks) /\ Len(Append(s, t)) = Len(s) + 1 /\ Len(s) \in Nat
      /\ \A i \in 1..Len(s) : Append(s, t)[i] = s[i]
      /\ Append(s, t)[Len(s) + 1] = t
  BY AppendProperties, LenProperties
<1>2. DOMAIN Append(s, t) = 1..(Len(s) + 1) /\ DOMAIN s = 1..Len(s)
  BY <1>1, LenProperties
<1> QED BY <1>1, <1>2 DEF Range, IsInjective

LEMMA TakeHead ==
  ASSUME NEW q \in Seq(Queued), q # <<>>, IsInjective(TasksOf(q))
  PROVE  /\ Head(q) \in Queued
         /\ Head(q).task \in Range(TasksOf(q))
         /\ Range(TasksOf(Tail(q))) = Range(TasksOf(q)) \ {Head(q).task}
         /\ IsInjective(TasksOf(Tail(q)))
PROOF
<1>1. /\ Head(q) \in Queued /\ Head(q) = q[1] /\ Len(q) \in Nat \ {0}
      /\ Tail(q) \in Seq(Queued) /\ Len(Tail(q)) = Len(q) - 1
      /\ \A i \in 1..Len(Tail(q)) : Tail(q)[i] = q[i + 1]
  BY HeadTailProperties, EmptySeq
<1>2. DOMAIN q = 1..Len(q) /\ DOMAIN Tail(q) = 1..(Len(q) - 1)
  BY <1>1, LenProperties
<1>3. Head(q).task = TasksOf(q)[1] BY <1>1, <1>2 DEF TasksOf
<1>4. \A i \in 1..(Len(q) - 1) : TasksOf(Tail(q))[i] = TasksOf(q)[i + 1]
  BY <1>1, <1>2 DEF TasksOf
<1>5. DOMAIN TasksOf(q) = 1..Len(q) /\ DOMAIN TasksOf(Tail(q)) = 1..(Len(q) - 1)
  BY <1>2 DEF TasksOf
<1>6. \A k \in 2..Len(q) : k - 1 \in 1..(Len(q) - 1) /\ TasksOf(Tail(q))[k - 1] = TasksOf(q)[k]
  BY <1>1, <1>4
<1>7. IsInjective(TasksOf(Tail(q))) BY SMTT(30), <1>1, <1>4, <1>5 DEF IsInjective
<1>8. Range(TasksOf(Tail(q))) \subseteq Range(TasksOf(q)) \ {Head(q).task}
  BY <1>1, <1>3, <1>4, <1>5 DEF Range, IsInjective
<1>9. Range(TasksOf(q)) \ {Head(q).task} \subseteq Range(TasksOf(Tail(q)))
  BY <1>1, <1>3, <1>5, <1>6 DEF Range
<1>10. Head(q).task \in Range(TasksOf(q)) BY <1>1, <1>3, <1>5 DEF Range
<1> QED BY <1>1, <1>7, <1>8, <1>9, <1>10

LEMMA BatchTasks ==
  ASSUME NEW b \in Batches, NEW c \in Configs
  PROVE  LET q == [i \in DOMAIN b |-> QueuedEvaluation(b[i], c)]
         IN  Range(TasksOf(q)) = Range(b) /\ IsInjective(TasksOf(q))
PROOF
<1> DEFINE q == [i \in DOMAIN b |-> QueuedEvaluation(b[i], c)]
<1>1. DOMAIN TasksOf(q) = DOMAIN b /\ \A i \in DOMAIN b : TasksOf(q)[i] = b[i]
  BY DEF TasksOf, QueuedEvaluation
<1>2. IsInjective(b) BY ExecutorAssumption DEF ExecutorAssumption
<1> QED BY <1>1, <1>2 DEF Range, IsInjective

LEMMA OverrideTasks ==
  ASSUME NEW q \in Seq(Queued), NEW c
  PROVE  TasksOf(WithOverride(q, c)) = TasksOf(q)
PROOF
<1>1. \A i \in DOMAIN q : q[i] \in Queued BY LenProperties
<1> QED BY <1>1 DEF TasksOf, WithOverride, Queued

LEMMA HoldMore ==
  ASSUME NEW j \in [Workers -> Queued \cup {None}], NEW w \in Workers, j[w] = None,
         NEW q \in Queued
  PROVE  /\ HeldBy([j EXCEPT ![w] = q]) = HeldBy(j) \cup {q.task}
         /\ OneHolderEach(j) /\ q.task \notin HeldBy(j) => OneHolderEach([j EXCEPT ![w] = q])
PROOF BY QueuedFacts DEF HeldBy, HolderSet, OneHolderEach

LEMMA HoldLess ==
  ASSUME NEW j \in [Workers -> Queued \cup {None}], NEW w \in Workers, OneHolderEach(j)
  PROVE  /\ OneHolderEach([j EXCEPT ![w] = None])
         /\ HeldBy([j EXCEPT ![w] = None]) \subseteq HeldBy(j)
         /\ j[w] # None => /\ HeldBy([j EXCEPT ![w] = None]) = HeldBy(j) \ {j[w].task}
                           /\ j[w].task \in HeldBy(j)
         /\ j[w] = None => HeldBy([j EXCEPT ![w] = None]) = HeldBy(j)
PROOF BY DEF HeldBy, HolderSet, OneHolderEach

LEMMA HeldIsHeldBy ==
  Held = HeldBy(job) /\ ((\A v, w \in Holders : job[v].task = job[w].task => v = w) <=> OneHolderEach(job))
PROOF BY DEF Held, Holders, HeldBy, HolderSet, OneHolderEach

\* ExactlyOnce, with what is queued, held and delivered written out.
LEMMA OnceParts ==
  ExactlyOnce <=>
    /\ IsInjective(TasksOf(taskQueue)) /\ IsInjective(resultQueue) /\ IsInjective(completed)
    /\ OneHolderEach(job)
    /\ Range(TasksOf(taskQueue)) \cap HeldBy(job) = {}
    /\ Range(TasksOf(taskQueue)) \cap Range(resultQueue) = {}
    /\ Range(TasksOf(taskQueue)) \cap Range(completed) = {}
    /\ HeldBy(job) \cap Range(resultQueue) = {} /\ HeldBy(job) \cap Range(completed) = {}
    /\ Range(resultQueue) \cap Range(completed) = {}
    /\ Range(TasksOf(taskQueue)) \subseteq outstanding /\ HeldBy(job) \subseteq outstanding
    /\ Range(resultQueue) \subseteq outstanding /\ Range(completed) \subseteq outstanding
    /\ ~stopRequested => outstanding \subseteq Range(TasksOf(taskQueue)) \cup HeldBy(job)
                                            \cup Range(resultQueue) \cup Range(completed)
PROOF BY HeldIsHeldBy DEF ExactlyOnce, Delivered

LEMMA OncePartsPrimed ==
  ExactlyOnce' <=>
    /\ IsInjective(TasksOf(taskQueue')) /\ IsInjective(resultQueue') /\ IsInjective(completed')
    /\ OneHolderEach(job')
    /\ Range(TasksOf(taskQueue')) \cap HeldBy(job') = {}
    /\ Range(TasksOf(taskQueue')) \cap Range(resultQueue') = {}
    /\ Range(TasksOf(taskQueue')) \cap Range(completed') = {}
    /\ HeldBy(job') \cap Range(resultQueue') = {} /\ HeldBy(job') \cap Range(completed') = {}
    /\ Range(resultQueue') \cap Range(completed') = {}
    /\ Range(TasksOf(taskQueue')) \subseteq outstanding' /\ HeldBy(job') \subseteq outstanding'
    /\ Range(resultQueue') \subseteq outstanding' /\ Range(completed') \subseteq outstanding'
    /\ ~stopRequested' => outstanding' \subseteq Range(TasksOf(taskQueue')) \cup HeldBy(job')
                                              \cup Range(resultQueue') \cup Range(completed')
PROOF
<1>1. /\ Held' = HeldBy(job')
      /\ (\A v, w \in Holders' : job'[v].task = job'[w].task => v = w) <=> OneHolderEach(job')
  BY DEF Held, Holders, HeldBy, HolderSet, OneHolderEach
<1> HIDE DEF Held, HeldBy, OneHolderEach
<1> QED BY <1>1 DEF ExactlyOnce, Delivered

LEMMA OnceCaller ==
  ASSUME ControlInv, OnceInv, Caller PROVE OnceInv'
PROOF
<1> USE DEF poolVars, limitVars, flagVars, workVars, slotVars, callVars
<1>1. CASE Start
  BY <1>1, EmptyRanges, OnceParts, OncePartsPrimed DEF Start, OnceInv
<1>2. CASE WakeWorkers \/ OverrideCapture \/ OverrideApply \/ StopRequest \/ StopUnpause \/ StopNotify
           \/ (\E p \in BOOLEAN : PauseSet(p))
           \/ \E n \in 1..Cardinality(Workers) : AllowedConcurrencySet(n)
  <2>1. /\ UNCHANGED <<taskQueue, job, resultQueue, completed, outstanding>>
        /\ ~stopRequested' => ~stopRequested
        /\ mainPc' # "off"
    BY <1>2 DEF WakeWorkers, OverrideCapture, OverrideApply, StopRequest, StopUnpause, StopNotify,
                PauseSet, AllowedConcurrencySet, ControlInv, CallerInv
  <2> QED BY <2>1, OnceParts, OncePartsPrimed DEF OnceInv
<1>3. CASE CompletedDrain
  BY <1>3, EmptyRanges, OnceParts, OncePartsPrimed DEF CompletedDrain, OnceInv
<1>4. CASE VisibleTick
  BY <1>4, EmptyRanges, OnceParts, OncePartsPrimed DEF VisibleTick, OnceInv
<1>5. CASE OverrideQueued
  <2>1. TasksOf(taskQueue') = TasksOf(taskQueue)
    BY <1>5, OverrideTasks DEF OverrideQueued, ControlInv, Typing
  <2> QED BY <1>5, <2>1, OnceParts, OncePartsPrimed DEF OverrideQueued, OnceInv
<1>6. CASE StopJoined
  <2>1. HeldBy(job) = {} /\ OneHolderEach(job)
    BY <1>6 DEF StopJoined, ControlInv, WorkerInv, Busy, HeldBy, HolderSet, OneHolderEach
  <2> QED BY <1>6, <2>1, EmptyRanges, OncePartsPrimed DEF StopJoined, ResultsCleared, OnceInv
<1>7. CASE Submit
  <2>1. PICK b \in Batches : GenerationBatchSubmit(b) \/ RobustnessPassSubmit(b) BY <1>7 DEF Submit
  <2> DEFINE q == [i \in DOMAIN b |-> QueuedEvaluation(b[i], override)]
  <2>2. q \in Seq(Queued) /\ Range(TasksOf(q)) = Range(b) /\ IsInjective(TasksOf(q))
    BY BatchQueued, BatchTasks DEF ControlInv, Typing
  <2>3. outstanding = {} BY <1>7 DEF Submit
  <2>4. taskQueue = <<>>
    BY <2>3, EmptyWhenRangeEmpty, OnceParts DEF OnceInv, ControlInv, Typing
  <2>5. <<>> \o q = q BY <2>2, ConcatEmptySeq
  <2> HIDE DEF q
  <2>6. /\ taskQueue' = q /\ outstanding' = Range(b)
        /\ UNCHANGED <<job, resultQueue, completed>> /\ mainPc' # "off"
    BY <2>1, <2>3, <2>4, <2>5 DEF GenerationBatchSubmit, RobustnessPassSubmit, q
  <2> QED BY <2>2, <2>3, <2>6, OnceParts, OncePartsPrimed DEF OnceInv
<1> QED BY <1>1, <1>2, <1>3, <1>4, <1>5, <1>6, <1>7 DEF Caller, Override, Stop

LEMMA OnceWorker ==
  ASSUME ControlInv, OnceInv, NEW w \in Workers, Worker(w) PROVE OnceInv'
PROOF
<1> USE DEF poolVars, limitVars, flagVars, workVars, slotVars, callVars
<1>1. UNCHANGED <<mainPc, outstanding, stopRequested>>
  BY DEF Worker, WorkerPredicate, WorkerCompare, WorkerTake, WorkerBlock, WorkerClaim, WorkerSnapshot, WorkerPublish, WorkerGate,
         WorkerPark, WorkerStep, WorkerPassEnd, WorkerFinish, WorkerRetire, WorkerNotify, WorkerDeliver
<1>2. mainPc' = "off" => outstanding' = {} BY <1>1 DEF OnceInv
<1>3. /\ taskQueue \in Seq(Queued) /\ resultQueue \in Seq(Tasks) /\ completed \in Seq(Tasks)
      /\ job \in [Workers -> Queued \cup {None}]
      /\ job[w] # None => job[w].task \in Tasks
  BY QueuedFacts DEF ControlInv, Typing, Queued
<1>4. CASE UNCHANGED <<taskQueue, job, resultQueue, completed>>
  BY <1>1, <1>2, <1>4, OnceParts, OncePartsPrimed DEF OnceInv
<1>5. CASE WorkerTake(w) /\ ~stopRequested
  <2>1. /\ taskQueue # <<>> /\ taskQueue' = Tail(taskQueue)
        /\ job' = [job EXCEPT ![w] = Head(taskQueue)]
        /\ UNCHANGED <<resultQueue, completed>>
    BY <1>5 DEF WorkerTake, ControlInv, LockInv, Choosing
  <2>2. job[w] = None BY <1>5 DEF WorkerTake, ControlInv, WorkerInv, Busy
  <2>3. IsInjective(TasksOf(taskQueue)) BY OnceParts DEF OnceInv
  <2>4. /\ Head(taskQueue) \in Queued
        /\ Head(taskQueue).task \in Range(TasksOf(taskQueue))
        /\ Range(TasksOf(taskQueue')) = Range(TasksOf(taskQueue)) \ {Head(taskQueue).task}
        /\ IsInjective(TasksOf(taskQueue'))
    BY <1>3, <2>1, <2>3, TakeHead
  <2>5. /\ HeldBy(job') = HeldBy(job) \cup {Head(taskQueue).task}
        /\ OneHolderEach(job) /\ Head(taskQueue).task \notin HeldBy(job) => OneHolderEach(job')
    BY <1>3, <2>1, <2>2, <2>4, HoldMore
  <2> QED BY ZenonT(40), <1>1, <1>2, <2>1, <2>4, <2>5, OnceParts, OncePartsPrimed DEF OnceInv
<1>6. CASE job' = [job EXCEPT ![w] = None]
           /\ UNCHANGED <<taskQueue, resultQueue, completed>> /\ (job[w] = None \/ stopRequested)
  <2>1. OneHolderEach(job) BY OnceParts DEF OnceInv
  <2>2. /\ OneHolderEach(job') /\ HeldBy(job') \subseteq HeldBy(job)
        /\ job[w] = None => HeldBy(job') = HeldBy(job)
    BY <1>3, <1>6, <2>1, HoldLess
  <2> QED BY <1>1, <1>2, <1>6, <2>2, OnceParts, OncePartsPrimed DEF OnceInv
<1>7. CASE /\ job[w] # None /\ job' = [job EXCEPT ![w] = None]
           /\ \/ resultQueue' = Append(resultQueue, job[w].task) /\ UNCHANGED completed
              \/ completed' = Append(completed, job[w].task) /\ UNCHANGED resultQueue
           /\ UNCHANGED taskQueue
  <2>1. OneHolderEach(job) BY OnceParts DEF OnceInv
  <2>2. /\ OneHolderEach(job') /\ HeldBy(job') = HeldBy(job) \ {job[w].task}
        /\ job[w].task \in HeldBy(job)
    BY <1>3, <1>7, <2>1, HoldLess
  <2>3. job[w].task \notin Range(resultQueue) /\ job[w].task \notin Range(completed)
    BY <2>2, OnceParts DEF OnceInv
  <2>4. CASE resultQueue' = Append(resultQueue, job[w].task) /\ UNCHANGED completed
    <3>1. Range(resultQueue') = Range(resultQueue) \cup {job[w].task} /\ IsInjective(resultQueue')
      BY <1>3, <1>7, <2>3, <2>4, AppendOnce, OnceParts DEF OnceInv
    <3> QED BY ZenonT(40), <1>1, <1>2, <1>7, <2>2, <2>3, <2>4, <3>1, OnceParts, OncePartsPrimed DEF OnceInv
  <2>5. CASE completed' = Append(completed, job[w].task) /\ UNCHANGED resultQueue
    <3>1. Range(completed') = Range(completed) \cup {job[w].task} /\ IsInjective(completed')
      BY <1>3, <1>7, <2>3, <2>5, AppendOnce, OnceParts DEF OnceInv
    <3> QED BY ZenonT(40), <1>1, <1>2, <1>7, <2>2, <2>3, <2>5, <3>1, OnceParts, OncePartsPrimed DEF OnceInv
  <2> QED BY <1>7, <2>4, <2>5
<1>8. CASE WorkerTake(w) /\ stopRequested BY <1>4, <1>8 DEF WorkerTake
<1>9. CASE WorkerPassEnd(w)
  BY <1>4, <1>6, <1>9 DEF WorkerPassEnd
<1>10. CASE WorkerFinish(w)
  <2>1. job[w] # None BY <1>10 DEF WorkerFinish, ControlInv, WorkerInv, Busy, Holding
  <2> QED BY <1>4, <1>6, <1>7, <1>10, <2>1 DEF WorkerFinish, PreviewKeepsNothing
<1>11. CASE WorkerDeliver(w)
  BY <1>6, <1>7, <1>11 DEF WorkerDeliver
<1>12. CASE WorkerPredicate(w) \/ WorkerCompare(w) \/ WorkerBlock(w) \/ WorkerClaim(w) \/ WorkerSnapshot(w) \/ WorkerPublish(w) \/ WorkerGate(w)
            \/ WorkerPark(w) \/ (\E ended \in BOOLEAN : WorkerStep(w, ended)) \/ WorkerRetire(w)
            \/ WorkerNotify(w)
  BY <1>4, <1>12 DEF WorkerPredicate, WorkerCompare, WorkerBlock, WorkerClaim, WorkerSnapshot,
                     WorkerPublish, WorkerGate, WorkerPark, WorkerStep, WorkerRetire, WorkerNotify
<1> QED BY <1>5, <1>8, <1>9, <1>10, <1>11, <1>12 DEF Worker

LEMMA OnceInvariant == Spec => []OnceInv
PROOF
<1>1. Init => OnceInv
  <2> SUFFICES ASSUME Init PROVE OnceInv OBVIOUS
  <2>1. HeldBy(job) = {} /\ OneHolderEach(job)
    BY DEF Init, HeldBy, HolderSet, OneHolderEach
  <2> QED BY <2>1, EmptyRanges, OnceParts DEF Init, OnceInv
<1>2. ControlInv /\ OnceInv /\ [Next]_vars => OnceInv'
  <2> SUFFICES ASSUME ControlInv, OnceInv, [Next]_vars PROVE OnceInv' OBVIOUS
  <2>1. CASE UNCHANGED vars
    BY <2>1, OnceParts, OncePartsPrimed
    DEF OnceInv, vars, poolVars, limitVars, flagVars, workVars, slotVars, callVars
  <2> QED BY <2>1, OnceCaller, OnceWorker DEF Next
<1> QED BY <1>1, <1>2, ControlInvariant, PTL DEF Spec

\* No evaluation is lost, run twice or delivered twice, for any pool and batch.
THEOREM EvaluatedOnce == Spec => []ExactlyOnce
PROOF
<1>1. OnceInv => ExactlyOnce BY DEF OnceInv
<1> QED BY <1>1, OnceInvariant, PTL

\* A previewed evaluation is held by its worker, so it is outstanding: the preview
\* slot is free whenever the caller has all its results.
LEMMA SlotFreeWhenNothingIsOwed ==
  ASSUME ControlInv, OnceInv, outstanding = {} PROVE activeHandle = None
PROOF
<1> SUFFICES ASSUME activeHandle # None PROVE FALSE OBVIOUS
<1>1. activeHandle \in Workers /\ job[activeHandle] # None
  BY DEF ControlInv, Typing, WorkerInv, Holding
<1>2. job[activeHandle].task \in HeldBy(job) BY <1>1 DEF HeldBy, HolderSet
<1>3. HeldBy(job) \subseteq outstanding BY OnceParts DEF OnceInv
<1> QED BY <1>2, <1>3

\* The DIRTSIM_ASSERTs on submission never fire.
THEOREM SubmitAssertsHold == Spec => []AssertsHold
PROOF
<1>1. Init => AssertsHold BY DEF Init, AssertsHold
<1>2. ControlInv /\ OnceInv /\ AssertsHold /\ [Next]_vars => AssertsHold'
  <2> SUFFICES ASSUME ControlInv, OnceInv, asserted, [Next]_vars PROVE asserted' = asserted
    BY DEF AssertsHold
  <2> USE DEF poolVars, limitVars, flagVars, workVars, slotVars, callVars
  <2>1. CASE Submit
    <3>1. activeHandle = None BY <2>1, SlotFreeWhenNothingIsOwed DEF Submit
    <3> QED BY <2>1, <3>1 DEF Submit, GenerationBatchSubmit, RobustnessPassSubmit
  <2>2. CASE Caller /\ ~Submit
    BY <2>2 DEF Caller, Start, WakeWorkers, CompletedDrain, VisibleTick, Override, OverrideQueued,
                OverrideCapture, OverrideApply, Stop, StopRequest, StopUnpause, StopNotify, StopJoined,
                PauseSet, AllowedConcurrencySet
  <2>3. ASSUME NEW w \in Workers, Worker(w) PROVE asserted' = asserted
    BY <2>3 DEF Worker, WorkerPredicate, WorkerCompare, WorkerTake, WorkerBlock, WorkerClaim, WorkerSnapshot, WorkerPublish, WorkerGate,
                WorkerPark, WorkerStep, WorkerPassEnd, WorkerFinish, WorkerRetire, WorkerNotify, WorkerDeliver
  <2>4. CASE UNCHANGED vars BY <2>4 DEF vars
  <2> QED BY <2>1, <2>2, <2>3, <2>4 DEF Next
<1> QED BY <1>1, <1>2, ControlInvariant, OnceInvariant, PTL DEF Spec

(***************************************************************************)
(* The executor implements EvaluationPool.                                 *)
(***************************************************************************)

LEMMA EmptyResults ==
  ASSUME NEW s \in Seq(Tasks), Range(s) = {} PROVE s = <<>>
PROOF
<1> SUFFICES ASSUME s # <<>> PROVE FALSE OBVIOUS
<1>1. 1 \in DOMAIN s BY EmptySeq, LenProperties
<1>2. s[1] \in Range(s) BY <1>1 DEF Range
<1> QED BY <1>2

LEMMA PoolCaller ==
  ASSUME ControlInv, OnceInv, Caller PROVE [Pool!PoolNext]_(Pool!poolState)
PROOF
<1> USE DEF poolVars, limitVars, flagVars, workVars, slotVars, callVars, Delivered
<1>1. CASE Start
  <2>1. mainPc = "off" /\ mainPc' # "off" /\ UNCHANGED <<outstanding, resultQueue>> /\ completed' = <<>>
    BY <1>1 DEF Start
  <2>2. completed = <<>>
    BY <2>1, EmptyResults, OnceParts DEF OnceInv, ControlInv, Typing
  <2>3. Pool!PoolStart BY <2>1, <2>2 DEF Pool!PoolStart
  <2> QED BY <2>3 DEF Pool!PoolNext
<1>2. CASE \/ WakeWorkers \/ OverrideQueued \/ OverrideCapture \/ OverrideApply
           \/ StopRequest \/ StopUnpause \/ StopNotify
           \/ (\E p \in BOOLEAN : PauseSet(p))
           \/ \E n \in 1..Cardinality(Workers) : AllowedConcurrencySet(n)
  <2>1. /\ UNCHANGED <<outstanding, resultQueue, completed>>
        /\ mainPc # "off" /\ mainPc' # "off"
    BY <1>2 DEF WakeWorkers, OverrideQueued, OverrideCapture, OverrideApply, StopRequest, StopUnpause,
                StopNotify, PauseSet, AllowedConcurrencySet
  <2> QED BY <2>1 DEF Pool!poolState
<1>3. CASE CompletedDrain
  <2>1. Pool!PoolDrain BY <1>3, EmptyRanges DEF CompletedDrain, Pool!PoolDrain
  <2> QED BY <2>1 DEF Pool!PoolNext
<1>4. CASE VisibleTick
  <2>1. Pool!PoolTick BY <1>4, EmptyRanges DEF VisibleTick, Pool!PoolTick
  <2> QED BY <2>1 DEF Pool!PoolNext
<1>5. CASE StopJoined
  <2>1. Pool!PoolStop BY <1>5, EmptyRanges DEF StopJoined, ResultsCleared, Pool!PoolStop
  <2> QED BY <2>1 DEF Pool!PoolNext
<1>6. CASE Submit
  <2>1. PICK b \in Batches : GenerationBatchSubmit(b) \/ RobustnessPassSubmit(b) BY <1>6 DEF Submit
  <2>2. outstanding = {} BY <1>6 DEF Submit
  <2>3. resultQueue = <<>> /\ completed = <<>>
    BY <2>2, EmptyResults, OnceParts DEF OnceInv, ControlInv, Typing
  <2>4. /\ outstanding' = Range(b) /\ UNCHANGED <<resultQueue, completed>>
        /\ mainPc # "off" /\ mainPc' # "off"
    BY <2>1, <2>2 DEF GenerationBatchSubmit, RobustnessPassSubmit
  <2>5. Range(b) \subseteq Tasks BY <2>1, ExecutorAssumption DEF Range
  <2>6. Pool!PoolSubmit BY <2>2, <2>3, <2>4, <2>5, EmptyRanges DEF Pool!PoolSubmit, Pool!Quiet
  <2> QED BY <2>6 DEF Pool!PoolNext
<1> QED BY <1>1, <1>2, <1>3, <1>4, <1>5, <1>6 DEF Caller, Override, Stop

LEMMA PoolWorker ==
  ASSUME ControlInv, OnceInv, NEW w \in Workers, Worker(w)
  PROVE  [Pool!PoolNext]_(Pool!poolState)
PROOF
<1> USE DEF poolVars, limitVars, flagVars, workVars, slotVars, callVars
<1>1. /\ UNCHANGED <<mainPc, outstanding>> /\ mainPc # "off"
  <2>1. pc[w] # "none"
    BY DEF Worker, WorkerPredicate, WorkerCompare, WorkerTake, WorkerBlock, WorkerClaim, WorkerSnapshot, WorkerPublish, WorkerGate,
           WorkerPark, WorkerStep, WorkerPassEnd, WorkerFinish, WorkerRetire, WorkerNotify, WorkerDeliver
  <2>2. UNCHANGED <<mainPc, outstanding>>
    BY DEF Worker, WorkerPredicate, WorkerCompare, WorkerTake, WorkerBlock, WorkerClaim, WorkerSnapshot, WorkerPublish, WorkerGate,
           WorkerPark, WorkerStep, WorkerPassEnd, WorkerFinish, WorkerRetire, WorkerNotify, WorkerDeliver
  <2> QED BY <2>1, <2>2 DEF ControlInv, CallerInv
<1>2. CASE UNCHANGED <<resultQueue, completed>>
  BY <1>1, <1>2 DEF Pool!poolState, Delivered
<1>3. CASE /\ job[w] # None
           /\ \/ resultQueue' = Append(resultQueue, job[w].task) /\ UNCHANGED completed
              \/ completed' = Append(completed, job[w].task) /\ UNCHANGED resultQueue
  <2>1. /\ resultQueue \in Seq(Tasks) /\ completed \in Seq(Tasks) /\ job[w].task \in Tasks
    BY <1>3, QueuedFacts DEF ControlInv, Typing
  <2>2. job[w].task \in HeldBy(job) BY <1>3 DEF HeldBy, HolderSet
  <2>3. job[w].task \in outstanding \ Delivered BY <2>2, OnceParts DEF OnceInv, Delivered
  <2>4. Delivered' = Delivered \cup {job[w].task}
    BY ZenonT(40), <1>3, <2>1, AppendOnce DEF Delivered
  <2>5. Pool!PoolFinish(job[w].task) BY <1>1, <1>3, <2>3, <2>4 DEF Pool!PoolFinish
  <2>6. Pool!PoolNext BY Zenon, <2>3, <2>5 DEF Pool!PoolNext
  <2> QED BY <2>6
<1>4. CASE WorkerFinish(w)
  <2>1. job[w] # None BY <1>4 DEF WorkerFinish, ControlInv, WorkerInv, Busy, Holding
  <2> QED BY <1>2, <1>3, <1>4, <2>1 DEF WorkerFinish
<1>5. CASE WorkerDeliver(w) BY <1>2, <1>3, <1>5 DEF WorkerDeliver
<1>6. CASE Worker(w) /\ ~WorkerFinish(w) /\ ~WorkerDeliver(w)
  BY <1>2, <1>6 DEF Worker, WorkerPredicate, WorkerCompare, WorkerTake, WorkerBlock, WorkerClaim, WorkerSnapshot, WorkerPublish,
                    WorkerGate, WorkerPark, WorkerStep, WorkerPassEnd, WorkerRetire, WorkerNotify
<1> QED BY <1>4, <1>5, <1>6

\* Refinement: every behaviour of the threads is a behaviour of EvaluationPool.
THEOREM ExecutorImplementsPool == Spec => ImplementsPool
PROOF
<1>1. Init => Pool!PoolInit
  BY EmptyRanges DEF Init, Delivered, Pool!PoolInit, Pool!Quiet
<1>2. ControlInv /\ OnceInv /\ [Next]_vars => [Pool!PoolNext]_(Pool!poolState)
  <2> SUFFICES ASSUME ControlInv, OnceInv, [Next]_vars PROVE [Pool!PoolNext]_(Pool!poolState) OBVIOUS
  <2>1. CASE UNCHANGED vars
    BY <2>1 DEF vars, poolVars, limitVars, flagVars, workVars, slotVars, callVars, Pool!poolState, Delivered
  <2> QED BY <2>1, PoolCaller, PoolWorker DEF Next
<1> QED BY <1>1, <1>2, ControlInvariant, OnceInvariant, PTL DEF Spec, ImplementsPool, Pool!PoolSpec

(***************************************************************************)
(* The scenario config override.                                           *)
(***************************************************************************)

\* Nothing is ahead of the caller's override, the queue is never behind it, and a
\* worker that has run a pass could construct the next one without going back.
QueueFresh == \A i \in DOMAIN taskQueue : taskQueue[i].cfg = override

ConfigOf(w) ==
  /\ handleCfg[w] <= override /\ runnerCfg[w] <= override
  /\ job[w] # None => job[w].cfg <= override
  /\ HasRun(w) => runnerCfg[w] <= SnapshotConfig(w)

ConfigInv == QueueFresh /\ \A w \in Workers : ConfigOf(w)

\* The numbers among the variables.
LEMMA ConfigNumbers ==
  ASSUME ControlInv, NEW w \in Workers
  PROVE  /\ override \in Nat /\ handleCfg[w] \in Nat /\ runnerCfg[w] \in Nat
         /\ job[w] # None => job[w].cfg \in Nat
PROOF
<1>1. /\ override \in Configs /\ handleCfg[w] \in Configs /\ runnerCfg[w] \in Configs
      /\ job[w] \in Queued \cup {None}
  BY DEF ControlInv, Typing
<1> QED BY <1>1, ConfigFacts, QueuedFacts

\* A worker whose config state a step leaves alone, while the override may grow.
LEMMA ConfigLeftAlone ==
  ASSUME ControlInv, ControlInv', NEW v \in Workers, ConfigOf(v), override <= override',
         handleCfg'[v] = handleCfg[v], runnerCfg'[v] = runnerCfg[v],
         job'[v] = job[v] \/ job'[v] = None,
         HasRun(v)' => HasRun(v) /\ job'[v] = job[v] /\ (activeHandle' = v <=> activeHandle = v)
  PROVE  ConfigOf(v)'
PROOF
<1>1. /\ override \in Nat /\ handleCfg[v] \in Nat /\ runnerCfg[v] \in Nat /\ override' \in Nat
      /\ job[v] # None => job[v].cfg \in Nat
  BY ConfigNumbers, ConfigFacts DEF ControlInv, Typing
<1>2. handleCfg'[v] <= override' /\ runnerCfg'[v] <= override' BY <1>1 DEF ConfigOf
<1>3. job'[v] # None => job'[v].cfg <= override' BY <1>1 DEF ConfigOf
<1>4. HasRun(v)' => runnerCfg'[v] <= SnapshotConfig(v)' BY <1>1 DEF ConfigOf, SnapshotConfig
<1> QED BY <1>2, <1>3, <1>4 DEF ConfigOf

\* The queue after a submission carries the override of the moment.
LEMMA SubmittedFresh ==
  ASSUME ControlInv, QueueFresh, Submit PROVE QueueFresh'
PROOF
<1>1. PICK b \in Batches : GenerationBatchSubmit(b) \/ RobustnessPassSubmit(b) BY DEF Submit
<1> DEFINE q == [i \in DOMAIN b |-> QueuedEvaluation(b[i], override)]
<1>2. q \in Seq(Queued) /\ \A i \in DOMAIN q : q[i].cfg = override
  BY BatchQueued DEF ControlInv, Typing, QueuedEvaluation
<1>3. taskQueue \in Seq(Queued) BY DEF ControlInv, Typing
<1>4. override' = override /\ (taskQueue' = q \/ taskQueue' = taskQueue \o q)
  BY <1>1 DEF GenerationBatchSubmit, RobustnessPassSubmit
<1> HIDE DEF q
<1>5. \A i \in DOMAIN (taskQueue \o q) : (taskQueue \o q)[i].cfg = override
  <2> SUFFICES ASSUME NEW i \in DOMAIN (taskQueue \o q) PROVE (taskQueue \o q)[i].cfg = override
    OBVIOUS
  <2>1. /\ Len(taskQueue) \in Nat /\ Len(q) \in Nat /\ i \in 1..Len(taskQueue) + Len(q)
        /\ DOMAIN taskQueue = 1..Len(taskQueue) /\ DOMAIN q = 1..Len(q)
    BY <1>2, <1>3
  <2>2. CASE i <= Len(taskQueue)
    <3>1. i \in DOMAIN taskQueue /\ (taskQueue \o q)[i] = taskQueue[i] BY <1>2, <1>3, <2>1, <2>2
    <3> QED BY <3>1 DEF QueueFresh
  <2>3. CASE i > Len(taskQueue)
    <3>1. i - Len(taskQueue) \in DOMAIN q /\ (taskQueue \o q)[i] = q[i - Len(taskQueue)]
      BY <1>2, <1>3, <2>1, <2>3
    <3> QED BY <1>2, <3>1
  <2> QED BY <2>1, <2>2, <2>3
<1> QED BY <1>2, <1>4, <1>5 DEF QueueFresh

\* The caller's operations keep the invariant.
LEMMA ConfigCaller ==
  ASSUME ControlInv, ControlInv', ConfigInv, Caller PROVE ConfigInv'
PROOF
<1> USE DEF poolVars, limitVars, flagVars, workVars, slotVars, callVars
<1>1. override \in Nat /\ override' \in Nat BY ConfigFacts DEF ControlInv, Typing
<1>2. QueueFresh /\ \A v \in Workers : ConfigOf(v) BY DEF ConfigInv
<1>3. pc \in [Workers -> WorkerStates] /\ taskQueue \in Seq(Queued) BY DEF ControlInv, Typing
<1>4. CASE Start \/ StopJoined
  <2>1. \A v \in Workers : ~HasRun(v)'
    BY <1>4 DEF Start, StopJoined, HasRun, Busy
  <2>2. UNCHANGED <<override, job, handleCfg, runnerCfg>> /\ (UNCHANGED taskQueue \/ taskQueue' = <<>>)
    BY <1>4 DEF Start, StopJoined
  <2>3. QueueFresh' BY <1>2, <2>2 DEF QueueFresh
  <2> QED BY <1>1, <1>2, <2>1, <2>2, <2>3, ConfigLeftAlone DEF ConfigInv
<1>5. CASE \/ WakeWorkers \/ CompletedDrain \/ VisibleTick \/ OverrideCapture
           \/ StopRequest \/ StopUnpause \/ StopNotify
           \/ (\E p \in BOOLEAN : PauseSet(p))
           \/ \E n \in 1..Cardinality(Workers) : AllowedConcurrencySet(n)
  <2>1. UNCHANGED <<override, job, pass, handleCfg, runnerCfg, activeHandle, taskQueue>>
    BY <1>5 DEF WakeWorkers, CompletedDrain, VisibleTick, OverrideCapture, StopRequest, StopUnpause,
                StopNotify, PauseSet, AllowedConcurrencySet
  <2>2. \/ pc' = pc
        \/ pc' = [w \in Workers |-> IF pc[w] = "waiting" THEN "ready" ELSE pc[w]]
        \/ pc' = [w \in Workers |-> IF pc[w] = "parked" THEN "gate" ELSE pc[w]]
    BY <1>5 DEF WakeWorkers, CompletedDrain, VisibleTick, OverrideCapture, StopRequest, StopUnpause,
                StopNotify, PauseSet, AllowedConcurrencySet, NotifyAll, NotifyAllPause
  <2>3. \A v \in Workers : HasRun(v)' => HasRun(v)
    BY <2>1, <2>2 DEF HasRun, Busy
  <2>4. QueueFresh' BY <1>2, <2>1 DEF QueueFresh
  <2> QED BY <1>1, <1>2, <2>1, <2>3, <2>4, ConfigLeftAlone DEF ConfigInv
<1>6. CASE Submit
  <2>1. UNCHANGED <<override, job, pass, pc, handleCfg, runnerCfg, activeHandle>>
    BY <1>6 DEF Submit, GenerationBatchSubmit, RobustnessPassSubmit
  <2>2. \A v \in Workers : HasRun(v)' => HasRun(v) BY <2>1 DEF HasRun
  <2>3. QueueFresh' BY <1>2, <1>6, SubmittedFresh
  <2> QED BY <1>1, <1>2, <2>1, <2>2, <2>3, ConfigLeftAlone DEF ConfigInv
<1>7. CASE OverrideQueued
  <2>1. /\ UNCHANGED <<job, pass, pc, handleCfg, runnerCfg, activeHandle>>
        /\ override' = override + 1 /\ taskQueue' = WithOverride(taskQueue, override + 1)
    BY <1>7 DEF OverrideQueued
  <2>2. \A v \in Workers : HasRun(v)' => HasRun(v) BY <2>1 DEF HasRun
  <2>3. QueueFresh'
    <3> SUFFICES ASSUME NEW i \in DOMAIN taskQueue' PROVE taskQueue'[i].cfg = override'
      BY DEF QueueFresh
    <3>1. i \in DOMAIN taskQueue /\ taskQueue'[i] = [taskQueue[i] EXCEPT !.cfg = override + 1]
      BY <2>1 DEF WithOverride
    <3>2. taskQueue[i] \in Queued BY <1>3, <3>1
    <3> QED BY <2>1, <3>1, <3>2 DEF Queued
  <2>4. override <= override' BY <1>1, <2>1
  <2> QED BY <1>2, <2>1, <2>2, <2>3, <2>4, ConfigLeftAlone DEF ConfigInv
<1>8. CASE OverrideApply
  <2>1. UNCHANGED <<override, job, pass, pc, activeHandle, taskQueue>> BY <1>8 DEF OverrideApply
  <2>2. \A v \in Workers : HasRun(v)' => HasRun(v) BY <2>1 DEF HasRun
  <2>3. QueueFresh' BY <1>2, <2>1 DEF QueueFresh
  <2>4. CASE target = None
    <3>1. UNCHANGED <<handleCfg, runnerCfg>> BY <1>8, <2>4 DEF OverrideApply
    <3> QED BY <1>1, <1>2, <2>1, <2>2, <2>3, <3>1, ConfigLeftAlone DEF ConfigInv
  <2>5. CASE target # None
    <3>1. target \in Workers /\ activeHandle = target
      BY <2>5 DEF ControlInv, Typing, CallerInv
    <3>2. /\ handleCfg' = [handleCfg EXCEPT ![target] = override]
          /\ runnerCfg' = runnerCfg \/ runnerCfg' = [runnerCfg EXCEPT ![target] = override]
      BY <1>8, <2>5 DEF OverrideApply
    <3>3. handleCfg \in [Workers -> Configs] /\ runnerCfg \in [Workers -> Configs]
      BY DEF ControlInv, Typing
    <3>4. ASSUME NEW v \in Workers, v # target PROVE ConfigOf(v)'
      <4>1. handleCfg'[v] = handleCfg[v] /\ runnerCfg'[v] = runnerCfg[v] BY <3>2, <3>3, <3>4
      <4> QED BY <1>1, <1>2, <2>1, <2>2, <4>1, ConfigLeftAlone
    <3>5. PICK v \in Workers : v = target BY <3>1
    <3>6. ConfigOf(v)'
      <4>1. /\ handleCfg'[v] = override
            /\ runnerCfg'[v] = override \/ runnerCfg'[v] = runnerCfg[v]
        BY <3>2, <3>3, <3>5
      <4>2. runnerCfg[v] <= override /\ (job[v] # None => job[v].cfg <= override)
        BY <1>2 DEF ConfigOf
      <4>3. runnerCfg'[v] <= override /\ handleCfg'[v] <= override
        BY <1>1, <4>1, <4>2
      <4>4. SnapshotConfig(v)' = override
        BY <2>1, <3>1, <3>5, <4>1 DEF SnapshotConfig
      <4> QED BY <2>1, <4>2, <4>3, <4>4 DEF ConfigOf
    <3> QED BY <2>3, <3>4, <3>5, <3>6 DEF ConfigInv
  <2> QED BY <2>4, <2>5
<1> QED BY <1>4, <1>5, <1>6, <1>7, <1>8 DEF Caller, Override, Stop

\* What a worker's step leaves alone, for the other workers and for itself.
LEMMA ConfigOthers ==
  ASSUME ControlInv, NEW w \in Workers, Worker(w), NEW v \in Workers, v # w
  PROVE  /\ handleCfg'[v] = handleCfg[v] /\ runnerCfg'[v] = runnerCfg[v] /\ job'[v] = job[v]
         /\ HasRun(v)' => HasRun(v)
         /\ activeHandle' = v <=> activeHandle = v
PROOF
<1> USE DEF poolVars, limitVars, flagVars, workVars, slotVars, callVars
<1>1. /\ pc \in [Workers -> WorkerStates] /\ job \in [Workers -> Queued \cup {None}]
      /\ pass \in [Workers -> 0..Passes] /\ None \notin Workers
      /\ handleCfg \in [Workers -> Configs] /\ runnerCfg \in [Workers -> Configs]
  BY WorkersFacts DEF ControlInv, Typing
<1>2. handleCfg'[v] = handleCfg[v] /\ runnerCfg'[v] = runnerCfg[v]
  BY <1>1 DEF Worker, WorkerPredicate, WorkerCompare, WorkerTake, WorkerBlock, WorkerClaim, WorkerSnapshot, WorkerPublish, WorkerGate,
     WorkerPark, WorkerStep, WorkerPassEnd, WorkerFinish, WorkerRetire, WorkerNotify, WorkerDeliver
<1>3. job'[v] = job[v] /\ pass'[v] = pass[v]
  BY <1>1 DEF Worker, WorkerPredicate, WorkerCompare, WorkerTake, WorkerBlock, WorkerClaim, WorkerSnapshot, WorkerPublish, WorkerGate,
     WorkerPark, WorkerStep, WorkerPassEnd, WorkerFinish, WorkerRetire, WorkerNotify, WorkerDeliver,
     PreviewKeepsNothing
<1>4. activeHandle' = v <=> activeHandle = v
  BY <1>1 DEF Worker, WorkerPredicate, WorkerCompare, WorkerTake, WorkerBlock, WorkerClaim, WorkerSnapshot, WorkerPublish, WorkerGate,
     WorkerPark, WorkerStep, WorkerPassEnd, WorkerFinish, WorkerRetire, WorkerNotify, WorkerDeliver, ReleaseHandle
<1>5. pc'[v] = pc[v] \/ (pc[v] = "waiting" /\ pc'[v] = "ready")
  <2>1. CASE WorkerNotify(w)
    <3> DEFINE f == [pc EXCEPT ![w] = "deliver"]
    <3>1. f \in [Workers -> WorkerStates] /\ f[v] = pc[v] BY <1>1 DEF WorkerStates
    <3>2. pc' \in NotifyOne(f) BY <2>1 DEF WorkerNotify
    <3> HIDE DEF f
    <3> QED BY <3>1, <3>2, NotifyOneFacts
  <2>2. CASE ~WorkerNotify(w)
    BY <1>1, <2>2 DEF Worker, WorkerPredicate, WorkerCompare, WorkerTake, WorkerBlock, WorkerClaim,
       WorkerSnapshot, WorkerPublish, WorkerGate, WorkerPark, WorkerStep, WorkerPassEnd, WorkerFinish,
       WorkerRetire, WorkerDeliver
  <2> QED BY <2>1, <2>2
<1>6. HasRun(v)' => HasRun(v) BY <1>3, <1>5 DEF HasRun, Busy
<1> QED BY <1>2, <1>3, <1>4, <1>6

\* The worker's own config after its step.
LEMMA ConfigOwn ==
  ASSUME ControlInv, ControlInv', ConfigInv, NEW w \in Workers, Worker(w)
  PROVE  ConfigOf(w)'
PROOF
<1> USE DEF poolVars, limitVars, flagVars, workVars, slotVars, callVars
<1>1. /\ pc \in [Workers -> WorkerStates] /\ job \in [Workers -> Queued \cup {None}]
      /\ pass \in [Workers -> 0..Passes] /\ None \notin Workers
      /\ handleCfg \in [Workers -> Configs] /\ runnerCfg \in [Workers -> Configs]
      /\ taskQueue \in Seq(Queued)
  BY WorkersFacts DEF ControlInv, Typing
<1>2. ConfigOf(w) BY DEF ConfigInv
<1>3. override' = override
  BY DEF Worker, WorkerPredicate, WorkerCompare, WorkerTake, WorkerBlock, WorkerClaim, WorkerSnapshot, WorkerPublish, WorkerGate,
     WorkerPark, WorkerStep, WorkerPassEnd, WorkerFinish, WorkerRetire, WorkerNotify, WorkerDeliver
<1>4. /\ override \in Nat /\ handleCfg[w] \in Nat /\ runnerCfg[w] \in Nat
      /\ job[w] # None => job[w].cfg \in Nat
  BY ConfigNumbers
<1>5. CASE WorkerTake(w)
  <2>1. ~HasRun(w)' BY <1>1, <1>5 DEF WorkerTake, HasRun, Busy
  <2>2. UNCHANGED <<handleCfg, runnerCfg>> BY <1>5 DEF WorkerTake
  <2>3. CASE UNCHANGED job
    BY <1>2, <1>3, <2>1, <2>2, <2>3 DEF ConfigOf
  <2>4. CASE taskQueue # <<>> /\ job' = [job EXCEPT ![w] = Head(taskQueue)]
    <3>1. job'[w] = taskQueue[1] /\ 1 \in DOMAIN taskQueue
      BY <1>1, <2>4
    <3>2. job'[w].cfg = override BY <3>1 DEF ConfigInv, QueueFresh
    <3>3. job'[w].cfg <= override' BY <1>3, <1>4, <3>2
    <3> QED BY <1>2, <1>3, <2>1, <2>2, <3>3 DEF ConfigOf
  <2> QED BY <1>5, <2>3, <2>4 DEF WorkerTake, ControlInv, LockInv, Choosing
<1>6. CASE WorkerClaim(w)
  <2>1. ~HasRun(w)'
    <3>1. pc'[w] = "snapshot" /\ pass'[w] = 0 BY <1>1, <1>6 DEF WorkerClaim
    <3> QED BY <3>1 DEF HasRun
  <2>2. job[w] # None BY <1>6 DEF WorkerClaim, ControlInv, WorkerInv, Busy, Holding
  <2>3. UNCHANGED <<job, runnerCfg>> /\ (handleCfg'[w] = handleCfg[w] \/ handleCfg'[w] = job[w].cfg)
    BY <1>1, <1>6 DEF WorkerClaim
  <2>4. handleCfg'[w] <= override' BY <1>2, <1>3, <2>2, <2>3 DEF ConfigOf
  <2> QED BY <1>2, <1>3, <2>1, <2>3, <2>4 DEF ConfigOf
<1>7. CASE WorkerSnapshot(w)
  <2>1. UNCHANGED <<job, activeHandle, handleCfg>> /\ runnerCfg'[w] = SnapshotConfig(w)
    BY <1>1, <1>7 DEF WorkerSnapshot
  <2>2. job[w] # None BY <1>7 DEF WorkerSnapshot, ControlInv, WorkerInv, Busy, Holding
  <2>3. SnapshotConfig(w)' = SnapshotConfig(w) BY <2>1 DEF SnapshotConfig
  <2>4. SnapshotConfig(w) \in Nat /\ SnapshotConfig(w) <= override
    BY <1>2, <1>4, <2>2 DEF SnapshotConfig, ConfigOf
  <2>5. runnerCfg'[w] <= SnapshotConfig(w)' /\ runnerCfg'[w] <= override'
    BY <1>3, <2>1, <2>3, <2>4
  <2> QED BY <1>2, <1>3, <2>1, <2>5 DEF ConfigOf
<1>8. CASE \/ WorkerPredicate(w) \/ WorkerCompare(w) \/ WorkerBlock(w) \/ WorkerPublish(w) \/ WorkerGate(w)
           \/ WorkerPark(w) \/ (\E ended \in BOOLEAN : WorkerStep(w, ended)) \/ WorkerRetire(w)
           \/ WorkerDeliver(w)
  <2>1. UNCHANGED <<handleCfg, runnerCfg, activeHandle>>
    BY <1>8 DEF WorkerPredicate, WorkerCompare, WorkerBlock, WorkerPublish, WorkerGate, WorkerPark, WorkerStep, WorkerRetire, WorkerDeliver
  <2>2. job'[w] = job[w] \/ job'[w] = None
    BY <1>1, <1>8 DEF WorkerPredicate, WorkerCompare, WorkerBlock, WorkerPublish, WorkerGate, WorkerPark, WorkerStep, WorkerRetire, WorkerDeliver
  <2>3. HasRun(w)' => HasRun(w) /\ job'[w] = job[w]
    BY <1>1, <1>8, <2>2 DEF WorkerPredicate, WorkerCompare, WorkerBlock, WorkerPublish, WorkerGate, WorkerPark, WorkerStep,
       WorkerRetire, WorkerDeliver, HasRun, Busy
  <2> QED BY <1>2, <1>3, <1>4, <2>1, <2>2, <2>3, ConfigLeftAlone
<1>9. CASE WorkerNotify(w)
  <2>1. UNCHANGED <<handleCfg, runnerCfg, activeHandle, job>> BY <1>9 DEF WorkerNotify
  <2>2. pc'[w] \in {"deliver", "ready"}
    <3> DEFINE f == [pc EXCEPT ![w] = "deliver"]
    <3>1. f \in [Workers -> WorkerStates] /\ f[w] = "deliver" BY <1>1 DEF WorkerStates
    <3>2. pc' \in NotifyOne(f) BY <1>9 DEF WorkerNotify
    <3> HIDE DEF f
    <3> QED BY <3>1, <3>2, NotifyOneFacts
  <2>3. ~HasRun(w)' BY <2>2 DEF HasRun, Busy
  <2> QED BY <1>2, <1>3, <1>4, <2>1, <2>3, ConfigLeftAlone
<1>10. CASE WorkerPassEnd(w) \/ WorkerFinish(w)
  <2>1. UNCHANGED <<handleCfg, runnerCfg>> BY <1>10 DEF WorkerPassEnd, WorkerFinish
  <2>2. \/ job'[w] = None
        \/ UNCHANGED <<job, activeHandle>>
    BY <1>1, <1>10 DEF WorkerPassEnd, WorkerFinish, PreviewKeepsNothing
  <2>3. HasRun(w)' => job'[w] # None BY DEF HasRun
  <2>4. job[w] # None => HasRun(w) BY <1>10 DEF WorkerPassEnd, WorkerFinish, HasRun, Busy
  <2>5. /\ job'[w] = job[w] \/ job'[w] = None
        /\ HasRun(w)' => HasRun(w) /\ job'[w] = job[w] /\ (activeHandle' = w <=> activeHandle = w)
    BY <2>2, <2>3, <2>4
  <2> QED BY <1>2, <1>3, <1>4, <2>1, <2>5, ConfigLeftAlone
<1> QED BY <1>5, <1>6, <1>7, <1>8, <1>9, <1>10 DEF Worker

LEMMA ConfigWorker ==
  ASSUME ControlInv, ControlInv', ConfigInv, NEW w \in Workers, Worker(w) PROVE ConfigInv'
PROOF
<1> USE DEF poolVars, limitVars, flagVars, workVars, slotVars, callVars
<1>1. override' = override /\ override \in Nat
  BY ConfigNumbers DEF Worker, WorkerPredicate, WorkerCompare, WorkerTake, WorkerBlock, WorkerClaim, WorkerSnapshot, WorkerPublish,
     WorkerGate, WorkerPark, WorkerStep, WorkerPassEnd, WorkerFinish, WorkerRetire, WorkerNotify, WorkerDeliver
<1>2. ASSUME NEW v \in Workers, v # w PROVE ConfigOf(v)'
  <2>1. ConfigOf(v) BY DEF ConfigInv
  <2> QED BY <1>1, <1>2, <2>1, ConfigOthers, ConfigLeftAlone
<1>3. ConfigOf(w)' BY ConfigOwn
<1>4. taskQueue' = taskQueue \/ (taskQueue # <<>> /\ taskQueue' = Tail(taskQueue))
  BY DEF ControlInv, LockInv, Choosing, Worker, WorkerPredicate, WorkerCompare, WorkerTake, WorkerBlock, WorkerClaim, WorkerSnapshot, WorkerPublish,
     WorkerGate, WorkerPark, WorkerStep, WorkerPassEnd, WorkerFinish, WorkerRetire, WorkerNotify, WorkerDeliver
<1>5. QueueFresh'
  <2>1. CASE taskQueue' = taskQueue BY <1>1, <2>1 DEF ConfigInv, QueueFresh
  <2>2. CASE taskQueue # <<>> /\ taskQueue' = Tail(taskQueue)
    <3>1. taskQueue \in Seq(Queued) BY DEF ControlInv, Typing
    <3>2. ASSUME NEW i \in DOMAIN taskQueue'
          PROVE  i + 1 \in DOMAIN taskQueue /\ taskQueue'[i] = taskQueue[i + 1]
      BY <2>2, <3>1
    <3> QED BY <1>1, <3>2 DEF ConfigInv, QueueFresh
  <2> QED BY <1>4, <2>1, <2>2
<1> QED BY <1>2, <1>3, <1>5 DEF ConfigInv

LEMMA ConfigInvariant == Spec => []ConfigInv
PROOF
<1>1. Init => ConfigInv
  BY ConfigFacts DEF Init, ConfigInv, QueueFresh, ConfigOf, HasRun
<1>2. ControlInv /\ ControlInv' /\ ConfigInv /\ [Next]_vars => ConfigInv'
  <2> SUFFICES ASSUME ControlInv, ControlInv', ConfigInv, [Next]_vars PROVE ConfigInv' OBVIOUS
  <2>1. CASE UNCHANGED vars
    BY <2>1 DEF ConfigInv, QueueFresh, ConfigOf, HasRun, SnapshotConfig, vars, poolVars, limitVars, workVars,
       slotVars, callVars
  <2> QED BY <2>1, ConfigCaller, ConfigWorker DEF Next
<1> QED BY <1>1, <1>2, ControlInvariant, PTL DEF Spec

\* No queued evaluation is older than the override that scenarioConfigOverrideSet has set.
THEOREM QueueIsFresh == Spec => []FreshConfig
PROOF
<1>1. ConfigInv => FreshConfig BY DEF ConfigInv, QueueFresh, FreshConfig, Range
<1> QED BY <1>1, ConfigInvariant, PTL

\* A worker's step moves its runner's config forward or not at all.
LEMMA ConfigForward ==
  ASSUME ControlInv, ConfigInv, [Next]_vars, NEW v \in Workers, HasRun(v), job'[v] = job[v]
  PROVE  runnerCfg'[v] >= runnerCfg[v]
PROOF
<1> USE DEF poolVars, limitVars, flagVars, workVars, slotVars, callVars
<1>1. /\ override \in Nat /\ runnerCfg[v] \in Nat /\ handleCfg[v] \in Nat
      /\ job[v] # None /\ job[v].cfg \in Nat /\ ConfigOf(v)
  BY ConfigNumbers DEF ConfigInv, HasRun
<1>2. CASE runnerCfg'[v] = runnerCfg[v] BY <1>1, <1>2
<1>3. runnerCfg \in [Workers -> Configs] BY DEF ControlInv, Typing
<1>4. CASE OverrideApply
  <2>1. runnerCfg'[v] = runnerCfg[v] \/ runnerCfg'[v] = override BY <1>3, <1>4 DEF OverrideApply
  <2> QED BY <1>1, <2>1 DEF ConfigOf
<1>5. ASSUME NEW w \in Workers, WorkerSnapshot(w) PROVE runnerCfg'[v] >= runnerCfg[v]
  <2>1. CASE v # w BY <1>2, <1>3, <1>5, <2>1 DEF WorkerSnapshot
  <2>2. CASE v = w
    <3>1. runnerCfg'[v] = SnapshotConfig(v) BY <1>3, <1>5, <2>2 DEF WorkerSnapshot
    <3>2. SnapshotConfig(v) \in Nat /\ runnerCfg[v] <= SnapshotConfig(v)
      BY <1>1 DEF ConfigOf, SnapshotConfig
    <3> QED BY <1>1, <3>1, <3>2
  <2> QED BY <2>1, <2>2
<1>6. CASE Caller /\ ~OverrideApply
  <2>1. UNCHANGED runnerCfg
    BY <1>6 DEF Caller, Start, Submit, GenerationBatchSubmit, RobustnessPassSubmit, WakeWorkers,
       CompletedDrain, VisibleTick, Override, OverrideQueued, OverrideCapture, Stop, StopRequest,
       StopUnpause, StopNotify, StopJoined, PauseSet, AllowedConcurrencySet
  <2> QED BY <1>2, <2>1
<1>7. ASSUME NEW w \in Workers, Worker(w), ~WorkerSnapshot(w) PROVE runnerCfg'[v] >= runnerCfg[v]
  <2>1. UNCHANGED runnerCfg
    BY <1>7 DEF Worker, WorkerPredicate, WorkerCompare, WorkerTake, WorkerBlock, WorkerClaim, WorkerPublish, WorkerGate,
       WorkerPark, WorkerStep, WorkerPassEnd, WorkerFinish, WorkerRetire, WorkerNotify, WorkerDeliver
  <2> QED BY <1>2, <2>1
<1>8. CASE UNCHANGED vars BY <1>2, <1>8 DEF vars
<1> QED BY <1>4, <1>5, <1>6, <1>7, <1>8 DEF Next

\* An evaluation that has run with a config never goes back to an older one, although
\* the override reaches the queue, the handle and the runner in three critical sections.
THEOREM ConfigsOnlyGrow == Spec => ConfigNeverReverts
PROOF
<1>1. ControlInv /\ ConfigInv /\ [Next]_vars =>
        [\A w \in Workers : HasRun(w) /\ job'[w] = job[w] => runnerCfg'[w] >= runnerCfg[w]]_vars
  BY ConfigForward
<1> QED BY <1>1, ControlInvariant, ConfigInvariant, PTL DEF Spec, ConfigNeverReverts
=============================================================================
