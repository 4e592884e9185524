--------------------------- MODULE SmolnesRuntime ---------------------------
(***************************************************************************)
(* The NES emulator runs on a thread of its own and is paced through one   *)
(* mutex and one condition variable: in lockstep it renders the frames     *)
(* that NesSmolnesScenarioDriver asks for and sleeps between them, in real *)
(* time it runs on by itself.  A savestate is captured at every frame, and *)
(* one that the caller loads is applied by the emulator's thread.          *)
(*                                                                         *)
(* `runtime' is what runtimeMutex guards; an action is one critical        *)
(* section.  The emulated machine is abstracted to the inputs its frames   *)
(* have run with.  A sequence id of the controller matters only as whether *)
(* the pending state has been latched.                                     *)
(***************************************************************************)
EXTENDS Naturals, Sequences

CONSTANTS
  Buttons,          \* controller states; 0 is none
  MaxEpisodeFrames  \* the driver's limit, and the bound on frames run in real time

ASSUME SmolnesAssumption == 0 \in Buttons /\ MaxEpisodeFrames \in Nat

VARIABLES
  runtime,    \* SmolnesRuntimeHandle, and the machine the thread emulates
  emulator,   \* where the emulator's thread is
  asleep,     \* the threads that wait on runtimeCond
  caller,     \* what the driver is doing
  saved,      \* the savestate the driver's user keeps, or NoSavestate
  disturbed   \* frames have run that nobody asked for, and no load has undone them

vars == <<runtime, emulator, asleep, caller, saved, disturbed>>

NoSavestate == [frameId |-> 0, machine |-> <<>>, pending |-> 0, unlatched |-> FALSE, latched |-> 0,
                valid |-> FALSE]

\* What smolnesRuntimeStart resets.
Started ==
  [threadRunning |-> TRUE, threadJoinable |-> TRUE, healthy |-> TRUE, stopRequested |-> FALSE,
   realtime |-> FALSE, waitingForInitialFrameRequest |-> TRUE, renderedFrames |-> 0,
   targetFrames |-> 0, pending |-> 0, unlatched |-> FALSE, latched |-> 0,
   latestSavestate |-> NoSavestate, savestateLoadPending |-> FALSE,
   pendingSavestate |-> NoSavestate, savestateApplied |-> FALSE, machine |-> <<>>]

Idle == [op |-> "idle", then |-> "idle", buttons |-> 0, requested |-> 0, machine |-> <<>>,
         timedOut |-> FALSE]

Init ==
  /\ runtime = [Started EXCEPT !.threadRunning = FALSE, !.threadJoinable = FALSE,
                               !.healthy = FALSE]
  /\ emulator = "none"
  /\ asleep = {}
  /\ caller = Idle
  /\ saved = NoSavestate
  /\ disturbed = FALSE

\* pthread_cond_broadcast.
Broadcast == asleep' = {}

-----------------------------------------------------------------------------
(* The emulator's thread.                                                  *)

CapturedBeforeCounting(r) ==
  [frameId |-> r.renderedFrames - 1, machine |-> r.machine, pending |-> r.pending,
   unlatched |-> r.unlatched, latched |-> r.latched, valid |-> TRUE]

\* captureSavestateLocked.
Captured(r) ==
  [frameId |-> r.renderedFrames, machine |-> r.machine, pending |-> r.pending,
   unlatched |-> r.unlatched, latched |-> r.latched, valid |-> TRUE]

\* The target is left where it was.
RestoredWithoutTarget(r, s) ==
  [r EXCEPT !.machine = s.machine, !.renderedFrames = s.frameId,
            !.waitingForInitialFrameRequest = FALSE,
            !.pending = s.pending, !.unlatched = s.unlatched, !.latched = s.latched]

\* The assignments of applySavestateLocked.
Restored(r, s) ==
  [r EXCEPT !.machine = s.machine, !.renderedFrames = s.frameId, !.targetFrames = s.frameId,
            !.waitingForInitialFrameRequest = FALSE,
            !.pending = s.pending, !.unlatched = s.unlatched, !.latched = s.latched]

\* tryApplyPendingSavestateLocked.
Applied(r) ==
  IF ~r.savestateLoadPending THEN r
  ELSE LET a == Restored(r, r.pendingSavestate) IN
       [a EXCEPT !.latestSavestate = Captured(a), !.savestateLoadPending = FALSE,
                 !.savestateApplied = TRUE]

\* Whoever waits is woken when a savestate is applied; `sleeping' then falls asleep.
SleepersAfter(sleeping) ==
  (IF runtime.savestateLoadPending THEN {} ELSE asleep) \union sleeping

\* smolnesRuntimeEntryPoint reads the ROM, or fails.
LoadRom ==
  /\ emulator = "boot"
  /\ emulator' \in {"begin", "failed"}
  /\ UNCHANGED <<runtime, asleep, caller, saved, disturbed>>

\* FrameExecutionBegin waits for the first request and latches the controller.
FrameExecutionBegin ==
  LET r == Applied(runtime)
      waits == /\ r.waitingForInitialFrameRequest /\ ~r.stopRequested
               /\ ~r.realtime /\ r.renderedFrames >= r.targetFrames
  IN
  /\ emulator = "begin" /\ "emulator" \notin asleep
  /\ disturbed' = (disturbed \/ runtime.savestateLoadPending)
  /\ IF waits
     THEN /\ runtime' = r
          /\ asleep' = SleepersAfter({"emulator"})
          /\ UNCHANGED emulator
     ELSE /\ runtime' = [r EXCEPT !.waitingForInitialFrameRequest = FALSE,
                                  !.latched = IF r.unlatched THEN r.pending ELSE @,
                                  !.unlatched = FALSE]
          /\ asleep' = SleepersAfter({})
          /\ emulator' = "running"
  /\ UNCHANGED <<caller, saved>>

\* The machine runs a frame with the controller as it was latched.
RunFrame ==
  /\ emulator = "running"
  /\ \/ runtime.renderedFrames < runtime.targetFrames
     \/ runtime.renderedFrames < MaxEpisodeFrames
     \/ runtime.stopRequested \/ runtime.savestateLoadPending \/ ~runtime.realtime
  /\ runtime' = [runtime EXCEPT !.machine = Append(@, runtime.latched)]
  /\ emulator' = "present"
  /\ UNCHANGED <<asleep, caller, saved, disturbed>>

ParksAFrameLate(r) == ~r.stopRequested /\ ~r.realtime /\ r.renderedFrames > r.targetFrames

\* In lockstep the thread stays in RenderPresent until a frame is asked for.
Parks(r) == ~r.stopRequested /\ ~r.realtime /\ r.renderedFrames >= r.targetFrames

Counted(r) == [r EXCEPT !.renderedFrames = @ + 1]

RenderPresentRealtime ==
  LET r == Counted(runtime) IN
  /\ emulator = "present" /\ runtime.realtime /\ ~runtime.stopRequested
  /\ runtime' = [r EXCEPT !.targetFrames = IF @ < r.renderedFrames THEN r.renderedFrames ELSE @,
                          !.latestSavestate = Captured(r)]
  /\ Broadcast
  /\ emulator' = "poll"
  /\ UNCHANGED <<caller, saved, disturbed>>

RenderPresentLockstep ==
  LET r == Counted(runtime)
      a == Applied([r EXCEPT !.latestSavestate = Captured(r)])
  IN
  /\ emulator = "present" /\ ~runtime.realtime /\ ~runtime.stopRequested
  /\ runtime' = a
  /\ disturbed' = (disturbed /\ ~runtime.savestateLoadPending)
  /\ IF Parks(a)
     THEN asleep' = {"emulator"} /\ emulator' = "parked"
     ELSE Broadcast /\ emulator' = "poll"
  /\ UNCHANGED <<caller, saved>>

RenderPresentStopped ==
  /\ emulator = "present" /\ runtime.stopRequested
  /\ emulator' = "poll"
  /\ UNCHANGED <<runtime, asleep, caller, saved, disturbed>>

\* RenderPresent's wait returns: a savestate is applied while the thread stays.
RenderPresentWake ==
  /\ emulator = "parked" /\ "emulator" \notin asleep
  /\ IF Parks(runtime)
     THEN /\ runtime' = Applied(runtime)
          /\ asleep' = SleepersAfter({"emulator"})
          /\ disturbed' = (disturbed /\ ~runtime.savestateLoadPending)
          /\ UNCHANGED emulator
     ELSE emulator' = "poll" /\ UNCHANGED <<runtime, asleep, disturbed>>
  /\ UNCHANGED <<caller, saved>>

PollEvent ==
  /\ emulator = "poll"
  /\ emulator' = IF runtime.stopRequested THEN "quit" ELSE "begin"
  /\ UNCHANGED <<runtime, asleep, caller, saved, disturbed>>

\* The end of runtimeThreadMain.
RuntimeThreadEnds ==
  /\ emulator \in {"quit", "failed"}
  /\ runtime' = [runtime EXCEPT !.threadRunning = FALSE,
                   !.healthy = @ /\ (emulator = "quit" \/ runtime.stopRequested)]
  /\ Broadcast
  /\ emulator' = "ended"
  /\ UNCHANGED <<caller, saved, disturbed>>

Emulator ==
  \/ LoadRom \/ FrameExecutionBegin \/ RunFrame \/ RenderPresentRealtime
  \/ RenderPresentLockstep \/ RenderPresentStopped \/ RenderPresentWake \/ PollEvent
  \/ RuntimeThreadEnds

-----------------------------------------------------------------------------
(* The driver: setup, step, savestates, pacing.                            *)

At(op) == caller.op = op /\ "caller" \notin asleep

\* stopRuntime, before a new start or for good; first it paces in lockstep.
StopRuntime(then) ==
  /\ runtime' = [runtime EXCEPT !.realtime = FALSE]
  /\ Broadcast
  /\ caller' = [Idle EXCEPT !.op = "stop", !.then = then]
  /\ UNCHANGED <<emulator, saved, disturbed>>

\* The configuration may turn out to be invalid once the old runtime has been stopped.
Setup == At("idle") /\ \E then \in {"start", "idle"} : StopRuntime(then)
Teardown == At("idle") /\ runtime.threadJoinable /\ StopRuntime("idle")

SleepersOnStopForgotten == asleep' = asleep

\* Whom smolnesRuntimeStop wakes.
SleepersOnStop == Broadcast

SmolnesRuntimeStop ==
  /\ At("stop")
  /\ runtime' = [runtime EXCEPT !.stopRequested = TRUE]
  /\ SleepersOnStop
  /\ caller' = [caller EXCEPT !.op = "join"]
  /\ UNCHANGED <<emulator, saved, disturbed>>

\* The thread has been joined, if there was one.
SmolnesRuntimeStopJoined ==
  /\ At("join") /\ (runtime.threadJoinable => emulator = "ended")
  /\ runtime' = [runtime EXCEPT !.threadJoinable = FALSE, !.threadRunning = FALSE,
                   !.stopRequested = FALSE, !.targetFrames = runtime.renderedFrames,
                   !.savestateLoadPending = FALSE]
  /\ Broadcast
  /\ emulator' = "none"
  /\ caller' = [Idle EXCEPT !.op = caller.then]
  /\ UNCHANGED <<saved, disturbed>>

\* smolnesRuntimeStart, whose pthread_create may fail.
SmolnesRuntimeStart ==
  /\ At("start")
  /\ disturbed' = FALSE
  /\ \/ /\ runtime' = Started
        /\ emulator' = "boot"
        /\ caller' = [Idle EXCEPT !.op = "pace"]
     \/ /\ runtime' = [Started EXCEPT !.threadRunning = FALSE, !.threadJoinable = FALSE,
                                      !.healthy = FALSE]
        /\ caller' = Idle
        /\ UNCHANGED emulator
  /\ UNCHANGED <<asleep, saved>>

\* smolnesRuntimeSetPacingMode, of a runtime that runs.
ApplyRuntimePacingMode(realtime) ==
  /\ IF runtime.threadRunning
     THEN /\ runtime' = [runtime EXCEPT !.realtime = realtime]
          /\ Broadcast
          /\ disturbed' = (disturbed \/ realtime)
     ELSE UNCHANGED <<runtime, asleep, disturbed>>
  /\ caller' = Idle
  /\ UNCHANGED <<emulator, saved>>

\* The end of setup.
SetupPacing ==
  /\ At("pace")
  /\ \E realtime \in BOOLEAN : ApplyRuntimePacingMode(realtime)

\* Live pacing is switched; the second conjunct bounds the frames run in real time.
SetLiveServerPacing(realtime) ==
  /\ At("idle")
  /\ realtime => runtime.renderedFrames < MaxEpisodeFrames
  /\ ApplyRuntimePacingMode(realtime)

\* What a step that has failed does next: stopRuntime, in StopFailed.
StepFails ==
  /\ caller' = [Idle EXCEPT !.op = "failed"]
  /\ UNCHANGED <<emulator, asleep, saved, disturbed>>

\* step checks the runtime and sets the controller; an unhealthy runtime is stopped.
Step(buttons) ==
  /\ At("idle") /\ runtime.threadRunning
  /\ IF ~runtime.healthy
     THEN StepFails /\ UNCHANGED runtime
     ELSE /\ runtime.renderedFrames < MaxEpisodeFrames
          /\ runtime' = [runtime EXCEPT !.pending = buttons,
                           !.unlatched = @ \/ runtime.pending # buttons]
          /\ caller' = [Idle EXCEPT !.op = "step", !.buttons = buttons]
          /\ UNCHANGED <<emulator, asleep, saved, disturbed>>

\* smolnesRuntimeRunFrames asks for one frame, and wakes the emulator.
RunFrames ==
  /\ At("step")
  /\ IF runtime.threadRunning /\ runtime.healthy
     THEN /\ runtime' = [runtime EXCEPT !.targetFrames = @ + 1]
          /\ Broadcast
          /\ caller' = [caller EXCEPT !.op = "frames", !.requested = runtime.targetFrames + 1,
                                      !.machine = runtime.machine]
          /\ UNCHANGED <<emulator, saved, disturbed>>
     ELSE StepFails /\ UNCHANGED runtime

\* The deadline of a wait passes; the mutex is still to be taken.
WaitTimesOut ==
  /\ caller.op \in {"frames", "load"} /\ "caller" \in asleep
  /\ asleep' = asleep \ {"caller"}
  /\ caller' = [caller EXCEPT !.timedOut = TRUE]
  /\ UNCHANGED <<runtime, emulator, saved, disturbed>>

\* A wait on a condition variable may return for no reason.
SpuriousWake ==
  /\ \E thread \in asleep : asleep' = asleep \ {thread}
  /\ UNCHANGED <<runtime, emulator, caller, saved, disturbed>>

Ended == ~runtime.threadRunning \/ ~runtime.healthy

\* The caller waits while the frame, or the savestate, is outstanding.
Waits(op, done) ==
  /\ At(op) /\ ~caller.timedOut /\ ~done /\ ~Ended
  /\ asleep' = asleep \union {"caller"}
  /\ UNCHANGED <<runtime, emulator, caller, saved, disturbed>>

FramesDone == runtime.renderedFrames >= caller.requested

RunFramesWait == Waits("frames", FramesDone)

RunFramesReturn ==
  /\ At("frames") /\ ~caller.timedOut /\ FramesDone
  /\ caller' = Idle
  /\ UNCHANGED <<runtime, emulator, asleep, saved, disturbed>>

\* A deadline that has passed fails the call whatever has become of the frame.
\* Nobody is woken.
RunFramesFail ==
  /\ At("frames") /\ (caller.timedOut \/ (~FramesDone /\ Ended))
  /\ runtime' = [runtime EXCEPT !.healthy = FALSE]
  /\ StepFails

\* The driver stops the runtime of a step that failed.
StopFailed == At("failed") /\ StopRuntime("idle")

\* The last conjunct bounds the frames that cold loads add.
CopySavestate ==
  /\ At("idle") /\ ~Ended /\ runtime.latestSavestate.valid
  /\ runtime.latestSavestate.frameId <= MaxEpisodeFrames
  /\ saved' = runtime.latestSavestate
  /\ UNCHANGED <<runtime, emulator, asleep, caller, disturbed>>

SmolnesRuntimeLoadSavestate ==
  /\ At("idle") /\ ~Ended /\ saved.valid
  /\ runtime' = [runtime EXCEPT !.pendingSavestate = saved, !.savestateLoadPending = TRUE,
                                !.savestateApplied = FALSE]
  /\ Broadcast
  /\ caller' = [Idle EXCEPT !.op = "load"]
  /\ UNCHANGED <<emulator, saved, disturbed>>

LoadSavestateWait == Waits("load", runtime.savestateApplied)

LoadSavestateReturn ==
  /\ At("load") /\ ~caller.timedOut /\ runtime.savestateApplied
  /\ caller' = Idle
  /\ UNCHANGED <<runtime, emulator, asleep, saved, disturbed>>

LoadSavestateFail ==
  /\ At("load") /\ (caller.timedOut \/ (~runtime.savestateApplied /\ Ended))
  /\ runtime' = [runtime EXCEPT !.savestateLoadPending = FALSE,
                                !.healthy = @ /\ ~caller.timedOut]
  /\ caller' = Idle
  /\ UNCHANGED <<emulator, asleep, saved, disturbed>>

Returns ==
  \/ SmolnesRuntimeStop \/ SmolnesRuntimeStopJoined \/ SmolnesRuntimeStart \/ SetupPacing
  \/ RunFrames \/ RunFramesWait \/ RunFramesReturn \/ RunFramesFail \/ StopFailed
  \/ LoadSavestateWait \/ LoadSavestateReturn \/ LoadSavestateFail

Driver ==
  \/ Returns \/ Setup \/ Teardown \/ WaitTimesOut \/ CopySavestate
  \/ SmolnesRuntimeLoadSavestate
  \/ \E realtime \in BOOLEAN : SetLiveServerPacing(realtime)
  \/ \E buttons \in Buttons : Step(buttons)

Next == Emulator \/ Driver \/ SpuriousWake

Spec == Init /\ [][Next]_vars

\* The emulator's thread runs, and so does a call that the driver has begun.
FairSpec == Spec /\ WF_vars(Emulator) /\ WF_vars(Returns)

-----------------------------------------------------------------------------
(* Properties.                                                             *)

Savestate ==
  [frameId : Nat, machine : Seq(Buttons), pending : Buttons, unlatched : BOOLEAN,
   latched : Buttons, valid : BOOLEAN]

\* The runtime, the emulator's place, the sleepers and the driver's call keep their types.
TypeOK ==
  /\ runtime \in
       [threadRunning : BOOLEAN, threadJoinable : BOOLEAN, healthy : BOOLEAN,
        stopRequested : BOOLEAN, realtime : BOOLEAN, waitingForInitialFrameRequest : BOOLEAN,
        renderedFrames : Nat, targetFrames : Nat, pending : Buttons, unlatched : BOOLEAN,
        latched : Buttons, latestSavestate : Savestate, savestateLoadPending : BOOLEAN,
        pendingSavestate : Savestate, savestateApplied : BOOLEAN, machine : Seq(Buttons)]
  /\ emulator \in {"none", "boot", "begin", "running", "present", "parked", "poll", "quit",
                   "failed", "ended"}
  /\ asleep \subseteq {"emulator", "caller"}
  /\ caller \in [op : {"idle", "stop", "join", "start", "pace", "step", "frames", "load",
                        "failed"},
                 then : {"idle", "start"}, buttons : Buttons, requested : Nat,
                 machine : Seq(Buttons), timedOut : BOOLEAN]
  /\ saved \in Savestate
  /\ disturbed \in BOOLEAN

\* A savestate is of a frame boundary: the number it carries is the number of
\* frames that the machine in it has run.
SavestateAtBoundary ==
  \A s \in {runtime.latestSavestate, runtime.pendingSavestate, saved} :
    s.frameId = Len(s.machine)

\* A step in lockstep runs one frame, with the buttons of that step and from the
\* machine that it found, whatever was loaded before.  Excepted are steps after frames
\* that nobody asked for, which run in real time and when a savestate is loaded before
\* the first frame, until a load at a frame boundary undoes them.
StepExact ==
  [][RunFramesReturn /\ ~disturbed =>
       runtime.machine = Append(caller.machine, caller.buttons)]_vars

\* When a load in lockstep returns, the machine, its frame number and its controller
\* are those of the savestate, and the emulator waits for the next request.
LoadRestores ==
  [][LoadSavestateReturn /\ ~disturbed =>
       /\ Captured(runtime) = saved
       /\ runtime.targetFrames = runtime.renderedFrames
       /\ emulator = "parked"]_vars

\* A call of the driver returns, without the help of its timeout.
CallsReturn == caller.op # "idle" ~> caller.op = "idle"
=============================================================================
