------------------------ MODULE SmolnesRuntimeProofs ------------------------
(***************************************************************************)
(* Savestates of the NES runtime are of frame boundaries, and its steps    *)
(* and loads are exact, for every set of controller states and episodes of *)
(* any length.                                                             *)
(*                                                                         *)
(* A savestate is captured in RenderPresent, in which the machine is one   *)
(* frame ahead of renderedFrames until the frame is counted, and after     *)
(* another savestate has been applied.  So the invariant follows the       *)
(* machine around the emulator's loop: it has run the frames counted       *)
(* wherever a frame may begin.  The one frame that is never counted is the *)
(* one presented after a stop was requested, and then the loop ends.       *)
(*                                                                         *)
(* The second part is about lockstep: while no frame runs that nobody      *)
(* asked for, the emulator's place, the frames counted and the target      *)
(* determine one another, so that a call that returns has had its frame or *)
(* its savestate (LockstepInv).                                            *)
(***************************************************************************)
EXTENDS SmolnesRuntime, TLAPS

\* A savestate of a frame boundary.
Boundary(s) == s \in Savestate /\ s.frameId = Len(s.machine)

RuntimeTypes ==
  [threadRunning : BOOLEAN, threadJoinable : BOOLEAN, healthy : BOOLEAN,
   stopRequested : BOOLEAN, realtime : BOOLEAN, waitingForInitialFrameRequest : BOOLEAN,
   renderedFrames : Nat, targetFrames : Nat, pending : Buttons, unlatched : BOOLEAN,
   latched : Buttons, latestSavestate : Savestate, savestateLoadPending : BOOLEAN,
   pendingSavestate : Savestate, savestateApplied : BOOLEAN, machine : Seq(Buttons)]

Places ==
  {"none", "boot", "begin", "running", "present", "parked", "poll", "quit", "failed", "ended"}

Ops == {"idle", "stop", "join", "start", "pace", "step", "frames", "load", "failed"}

Calls ==
  [op : Ops, then : {"idle", "start"}, buttons : Buttons, requested : Nat,
   machine : Seq(Buttons), timedOut : BOOLEAN]

\* A runtime whose savestates are of frame boundaries.
Whole(r) ==
  r \in RuntimeTypes /\ Boundary(r.latestSavestate) /\ Boundary(r.pendingSavestate)

\* Where the machine stands at a place of the loop, relative to the frames counted.
InStep(r, place) ==
  /\ place \in {"boot", "begin", "running", "parked"} => Len(r.machine) = r.renderedFrames
  /\ place = "present" => Len(r.machine) = r.renderedFrames + 1
  /\ place = "poll" => r.stopRequested \/ Len(r.machine) = r.renderedFrames

RuntimeInv ==
  /\ Whole(runtime)
  /\ InStep(runtime, emulator)
  /\ emulator \in Places
  /\ asleep \subseteq {"emulator", "caller"}
  /\ caller \in Calls
  /\ caller.op = "start" => emulator = "none"
  /\ Boundary(saved)
  /\ disturbed \in BOOLEAN

\* Before anything was saved: frame 0 of a machine that has not run.
LEMMA NothingSaved == Boundary(NoSavestate)
BY SmolnesAssumption DEF Boundary, NoSavestate, Savestate

\* smolnesRuntimeStart leaves a well-formed runtime.
LEMMA StartedTypes == Started \in RuntimeTypes
BY NothingSaved, SmolnesAssumption DEF Started, RuntimeTypes, Boundary

\* captureSavestateLocked of a machine that has run the frames counted.
LEMMA CapturedBoundary ==
  ASSUME NEW r \in RuntimeTypes
  PROVE  /\ Captured(r) \in Savestate
         /\ r.renderedFrames = Len(r.machine) => Boundary(Captured(r))
BY DEF Captured, RuntimeTypes, Savestate, Boundary

\* applySavestateLocked brings the machine and the count in step.
LEMMA RestoredInStep ==
  ASSUME NEW r \in RuntimeTypes, NEW s, Boundary(s)
  PROVE  /\ Restored(r, s) \in RuntimeTypes
         /\ Len(Restored(r, s).machine) = Restored(r, s).renderedFrames
         /\ Restored(r, s).latestSavestate = r.latestSavestate
         /\ Restored(r, s).pendingSavestate = r.pendingSavestate
         /\ Restored(r, s).stopRequested = r.stopRequested
BY DEF Restored, RuntimeTypes, Savestate, Boundary

\* tryApplyPendingSavestateLocked keeps the machine in step and the savestates whole.
LEMMA AppliedInStep ==
  ASSUME NEW r, Whole(r)
  PROVE  /\ Whole(Applied(r))
         /\ Applied(r).stopRequested = r.stopRequested
         /\ Len(r.machine) = r.renderedFrames =>
              Len(Applied(r).machine) = Applied(r).renderedFrames
<1> USE DEF Whole
<1> DEFINE a == Restored(r, r.pendingSavestate)
           b == [a EXCEPT !.latestSavestate = Captured(a), !.savestateLoadPending = FALSE,
                          !.savestateApplied = TRUE]
<1>1. CASE ~r.savestateLoadPending
  BY <1>1 DEF Applied
<1>2. CASE r.savestateLoadPending
  <2>1. /\ a \in RuntimeTypes /\ Len(a.machine) = a.renderedFrames
        /\ a.pendingSavestate = r.pendingSavestate /\ a.stopRequested = r.stopRequested
    BY RestoredInStep
  <2>2. Boundary(Captured(a)) /\ Captured(a) \in Savestate
    BY <2>1, CapturedBoundary
  <2>3. Applied(r) = b
    BY <1>2 DEF Applied
  <2> HIDE DEF a
  <2>4. /\ b \in RuntimeTypes /\ b.latestSavestate = Captured(a)
        /\ b.pendingSavestate = a.pendingSavestate /\ b.stopRequested = a.stopRequested
        /\ b.machine = a.machine /\ b.renderedFrames = a.renderedFrames
    BY <2>1, <2>2 DEF RuntimeTypes
  <2> QED
    BY <2>1, <2>2, <2>3, <2>4
<1> QED
  BY <1>1, <1>2

\* The invariant has the properties that the runs check among its parts.
LEMMA InvariantParts == RuntimeInv => TypeOK /\ SavestateAtBoundary
<1> SUFFICES ASSUME RuntimeInv PROVE TypeOK /\ SavestateAtBoundary
  OBVIOUS
<1>1. SavestateAtBoundary
  BY DEF RuntimeInv, Whole, Boundary, SavestateAtBoundary
<1>2. TypeOK
  BY DEF RuntimeInv, Whole, Boundary, TypeOK, RuntimeTypes, Places, Calls, Ops
<1> QED
  BY <1>1, <1>2

\* The driver's record when a call begins or returns.
LEMMA CallTypes ==
  ASSUME NEW op \in Ops, NEW then \in {"idle", "start"}, NEW buttons \in Buttons
  PROVE  /\ Idle \in Calls /\ Idle.op = "idle"
         /\ [Idle EXCEPT !.op = op] \in Calls /\ [Idle EXCEPT !.op = op].op = op
         /\ /\ [Idle EXCEPT !.op = op, !.then = then] \in Calls
            /\ [Idle EXCEPT !.op = op, !.then = then].op = op
         /\ /\ [Idle EXCEPT !.op = op, !.buttons = buttons] \in Calls
            /\ [Idle EXCEPT !.op = op, !.buttons = buttons].op = op
<1>1. Idle \in Calls /\ Idle.op = "idle"
  BY SmolnesAssumption DEF Idle, Calls, Ops
<1> HIDE DEF Idle
<1>2. [Idle EXCEPT !.op = op] \in Calls /\ [Idle EXCEPT !.op = op].op = op
  BY <1>1 DEF Calls
<1>3. /\ [Idle EXCEPT !.op = op, !.then = then] \in Calls
      /\ [Idle EXCEPT !.op = op, !.then = then].op = op
  BY <1>1 DEF Calls
<1>4. /\ [Idle EXCEPT !.op = op, !.buttons = buttons] \in Calls
      /\ [Idle EXCEPT !.op = op, !.buttons = buttons].op = op
  BY <1>1 DEF Calls
<1> QED
  BY <1>1, <1>2, <1>3, <1>4

\* The initial state satisfies the invariant.
LEMMA RuntimeInit == Init => RuntimeInv
<1> SUFFICES ASSUME Init PROVE RuntimeInv
  OBVIOUS
<1>1. runtime \in RuntimeTypes /\ runtime.latestSavestate = NoSavestate
      /\ runtime.pendingSavestate = NoSavestate
  BY StartedTypes DEF Init, Started, RuntimeTypes
<1>2. caller \in Calls /\ caller.op = "idle"
  BY SmolnesAssumption DEF Init, Idle, Calls, Ops
<1>3. InStep(runtime, emulator)
  BY DEF Init, InStep
<1> QED
  BY <1>1, <1>2, <1>3, NothingSaved DEF Init, RuntimeInv, Whole, Places

\* The emulator's thread keeps the invariant.
LEMMA EmulatorStep == RuntimeInv /\ Emulator => RuntimeInv'
<1> SUFFICES ASSUME RuntimeInv, Emulator PROVE RuntimeInv'
  OBVIOUS
<1> USE DEF RuntimeInv
<1>1. CASE LoadRom
  BY <1>1 DEF LoadRom, InStep, Places
<1>2. CASE FrameExecutionBegin
  <2> DEFINE r == Applied(runtime)
             b == [r EXCEPT !.waitingForInitialFrameRequest = FALSE,
                            !.latched = IF r.unlatched THEN r.pending ELSE @,
                            !.unlatched = FALSE]
  <2>1. Whole(r) /\ Len(r.machine) = r.renderedFrames
    BY <1>2, AppliedInStep DEF FrameExecutionBegin, InStep
  <2>2. asleep' \subseteq {"emulator", "caller"} /\ disturbed' \in BOOLEAN
    BY <1>2 DEF FrameExecutionBegin, SleepersAfter, Whole, RuntimeTypes
  <2>3. \/ runtime' = r /\ emulator' = emulator
        \/ runtime' = b /\ emulator' = "running"
    BY <1>2 DEF FrameExecutionBegin
  <2> HIDE DEF r
  <2>4. Whole(b) /\ Len(b.machine) = b.renderedFrames
    BY <2>1 DEF Whole, RuntimeTypes
  <2> HIDE DEF b
  <2> QED
    BY <1>2, <2>1, <2>2, <2>3, <2>4 DEF FrameExecutionBegin, InStep, Places
<1>3. CASE RunFrame
  <2> DEFINE grown == Append(runtime.machine, runtime.latched)
             b == [runtime EXCEPT !.machine = grown]
  <2>1. /\ runtime \in RuntimeTypes
        /\ runtime.machine \in Seq(Buttons) /\ runtime.latched \in Buttons
        /\ Len(runtime.machine) = runtime.renderedFrames
    BY <1>3 DEF RunFrame, InStep, Whole, RuntimeTypes
  <2>2. grown \in Seq(Buttons) /\ Len(grown) = Len(runtime.machine) + 1
    BY <2>1
  <2>3. runtime' = b /\ emulator' = "present"
    BY <1>3 DEF RunFrame
  <2> HIDE DEF grown
  <2>4. b \in RuntimeTypes /\ b.machine = grown /\ b.renderedFrames = runtime.renderedFrames
        /\ b.latestSavestate = runtime.latestSavestate
        /\ b.pendingSavestate = runtime.pendingSavestate
    BY <2>1, <2>2 DEF RuntimeTypes
  <2> HIDE DEF b
  <2>5. Whole(b) /\ Len(b.machine) = b.renderedFrames + 1
    BY <2>1, <2>2, <2>4 DEF Whole
  <2> QED
    BY <1>3, <2>3, <2>5 DEF RunFrame, InStep, Places
<1>4. CASE RenderPresentRealtime
  <2> DEFINE r == Counted(runtime)
             b == [r EXCEPT !.targetFrames = IF @ < r.renderedFrames THEN r.renderedFrames ELSE @,
                            !.latestSavestate = Captured(r)]
  <2>1. Whole(r) /\ Len(r.machine) = r.renderedFrames
    BY <1>4 DEF RenderPresentRealtime, Counted, InStep, Whole, RuntimeTypes
  <2>2. Boundary(Captured(r)) /\ Captured(r) \in Savestate
    BY <2>1, CapturedBoundary DEF Whole
  <2>3. runtime' = b /\ emulator' = "poll"
    BY <1>4 DEF RenderPresentRealtime
  <2> HIDE DEF r
  <2>4. Whole(b) /\ Len(b.machine) = b.renderedFrames
    BY <2>1, <2>2 DEF Whole, RuntimeTypes
  <2> HIDE DEF b
  <2> QED
    BY <1>4, <2>3, <2>4 DEF RenderPresentRealtime, Broadcast, InStep, Places
<1>5. CASE RenderPresentLockstep
  <2> DEFINE r == Counted(runtime)
             b == [r EXCEPT !.latestSavestate = Captured(r)]
  <2>1. Whole(r) /\ Len(r.machine) = r.renderedFrames
    BY <1>5 DEF RenderPresentLockstep, Counted, InStep, Whole, RuntimeTypes
  <2>2. Boundary(Captured(r)) /\ Captured(r) \in Savestate
    BY <2>1, CapturedBoundary DEF Whole
  <2>3. runtime' = Applied(b) /\ emulator' \in {"parked", "poll"}
        /\ asleep' \in {{"emulator"}, {}} /\ disturbed' \in BOOLEAN
    BY <1>5 DEF RenderPresentLockstep, Broadcast, Whole, RuntimeTypes
  <2> HIDE DEF r
  <2>4. Whole(b) /\ Len(b.machine) = b.renderedFrames
    BY <2>1, <2>2 DEF Whole, RuntimeTypes
  <2> HIDE DEF b
  <2>5. Whole(runtime') /\ Len(runtime'.machine) = runtime'.renderedFrames
    BY <2>3, <2>4, AppliedInStep
  <2> QED
    BY <1>5, <2>3, <2>5 DEF RenderPresentLockstep, InStep, Places
<1>6. CASE RenderPresentStopped
  BY <1>6 DEF RenderPresentStopped, InStep, Places
<1>7. CASE RenderPresentWake
  <2>1. CASE Parks(runtime)
    <3>1. runtime' = Applied(runtime) /\ emulator' = emulator
      BY <1>7, <2>1 DEF RenderPresentWake
    <3>2. Whole(runtime') /\ Len(runtime'.machine) = runtime'.renderedFrames
      BY <1>7, <3>1, AppliedInStep DEF RenderPresentWake, InStep
    <3>3. asleep' \subseteq {"emulator", "caller"} /\ disturbed' \in BOOLEAN
      BY <1>7, <2>1 DEF RenderPresentWake, SleepersAfter, Whole, RuntimeTypes
    <3> QED
      BY <1>7, <3>1, <3>2, <3>3 DEF RenderPresentWake, InStep, Places
  <2>2. CASE ~Parks(runtime)
    BY <1>7, <2>2 DEF RenderPresentWake, InStep, Places
  <2> QED
    BY <2>1, <2>2
<1>8. CASE PollEvent
  BY <1>8 DEF PollEvent, InStep, Places
<1>9. CASE RuntimeThreadEnds
  <2>1. Whole(runtime')
    BY <1>9 DEF RuntimeThreadEnds, Whole, RuntimeTypes
  <2> QED
    BY <1>9, <2>1 DEF RuntimeThreadEnds, Broadcast, InStep, Places
<1> QED
  BY <1>1, <1>2, <1>3, <1>4, <1>5, <1>6, <1>7, <1>8, <1>9 DEF Emulator
\* A step that writes only flags, the controller or the target keeps the runtime whole
\* and the machine in step.
LEMMA FlagsOnly ==
  ASSUME NEW r, Whole(r), NEW q \in RuntimeTypes, NEW place, InStep(r, place),
         q.machine = r.machine, q.renderedFrames = r.renderedFrames,
         q.latestSavestate = r.latestSavestate, q.pendingSavestate = r.pendingSavestate,
         r.stopRequested => q.stopRequested
  PROVE  Whole(q) /\ InStep(q, place)
BY DEF Whole, InStep

\* A call that stops the runtime, from wherever it is made.
LEMMA StopRuntimeKeeps ==
  ASSUME RuntimeInv, NEW then \in {"idle", "start"}, StopRuntime(then)
  PROVE  RuntimeInv'
<1> DEFINE q == [runtime EXCEPT !.realtime = FALSE]
<1>1. runtime' = q
  BY DEF StopRuntime
<1>2. /\ q \in RuntimeTypes /\ q.machine = runtime.machine
      /\ q.renderedFrames = runtime.renderedFrames /\ q.stopRequested = runtime.stopRequested
      /\ q.latestSavestate = runtime.latestSavestate
      /\ q.pendingSavestate = runtime.pendingSavestate
  BY DEF RuntimeInv, Whole, RuntimeTypes
<1> HIDE DEF q
<1>3. Whole(q) /\ InStep(q, emulator)
  BY <1>2, FlagsOnly DEF RuntimeInv
<1>4. caller' \in Calls /\ caller'.op = "stop"
  BY CallTypes, SmolnesAssumption, ZenonT(40) DEF StopRuntime, Ops
<1> QED
  BY <1>1, <1>3, <1>4 DEF StopRuntime, RuntimeInv, Broadcast

\* A step that fails leaves a call that is still to stop the runtime.
LEMMA FailedCall ==
  ASSUME RuntimeInv, StepFails
  PROVE  /\ caller' \in Calls /\ caller'.op = "failed"
         /\ UNCHANGED <<emulator, asleep, saved, disturbed>>
<1>1. caller' = [Idle EXCEPT !.op = "failed"] /\ "failed" \in Ops
  BY DEF StepFails, Ops
<1>2. caller' \in Calls /\ caller'.op = "failed"
  BY <1>1, CallTypes, SmolnesAssumption
<1> QED
  BY <1>2 DEF StepFails

\* A change of the pacing keeps the invariant.
LEMMA PacingKeeps ==
  ASSUME RuntimeInv, NEW realtime \in BOOLEAN, ApplyRuntimePacingMode(realtime)
  PROVE  RuntimeInv'
<1> DEFINE q == [runtime EXCEPT !.realtime = realtime]
<1>1. caller' \in Calls /\ caller'.op = "idle" /\ emulator' = emulator /\ saved' = saved
  BY CallTypes, SmolnesAssumption DEF ApplyRuntimePacingMode, Ops
<1>2. asleep' \subseteq {"emulator", "caller"} /\ disturbed' \in BOOLEAN
  BY DEF ApplyRuntimePacingMode, RuntimeInv, Broadcast
<1>3. runtime' = q \/ runtime' = runtime
  BY DEF ApplyRuntimePacingMode
<1>4. /\ q \in RuntimeTypes /\ q.machine = runtime.machine
      /\ q.renderedFrames = runtime.renderedFrames /\ q.stopRequested = runtime.stopRequested
      /\ q.latestSavestate = runtime.latestSavestate
      /\ q.pendingSavestate = runtime.pendingSavestate
  BY DEF RuntimeInv, Whole, RuntimeTypes
<1> HIDE DEF q
<1>5. Whole(q) /\ InStep(q, emulator)
  BY <1>4, FlagsOnly DEF RuntimeInv
<1> QED
  BY <1>1, <1>2, <1>3, <1>5 DEF RuntimeInv

\* The driver keeps the invariant while a call is under way.
LEMMA ReturnsStep == RuntimeInv /\ Returns => RuntimeInv'
<1> SUFFICES ASSUME RuntimeInv, Returns PROVE RuntimeInv'
  OBVIOUS
<1> USE DEF RuntimeInv, At
<1>0. runtime \in RuntimeTypes
  BY DEF Whole
<1>1. CASE SmolnesRuntimeStop
  <2> DEFINE q == [runtime EXCEPT !.stopRequested = TRUE]
  <2>1. runtime' = q /\ emulator' = emulator
    BY <1>1 DEF SmolnesRuntimeStop, Calls, SleepersOnStop
  <2>2. /\ q \in RuntimeTypes /\ q.machine = runtime.machine
        /\ q.renderedFrames = runtime.renderedFrames
        /\ runtime.stopRequested => q.stopRequested
        /\ q.latestSavestate = runtime.latestSavestate
        /\ q.pendingSavestate = runtime.pendingSavestate
    BY <1>0 DEF RuntimeTypes, Calls
  <2> HIDE DEF q
  <2>3. Whole(q) /\ InStep(q, emulator)
    BY <2>2, FlagsOnly
  <2>4. caller' \in Calls /\ caller'.op = "join"
    BY <1>1 DEF SmolnesRuntimeStop, Calls, Ops
  <2> QED
    BY <1>1, <2>1, <2>3, <2>4 DEF SmolnesRuntimeStop, Calls, SleepersOnStop, Broadcast
<1>2. CASE SmolnesRuntimeStopJoined
  <2> DEFINE q == [runtime EXCEPT !.threadJoinable = FALSE, !.threadRunning = FALSE,
                     !.stopRequested = FALSE, !.targetFrames = runtime.renderedFrames,
                     !.savestateLoadPending = FALSE]
  <2>1. runtime' = q /\ emulator' = "none"
    BY <1>2 DEF SmolnesRuntimeStopJoined
  <2>2. Whole(q)
    BY <1>0 DEF RuntimeTypes, Whole
  <2> HIDE DEF q
  <2>3. caller.then \in Ops
    BY DEF Calls, Ops
  <2>4. caller' \in Calls
    BY <1>2, <2>3, CallTypes, SmolnesAssumption DEF SmolnesRuntimeStopJoined
  <2> QED
    BY <1>2, <2>1, <2>2, <2>4 DEF SmolnesRuntimeStopJoined, Broadcast, InStep, Places
<1>3. CASE SmolnesRuntimeStart
  <2> DEFINE q == [Started EXCEPT !.threadRunning = FALSE, !.threadJoinable = FALSE,
                                  !.healthy = FALSE]
  <2>1. Whole(Started) /\ Len(Started.machine) = Started.renderedFrames
    BY StartedTypes, NothingSaved DEF Started, Whole
  <2>2. Whole(q) /\ Len(q.machine) = q.renderedFrames
    BY <2>1 DEF Whole, RuntimeTypes
  <2>3. emulator = "none"
    BY <1>3 DEF SmolnesRuntimeStart
  <2>4. \/ runtime' = Started /\ emulator' = "boot"
        \/ runtime' = q /\ emulator' = "none"
    BY <1>3, <2>3 DEF SmolnesRuntimeStart
  <2>5. caller' \in Calls /\ caller'.op # "start"
    BY <1>3, CallTypes, SmolnesAssumption, ZenonT(40) DEF SmolnesRuntimeStart, Ops
  <2> HIDE DEF q
  <2>6. InStep(runtime', emulator')
    BY <2>1, <2>2, <2>4 DEF InStep
  <2>7. disturbed' \in BOOLEAN /\ asleep' = asleep /\ saved' = saved
    BY <1>3 DEF SmolnesRuntimeStart
  <2> QED
    BY <2>1, <2>2, <2>4, <2>5, <2>6, <2>7 DEF Places
<1>4. CASE SetupPacing
  BY <1>4, PacingKeeps DEF SetupPacing
<1>5. CASE RunFrames
  <2>1. CASE runtime.threadRunning /\ runtime.healthy
    <3> DEFINE q == [runtime EXCEPT !.targetFrames = @ + 1]
    <3>1. runtime' = q /\ emulator' = emulator
      BY <1>5, <2>1 DEF RunFrames
    <3>2. /\ q \in RuntimeTypes /\ q.machine = runtime.machine
          /\ q.renderedFrames = runtime.renderedFrames
          /\ q.stopRequested = runtime.stopRequested
          /\ q.latestSavestate = runtime.latestSavestate
          /\ q.pendingSavestate = runtime.pendingSavestate
      BY <1>0 DEF RuntimeTypes
    <3> HIDE DEF q
    <3>3. Whole(q) /\ InStep(q, emulator)
      BY <3>2, FlagsOnly
    <3>4. runtime.targetFrames + 1 \in Nat /\ runtime.machine \in Seq(Buttons)
      BY <1>0 DEF RuntimeTypes
    <3>5. caller' \in Calls /\ caller'.op = "frames"
      BY <1>5, <2>1, <3>4 DEF RunFrames, Calls, Ops
    <3> QED
      BY <1>5, <2>1, <3>1, <3>3, <3>5 DEF RunFrames, Broadcast
  <2>2. CASE ~(runtime.threadRunning /\ runtime.healthy)
    <3>1. StepFails /\ UNCHANGED runtime
      BY <1>5, <2>2 DEF RunFrames
    <3> QED
      BY <3>1, FailedCall
  <2> QED
    BY <2>1, <2>2
<1>6. CASE RunFramesWait \/ LoadSavestateWait
  BY <1>6 DEF RunFramesWait, LoadSavestateWait, Waits
<1>7. CASE RunFramesReturn \/ LoadSavestateReturn
  <2>1. caller' \in Calls /\ caller'.op = "idle"
    BY <1>7, CallTypes, SmolnesAssumption, ZenonT(40) DEF RunFramesReturn, LoadSavestateReturn, Ops
  <2>2. UNCHANGED <<runtime, emulator, asleep, saved, disturbed>>
    BY <1>7 DEF RunFramesReturn, LoadSavestateReturn
  <2> QED
    BY <2>1, <2>2
<1>8. CASE RunFramesFail
  <2> DEFINE q == [runtime EXCEPT !.healthy = FALSE]
  <2>1. runtime' = q /\ StepFails
    BY <1>8 DEF RunFramesFail
  <2>2. /\ q \in RuntimeTypes /\ q.machine = runtime.machine
        /\ q.renderedFrames = runtime.renderedFrames
        /\ runtime.stopRequested => q.stopRequested
        /\ q.latestSavestate = runtime.latestSavestate
        /\ q.pendingSavestate = runtime.pendingSavestate
    BY <1>0 DEF RuntimeTypes, Calls
  <2> HIDE DEF q
  <2>3. Whole(q) /\ InStep(q, emulator)
    BY <2>2, FlagsOnly
  <2> QED
    BY <2>1, <2>3, FailedCall
<1>9. CASE LoadSavestateFail
  <2> DEFINE q == [runtime EXCEPT !.savestateLoadPending = FALSE,
                              !.healthy = @ /\ ~caller.timedOut]
  <2>1. runtime' = q /\ emulator' = emulator
    BY <1>9 DEF LoadSavestateFail
  <2>2. /\ q \in RuntimeTypes /\ q.machine = runtime.machine
        /\ q.renderedFrames = runtime.renderedFrames
        /\ runtime.stopRequested => q.stopRequested
        /\ q.latestSavestate = runtime.latestSavestate
        /\ q.pendingSavestate = runtime.pendingSavestate
    BY <1>0 DEF RuntimeTypes, Calls
  <2> HIDE DEF q
  <2>3. Whole(q) /\ InStep(q, emulator)
    BY <2>2, FlagsOnly
  <2>4. caller' \in Calls /\ caller'.op = "idle"
    BY <1>9, CallTypes, SmolnesAssumption DEF LoadSavestateFail, Ops
  <2> QED
    BY <1>9, <2>1, <2>3, <2>4 DEF LoadSavestateFail, Broadcast
<1>10. CASE StopFailed
  BY <1>10, StopRuntimeKeeps DEF StopFailed
<1> QED
  BY <1>1, <1>2, <1>3, <1>4, <1>5, <1>6, <1>7, <1>8, <1>9, <1>10 DEF Returns

\* Every step of the driver keeps the invariant.
LEMMA DriverStep == RuntimeInv /\ Driver => RuntimeInv'
<1> SUFFICES ASSUME RuntimeInv, Driver PROVE RuntimeInv'
  OBVIOUS
<1> USE DEF RuntimeInv, At
<1>0. runtime \in RuntimeTypes
  BY DEF Whole
<1>1. CASE Returns
  BY <1>1, ReturnsStep
<1>2. CASE Setup \/ Teardown
  BY <1>2, StopRuntimeKeeps DEF Setup, Teardown
<1>3. CASE WaitTimesOut
  BY <1>3 DEF WaitTimesOut, Calls
<1>4. CASE CopySavestate
  BY <1>4 DEF CopySavestate, Whole
<1>5. CASE SmolnesRuntimeLoadSavestate
  <2> DEFINE q == [runtime EXCEPT !.pendingSavestate = saved, !.savestateLoadPending = TRUE,
                                  !.savestateApplied = FALSE]
  <2>1. runtime' = q /\ emulator' = emulator
    BY <1>5 DEF SmolnesRuntimeLoadSavestate
  <2>2. Whole(q) /\ InStep(q, emulator)
    BY <1>0 DEF RuntimeTypes, Whole, InStep, Boundary
  <2> HIDE DEF q
  <2>3. caller' \in Calls /\ caller'.op = "load"
    BY <1>5, CallTypes, SmolnesAssumption DEF SmolnesRuntimeLoadSavestate, Ops
  <2> QED
    BY <1>5, <2>1, <2>2, <2>3 DEF SmolnesRuntimeLoadSavestate, Broadcast
<1>6. CASE \E realtime \in BOOLEAN : SetLiveServerPacing(realtime)
  BY <1>6, PacingKeeps DEF SetLiveServerPacing
<1>7. CASE \E buttons \in Buttons : Step(buttons)
  <2> PICK buttons \in Buttons : Step(buttons)
    BY <1>7
  <2>1. CASE ~runtime.healthy
    <3>1. StepFails /\ UNCHANGED runtime
      BY <2>1 DEF Step
    <3> QED
      BY <3>1, FailedCall
  <2>2. CASE runtime.healthy
    <3> DEFINE q == [runtime EXCEPT !.pending = buttons,
                       !.unlatched = @ \/ runtime.pending # buttons]
    <3>1. runtime' = q /\ emulator' = emulator
      BY <2>2 DEF Step
    <3>2. /\ q \in RuntimeTypes /\ q.machine = runtime.machine
          /\ q.renderedFrames = runtime.renderedFrames
          /\ q.stopRequested = runtime.stopRequested
          /\ q.latestSavestate = runtime.latestSavestate
          /\ q.pendingSavestate = runtime.pendingSavestate
      BY <1>0 DEF RuntimeTypes
    <3> HIDE DEF q
    <3>3. Whole(q) /\ InStep(q, emulator)
      BY <3>2, FlagsOnly
    <3>4. caller' \in Calls /\ caller'.op = "step"
      <4>1. caller' = [Idle EXCEPT !.op = "step", !.buttons = buttons] /\ "step" \in Ops
        BY <2>2 DEF Step, Ops
      <4> QED
        BY <4>1, CallTypes
    <3> QED
      BY <2>2, <3>1, <3>3, <3>4 DEF Step
  <2> QED
    BY <2>1, <2>2 DEF Whole, RuntimeTypes
<1> QED
  BY <1>1, <1>2, <1>3, <1>4, <1>5, <1>6, <1>7 DEF Driver

\* The invariant is inductive.
LEMMA RuntimeInductive == RuntimeInv /\ [Next]_vars => RuntimeInv'
<1> SUFFICES ASSUME RuntimeInv, [Next]_vars PROVE RuntimeInv'
  OBVIOUS
<1>1. CASE Emulator
  BY <1>1, EmulatorStep
<1>2. CASE Driver
  BY <1>2, DriverStep
<1>3. CASE SpuriousWake
  BY <1>3 DEF SpuriousWake, RuntimeInv
<1>4. CASE UNCHANGED vars
  BY <1>4 DEF vars, RuntimeInv
<1> QED
  BY <1>1, <1>2, <1>3, <1>4 DEF Next

\* The runtime's variables keep their types, for every set of controller states and
\* episodes of any length.
THEOREM RuntimeTypeCorrect == Spec => []TypeOK
<1>1. Init => RuntimeInv
  BY RuntimeInit
<1>2. RuntimeInv /\ [Next]_vars => RuntimeInv'
  BY RuntimeInductive
<1>3. RuntimeInv => TypeOK
  BY InvariantParts
<1> QED
  BY <1>1, <1>2, <1>3, PTL DEF Spec

\* Whatever calls, timeouts, stops and loads interleave with the emulator, the savestate
\* it publishes, the one that is to be loaded and the one the user keeps are of a frame
\* boundary (captureSavestateLocked).
THEOREM SavestatesAreOfBoundaries == Spec => []SavestateAtBoundary
<1>1. Init => RuntimeInv
  BY RuntimeInit
<1>2. RuntimeInv /\ [Next]_vars => RuntimeInv'
  BY RuntimeInductive
<1>3. RuntimeInv => SavestateAtBoundary
  BY InvariantParts
<1> QED
  BY <1>1, <1>2, <1>3, PTL DEF Spec
-----------------------------------------------------------------------------
(* Lockstep: what a step runs and what a load restores.                    *)

\* The latched controller state is the pending one, unless that is yet to be latched.
Follows(r) == r.unlatched \/ r.latched = r.pending

ControllerFollows ==
  /\ Follows(runtime) /\ Follows(runtime.latestSavestate) /\ Follows(runtime.pendingSavestate)
  /\ Follows(saved)

\* A stop or a load that is outstanding belongs to the call under way.
Requests ==
  /\ runtime.stopRequested => caller.op = "join"
  /\ runtime.savestateLoadPending => caller.op = "load" /\ ~runtime.savestateApplied
  /\ caller.op = "load" => /\ runtime.savestateLoadPending \/ runtime.savestateApplied
                           /\ runtime.pendingSavestate = saved /\ saved.valid
  /\ ~disturbed => ~runtime.realtime

\* No frame is asked for, and none is run.
Still ==
  /\ runtime.renderedFrames = runtime.targetFrames
  /\ emulator \notin {"running", "present", "poll", "quit"}
  /\ emulator \in {"boot", "begin"} => runtime.waitingForInitialFrameRequest

\* The frame of a step is to be run, or has been run and is to be counted.
StepUnderWay ==
  /\ runtime.renderedFrames + 1 = caller.requested /\ runtime.targetFrames = caller.requested
  /\ runtime.machine = IF emulator = "present" THEN Append(caller.machine, caller.buttons)
                       ELSE caller.machine
  /\ emulator = "running" => runtime.latched = caller.buttons
  /\ emulator # "quit"

StepDone ==
  /\ runtime.renderedFrames = caller.requested /\ runtime.targetFrames = caller.requested
  /\ runtime.machine = Append(caller.machine, caller.buttons)
  /\ emulator = "parked"

Lockstep ==
  ~disturbed =>
    /\ caller.op \in {"idle", "pace", "step", "load"} => Still
    /\ caller.op = "frames" => StepUnderWay \/ StepDone
    /\ caller.op \in {"step", "frames"} => runtime.pending = caller.buttons
    /\ caller.op = "load" /\ runtime.savestateApplied =>
         Captured(runtime) = saved /\ emulator = "parked"

LockstepInv == RuntimeInv /\ ControllerFollows /\ Requests /\ Lockstep

\* What applying a savestate does to the runtime.
LEMMA AppliedFields ==
  ASSUME NEW r, Whole(r), NEW a, a = Applied(r)
  PROVE  /\ ~r.savestateLoadPending => a = r
         /\ r.savestateLoadPending =>
              LET s == r.pendingSavestate IN
              /\ a.machine = s.machine /\ a.renderedFrames = s.frameId
              /\ a.targetFrames = s.frameId /\ a.pending = s.pending
              /\ a.unlatched = s.unlatched /\ a.latched = s.latched
              /\ a.latestSavestate = Captured(a)
              /\ ~a.savestateLoadPending /\ a.savestateApplied /\ a.pendingSavestate = s
              /\ a.stopRequested = r.stopRequested /\ a.realtime = r.realtime
              /\ s.valid => Captured(a) = s
<1>1. CASE ~r.savestateLoadPending
  BY <1>1 DEF Applied
<1>2. CASE r.savestateLoadPending
  <2> DEFINE s == r.pendingSavestate
             b == Restored(r, s)
  <2>1. r \in RuntimeTypes /\ s \in Savestate
    BY DEF Whole, Boundary
  <2>2. a = [b EXCEPT !.latestSavestate = Captured(b), !.savestateLoadPending = FALSE,
                      !.savestateApplied = TRUE]
    BY <1>2 DEF Applied
  <2> HIDE DEF s
  <2>3. /\ b.machine = s.machine /\ b.renderedFrames = s.frameId
        /\ b.targetFrames = s.frameId /\ b.pending = s.pending
        /\ b.unlatched = s.unlatched /\ b.latched = s.latched
        /\ b.pendingSavestate = r.pendingSavestate
        /\ b.stopRequested = r.stopRequested /\ b.realtime = r.realtime
        /\ b \in RuntimeTypes
    BY <2>1 DEF Restored, RuntimeTypes, Savestate
  <2> HIDE DEF b
  <2>4. /\ a.machine = b.machine /\ a.renderedFrames = b.renderedFrames
        /\ a.targetFrames = b.targetFrames /\ a.pending = b.pending
        /\ a.unlatched = b.unlatched /\ a.latched = b.latched
        /\ a.latestSavestate = Captured(b)
        /\ ~a.savestateLoadPending /\ a.savestateApplied
        /\ a.pendingSavestate = b.pendingSavestate
        /\ a.stopRequested = b.stopRequested /\ a.realtime = b.realtime
    BY <2>2, <2>3 DEF RuntimeTypes
  <2>5. Captured(a) = Captured(b)
    BY <2>4 DEF Captured
  <2>6. ASSUME s.valid PROVE Captured(a) = s
    <3>1. s = [frameId |-> s.frameId, machine |-> s.machine, pending |-> s.pending,
               unlatched |-> s.unlatched, latched |-> s.latched, valid |-> s.valid]
      BY <2>1 DEF Savestate
    <3>2. s.valid = TRUE
      BY <2>1, <2>6 DEF Savestate
    <3>3. Captured(a) = [frameId |-> s.frameId, machine |-> s.machine, pending |-> s.pending,
                         unlatched |-> s.unlatched, latched |-> s.latched, valid |-> TRUE]
      BY <2>3, <2>4 DEF Captured
    <3> QED
      BY <3>1, <3>2, <3>3
  <2> QED
    BY <1>2, <2>3, <2>4, <2>5, <2>6 DEF s
<1> QED
  BY <1>1, <1>2

\* The initial state: nothing runs.
LEMMA LockstepInit == Init => LockstepInv
<1> SUFFICES ASSUME Init PROVE LockstepInv
  OBVIOUS
<1>1. RuntimeInv
  BY RuntimeInit
<1>2. /\ ~runtime.unlatched /\ runtime.latched = 0 /\ runtime.pending = 0
      /\ ~runtime.stopRequested /\ ~runtime.savestateLoadPending /\ ~runtime.realtime
      /\ runtime.renderedFrames = 0 /\ runtime.targetFrames = 0
      /\ runtime.latestSavestate = NoSavestate /\ runtime.pendingSavestate = NoSavestate
  BY DEF Init, Started
<1>3. caller.op = "idle" /\ emulator = "none" /\ saved = NoSavestate
  BY DEF Init, Idle
<1>4. Follows(NoSavestate)
  BY DEF Follows, NoSavestate
<1> QED
  BY <1>1, <1>2, <1>3, <1>4
     DEF LockstepInv, ControllerFollows, Follows, Requests, Lockstep, Still

\* A step that changes nothing but flags of the thread.
LEMMA ThreadFlagsOnly ==
  ASSUME ControllerFollows, Requests, Lockstep, UNCHANGED <<emulator, caller, saved, disturbed>>,
         runtime'.stopRequested = runtime.stopRequested, runtime'.realtime = runtime.realtime,
         runtime'.waitingForInitialFrameRequest = runtime.waitingForInitialFrameRequest,
         runtime'.renderedFrames = runtime.renderedFrames,
         runtime'.targetFrames = runtime.targetFrames, runtime'.machine = runtime.machine,
         runtime'.pending = runtime.pending, runtime'.unlatched = runtime.unlatched,
         runtime'.latched = runtime.latched,
         runtime'.latestSavestate = runtime.latestSavestate,
         runtime'.pendingSavestate = runtime.pendingSavestate,
         runtime'.savestateLoadPending = runtime.savestateLoadPending,
         runtime'.savestateApplied = runtime.savestateApplied
  PROVE  ControllerFollows' /\ Requests' /\ Lockstep'
<1>1. ControllerFollows' /\ Requests'
  BY DEF ControllerFollows, Follows, Requests
<1>2. Lockstep'
  BY DEF Lockstep, Still, StepUnderWay, StepDone, Captured
<1> QED
  BY <1>1, <1>2

\* The emulator's thread runs the frame that is asked for, and no other.
LEMMA EmulatorLockstep ==
  ASSUME LockstepInv, Emulator
  PROVE  ControllerFollows' /\ Requests' /\ Lockstep'
<1>0. /\ Whole(runtime) /\ runtime \in RuntimeTypes /\ caller \in Calls /\ Boundary(saved)
      /\ ControllerFollows /\ Requests /\ Lockstep
      /\ disturbed \in BOOLEAN
  BY DEF LockstepInv, RuntimeInv, Whole
<1>1. CASE LoadRom
  <2>1. ControllerFollows' /\ Requests'
    BY <1>0, <1>1 DEF LoadRom, ControllerFollows, Follows, Requests
  <2>2. Lockstep'
    BY <1>0, <1>1 DEF LoadRom, Lockstep, Still, StepUnderWay, StepDone, Captured
  <2> QED
    BY <2>1, <2>2
<1>2. CASE FrameExecutionBegin
  <2> DEFINE r == Applied(runtime)
  <2>1. emulator = "begin" /\ UNCHANGED <<caller, saved>>
        /\ disturbed' = (disturbed \/ runtime.savestateLoadPending)
    BY <1>2 DEF FrameExecutionBegin
  <2>2. r \in RuntimeTypes
    BY <1>0, AppliedInStep DEF Whole
  <2>3. /\ ~runtime.savestateLoadPending => r = runtime
        /\ runtime.savestateLoadPending =>
             /\ r.pending = runtime.pendingSavestate.pending
             /\ r.unlatched = runtime.pendingSavestate.unlatched
             /\ r.latched = runtime.pendingSavestate.latched
             /\ r.latestSavestate = Captured(r)
             /\ ~r.savestateLoadPending /\ r.savestateApplied
             /\ r.pendingSavestate = runtime.pendingSavestate
             /\ r.stopRequested = runtime.stopRequested
    BY <1>0, AppliedFields
  <2> DEFINE b == [r EXCEPT !.waitingForInitialFrameRequest = FALSE,
                            !.latched = IF r.unlatched THEN r.pending ELSE @,
                            !.unlatched = FALSE]
             waits == /\ r.waitingForInitialFrameRequest /\ ~r.stopRequested
                      /\ ~r.realtime /\ r.renderedFrames >= r.targetFrames
  <2>4. IF waits THEN runtime' = r /\ emulator' = emulator ELSE runtime' = b /\ emulator' = "running"
    BY <1>2 DEF FrameExecutionBegin
  <2> HIDE DEF r
  <2>5. Follows(r) /\ Follows(r.latestSavestate) /\ Follows(r.pendingSavestate)
    BY <1>0, <2>3 DEF ControllerFollows, Follows, Captured
  <2>6. /\ ~b.unlatched /\ b.latched = b.pending /\ b.pending = r.pending
        /\ b.latestSavestate = r.latestSavestate /\ b.pendingSavestate = r.pendingSavestate
        /\ b.savestateLoadPending = r.savestateLoadPending
        /\ b.savestateApplied = r.savestateApplied /\ b.stopRequested = r.stopRequested
        /\ b.realtime = r.realtime /\ b.renderedFrames = r.renderedFrames
        /\ b.targetFrames = r.targetFrames /\ b.machine = r.machine
    BY <2>2, <2>5 DEF RuntimeTypes, Follows
  <2> HIDE DEF b
  <2>7. ControllerFollows'
    BY <1>0, <2>1, <2>4, <2>5, <2>6 DEF ControllerFollows, Follows
  <2>8. Requests'
    BY <1>0, <2>1, <2>3, <2>4, <2>6 DEF Requests
  <2>9. ASSUME ~disturbed' PROVE Lockstep'
    <3>1. r = runtime /\ ~disturbed
      BY <2>1, <2>3, <2>9
    <3>2. CASE waits
      <4>1. runtime' = runtime /\ UNCHANGED <<emulator, caller, saved>>
        BY <2>1, <2>4, <3>1, <3>2
      <4> QED
        BY <1>0, <3>1, <4>1 DEF Lockstep, Still, StepUnderWay, StepDone, Captured
    <3>3. CASE ~waits
      <4>1. runtime' = b /\ emulator' = "running"
        BY <2>4, <3>3
      <4>2. caller.op # "join" => ~Still
        BY <1>0, <2>1, <3>1, <3>3 DEF Still, Requests, RuntimeTypes
      <4>3. caller.op \notin {"idle", "pace", "step", "load"}
        BY <1>0, <3>1, <4>2 DEF Lockstep
      <4>4. caller.op = "frames" => StepUnderWay /\ runtime.pending = caller.buttons
        BY <1>0, <2>1, <3>1 DEF Lockstep, StepDone
      <4> QED
        BY <2>1, <2>6, <3>1, <4>1, <4>3, <4>4 DEF Lockstep, StepUnderWay
    <3> QED
      BY <3>2, <3>3
  <2> QED
    BY <2>7, <2>8, <2>9 DEF Lockstep
<1>3. CASE RunFrame
  <2>1. /\ emulator = "running" /\ emulator' = "present" /\ UNCHANGED <<caller, saved, disturbed>>
        /\ runtime' = [runtime EXCEPT !.machine = Append(@, runtime.latched)]
    BY <1>3 DEF RunFrame
  <2>2. /\ runtime'.machine = Append(runtime.machine, runtime.latched)
        /\ runtime'.pending = runtime.pending /\ runtime'.latched = runtime.latched
        /\ runtime'.unlatched = runtime.unlatched
        /\ runtime'.latestSavestate = runtime.latestSavestate
        /\ runtime'.pendingSavestate = runtime.pendingSavestate
        /\ runtime'.savestateLoadPending = runtime.savestateLoadPending
        /\ runtime'.savestateApplied = runtime.savestateApplied
        /\ runtime'.stopRequested = runtime.stopRequested /\ runtime'.realtime = runtime.realtime
        /\ runtime'.renderedFrames = runtime.renderedFrames
        /\ runtime'.targetFrames = runtime.targetFrames
    BY <1>0, <2>1 DEF RuntimeTypes
  <2>3. ControllerFollows' /\ Requests'
    BY <1>0, <2>1, <2>2 DEF ControllerFollows, Follows, Requests
  <2>4. ~Still /\ ~StepDone
    BY <2>1 DEF Still, StepDone
  <2>5. Lockstep'
    BY <1>0, <2>1, <2>2, <2>4 DEF Lockstep, StepUnderWay
  <2> QED
    BY <2>3, <2>5
<1>4. CASE RenderPresentRealtime
  <2> DEFINE r == Counted(runtime)
  <2>1. /\ emulator = "present" /\ runtime.realtime /\ UNCHANGED <<caller, saved, disturbed>>
        /\ runtime' = [r EXCEPT !.targetFrames = IF @ < r.renderedFrames THEN r.renderedFrames ELSE @,
                                !.latestSavestate = Captured(r)]
    BY <1>4 DEF RenderPresentRealtime
  <2>2. /\ r \in RuntimeTypes /\ r.pending = runtime.pending /\ r.latched = runtime.latched
        /\ r.unlatched = runtime.unlatched
        /\ r.pendingSavestate = runtime.pendingSavestate
        /\ r.savestateLoadPending = runtime.savestateLoadPending
        /\ r.savestateApplied = runtime.savestateApplied
        /\ r.stopRequested = runtime.stopRequested /\ r.realtime = runtime.realtime
    BY <1>0 DEF Counted, RuntimeTypes
  <2> HIDE DEF r
  <2>3. /\ runtime'.pending = r.pending /\ runtime'.latched = r.latched
        /\ runtime'.unlatched = r.unlatched
        /\ runtime'.latestSavestate = Captured(r)
        /\ runtime'.pendingSavestate = r.pendingSavestate
        /\ runtime'.savestateLoadPending = r.savestateLoadPending
        /\ runtime'.savestateApplied = r.savestateApplied
        /\ runtime'.stopRequested = r.stopRequested /\ runtime'.realtime = r.realtime
    BY <2>1, <2>2 DEF RuntimeTypes
  <2>4. ControllerFollows' /\ Requests'
    BY <1>0, <2>1, <2>2, <2>3 DEF ControllerFollows, Follows, Requests, Captured
  <2>5. disturbed'
    BY <1>0, <2>1 DEF Requests
  <2> QED
    BY <2>4, <2>5 DEF Lockstep
<1>5. CASE RenderPresentLockstep
  <2> DEFINE r == Counted(runtime)
             b == [r EXCEPT !.latestSavestate = Captured(r)]
  <2>1. /\ emulator = "present" /\ ~runtime.realtime /\ ~runtime.stopRequested
        /\ UNCHANGED <<caller, saved>>
        /\ disturbed' = (disturbed /\ ~runtime.savestateLoadPending)
        /\ runtime' = Applied(b)
        /\ IF Parks(runtime') THEN emulator' = "parked" ELSE emulator' = "poll"
    BY <1>5 DEF RenderPresentLockstep
  <2>2. Whole(r) /\ Len(r.machine) = r.renderedFrames
    BY <1>5 DEF LockstepInv, RuntimeInv, RenderPresentLockstep, Counted, InStep, Whole, RuntimeTypes
  <2>3. Boundary(Captured(r)) /\ Captured(r) \in Savestate
    BY <2>2, CapturedBoundary DEF Whole
  <2>4. /\ r.renderedFrames = runtime.renderedFrames + 1
        /\ r.targetFrames = runtime.targetFrames /\ r.machine = runtime.machine
        /\ r.pending = runtime.pending /\ r.latched = runtime.latched
        /\ r.unlatched = runtime.unlatched
        /\ r.pendingSavestate = runtime.pendingSavestate
        /\ r.savestateLoadPending = runtime.savestateLoadPending
        /\ r.savestateApplied = runtime.savestateApplied
        /\ r.stopRequested = runtime.stopRequested /\ r.realtime = runtime.realtime
    BY <1>0 DEF Counted, RuntimeTypes
  <2> HIDE DEF r
  <2>5. /\ Whole(b) /\ b.latestSavestate = Captured(r)
        /\ b.renderedFrames = r.renderedFrames /\ b.targetFrames = r.targetFrames
        /\ b.machine = r.machine /\ b.pending = r.pending /\ b.latched = r.latched
        /\ b.unlatched = r.unlatched
        /\ b.pendingSavestate = r.pendingSavestate
        /\ b.savestateLoadPending = r.savestateLoadPending
        /\ b.savestateApplied = r.savestateApplied
        /\ b.stopRequested = r.stopRequested /\ b.realtime = r.realtime
    BY <2>2, <2>3 DEF Whole, RuntimeTypes
  <2> HIDE DEF b
  <2>6. CASE ~runtime.savestateLoadPending
    <3>1. runtime' = b /\ disturbed' = disturbed
      BY <1>0, <2>1, <2>4, <2>5, <2>6, AppliedFields
    <3>2. ControllerFollows' /\ Requests'
      BY <1>0, <2>1, <2>4, <2>5, <3>1 DEF ControllerFollows, Follows, Requests, Captured
    <3>3. ASSUME ~disturbed PROVE Lockstep'
      <4>1. ~Still /\ ~StepDone
        BY <2>1 DEF Still, StepDone
      <4>2. caller.op \notin {"idle", "pace", "step", "load"}
        BY <1>0, <3>3, <4>1 DEF Lockstep
      <4>3. ASSUME caller.op = "frames" PROVE StepDone' /\ runtime'.pending = caller'.buttons
        <5>1. StepUnderWay /\ runtime.pending = caller.buttons
          BY <1>0, <3>3, <4>1, <4>3 DEF Lockstep
        <5>2. /\ runtime'.renderedFrames = caller.requested
              /\ runtime'.targetFrames = caller.requested
              /\ runtime'.machine = Append(caller.machine, caller.buttons)
              /\ ~runtime'.stopRequested /\ ~runtime'.realtime
          BY <2>1, <2>4, <2>5, <3>1, <5>1 DEF StepUnderWay
        <5>3. caller.requested \in Nat
          BY <1>0 DEF Calls
        <5>4. Parks(runtime')
          BY <5>2, <5>3 DEF Parks
        <5> QED
          BY <2>1, <2>4, <2>5, <3>1, <5>1, <5>2, <5>4 DEF StepDone
      <4> QED
        BY <2>1, <4>2, <4>3 DEF Lockstep
    <3> QED
      BY <3>1, <3>2, <3>3 DEF Lockstep
  <2>7. CASE runtime.savestateLoadPending
    <3>1. /\ runtime'.machine = saved.machine /\ runtime'.renderedFrames = saved.frameId
          /\ runtime'.targetFrames = saved.frameId /\ runtime'.pending = saved.pending
          /\ runtime'.unlatched = saved.unlatched /\ runtime'.latched = saved.latched
          /\ runtime'.latestSavestate = Captured(runtime')
          /\ ~runtime'.savestateLoadPending /\ runtime'.savestateApplied
          /\ runtime'.pendingSavestate = saved
          /\ ~runtime'.stopRequested /\ ~runtime'.realtime
          /\ Captured(runtime') = saved
          /\ caller.op = "load" /\ saved.valid
      <4>1. /\ b.savestateLoadPending /\ b.pendingSavestate = saved
            /\ ~b.stopRequested /\ ~b.realtime /\ Whole(b)
        BY <1>0, <2>1, <2>4, <2>5, <2>7 DEF Requests
      <4>2. caller.op = "load" /\ saved.valid
        BY <1>0, <2>7 DEF Requests
      <4> QED
        BY <2>1, <4>1, <4>2, AppliedFields
    <3>2. Parks(runtime')
      BY <1>0, <3>1 DEF Parks, Boundary, Savestate
    <3>3. ControllerFollows' /\ Requests'
      BY <1>0, <2>1, <3>1 DEF ControllerFollows, Follows, Requests
    <3>4. emulator' = "parked"
      BY <2>1, <3>2
    <3> QED
      BY <2>1, <3>1, <3>3, <3>4 DEF Lockstep, Still
  <2> QED
    BY <2>6, <2>7
<1>6. CASE RenderPresentStopped
  <2>1. /\ emulator = "present" /\ emulator' = "poll" /\ runtime.stopRequested
        /\ UNCHANGED <<runtime, caller, saved, disturbed>>
    BY <1>6 DEF RenderPresentStopped
  <2>2. ControllerFollows' /\ Requests'
    BY <1>0, <2>1 DEF ControllerFollows, Follows, Requests
  <2>3. caller.op = "join"
    BY <1>0, <2>1 DEF Requests
  <2> QED
    BY <2>1, <2>2, <2>3 DEF Lockstep
<1>7. CASE RenderPresentWake
  <2>1. emulator = "parked" /\ UNCHANGED <<caller, saved>>
    BY <1>7 DEF RenderPresentWake
  <2>2. CASE Parks(runtime) /\ ~runtime.savestateLoadPending
    <3>1. runtime' = runtime /\ UNCHANGED <<emulator, disturbed>>
      BY <1>0, <1>7, <2>2, AppliedFields DEF RenderPresentWake
    <3> QED
      BY <1>0, <2>1, <3>1, ThreadFlagsOnly
  <2>3. CASE Parks(runtime) /\ runtime.savestateLoadPending
    <3>1. runtime' = Applied(runtime) /\ emulator' = "parked"
      BY <1>7, <2>1, <2>3 DEF RenderPresentWake
    <3>2. ~runtime.stopRequested /\ ~runtime.realtime
      BY <2>3 DEF Parks
    <3>3. /\ runtime'.machine = saved.machine /\ runtime'.renderedFrames = saved.frameId
          /\ runtime'.targetFrames = saved.frameId /\ runtime'.pending = saved.pending
          /\ runtime'.unlatched = saved.unlatched /\ runtime'.latched = saved.latched
          /\ runtime'.latestSavestate = Captured(runtime')
          /\ ~runtime'.savestateLoadPending /\ runtime'.savestateApplied
          /\ runtime'.pendingSavestate = saved
          /\ ~runtime'.stopRequested /\ ~runtime'.realtime
          /\ Captured(runtime') = saved
          /\ caller.op = "load" /\ saved.valid
      BY <1>0, <2>3, <3>1, <3>2, AppliedFields DEF Requests
    <3>4. ControllerFollows' /\ Requests'
      BY <1>0, <2>1, <3>3 DEF ControllerFollows, Follows, Requests
    <3> QED
      BY <2>1, <3>1, <3>3, <3>4 DEF Lockstep, Still
  <2>4. CASE ~Parks(runtime)
    <3>1. emulator' = "poll" /\ UNCHANGED <<runtime, caller, saved, disturbed>>
      BY <1>7, <2>4 DEF RenderPresentWake
    <3>2. ControllerFollows' /\ Requests'
      BY <1>0, <3>1 DEF ControllerFollows, Follows, Requests
    <3>3. ASSUME ~disturbed PROVE Lockstep'
      <4>1. runtime.renderedFrames < runtime.targetFrames \/ caller.op = "join"
        BY <1>0, <2>4, <3>3 DEF Parks, Requests, RuntimeTypes
      <4>2. caller.op # "join" => ~Still /\ ~StepDone
        BY <1>0, <4>1 DEF Still, StepDone, RuntimeTypes, Calls
      <4> QED
        BY <1>0, <2>1, <3>1, <3>3, <4>2 DEF Lockstep, StepUnderWay
    <3> QED
      BY <3>1, <3>2, <3>3 DEF Lockstep
  <2> QED
    BY <2>2, <2>3, <2>4
<1>8. CASE PollEvent
  <2>1. /\ emulator = "poll" /\ UNCHANGED <<runtime, caller, saved, disturbed>>
        /\ emulator' = IF runtime.stopRequested THEN "quit" ELSE "begin"
    BY <1>8 DEF PollEvent
  <2>2. ControllerFollows' /\ Requests'
    BY <1>0, <2>1 DEF ControllerFollows, Follows, Requests
  <2>3. ~Still /\ ~StepDone
    BY <2>1 DEF Still, StepDone
  <2>4. caller.op = "frames" => emulator' = "begin"
    BY <1>0, <2>1 DEF Requests
  <2>5. Lockstep'
    BY <1>0, <2>1, <2>3, <2>4 DEF Lockstep, StepUnderWay
  <2> QED
    BY <2>2, <2>5
<1>9. CASE RuntimeThreadEnds
  <2>1. /\ emulator \in {"quit", "failed"} /\ emulator' = "ended"
        /\ UNCHANGED <<caller, saved, disturbed>>
        /\ runtime' = [runtime EXCEPT !.threadRunning = FALSE,
                         !.healthy = @ /\ (emulator = "quit" \/ runtime.stopRequested)]
    BY <1>9 DEF RuntimeThreadEnds
  <2>2. /\ runtime'.machine = runtime.machine
        /\ runtime'.pending = runtime.pending /\ runtime'.latched = runtime.latched
        /\ runtime'.unlatched = runtime.unlatched
        /\ runtime'.latestSavestate = runtime.latestSavestate
        /\ runtime'.pendingSavestate = runtime.pendingSavestate
        /\ runtime'.savestateLoadPending = runtime.savestateLoadPending
        /\ runtime'.savestateApplied = runtime.savestateApplied
        /\ runtime'.stopRequested = runtime.stopRequested /\ runtime'.realtime = runtime.realtime
        /\ runtime'.renderedFrames = runtime.renderedFrames
        /\ runtime'.targetFrames = runtime.targetFrames
    BY <1>0, <2>1 DEF RuntimeTypes
  <2>3. ControllerFollows' /\ Requests'
    BY <1>0, <2>1, <2>2 DEF ControllerFollows, Follows, Requests
  <2>4. ~StepDone /\ (emulator = "quit" => ~Still /\ ~StepUnderWay)
    BY <2>1 DEF Still, StepDone, StepUnderWay
  <2>5. Lockstep'
    BY <1>0, <2>1, <2>2, <2>4 DEF Lockstep, Still, StepUnderWay
  <2> QED
    BY <2>3, <2>5
<1> QED
  BY <1>1, <1>2, <1>3, <1>4, <1>5, <1>6, <1>7, <1>8, <1>9 DEF Emulator

\* The driver's record when a call has begun or returned, field by field.
LEMMA CallFields ==
  ASSUME NEW op, NEW then, NEW buttons
  PROVE  /\ Idle.op = "idle"
         /\ [Idle EXCEPT !.op = op].op = op
         /\ [Idle EXCEPT !.op = op, !.then = then].op = op
         /\ [Idle EXCEPT !.op = op, !.buttons = buttons].op = op
         /\ [Idle EXCEPT !.op = op, !.buttons = buttons].buttons = buttons
BY DEF Idle

\* Stopping the runtime makes nothing of the frames asked for.
LEMMA StopRuntimeLockstep ==
  ASSUME LockstepInv, NEW then, StopRuntime(then), caller.op \in {"idle", "failed"}
  PROVE  ControllerFollows' /\ Requests' /\ Lockstep'
<1>0. runtime \in RuntimeTypes /\ ControllerFollows /\ Requests
  BY DEF LockstepInv, RuntimeInv, Whole
<1>1. runtime' = [runtime EXCEPT !.realtime = FALSE] /\ UNCHANGED <<emulator, saved, disturbed>>
      /\ caller'.op = "stop"
  BY CallFields DEF StopRuntime
<1>2. /\ runtime'.pending = runtime.pending /\ runtime'.latched = runtime.latched
      /\ runtime'.unlatched = runtime.unlatched
      /\ runtime'.latestSavestate = runtime.latestSavestate
      /\ runtime'.pendingSavestate = runtime.pendingSavestate
      /\ runtime'.savestateLoadPending = runtime.savestateLoadPending
      /\ runtime'.stopRequested = runtime.stopRequested /\ ~runtime'.realtime
  BY <1>0, <1>1 DEF RuntimeTypes
<1>3. ControllerFollows' /\ Requests'
  BY <1>0, <1>1, <1>2 DEF ControllerFollows, Follows, Requests
<1> QED
  BY <1>1, <1>3 DEF Lockstep

\* A step that fails leaves the frames and the controller as they are.
LEMMA FailedLockstep ==
  ASSUME LockstepInv, StepFails,
         runtime' = runtime \/ runtime' = [runtime EXCEPT !.healthy = FALSE],
         caller.op \in {"idle", "step", "frames"}
  PROVE  ControllerFollows' /\ Requests' /\ Lockstep'
<1>0. RuntimeInv /\ runtime \in RuntimeTypes /\ ControllerFollows /\ Requests
  BY DEF LockstepInv, RuntimeInv, Whole
<1>1. caller'.op = "failed" /\ UNCHANGED <<emulator, saved, disturbed>>
  BY <1>0, FailedCall
<1>2. /\ runtime'.pending = runtime.pending /\ runtime'.latched = runtime.latched
      /\ runtime'.unlatched = runtime.unlatched
      /\ runtime'.latestSavestate = runtime.latestSavestate
      /\ runtime'.pendingSavestate = runtime.pendingSavestate
      /\ runtime'.savestateLoadPending = runtime.savestateLoadPending
      /\ runtime'.stopRequested = runtime.stopRequested
      /\ runtime'.realtime = runtime.realtime
  BY <1>0 DEF RuntimeTypes
<1>3. ControllerFollows' /\ Requests'
  BY <1>0, <1>1, <1>2 DEF ControllerFollows, Follows, Requests
<1> QED
  BY <1>1, <1>3 DEF Lockstep

\* A change of the pacing: real time is remembered as a disturbance.
LEMMA PacingLockstep ==
  ASSUME LockstepInv, NEW realtime \in BOOLEAN, ApplyRuntimePacingMode(realtime),
         caller.op \in {"idle", "pace"}
  PROVE  ControllerFollows' /\ Requests' /\ Lockstep'
<1>0. /\ runtime \in RuntimeTypes /\ ControllerFollows /\ Requests /\ Lockstep
      /\ disturbed \in BOOLEAN
  BY DEF LockstepInv, RuntimeInv, Whole
<1>1. UNCHANGED <<emulator, saved>> /\ caller'.op = "idle"
  BY CallFields DEF ApplyRuntimePacingMode
<1>2. \/ runtime' = runtime /\ disturbed' = disturbed
      \/ /\ runtime' = [runtime EXCEPT !.realtime = realtime]
         /\ disturbed' = (disturbed \/ realtime)
  BY DEF ApplyRuntimePacingMode
<1>3. /\ runtime'.pending = runtime.pending /\ runtime'.latched = runtime.latched
      /\ runtime'.unlatched = runtime.unlatched
      /\ runtime'.latestSavestate = runtime.latestSavestate
      /\ runtime'.pendingSavestate = runtime.pendingSavestate
      /\ runtime'.savestateLoadPending = runtime.savestateLoadPending
      /\ runtime'.stopRequested = runtime.stopRequested
      /\ runtime'.renderedFrames = runtime.renderedFrames
      /\ runtime'.targetFrames = runtime.targetFrames
      /\ runtime'.waitingForInitialFrameRequest = runtime.waitingForInitialFrameRequest
  BY <1>0, <1>2 DEF RuntimeTypes
<1>4. (~disturbed' => ~disturbed) /\ (~disturbed' => ~runtime'.realtime)
  <2>1. CASE runtime' = runtime /\ disturbed' = disturbed
    BY <1>0, <2>1 DEF Requests
  <2>2. CASE runtime' = [runtime EXCEPT !.realtime = realtime]
             /\ disturbed' = (disturbed \/ realtime)
    BY <1>0, <2>2 DEF RuntimeTypes
  <2> QED
    BY <1>2, <2>1, <2>2
<1>5. ControllerFollows' /\ Requests'
  BY <1>0, <1>1, <1>3, <1>4 DEF ControllerFollows, Follows, Requests
<1>6. Lockstep'
  BY <1>0, <1>1, <1>3, <1>4 DEF Lockstep, Still
<1> QED
  BY <1>5, <1>6

\* The driver asks for one frame at a time, with the controller set before.
LEMMA DriverLockstep ==
  ASSUME LockstepInv, Driver
  PROVE  ControllerFollows' /\ Requests' /\ Lockstep'
<1>0. /\ Whole(runtime) /\ runtime \in RuntimeTypes /\ caller \in Calls /\ Boundary(saved)
      /\ ControllerFollows /\ Requests /\ Lockstep
      /\ disturbed \in BOOLEAN
  BY DEF LockstepInv, RuntimeInv, Whole
<1> USE DEF At
<1>1. CASE SmolnesRuntimeStop
  <2>1. /\ caller.op = "stop" /\ runtime' = [runtime EXCEPT !.stopRequested = TRUE]
        /\ caller' = [caller EXCEPT !.op = "join"] /\ UNCHANGED <<emulator, saved, disturbed>>
    BY <1>1 DEF SmolnesRuntimeStop
  <2>2. caller'.op = "join"
    BY <1>0, <2>1 DEF Calls
  <2>3. /\ runtime'.pending = runtime.pending /\ runtime'.latched = runtime.latched
        /\ runtime'.unlatched = runtime.unlatched
        /\ runtime'.latestSavestate = runtime.latestSavestate
        /\ runtime'.pendingSavestate = runtime.pendingSavestate
        /\ runtime'.savestateLoadPending = runtime.savestateLoadPending
        /\ runtime'.realtime = runtime.realtime
    BY <1>0, <2>1 DEF RuntimeTypes
  <2>4. ControllerFollows' /\ Requests'
    BY <1>0, <2>1, <2>2, <2>3 DEF ControllerFollows, Follows, Requests
  <2> QED
    BY <2>2, <2>4 DEF Lockstep
<1>2. CASE SmolnesRuntimeStopJoined
  <2>1. /\ runtime' = [runtime EXCEPT !.threadJoinable = FALSE, !.threadRunning = FALSE,
                         !.stopRequested = FALSE, !.targetFrames = runtime.renderedFrames,
                         !.savestateLoadPending = FALSE]
        /\ emulator' = "none" /\ caller' = [Idle EXCEPT !.op = caller.then]
        /\ UNCHANGED <<saved, disturbed>>
    BY <1>2 DEF SmolnesRuntimeStopJoined
  <2>2. caller'.op \in {"idle", "start"}
    BY <1>0, <2>1, CallFields DEF Calls
  <2>3. /\ runtime'.pending = runtime.pending /\ runtime'.latched = runtime.latched
        /\ runtime'.unlatched = runtime.unlatched
        /\ runtime'.latestSavestate = runtime.latestSavestate
        /\ runtime'.pendingSavestate = runtime.pendingSavestate
        /\ ~runtime'.savestateLoadPending /\ ~runtime'.stopRequested
        /\ runtime'.realtime = runtime.realtime
        /\ runtime'.renderedFrames = runtime'.targetFrames
    BY <1>0, <2>1 DEF RuntimeTypes
  <2>4. ControllerFollows' /\ Requests'
    BY <1>0, <2>1, <2>2, <2>3 DEF ControllerFollows, Follows, Requests
  <2> QED
    BY <2>1, <2>2, <2>3, <2>4 DEF Lockstep, Still
<1>3. CASE SmolnesRuntimeStart
  <2>1. emulator = "none"
    BY <1>3 DEF SmolnesRuntimeStart, LockstepInv, RuntimeInv
  <2>2. /\ caller'.op \in {"idle", "pace"} /\ emulator' \in {"none", "boot"} /\ saved' = saved
    BY <1>3, <2>1, CallFields DEF SmolnesRuntimeStart
  <2>3. /\ ~runtime'.unlatched /\ runtime'.latched = 0 /\ runtime'.pending = 0
        /\ ~runtime'.stopRequested /\ ~runtime'.savestateLoadPending /\ ~runtime'.realtime
        /\ runtime'.renderedFrames = 0 /\ runtime'.targetFrames = 0
        /\ runtime'.waitingForInitialFrameRequest
        /\ runtime'.latestSavestate = NoSavestate /\ runtime'.pendingSavestate = NoSavestate
    <3> DEFINE q == [Started EXCEPT !.threadRunning = FALSE, !.threadJoinable = FALSE,
                                    !.healthy = FALSE]
    <3>1. runtime' = Started \/ runtime' = q
      BY <1>3 DEF SmolnesRuntimeStart
    <3>2. CASE runtime' = Started
      BY <3>2 DEF Started
    <3>3. CASE runtime' = q
      BY <3>3 DEF Started
    <3> QED
      BY <3>1, <3>2, <3>3
  <2>4. Follows(NoSavestate)
    BY DEF Follows, NoSavestate
  <2>5. ControllerFollows' /\ Requests'
    BY <1>0, <2>2, <2>3, <2>4 DEF ControllerFollows, Follows, Requests
  <2>6. Lockstep'
    BY <2>2, <2>3 DEF Lockstep, Still
  <2> QED
    BY <2>5, <2>6
<1>4. CASE SetupPacing
  BY <1>4, PacingLockstep DEF SetupPacing
<1>5. CASE RunFrames
  <2>1. CASE runtime.threadRunning /\ runtime.healthy
    <3>1. /\ caller.op = "step" /\ runtime' = [runtime EXCEPT !.targetFrames = @ + 1]
          /\ caller' = [caller EXCEPT !.op = "frames", !.requested = runtime.targetFrames + 1,
                                      !.machine = runtime.machine]
          /\ UNCHANGED <<emulator, saved, disturbed>>
      BY <1>5, <2>1 DEF RunFrames
    <3>2. /\ caller'.op = "frames" /\ caller'.requested = runtime.targetFrames + 1
          /\ caller'.machine = runtime.machine /\ caller'.buttons = caller.buttons
      BY <1>0, <3>1 DEF Calls
    <3>3. /\ runtime'.machine = runtime.machine
          /\ runtime'.pending = runtime.pending /\ runtime'.latched = runtime.latched
          /\ runtime'.unlatched = runtime.unlatched
          /\ runtime'.latestSavestate = runtime.latestSavestate
          /\ runtime'.pendingSavestate = runtime.pendingSavestate
          /\ runtime'.savestateLoadPending = runtime.savestateLoadPending
          /\ runtime'.stopRequested = runtime.stopRequested
          /\ runtime'.realtime = runtime.realtime
          /\ runtime'.renderedFrames = runtime.renderedFrames
          /\ runtime'.targetFrames = runtime.targetFrames + 1
      BY <1>0, <3>1 DEF RuntimeTypes
    <3>4. ControllerFollows' /\ Requests'
      BY <1>0, <3>1, <3>2, <3>3 DEF ControllerFollows, Follows, Requests
    <3>5. ~disturbed => Still /\ runtime.pending = caller.buttons
      BY <1>0, <3>1 DEF Lockstep
    <3>6. ~disturbed => StepUnderWay'
      BY <3>1, <3>2, <3>3, <3>5 DEF Still, StepUnderWay
    <3> QED
      BY <3>1, <3>2, <3>3, <3>4, <3>5, <3>6 DEF Lockstep
  <2>2. CASE ~(runtime.threadRunning /\ runtime.healthy)
    <3>1. StepFails /\ UNCHANGED runtime /\ caller.op = "step"
      BY <1>5, <2>2 DEF RunFrames
    <3> QED
      BY <3>1, FailedLockstep
  <2> QED
    BY <2>1, <2>2
<1>6. CASE RunFramesWait \/ LoadSavestateWait
  <2>1. UNCHANGED <<runtime, emulator, caller, saved, disturbed>>
    BY <1>6 DEF RunFramesWait, LoadSavestateWait, Waits
  <2> QED
    BY <1>0, <2>1, ThreadFlagsOnly
<1>7. CASE RunFramesReturn \/ LoadSavestateReturn
  <2>1. caller'.op = "idle" /\ UNCHANGED <<runtime, emulator, saved, disturbed>>
    BY <1>7, CallFields DEF RunFramesReturn, LoadSavestateReturn
  <2>2. \/ caller.op = "frames" /\ FramesDone
        \/ caller.op = "load" /\ runtime.savestateApplied
    BY <1>7 DEF RunFramesReturn, LoadSavestateReturn
  <2>3. ~disturbed => Still
    <3>1. CASE caller.op = "frames" /\ FramesDone
      <4>1. caller.requested \in Nat /\ runtime.renderedFrames \in Nat
        BY <1>0 DEF Calls, RuntimeTypes
      <4>2. ~disturbed => StepDone
        BY <1>0, <3>1, <4>1 DEF Lockstep, StepUnderWay, FramesDone
      <4> QED
        BY <4>2 DEF StepDone, Still
    <3>2. CASE caller.op = "load" /\ runtime.savestateApplied
      BY <1>0, <3>2 DEF Lockstep
    <3> QED
      BY <2>2, <3>1, <3>2
  <2>4. ~runtime.savestateLoadPending /\ ~runtime.stopRequested
    BY <1>0, <2>2 DEF Requests
  <2>5. ControllerFollows' /\ Requests'
    BY <1>0, <2>1, <2>4 DEF ControllerFollows, Follows, Requests
  <2> QED
    BY <2>1, <2>3, <2>5 DEF Lockstep, Still
<1>8. CASE RunFramesFail
  BY <1>8, FailedLockstep DEF RunFramesFail
<1>9. CASE LoadSavestateFail
  <2>1. /\ caller.op = "load" /\ caller'.op = "idle" /\ UNCHANGED <<emulator, saved, disturbed>>
        /\ runtime' = [runtime EXCEPT !.savestateLoadPending = FALSE,
                                      !.healthy = @ /\ ~caller.timedOut]
    BY <1>9, CallFields DEF LoadSavestateFail
  <2>2. /\ runtime'.pending = runtime.pending /\ runtime'.latched = runtime.latched
        /\ runtime'.unlatched = runtime.unlatched
        /\ runtime'.latestSavestate = runtime.latestSavestate
        /\ runtime'.pendingSavestate = runtime.pendingSavestate
        /\ ~runtime'.savestateLoadPending
        /\ runtime'.stopRequested = runtime.stopRequested /\ runtime'.realtime = runtime.realtime
        /\ runtime'.renderedFrames = runtime.renderedFrames
        /\ runtime'.targetFrames = runtime.targetFrames
        /\ runtime'.waitingForInitialFrameRequest = runtime.waitingForInitialFrameRequest
    BY <1>0, <2>1 DEF RuntimeTypes
  <2>3. ControllerFollows' /\ Requests'
    BY <1>0, <2>1, <2>2 DEF ControllerFollows, Follows, Requests
  <2>4. ~disturbed => Still
    BY <1>0, <2>1 DEF Lockstep
  <2> QED
    BY <2>1, <2>2, <2>3, <2>4 DEF Lockstep, Still
<1>10. CASE Setup \/ Teardown \/ StopFailed
  BY <1>10, StopRuntimeLockstep DEF Setup, Teardown, StopFailed
<1>11. CASE WaitTimesOut
  <2>1. caller' = [caller EXCEPT !.timedOut = TRUE] /\ UNCHANGED <<runtime, emulator, saved, disturbed>>
    BY <1>11 DEF WaitTimesOut
  <2>2. /\ caller'.op = caller.op /\ caller'.buttons = caller.buttons
        /\ caller'.requested = caller.requested /\ caller'.machine = caller.machine
    BY <1>0, <2>1 DEF Calls
  <2>3. ControllerFollows' /\ Requests'
    BY <1>0, <2>1, <2>2 DEF ControllerFollows, Follows, Requests
  <2>4. Lockstep'
    BY <1>0, <2>1, <2>2 DEF Lockstep, Still, StepUnderWay, StepDone, Captured
  <2> QED
    BY <2>3, <2>4
<1>12. CASE CopySavestate
  <2>1. /\ caller.op = "idle" /\ saved' = runtime.latestSavestate
        /\ UNCHANGED <<runtime, emulator, caller, disturbed>>
    BY <1>12 DEF CopySavestate
  <2>2. ControllerFollows' /\ Requests'
    BY <1>0, <2>1 DEF ControllerFollows, Follows, Requests
  <2> QED
    BY <1>0, <2>1, <2>2 DEF Lockstep, Still
<1>13. CASE SmolnesRuntimeLoadSavestate
  <2>1. /\ caller.op = "idle" /\ saved.valid /\ caller'.op = "load"
        /\ runtime' = [runtime EXCEPT !.pendingSavestate = saved, !.savestateLoadPending = TRUE,
                                      !.savestateApplied = FALSE]
        /\ UNCHANGED <<emulator, saved, disturbed>>
    BY <1>13, CallFields DEF SmolnesRuntimeLoadSavestate
  <2>2. /\ runtime'.pending = runtime.pending /\ runtime'.latched = runtime.latched
        /\ runtime'.unlatched = runtime.unlatched
        /\ runtime'.latestSavestate = runtime.latestSavestate
        /\ runtime'.pendingSavestate = saved
        /\ runtime'.savestateLoadPending /\ ~runtime'.savestateApplied
        /\ runtime'.stopRequested = runtime.stopRequested /\ runtime'.realtime = runtime.realtime
        /\ runtime'.renderedFrames = runtime.renderedFrames
        /\ runtime'.targetFrames = runtime.targetFrames
        /\ runtime'.waitingForInitialFrameRequest = runtime.waitingForInitialFrameRequest
    BY <1>0, <2>1 DEF RuntimeTypes
  <2>3. ControllerFollows' /\ Requests'
    BY <1>0, <2>1, <2>2 DEF ControllerFollows, Follows, Requests
  <2>4. ~disturbed => Still
    BY <1>0, <2>1 DEF Lockstep
  <2> QED
    BY <2>1, <2>2, <2>3, <2>4 DEF Lockstep, Still
<1>14. CASE \E realtime \in BOOLEAN : SetLiveServerPacing(realtime)
  BY <1>14, PacingLockstep DEF SetLiveServerPacing
<1>15. CASE \E buttons \in Buttons : Step(buttons)
  <2> PICK buttons \in Buttons : Step(buttons)
    BY <1>15
  <2>0. caller.op = "idle"
    BY DEF Step
  <2>1. CASE ~runtime.healthy
    BY <2>0, <2>1, FailedLockstep DEF Step
  <2>2. CASE runtime.healthy
    <3>1. /\ runtime' = [runtime EXCEPT !.pending = buttons,
                           !.unlatched = @ \/ runtime.pending # buttons]
          /\ caller'.op = "step" /\ caller'.buttons = buttons
          /\ UNCHANGED <<emulator, saved, disturbed>>
      <4>1. /\ runtime' = [runtime EXCEPT !.pending = buttons,
                             !.unlatched = @ \/ runtime.pending # buttons]
            /\ UNCHANGED <<emulator, saved, disturbed>>
        BY <2>2 DEF Step
      <4>2. caller' = [Idle EXCEPT !.op = "step", !.buttons = buttons]
        BY <2>2 DEF Step
      <4>3. caller'.op = "step" /\ caller'.buttons = buttons
        BY <4>2, CallFields
      <4> QED
        BY <4>1, <4>3
    <3>2. /\ runtime'.pending = buttons /\ runtime'.latched = runtime.latched
          /\ runtime'.unlatched = (runtime.unlatched \/ runtime.pending # buttons)
          /\ runtime'.latestSavestate = runtime.latestSavestate
          /\ runtime'.pendingSavestate = runtime.pendingSavestate
          /\ runtime'.savestateLoadPending = runtime.savestateLoadPending
          /\ runtime'.stopRequested = runtime.stopRequested
          /\ runtime'.realtime = runtime.realtime
          /\ runtime'.renderedFrames = runtime.renderedFrames
          /\ runtime'.targetFrames = runtime.targetFrames
          /\ runtime'.waitingForInitialFrameRequest = runtime.waitingForInitialFrameRequest
      BY <1>0, <3>1 DEF RuntimeTypes
    <3>3. ControllerFollows'
      BY <1>0, <3>1, <3>2 DEF ControllerFollows, Follows
    <3>4. Requests'
      BY <1>0, <2>0, <3>1, <3>2 DEF Requests
    <3>5. ~disturbed => Still
      BY <1>0, <2>0 DEF Lockstep
    <3> QED
      BY <3>1, <3>2, <3>3, <3>4, <3>5 DEF Lockstep, Still
  <2> QED
    BY <1>0, <2>1, <2>2 DEF RuntimeTypes
<1> QED
  BY <1>1, <1>2, <1>3, <1>4, <1>5, <1>6, <1>7, <1>8, <1>9, <1>10, <1>11, <1>12, <1>13, <1>14, <1>15
     DEF Driver, Returns

\* The invariant is inductive.
LEMMA LockstepInductive == LockstepInv /\ [Next]_vars => LockstepInv'
<1> SUFFICES ASSUME LockstepInv, [Next]_vars PROVE LockstepInv'
  OBVIOUS
<1>1. RuntimeInv'
  BY RuntimeInductive DEF LockstepInv
<1>2. CASE Emulator
  BY <1>1, <1>2, EmulatorLockstep DEF LockstepInv
<1>3. CASE Driver
  BY <1>1, <1>3, DriverLockstep DEF LockstepInv
<1>4. CASE SpuriousWake \/ UNCHANGED vars
  <2>1. UNCHANGED <<runtime, emulator, caller, saved, disturbed>>
    BY <1>4 DEF SpuriousWake, vars
  <2> QED
    BY <1>1, <2>1, ThreadFlagsOnly DEF LockstepInv
<1> QED
  BY <1>2, <1>3, <1>4 DEF Next

\* In lockstep a step that returns has run exactly one frame, from the machine that the
\* step found and with its buttons, although the controller is latched on the emulator's
\* thread and the wait of smolnesRuntimeRunFrames may time out or wake for no reason.
THEOREM StepsAreExact == Spec => StepExact
<1>1. LockstepInv /\ RunFramesReturn /\ ~disturbed =>
        runtime.machine = Append(caller.machine, caller.buttons)
  <2> SUFFICES ASSUME LockstepInv, RunFramesReturn, ~disturbed
               PROVE  runtime.machine = Append(caller.machine, caller.buttons)
    OBVIOUS
  <2>1. caller.op = "frames" /\ FramesDone
    BY DEF RunFramesReturn, At
  <2>2. caller.requested \in Nat /\ runtime.renderedFrames \in Nat
    BY DEF LockstepInv, RuntimeInv, Whole, RuntimeTypes, Calls
  <2>3. StepUnderWay \/ StepDone
    BY <2>1 DEF LockstepInv, Lockstep
  <2>4. ~StepUnderWay
    BY <2>1, <2>2 DEF StepUnderWay, FramesDone
  <2> QED
    BY <2>3, <2>4 DEF StepDone
<1>2. LockstepInv /\ [Next]_vars =>
        [RunFramesReturn /\ ~disturbed =>
           runtime.machine = Append(caller.machine, caller.buttons)]_vars
  BY <1>1
<1>3. Init => LockstepInv
  BY LockstepInit
<1>4. LockstepInv /\ [Next]_vars => LockstepInv'
  BY LockstepInductive
<1> QED
  BY <1>2, <1>3, <1>4, PTL DEF Spec, StepExact

\* When smolnesRuntimeLoadSavestate returns in lockstep, the machine, its frame number
\* and its controller are those of the savestate, and the emulator waits for a request.
THEOREM LoadsAreExact == Spec => LoadRestores
<1> DEFINE P == /\ Captured(runtime) = saved
                /\ runtime.targetFrames = runtime.renderedFrames
                /\ emulator = "parked"
<1>1. LockstepInv /\ LoadSavestateReturn /\ ~disturbed => P
  <2> SUFFICES ASSUME LockstepInv, LoadSavestateReturn, ~disturbed PROVE P
    OBVIOUS
  <2>1. caller.op = "load" /\ runtime.savestateApplied
    BY DEF LoadSavestateReturn, At
  <2>2. Still /\ Captured(runtime) = saved /\ emulator = "parked"
    BY <2>1 DEF LockstepInv, Lockstep
  <2> QED
    BY <2>2 DEF Still
<1>2. LockstepInv /\ [Next]_vars => [LoadSavestateReturn /\ ~disturbed => P]_vars
  BY <1>1
<1>3. Init => LockstepInv
  BY LockstepInit
<1>4. LockstepInv /\ [Next]_vars => LockstepInv'
  BY LockstepInductive
<1> QED
  BY <1>2, <1>3, <1>4, PTL DEF Spec, LoadRestores
=============================================================================
