------------------------- MODULE CaptureCoordinator -------------------------
(***************************************************************************)
(* One run of runCapture: the coordinator's await points, the probe        *)
(* lifecycle it drives through ProbeOrchestrator, the idempotent           *)
(* CaptureSession, and the control flow of PeriodicSignalDrain (the data   *)
(* that drain moves is the subject of SignalDrain).                        *)
(*                                                                         *)
(* The profiler is one event loop: between two awaits the code is atomic,  *)
(* so each action is the code from one await to the next.  Around it run   *)
(* the timers, the answers of the target, and the user.                    *)
(*                                                                         *)
(* The kinds array is any set of requested kinds, visited in any order.    *)
(***************************************************************************)
EXTENDS FiniteSets, Naturals

CONSTANTS
  Kinds,        \* every profile kind that may be requested
  Drainable,    \* kinds whose probe has drain()
  Disposable,   \* kinds whose probe has dispose()
  UntimedStop,  \* kinds whose probe sets stopTimeoutMs: false
  None          \* no kind; also the subject of a session diagnostic

ASSUME KindsAssumption ==
  /\ IsFiniteSet(Kinds)
  /\ Drainable \subseteq Kinds
  /\ Disposable \subseteq Kinds
  /\ UntimedStop \subseteq Kinds
  /\ None \notin Kinds

VARIABLES
  pc,           \* where runCapture is suspended
  connected,    \* source.connect resolved: the try block was entered
  mode,         \* connected.mode
  requested,    \* options.kinds
  todo,         \* kinds the current pass over the probes has yet to visit
  cur,          \* the probe being stopped or disposed, or None
  life,         \* [Kinds -> what install and start made of the probe]
  stopStep,     \* [Kinds -> the promise of probe.stop()]
  disposeStep,  \* [Kinds -> the promise of probe.dispose()]
  drainStep,    \* [Kinds -> the promise of the last probe.drain()]
  timer,        \* PeriodicSignalDrain's interval
  tick,         \* tickInFlight is set
  tickTodo,     \* kinds the tick in flight has yet to drain
  signalRead,   \* the tick's event-loop and GC drains are unsettled
  keepalive,    \* the keepalive interval runs
  cdpClosed,    \* CdpClient.closed
  closeStep,    \* CaptureSession.closeCdp: "idle" until cdpClosed is set there
  finalizeStep, \* CaptureSession.finalize: "idle" until finalized is set
  finalizeCalls,\* how often the source's finalize ran
  hung,         \* the target's event loop is blocked: no CDP answer comes
  exited,       \* waitForExit() resolved
  stopRequested,\* options.stopSignal resolved
  stopReason,   \* what waitForStop returned
  kindsData,    \* kinds with an entry in the bundle
  diagnostics,  \* captureIntegrity.diagnostics as <<stage, kind>> pairs
  failed        \* an exception leaves the try block

outerVars == <<connected, mode, requested, hung, exited, stopRequested>>
probeVars == <<cur, life, stopStep, disposeStep, kindsData>>
tickVars  == <<drainStep, timer, tick, tickTodo, signalRead>>
connVars  == <<keepalive, cdpClosed, closeStep, finalizeStep, finalizeCalls>>
endVars   == <<stopReason, diagnostics, failed>>
vars == <<pc, outerVars, todo, probeVars, tickVars, connVars, endVars>>

Modes   == {"spawn", "attach", "in-process"}
Reasons == {"exit", "timeout", "signal"}
Phases  ==
  {"connect", "setup", "install", "start", "abort", "release", "afterRelease",
   "ready", "wait", "quiesce", "stop", "collect", "uninstall", "close", "finalize",
   "unwindDrain", "unwindClose", "unwindFinalize", "returned", "threw"}
Ended   == {"returned", "threw"}

(* A step raced against a timer: "late" is a step that timed out; its      *)
(* promise may still be pending, and what it settles to is dropped.        *)
Steps   == {"idle", "running", "ok", "failed", "late"}
Stages  == {"probe-install", "probe-start", "probe-drain", "probe-stop",
            "probe-dispose", "runtime-dispose", "finalize"}

Installed   == {k \in Kinds : life[k] \in {"installed", "started", "failed"}}
HasStarted  == \E k \in Kinds : life[k] = "started"
(* install and start went through all kinds, and no probe started. *)
NoneStarted == requested # {} /\ todo = {} /\ ~HasStarted

(* No probe has been stopped or disposed. *)
Untouched   == \A k \in Kinds : stopStep[k] = "idle" /\ disposeStep[k] = "idle"

DrainFailed == {k \in Kinds : drainStep[k] \in {"failed", "late"}}

(* A call to the target settles: it answered, or its connection is gone. *)
Answers == ~hung \/ cdpClosed

(* runCapture goes on to the next phase; todo is what that phase visits. *)
Advance(from, to) ==
  /\ pc = from /\ pc' = to
  /\ UNCHANGED <<outerVars, probeVars, tickVars, connVars, endVars>>

Record(stage, k) == diagnostics' = diagnostics \cup {<<stage, k>>}

TypeOK ==
  /\ pc \in Phases
  /\ connected \in BOOLEAN
  /\ mode \in Modes
  /\ requested \in SUBSET Kinds
  /\ todo \in SUBSET Kinds
  /\ cur \in Kinds \cup {None}
  /\ life \in [Kinds -> {"none", "dropped", "installed", "started", "failed"}]
  /\ stopStep \in [Kinds -> Steps]
  /\ disposeStep \in [Kinds -> Steps]
  /\ drainStep \in [Kinds -> Steps]
  /\ timer \in {"unset", "set", "cleared"}
  /\ tick \in BOOLEAN
  /\ tickTodo \in SUBSET Kinds
  /\ signalRead \in BOOLEAN
  /\ keepalive \in BOOLEAN
  /\ cdpClosed \in BOOLEAN
  /\ closeStep \in Steps
  /\ finalizeStep \in Steps \ {"late"}
  /\ finalizeCalls \in Nat
  /\ hung \in BOOLEAN
  /\ exited \in BOOLEAN
  /\ stopRequested \in BOOLEAN
  /\ stopReason \in Reasons \cup {"none"}
  /\ kindsData \in SUBSET Kinds
  /\ diagnostics \in SUBSET (Stages \X (Kinds \cup {None}))
  /\ failed \in BOOLEAN

Init ==
  /\ pc = "connect"
  /\ connected = FALSE
  /\ mode \in Modes
  /\ requested \in SUBSET Kinds
  /\ todo = {}
  /\ cur = None
  /\ life = [k \in Kinds |-> "none"]
  /\ stopStep = [k \in Kinds |-> "idle"]
  /\ disposeStep = [k \in Kinds |-> "idle"]
  /\ drainStep = [k \in Kinds |-> "idle"]
  /\ timer = "unset"
  /\ tick = FALSE
  /\ tickTodo = {}
  /\ signalRead = FALSE
  /\ keepalive = FALSE
  /\ cdpClosed = FALSE
  /\ closeStep = "idle"
  /\ finalizeStep = "idle"
  /\ finalizeCalls = 0
  /\ hung = FALSE
  /\ exited = FALSE
  /\ stopRequested = FALSE
  /\ stopReason = "none"
  /\ kindsData = {}
  /\ diagnostics = {}
  /\ failed = FALSE

------------------------------------------------------------------------------
(* Setup: from source.connect to the end of the readiness wait.            *)

(* source.connect rejects: there is no session to clean up. *)
ConnectFails ==
  /\ pc = "connect"
  /\ pc' = "threw"
  /\ failed' = TRUE
  /\ UNCHANGED <<outerVars, todo, probeVars, tickVars, connVars, stopReason,
                 diagnostics>>

Connect ==
  /\ pc = "connect"
  /\ pc' = "setup"
  /\ connected' = TRUE
  /\ UNCHANGED <<mode, requested, hung, exited, stopRequested, todo, probeVars,
                 tickVars, connVars, endVars>>

(* Any exception that the try block does not catch: the finally runs.  It  *)
(* comes from the target (setup, where keepalive may run by then, and      *)
(* releaseRuntime), from the factory of a kind that install has yet to     *)
(* visit, from a hook of the options, or from onProgress, which is called  *)
(* before the wait and, when it is over, before the probes are stopped.    *)
Throw ==
  /\ \/ pc = "setup" /\ Answers /\ keepalive' \in BOOLEAN
     \/ pc = "install" /\ todo # {} /\ UNCHANGED keepalive
     \/ pc = "release" /\ Answers /\ UNCHANGED keepalive
     \/ pc = "ready" /\ UNCHANGED keepalive
     \/ pc = "quiesce" /\ ~tick /\ UNCHANGED keepalive
  /\ pc' = "unwindDrain"
  /\ failed' = TRUE
  /\ UNCHANGED <<outerVars, todo, probeVars, tickVars, cdpClosed, closeStep,
                 finalizeStep, finalizeCalls, stopReason, diagnostics>>

(* fetchTargetInfo, markCaptureStart and readRuntimeClockNow answered. *)
StartClock ==
  /\ pc = "setup"
  /\ Answers
  /\ pc' = "install"
  /\ keepalive' = TRUE
  /\ todo' = requested
  /\ UNCHANGED <<outerVars, probeVars, tickVars, cdpClosed, closeStep,
                 finalizeStep, finalizeCalls, endVars>>

(* ProbeOrchestrator.install: a probe whose install throws is not pushed.  *)
(* A factory that throws is not caught there: see Throw.                   *)
InstallProbe(k) ==
  /\ pc = "install"
  /\ Answers
  /\ k \in todo
  /\ todo' = todo \ {k}
  /\ \/ life' = [life EXCEPT ![k] = "installed"] /\ UNCHANGED diagnostics
     \/ life' = [life EXCEPT ![k] = "dropped"] /\ Record("probe-install", k)
  /\ UNCHANGED <<pc, outerVars, cur, stopStep, disposeStep, kindsData, tickVars,
                 connVars, stopReason, failed>>

InstallDone ==
  /\ Advance("install", "start")
  /\ todo = {} /\ todo' = Installed

(* ProbeOrchestrator.start. *)
StartProbe(k) ==
  /\ pc = "start"
  /\ Answers
  /\ k \in todo
  /\ todo' = todo \ {k}
  /\ \/ life' = [life EXCEPT ![k] = "started"] /\ UNCHANGED diagnostics
     \/ life' = [life EXCEPT ![k] = "failed"] /\ Record("probe-start", k)
  /\ UNCHANGED <<pc, outerVars, cur, stopStep, disposeStep, kindsData, tickVars,
                 connVars, stopReason, failed>>

(* Mutant: no fail-fast. *)
StartDoneNoFailFast ==
  /\ Advance("start", "release")
  /\ todo = {} /\ UNCHANGED todo

(* Fail fast when kinds were requested and none started: dispose them all. *)
StartDone ==
  /\ todo = {}
  /\ IF requested # {} /\ ~HasStarted
       THEN Advance("start", "abort") /\ todo' = Installed
       ELSE Advance("start", "release") /\ UNCHANGED todo

ReleaseRuntime ==
  /\ Answers
  /\ Advance("release", "afterRelease")
  /\ todo' = Installed

(* ProbeOrchestrator.afterRuntimeReleased: failures are diagnostics. *)
AfterRuntimeReleased(k) ==
  /\ pc = "afterRelease"
  /\ Answers
  /\ k \in todo
  /\ todo' = todo \ {k}
  /\ UNCHANGED diagnostics \/ Record("probe-start", k)
  /\ UNCHANGED <<pc, outerVars, probeVars, tickVars, connVars, stopReason,
                 failed>>

AfterRuntimeReleasedDone ==
  /\ Advance("afterRelease", "ready")
  /\ todo = {} /\ UNCHANGED todo

(* beforeCaptureStart and onCaptureStarted returned: start the periodic    *)
(* drain outside spawn mode and race the stop conditions.                  *)
BeginWait ==
  /\ pc = "ready"
  /\ pc' = "wait"
  /\ timer' = IF mode = "spawn" THEN timer ELSE "set"
  /\ UNCHANGED <<outerVars, todo, probeVars, drainStep, tick, tickTodo,
                 signalRead, connVars, endVars>>

------------------------------------------------------------------------------
(* The world around the coordinator while it has not left waitForStop.     *)

NotStopped == pc # "connect" /\ pc \notin Ended /\ stopReason = "none"

(* The exit event, the app-complete message or a destroyed context. *)
TargetExits ==
  /\ NotStopped
  /\ mode # "in-process"
  /\ ~exited
  /\ exited' = TRUE
  /\ UNCHANGED <<pc, connected, mode, requested, hung, stopRequested, todo,
                 probeVars, tickVars, connVars, endVars>>

(* handleDisconnect: only AttachSource takes it for the exit. *)
ConnectionDrops ==
  /\ pc # "connect" /\ pc \notin Ended
  /\ mode # "in-process"
  /\ ~cdpClosed
  /\ cdpClosed' = TRUE
  /\ exited' = (exited \/ mode = "attach")
  /\ UNCHANGED <<pc, connected, mode, requested, hung, stopRequested, todo,
                 probeVars, tickVars, keepalive, closeStep, finalizeStep,
                 finalizeCalls, endVars>>

RequestStop ==
  /\ NotStopped
  /\ ~stopRequested
  /\ stopRequested' = TRUE
  /\ UNCHANGED <<pc, connected, mode, requested, hung, exited, todo, probeVars,
                 tickVars, connVars, endVars>>

TargetHangs ==
  /\ pc # "connect" /\ pc \notin Ended
  /\ mode # "in-process"
  /\ ~hung
  /\ hung' = TRUE
  /\ UNCHANGED <<pc, connected, mode, requested, exited, stopRequested, todo,
                 probeVars, tickVars, connVars, endVars>>

TargetRecovers ==
  /\ hung
  /\ hung' = FALSE
  /\ UNCHANGED <<pc, connected, mode, requested, exited, stopRequested, todo,
                 probeVars, tickVars, connVars, endVars>>

------------------------------------------------------------------------------
(* PeriodicSignalDrain, concurrent with the wait.                          *)

DrainRunning == \E k \in Kinds : drainStep[k] = "running"

(* Mutant: drainFailedKinds is not consulted. *)
TickBeginsForAll ==
  /\ timer = "set" /\ ~tick /\ ~cdpClosed
  /\ tick' = TRUE /\ signalRead' = TRUE
  /\ tickTodo' = Installed \cap Drainable
  /\ UNCHANGED <<pc, outerVars, todo, probeVars, drainStep, timer, connVars,
                 endVars>>

(* An interval fires: three drains start together in Promise.all. *)
TickBegins ==
  /\ timer = "set"
  /\ ~tick
  /\ ~cdpClosed
  /\ tick' = TRUE
  /\ signalRead' = TRUE
  /\ tickTodo' = (Installed \cap Drainable) \ DrainFailed
  /\ UNCHANGED <<pc, outerVars, todo, probeVars, drainStep, timer, connVars,
                 endVars>>

(* The event-loop and GC drains answered or timed out. *)
SignalReadsSettle ==
  /\ signalRead
  /\ signalRead' = FALSE
  /\ UNCHANGED <<pc, outerVars, todo, probeVars, drainStep, timer, tick,
                 tickTodo, connVars, endVars>>

DrainBegins(k) ==
  /\ k \in tickTodo
  /\ ~DrainRunning
  /\ tickTodo' = tickTodo \ {k}
  /\ drainStep' = [drainStep EXCEPT ![k] = "running"]
  /\ UNCHANGED <<pc, outerVars, todo, probeVars, timer, tick, signalRead,
                 connVars, endVars>>

(* Mutant: probe.drain is awaited without its timer. *)
DrainSettlesUntimed(k) ==
  /\ drainStep[k] = "running"
  /\ Answers
  /\ drainStep' = [drainStep EXCEPT ![k] = "ok"]
  /\ UNCHANGED <<pc, outerVars, todo, probeVars, timer, tick, tickTodo,
                 signalRead, connVars, endVars>>

(* A probe whose drain rejects or times out is never drained again. *)
DrainSettles(k) ==
  /\ drainStep[k] = "running"
  /\ \/ /\ Answers
        /\ drainStep' = [drainStep EXCEPT ![k] = "ok"]
        /\ UNCHANGED diagnostics
     \/ /\ Answers
        /\ drainStep' = [drainStep EXCEPT ![k] = "failed"]
        /\ Record("probe-drain", k)
     \/ /\ drainStep' = [drainStep EXCEPT ![k] = "late"]
        /\ Record("probe-drain", k)
  /\ UNCHANGED <<pc, outerVars, todo, probeVars, timer, tick, tickTodo,
                 signalRead, connVars, stopReason, failed>>

TickEnds ==
  /\ tick
  /\ tickTodo = {} /\ ~DrainRunning /\ ~signalRead
  /\ tick' = FALSE
  /\ UNCHANGED <<pc, outerVars, todo, probeVars, drainStep, timer, tickTodo,
                 signalRead, connVars, endVars>>

------------------------------------------------------------------------------
(* From waitForStop to the bundle.                                         *)

StoppedDrain == IF timer = "set" THEN "cleared" ELSE timer

(* The first condition wins the race; periodicDrain.stop() clears the      *)
(* interval and awaits the tick in flight.                                 *)
StopWaiting(reason) ==
  /\ pc = "wait"
  /\ reason = "exit" => exited
  /\ reason = "signal" => stopRequested
  /\ pc' = "quiesce"
  /\ stopReason' = reason
  /\ timer' = StoppedDrain
  /\ UNCHANGED <<outerVars, todo, probeVars, drainStep, tick, tickTodo,
                 signalRead, connVars, diagnostics, failed>>

(* Mutant: the tick in flight is not awaited. *)
QuiescedAtOnce ==
  /\ Advance("quiesce", "stop")
  /\ todo' = Installed

Quiesced ==
  /\ ~tick
  /\ Advance("quiesce", "stop")
  /\ todo' = Installed

(* ProbeOrchestrator.stop walks every installed probe, the ones whose      *)
(* start failed included.                                                  *)
BeginStop(k) ==
  /\ pc = "stop"
  /\ cur = None
  /\ k \in todo
  /\ cur' = k
  /\ todo' = todo \ {k}
  /\ stopStep' = [stopStep EXCEPT ![k] = "running"]
  /\ UNCHANGED <<pc, outerVars, life, disposeStep, kindsData, tickVars,
                 connVars, endVars>>

(* Mutant: a stop that times out is not recorded. *)
StopSettlesUnrecorded(k) ==
  /\ cur = k
  /\ stopStep[k] = "running"
  /\ stopStep' = [stopStep EXCEPT ![k] = "late"]
  /\ disposeStep' = [disposeStep EXCEPT ![k] = "running"]
  /\ UNCHANGED <<pc, outerVars, todo, cur, life, kindsData, tickVars, connVars,
                 endVars>>

(* Mutant: the dispose is skipped when the stop threw. *)
StopSettlesUndisposed(k) ==
  /\ cur = k
  /\ stopStep[k] = "running"
  /\ Answers
  /\ stopStep' = [stopStep EXCEPT ![k] = "failed"]
  /\ Record("probe-stop", k)
  /\ cur' = None
  /\ UNCHANGED <<pc, outerVars, todo, life, disposeStep, kindsData, tickVars,
                 connVars, stopReason, failed>>

(* stopProbe: the outcome of probe.stop(), then the finally's dispose. *)
StopSettles(k) ==
  /\ cur = k
  /\ stopStep[k] = "running"
  /\ \/ /\ Answers
        /\ stopStep' = [stopStep EXCEPT ![k] = "ok"]
        /\ kindsData' = kindsData \cup {k}
        /\ UNCHANGED diagnostics
     \/ /\ Answers
        /\ stopStep' = [stopStep EXCEPT ![k] = "failed"]
        /\ Record("probe-stop", k)
        /\ UNCHANGED kindsData
     \/ /\ k \notin UntimedStop
        /\ stopStep' = [stopStep EXCEPT ![k] = "late"]
        /\ Record("probe-stop", k)
        /\ UNCHANGED kindsData
  /\ IF k \in Disposable
       THEN disposeStep' = [disposeStep EXCEPT ![k] = "running"] /\ UNCHANGED cur
       ELSE cur' = None /\ UNCHANGED disposeStep
  /\ UNCHANGED <<pc, outerVars, todo, life, tickVars, connVars, stopReason,
                 failed>>

(* disposeAll visits the next probe of an aborted capture. *)
AbortProbe(k) ==
  /\ pc = "abort"
  /\ cur = None
  /\ k \in todo
  /\ todo' = todo \ {k}
  /\ IF k \in Disposable
       THEN cur' = k /\ disposeStep' = [disposeStep EXCEPT ![k] = "running"]
       ELSE UNCHANGED <<cur, disposeStep>>
  /\ UNCHANGED <<pc, outerVars, life, stopStep, kindsData, tickVars, connVars,
                 endVars>>

(* disposeProbe swallows a rejection or a timeout into a diagnostic. *)
DisposeSettles(k) ==
  /\ cur = k
  /\ disposeStep[k] = "running"
  /\ cur' = None
  /\ \/ /\ Answers
        /\ disposeStep' = [disposeStep EXCEPT ![k] = "ok"]
        /\ UNCHANGED diagnostics
     \/ /\ Answers
        /\ disposeStep' = [disposeStep EXCEPT ![k] = "failed"]
        /\ Record("probe-dispose", k)
     \/ /\ disposeStep' = [disposeStep EXCEPT ![k] = "late"]
        /\ Record("probe-dispose", k)
  /\ UNCHANGED <<pc, outerVars, todo, life, stopStep, kindsData, tickVars,
                 connVars, stopReason, failed>>

AbortDone ==
  /\ pc = "abort"
  /\ cur = None /\ todo = {}
  /\ pc' = "unwindDrain"
  /\ failed' = TRUE
  /\ UNCHANGED <<outerVars, todo, probeVars, tickVars, connVars, stopReason,
                 diagnostics>>

StopDone ==
  /\ cur = None /\ todo = {}
  /\ Advance("stop", "collect")
  /\ UNCHANGED todo

(* collectRuntimeSignals: each of its reads is raced against a timer. *)
CollectRuntimeSignals ==
  /\ Advance("collect", "uninstall")
  /\ UNCHANGED todo

(* disposeRuntimeBestEffort: awaits an evaluate with no timer of its own. *)
UninstallHooks ==
  /\ pc = "uninstall"
  /\ Answers
  /\ pc' = "close"
  /\ UNCHANGED diagnostics \/ (~cdpClosed /\ Record("runtime-dispose", None))
  /\ UNCHANGED <<outerVars, todo, probeVars, tickVars, connVars, stopReason,
                 failed>>

------------------------------------------------------------------------------
(* CaptureSession and the finally block.                                   *)

(* The finally's periodicDrain.stop() and stopKeepalive(). *)
UnwindDrain ==
  /\ pc = "unwindDrain"
  /\ ~tick
  /\ pc' = "unwindClose"
  /\ timer' = StoppedDrain
  /\ keepalive' = FALSE
  /\ UNCHANGED <<outerVars, todo, probeVars, drainStep, tick, tickTodo,
                 signalRead, cdpClosed, closeStep, finalizeStep, finalizeCalls,
                 endVars>>

AfterClose == IF pc = "close" THEN "finalize" ELSE "unwindFinalize"

CloseBegins ==
  /\ pc \in {"close", "unwindClose"}
  /\ closeStep = "idle"
  /\ closeStep' = "running"
  /\ cdpClosed' = TRUE
  /\ UNCHANGED <<pc, outerVars, todo, probeVars, tickVars, keepalive,
                 finalizeStep, finalizeCalls, endVars>>

CloseSettles ==
  /\ closeStep = "running"
  /\ \/ closeStep' = "ok" /\ UNCHANGED diagnostics
     \/ closeStep' \in {"failed", "late"} /\ Record("finalize", None)
  /\ pc' = AfterClose
  /\ UNCHANGED <<outerVars, todo, probeVars, tickVars, keepalive, cdpClosed,
                 finalizeStep, finalizeCalls, stopReason, failed>>

(* closeCdp was called before: nothing is awaited. *)
CloseSkipped ==
  /\ pc = "unwindClose"
  /\ closeStep \notin {"idle", "running"}
  /\ pc' = "unwindFinalize"
  /\ UNCHANGED <<outerVars, todo, probeVars, tickVars, connVars, endVars>>

Outcome == IF failed THEN "threw" ELSE "returned"

(* Mutant: the finalized flag is not checked. *)
FinalizeBeginsAgain ==
  /\ pc \in {"finalize", "unwindFinalize"}
  /\ finalizeStep # "running"
  /\ finalizeStep' = "running"
  /\ finalizeCalls' = finalizeCalls + 1
  /\ UNCHANGED <<pc, outerVars, todo, probeVars, tickVars, keepalive, cdpClosed,
                 closeStep, endVars>>

FinalizeBegins ==
  /\ pc \in {"finalize", "unwindFinalize"}
  /\ finalizeStep = "idle"
  /\ finalizeStep' = "running"
  /\ finalizeCalls' = finalizeCalls + 1
  /\ UNCHANGED <<pc, outerVars, todo, probeVars, tickVars, keepalive, cdpClosed,
                 closeStep, endVars>>

FinalizeSucceeds ==
  /\ finalizeStep = "running"
  /\ finalizeStep' = "ok"
  /\ pc' = IF pc = "finalize" THEN "unwindDrain" ELSE Outcome
  /\ UNCHANGED <<outerVars, todo, probeVars, tickVars, keepalive, cdpClosed,
                 closeStep, finalizeCalls, endVars>>

(* Rethrown on the way to a bundle, suppressed in the finally's cleanup. *)
FinalizeFails ==
  /\ finalizeStep = "running"
  /\ finalizeStep' = "failed"
  /\ Record("finalize", None)
  /\ pc' = IF pc = "finalize" THEN "unwindDrain" ELSE Outcome
  /\ failed' = (failed \/ pc = "finalize")
  /\ UNCHANGED <<outerVars, todo, probeVars, tickVars, keepalive, cdpClosed,
                 closeStep, finalizeCalls, stopReason>>

FinalizeSkipped ==
  /\ pc = "unwindFinalize"
  /\ finalizeStep \notin {"idle", "running"}
  /\ pc' = Outcome
  /\ UNCHANGED <<outerVars, todo, probeVars, tickVars, connVars, endVars>>

Terminated == pc \in Ended /\ UNCHANGED vars

------------------------------------------------------------------------------
Setup ==
  \/ ConnectFails \/ Connect \/ Throw \/ StartClock
  \/ \E k \in Kinds : InstallProbe(k) \/ StartProbe(k) \/ AfterRuntimeReleased(k)
  \/ InstallDone \/ StartDone \/ ReleaseRuntime \/ AfterRuntimeReleasedDone
  \/ BeginWait

Stopping ==
  \/ \E reason \in Reasons : StopWaiting(reason)
  \/ Quiesced \/ StopDone \/ AbortDone \/ CollectRuntimeSignals \/ UninstallHooks
  \/ \E k \in Kinds :
       BeginStop(k) \/ StopSettles(k) \/ AbortProbe(k) \/ DisposeSettles(k)

Session ==
  \/ UnwindDrain
  \/ CloseBegins \/ CloseSettles \/ CloseSkipped
  \/ FinalizeBegins \/ FinalizeSucceeds \/ FinalizeFails \/ FinalizeSkipped

(* The coordinator's own continuations: what its fairness ranges over. *)
Coordinator == Setup \/ Stopping \/ Session

TickSettles ==
  \/ SignalReadsSettle \/ TickEnds
  \/ \E k \in Kinds : DrainBegins(k) \/ DrainSettles(k)

World == TargetExits \/ ConnectionDrops \/ RequestStop \/ TargetHangs \/ TargetRecovers

Next == Coordinator \/ TickBegins \/ TickSettles \/ World \/ Terminated

Spec == Init /\ [][Next]_vars

(* Continuations run and timers fire. *)
LoopFairness == WF_vars(Coordinator) /\ WF_vars(TickSettles)

(* The target may hang for good. *)
HangSpec == Spec /\ LoopFairness

(* Every hang ends, and a target that keeps coming back to its event loop  *)
(* answers what is queued there.                                           *)
FairSpec ==
  /\ HangSpec
  /\ WF_vars(TargetRecovers)
  /\ SF_vars(UninstallHooks)
  /\ SF_vars(\E k \in Kinds : StopSettles(k))

------------------------------------------------------------------------------
(* Properties                                                              *)

(* Once connected, however runCapture settles, nothing is left behind: the *)
(* CDP connection was closed, the source was finalized exactly once (the   *)
(* child terminated, the preload file removed), and no interval, keepalive *)
(* or tick of the drain survives (coordinator.ts:205-212).                 *)
Released ==
  /\ cdpClosed /\ closeStep \notin {"idle", "running"}
  /\ finalizeCalls = 1 /\ finalizeStep \in {"ok", "failed"}
  /\ ~keepalive /\ timer # "set" /\ ~tick
SettledMeansReleased == connected /\ pc \in Ended => Released

(* A bundle that lacks a requested kind says why: the kind failed to       *)
(* install or its stop failed or timed out (probes.ts:51-62, 158-190).     *)
LostKindHasDiagnostic ==
  pc = "returned" =>
    \A k \in requested \ kindsData :
      <<"probe-install", k>> \in diagnostics \/ <<"probe-stop", k>> \in diagnostics

(* A capture that asked for kinds and could start none is an error, never  *)
(* an empty bundle (coordinator.ts:121-128).                               *)
NoProbeNoBundle == pc = "returned" => requested = {} \/ HasStarted

(* The drain and the stop of one probe never overlap unnoticed: a drain    *)
(* still pending once the stop began had timed out, and the bundle carries *)
(* its diagnostic (coordinator.ts:157-160, probes.ts:107-131).             *)
OverlapOnlyAfterTimeout ==
  \A k \in Kinds :
    stopStep[k] # "idle" /\ drainStep[k] \in {"running", "late"}
      => drainStep[k] = "late" /\ <<"probe-drain", k>> \in diagnostics

(* Disposing is all or nothing: when the session closes the connection     *)
(* that a dispose needs, the dispose of every installed probe has settled  *)
(* or timed out, or else no probe was stopped or disposed at all, and the  *)
(* capture ends in an exception.  That is one that came from outside the   *)
(* probes' own steps (a kind's factory, releaseRuntime, a hook or          *)
(* onProgress) before the stop pass began; a capture in which no probe     *)
(* starts is not such a case (coordinator.ts:119-170, probes.ts:133-190).  *)
DisposedBeforeClose ==
  closeStep # "idle" =>
    \/ \A k \in Installed \cap Disposable : disposeStep[k] \in {"ok", "failed", "late"}
    \/ failed /\ ~NoneStarted /\ Untouched

(* A probe is drained only while the capture waits, or by the tick the     *)
(* stop is awaiting; and only if its drain never failed before             *)
(* (periodic-drain.ts:51-72, probes.ts:107-131).                           *)
DrainsInTime ==
  \A k \in Kinds :
    drainStep'[k] = "running" /\ drainStep[k] # "running"
      => pc \in {"wait", "quiesce"} /\ drainStep[k] \in {"idle", "ok"}
NoDrainAfterStop == [][DrainsInTime]_vars

(* The coordinator implements ManagedCapture, its promise to the caller:   *)
(* the source is held from connect until finalize settled, once, and       *)
(* runCapture settles after that (coordinator.ts:97-212, session.ts).      *)
Source ==
  CASE ~connected -> "none"
    [] connected /\ finalizeStep \in {"idle", "running"} -> "held"
    [] OTHER -> "released"
Explained ==
  {k \in Kinds : <<"probe-install", k>> \in diagnostics \/ <<"probe-stop", k>> \in diagnostics}
Settlement == IF pc \in Ended THEN pc ELSE "pending"
Managed == INSTANCE ManagedCapture WITH
  source <- Source, reason <- stopReason, gathered <- kindsData,
  explained <- Explained, outcome <- Settlement
ImplementsManagedCapture == Managed!Spec

(* A stop condition ends the capture: once one of them won, runCapture     *)
(* settles, whatever probes, drains, reads and close do, when no hang of   *)
(* the target lasts forever.                                               *)
StopEndsCapture == stopReason # "none" ~> pc \in Ended

(* What disposeAll is for (probes.ts:133-138): a capture that aborts before *)
(* running leaves no installed probe with its CDP domain enabled.          *)
AbortedMeansDisposed ==
  pc = "threw" => \A k \in Installed \cap Disposable : disposeStep[k] # "idle"

(* What docs/architecture.md:114 says of a target that exits or hangs      *)
(* mid-capture: the capture still ends, with what was drained before.      *)
HungTargetEndsCapture == hung /\ stopReason # "none" ~> pc \in Ended
==============================================================================
