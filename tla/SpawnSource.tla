---------------------------- MODULE SpawnSource ----------------------------
(***************************************************************************)
(* A spawned target and the profiler's end of it: the child from its start *)
(* under --inspect-brk to its end, the records its hooks batch and write   *)
(* to the control channel (fd 3), the inspector URL, the release of the    *)
(* startup breakpoint, what the source knows of the child's end when the   *)
(* coordinator asks, and the termination.                                  *)
(*                                                                         *)
(* The profiler learns of the child in three ways whose order nothing      *)
(* fixes: lines of the pipe, the exit event, the loss of the inspector     *)
(* connection.  Heartbeats are numbered; a line of the pipe is a heartbeat *)
(* with its number, or a record that carries the drop counter.             *)
(***************************************************************************)
EXTENDS FiniteSets, Integers, Sequences

CONSTANTS
  MaxBeats,   \* bound: heartbeats the target emits
  BatchSize   \* FLUSH_BATCH_SIZE

ASSUME SpawnAssumption == MaxBeats \in Nat /\ BatchSize \in Nat \ {0}

Beats == 1..MaxBeats

VARIABLES
  child,      \* where the process is
  ended,      \* how it ended: "none", "code" or "signal"
  url,        \* the inspector URL was printed
  hooks,      \* "absent", "running" or "disposed"
  debugger,   \* [target |-> Debugger.enable took effect, known |-> its answer came]
  breakDue,   \* V8 will pause at the first statement
  threw,      \* uncaught exceptions: "no", "handled", "fatal", or "late": fatal after the completion
  emitted,    \* heartbeats emitted
  pending,    \* lines not yet written
  dropped,    \* heartbeatDropped in the target
  failed,     \* lines of the writes that threw
  discarded,  \* heartbeats that dispose threw away
  pipe,       \* lines written and not yet read by the profiler
  completeAt, \* heartbeats emitted when the completion was sent, -1 before
  sig,        \* the strongest signal the profiler sent
  pc,         \* where the profiler is
  aborted,    \* the capture failed before its wait was over: no bundle
  cdp,        \* "none", "up" or "down"
  live,       \* what the source has accumulated
  reported,   \* what collectRuntimeSignals took from live; then the bundle
  counted     \* the drop counter the profiler read over CDP, -1 if none

procVars  == <<child, ended, url, breakDue>>
lineVars  == <<emitted, pending, dropped, failed, discarded, pipe>>
hookVars  == <<hooks, threw, completeAt>>
hostVars  == <<sig, pc, aborted, cdp, debugger, reported, counted>>
vars == <<procVars, lineVars, hookVars, hostVars, live>>

Alive == child # "dead"

Line(kind, n) == [kind |-> kind, n |-> n]

LinesOf(lines) == {lines[i] : i \in DOMAIN lines}

BeatsIn(lines) == {line.n : line \in {l \in LinesOf(lines) : l.kind = "beat"}}

TypeOK ==
  /\ child \in {"starting", "held", "running", "paused", "crashing", "completed", "dead"}
  /\ ended \in {"none", "code", "signal"} /\ (ended = "none" <=> Alive)
  /\ url \in BOOLEAN /\ breakDue \in BOOLEAN
  /\ hooks \in {"absent", "running", "disposed"}
  /\ debugger \in [target : BOOLEAN, known : BOOLEAN]
  /\ threw \in {"no", "handled", "fatal", "late"}
  /\ emitted \in 0..MaxBeats /\ dropped \in 0..MaxBeats
  /\ BeatsIn(pending) \cup discarded \subseteq Beats
  /\ completeAt \in -1..MaxBeats
  /\ Len(pending) < BatchSize
  /\ sig \in {"none", "term", "kill"}
  /\ pc \in {"url", "connect", "prepare", "release", "pauseWait", "wait", "collect",
             "read", "dispose", "close", "grace", "term", "done", "failed"}
  /\ cdp \in {"none", "up", "down"} /\ aborted \in BOOLEAN
  /\ live.beats \subseteq Beats /\ live.dropped \in 0..MaxBeats
  /\ counted \in -1..MaxBeats

Nothing == [exit |-> "none", crash |-> FALSE, complete |-> FALSE]

Init ==
  /\ child = "starting" /\ ended = "none" /\ url = FALSE /\ breakDue = FALSE
  /\ hooks = "absent" /\ threw = "no" /\ completeAt = -1
  /\ emitted = 0 /\ pending = <<>> /\ dropped = 0 /\ failed = {} /\ discarded = {}
  /\ pipe = <<>>
  /\ sig = "none" /\ pc = "url" /\ aborted = FALSE /\ cdp = "none"
  /\ debugger = [target |-> FALSE, known |-> FALSE]
  /\ live = [exit |-> "none", crash |-> FALSE, complete |-> FALSE, beats |-> {}, dropped |-> 0]
  /\ reported = Nothing /\ counted = -1

------------------------------------------------------------------------------
(* The child's hooks.                                                      *)

Full(lines) == Len(lines) >= BatchSize

(* One writeSync of a batch: it arrives whole, or it throws and only the   *)
(* heartbeats in it are counted.                                           *)
Written(lines) ==
  /\ pending' = <<>>
  /\ \/ pipe' = pipe \o lines /\ UNCHANGED <<dropped, failed>>
     \/ /\ dropped' = dropped + Cardinality(BeatsIn(lines))
        /\ failed' = failed \cup LinesOf(lines)
        /\ UNCHANGED pipe

(* Mutant: a lifecycle record overtakes the batch. *)
EmitCriticalAlone(line) == pipe' = pipe \o <<line>> /\ UNCHANGED <<pending, dropped, failed>>

(* A lifecycle record takes what is pending with it, in order. *)
EmitCritical(line) == Written(Append(pending, line))

Loading == hooks = "absent" /\ child \in {"held", "running"}

LoadPreload ==
  /\ Loading
  /\ hooks' = "running"
  /\ EmitCritical(Line("ready", dropped))
  /\ UNCHANGED <<procVars, emitted, discarded, threw, completeAt, hostVars, live>>

Heartbeat ==
  /\ hooks = "running" /\ child \in {"running", "completed"}
  /\ emitted < MaxBeats
  /\ emitted' = emitted + 1
  /\ LET lines == Append(pending, Line("beat", emitted + 1))
     IN  IF Full(lines)
           THEN Written(lines)
           ELSE pending' = lines /\ UNCHANGED <<pipe, dropped, failed>>
  /\ UNCHANGED <<procVars, discarded, hookVars, hostVars, live>>

FlushTimer ==
  /\ child \in {"running", "completed"} /\ pending # <<>>
  /\ Written(pending)
  /\ UNCHANGED <<procVars, emitted, discarded, hookVars, hostVars, live>>

(* uncaughtExceptionMonitor fires before the process looks for a handler:  *)
(* without one it dies, with one it goes on.  The record is sent once.  A  *)
(* child that sent its completion from beforeExit may go on and throw too. *)
UncaughtException ==
  /\ hooks # "absent" /\ child \in {"running", "completed"} /\ ~breakDue
  /\ threw \in {"no", "handled"}
  /\ \/ threw' = (IF completeAt = -1 THEN "fatal" ELSE "late") /\ child' = "crashing"
     \/ threw' = "handled" /\ UNCHANGED child
  /\ \/ threw = "no" /\ EmitCritical(Line("crash", 0))
     \/ threw = "handled" /\ UNCHANGED <<pending, dropped, failed, pipe>>
  /\ UNCHANGED <<ended, url, breakDue, emitted, discarded, hooks, completeAt, hostVars, live>>

(* beforeExit, process.exit() or exit, whichever is first. *)
Complete ==
  /\ hooks # "absent" /\ child \in {"running", "crashing"} /\ ~breakDue /\ completeAt = -1
  /\ child' = "completed"
  /\ completeAt' = emitted
  /\ EmitCritical(Line("complete", dropped))
  /\ UNCHANGED <<ended, url, breakDue, emitted, discarded, hooks, threw, hostVars, live>>

------------------------------------------------------------------------------
(* The child's process.                                                    *)

PrintUrl ==
  /\ child = "starting"
  /\ child' = "held" /\ url' = TRUE
  /\ UNCHANGED <<ended, breakDue, lineVars, hookVars, hostVars, live>>

StartPause ==
  /\ child = "running" /\ breakDue /\ hooks # "absent"
  /\ child' = "paused" /\ breakDue' = FALSE
  /\ UNCHANGED <<ended, url, lineVars, hookVars, hostVars, live>>

Dies(how) ==
  /\ child' = "dead" /\ ended' = how
  /\ UNCHANGED <<url, breakDue, lineVars, hookVars, hostVars, live>>

(* It ends by itself, before it has hooks or after it said so.  It need    *)
(* not: a beforeExit listener can keep it.                                 *)
Exit ==
  /\ \/ child = "starting"
     \/ child = "running" /\ hooks = "absent"
     \/ child = "completed"
     \/ child = "crashing" /\ completeAt # -1
  /\ Dies("code")

(* A signal of ours, or somebody else's. *)
Killed == Alive /\ Dies("signal")

SigKill == Alive /\ sig = "kill" /\ Dies("signal")

------------------------------------------------------------------------------
(* What reaches the profiler.                                              *)

Learn(line) ==
  CASE line.kind = "beat"     -> [live EXCEPT !.beats = @ \cup {line.n}]
    [] line.kind = "ready"    -> [live EXCEPT !.dropped = IF line.n > @ THEN line.n ELSE @]
    [] line.kind = "crash"    -> [live EXCEPT !.crash = TRUE]
    [] line.kind = "complete" -> [live EXCEPT !.complete = TRUE,
                                              !.dropped = IF line.n > @ THEN line.n ELSE @]

Ended == pc \in {"done", "failed"}

ReadPipe ==
  /\ pipe # <<>> /\ ~Ended
  /\ live' = Learn(Head(pipe))
  /\ pipe' = Tail(pipe)
  /\ UNCHANGED <<procVars, emitted, pending, dropped, failed, discarded, hookVars, hostVars>>

ExitEvent ==
  /\ ~Alive /\ live.exit = "none" /\ pc # "done"
  /\ live' = [live EXCEPT !.exit = ended]
  /\ UNCHANGED <<procVars, lineVars, hookVars, hostVars>>

Disconnect ==
  /\ ~Alive /\ cdp = "up"
  /\ cdp' = "down"
  /\ UNCHANGED <<procVars, lineVars, hookVars, sig, pc, aborted, debugger, reported, counted, live>>

------------------------------------------------------------------------------
(* SpawnSource.connect.                                                    *)

(* The URL appears while the child is watched: not after its exit event.   *)
UrlSeen ==
  /\ pc = "url" /\ url /\ live.exit = "none"
  /\ pc' = "connect"
  /\ UNCHANGED <<procVars, lineVars, hookVars, sig, aborted, cdp, debugger, reported,
                 counted, live>>

(* Timeout, bad option, spawn error or exit: terminateChild sends SIGTERM. *)
StartupFails ==
  /\ pc = "url"
  /\ pc' = "failed"
  /\ sig' = IF live.exit = "code" THEN sig ELSE "term"
  /\ UNCHANGED <<procVars, lineVars, hookVars, aborted, cdp, debugger, reported, counted, live>>

(* And SIGKILL a second later. *)
KillFallback ==
  /\ pc = "failed" /\ sig = "term" /\ live.exit # "code"
  /\ sig' = "kill"
  /\ UNCHANGED <<procVars, lineVars, hookVars, pc, aborted, cdp, debugger, reported, counted,
                 live>>

ConnectCdp ==
  /\ pc = "connect"
  /\ \/ Alive /\ pc' = "prepare" /\ cdp' = "up"
     \/ pc' = "failed" /\ cdp' = "down"
  /\ UNCHANGED <<procVars, lineVars, hookVars, sig, aborted, debugger, reported, counted, live>>

(* The async probe enables the Debugger domain.  Its start step is timed:  *)
(* the answer may come after the probe was given up.                       *)
EnableDebugger ==
  /\ pc = "prepare" /\ cdp = "up" /\ Alive /\ ~debugger.target
  /\ debugger' \in [target : {TRUE}, known : BOOLEAN]
  /\ UNCHANGED <<procVars, lineVars, hookVars, sig, pc, aborted, cdp, reported, counted, live>>

EnabledLate ==
  /\ debugger.target /\ ~debugger.known /\ cdp = "up" /\ ~Ended
  /\ debugger' = [debugger EXCEPT !.known = TRUE]
  /\ UNCHANGED <<procVars, lineVars, hookVars, sig, pc, aborted, cdp, reported, counted, live>>

Prepared ==
  /\ pc = "prepare"
  /\ pc' = "release"
  /\ UNCHANGED <<procVars, lineVars, hookVars, sig, aborted, cdp, debugger, reported,
                 counted, live>>

(* A step of the coordinator before its wait throws: the finally block     *)
(* closes the connection and finalizes.                                    *)
Abort ==
  /\ pc \in {"prepare", "release", "wait"}
  /\ pc' = "close" /\ aborted' = TRUE
  /\ UNCHANGED <<procVars, lineVars, hookVars, sig, cdp, debugger, reported, counted, live>>

(* runIfWaitingForDebugger.  V8 stops at the first statement only if the   *)
(* Debugger domain is on; the source waits for that only if it knows.      *)
ReleaseRuntime ==
  /\ pc = "release" /\ cdp = "up" /\ Alive
  /\ child' = IF child = "held" THEN "running" ELSE child
  /\ breakDue' = (child = "held" /\ debugger.target)
  /\ pc' = IF debugger.known THEN "pauseWait" ELSE "wait"
  /\ UNCHANGED <<ended, url, lineVars, hookVars, sig, aborted, cdp, debugger, reported,
                 counted, live>>

ResumePaused ==
  /\ pc = "pauseWait" /\ child = "paused"
  /\ child' = "running" /\ pc' = "wait"
  /\ UNCHANGED <<ended, url, breakDue, lineVars, hookVars, sig, aborted, cdp, debugger, reported,
                 counted, live>>

(* 500 ms without a pause: Debugger.resume is refused, and that is swallowed. *)
GiveUpPause ==
  /\ pc = "pauseWait" /\ child # "paused"
  /\ pc' = "wait"
  /\ UNCHANGED <<procVars, lineVars, hookVars, sig, aborted, cdp, debugger, reported,
                 counted, live>>

------------------------------------------------------------------------------
(* The coordinator's stop, and finalize.                                   *)

(* The wait ends by duration, signal, completion or exit; the probes stop, *)
(* and the async probe's Debugger.disable resumes a paused target.         *)
StopWaiting ==
  /\ pc = "wait"
  /\ pc' = "collect"
  /\ child' = IF child = "paused" THEN "running" ELSE child
  /\ breakDue' = FALSE
  /\ UNCHANGED <<ended, url, lineVars, hookVars, sig, aborted, cdp, debugger, reported,
                 counted, live>>

Snapshot == [exit |-> live.exit, crash |-> live.crash, complete |-> live.complete]

CollectLive ==
  /\ pc = "collect"
  /\ reported' = Snapshot
  /\ pc' = "read"
  /\ UNCHANGED <<procVars, lineVars, hookVars, sig, aborted, cdp, debugger, counted, live>>

(* readRuntimeIntegrity.  Its result is only merged when there are no live *)
(* counters, and a spawned target always has them.                         *)
ReadIntegrity ==
  /\ pc = "read"
  /\ pc' = "dispose"
  /\ \/ cdp = "up" /\ Alive /\ hooks # "absent" /\ counted' = dropped
     \/ UNCHANGED counted
  /\ UNCHANGED <<procVars, lineVars, hookVars, sig, aborted, cdp, debugger, reported, live>>

(* disposeRuntime waits for the target, without a timer.  dispose() throws *)
(* away the batch; the lifecycle records stay on.                          *)
DisposeAnswered ==
  /\ pc = "dispose" /\ cdp = "up" /\ Alive
  /\ pc' = "close"
  /\ \/ /\ hooks = "running"
        /\ hooks' = "disposed"
        /\ discarded' = discarded \cup BeatsIn(pending)
        /\ pending' = <<>>
     \/ UNCHANGED <<hooks, discarded, pending>>
  /\ UNCHANGED <<procVars, emitted, dropped, failed, pipe, threw, completeAt, sig, aborted, cdp,
                 debugger, reported, counted, live>>

(* The connection is lost: the call is rejected, and that is swallowed. *)
DisposeRejected ==
  /\ pc = "dispose" /\ cdp = "down"
  /\ pc' = "close"
  /\ UNCHANGED <<procVars, lineVars, hookVars, sig, aborted, cdp, debugger, reported, counted,
                 live>>

(* V8 lets a paused target go when its debugger goes. *)
CloseCdp ==
  /\ pc = "close"
  /\ pc' = "grace" /\ cdp' = "down"
  /\ child' = IF child = "paused" THEN "running" ELSE child
  /\ breakDue' = FALSE
  /\ UNCHANGED <<ended, url, lineVars, hookVars, sig, aborted, debugger, reported, counted, live>>

(* Mutant: the bundle holds what was known before finalize. *)
FinalWithoutSecondLook == pc' = "done" /\ UNCHANGED reported

(* The second look at the live signals. *)
Final ==
  /\ pc' = "done"
  /\ reported' = IF aborted THEN reported ELSE [reported EXCEPT !.exit = IF @ # "none" THEN @ ELSE live.exit,
                                  !.crash = @ \/ live.crash]

(* The child exited, or the grace wait is over.  A completed child is left *)
(* to end by itself.                                                       *)
GraceOver ==
  /\ pc = "grace"
  /\ IF live.exit # "none" \/ reported.complete
       THEN Final /\ UNCHANGED sig
       ELSE pc' = "term" /\ sig' = "term" /\ UNCHANGED reported
  /\ UNCHANGED <<procVars, lineVars, hookVars, aborted, cdp, debugger, counted, live>>

(* Mutant: a child that ignores SIGTERM is left alone. *)
TermOverNoKill ==
  /\ pc = "term"
  /\ Final
  /\ UNCHANGED <<procVars, lineVars, hookVars, sig, aborted, cdp, debugger, counted, live>>

(* Mutant: SIGTERM is waited for without a timer. *)
TermOverOnExit ==
  /\ pc = "term" /\ live.exit # "none"
  /\ Final
  /\ UNCHANGED <<procVars, lineVars, hookVars, sig, aborted, cdp, debugger, counted, live>>

TermOver ==
  /\ pc = "term"
  /\ Final
  /\ sig' = IF live.exit = "none" THEN "kill" ELSE sig
  /\ UNCHANGED <<procVars, lineVars, hookVars, aborted, cdp, debugger, counted, live>>

Terminated == Ended /\ UNCHANGED vars

Hooks   == LoadPreload \/ Heartbeat \/ FlushTimer \/ UncaughtException \/ Complete
Process == PrintUrl \/ StartPause \/ Exit \/ Killed \/ SigKill
Arrival == ReadPipe \/ ExitEvent \/ Disconnect \/ EnabledLate
Connect == UrlSeen \/ StartupFails \/ KillFallback \/ ConnectCdp
Release == ReleaseRuntime \/ ResumePaused \/ GiveUpPause
Stop    == CollectLive \/ ReadIntegrity \/ DisposeRejected \/ CloseCdp \/ GraceOver \/ TermOver

Next ==
  \/ Hooks \/ Process \/ Arrival \/ Connect
  \/ EnableDebugger \/ Prepared \/ Abort \/ Release
  \/ StopWaiting \/ Stop \/ DisposeAnswered
  \/ Terminated

(* The profiler's continuations and timers run, and the system closes the  *)
(* connection of a process that is dead.  The child owes nothing, not even *)
(* an answer.                                                              *)
Spec == Init /\ [][Next]_vars /\ WF_vars(Stop) /\ WF_vars(Disconnect)

------------------------------------------------------------------------------
(* Properties                                                              *)

(* The completion is never ahead of earlier samples (framework.ts:299-303): *)
(* when it is read, every heartbeat emitted before it has been read, was   *)
(* thrown away by dispose, or is in the drop counter the record carried.   *)
CompletionIsLast ==
  live.complete =>
    Cardinality((1..completeAt) \ (live.beats \cup discarded)) = live.dropped

(* Once the profiler holds a connected child, it does not return before    *)
(* the child is dead, killed, or known to have completed; a child whose    *)
(* startup failed is dead or killed too (terminate.ts:8-36).               *)
NothingLeftRunning ==
  /\ pc = "done" => ~Alive \/ sig = "kill" \/ reported.complete
  /\ pc = "failed" /\ cdp = "none" => ~Alive \/ sig # "none"

(* The bundle tells the end the source knew when finalize was over: the    *)
(* exit, and a crash whenever the completion was read, however the lines   *)
(* and the exit event were interleaved (coordinator.ts:187-203).  Only the *)
(* crash of a child that went on after its completion can be missed: its   *)
(* line is behind the completion, and neither the stop nor the exit event  *)
(* waits for it.                                                           *)
EndIsReported ==
  pc = "done" /\ ~aborted =>
    /\ reported.exit = live.exit
    /\ live.complete /\ threw \in {"fatal", "late"} =>
         \/ reported.crash \/ Line("crash", 0) \in failed
         \/ threw = "late" /\ Line("crash", 0) \in LinesOf(pipe)

(* Once the capture stops, it goes on to the end, whatever the child does  *)
(* to the signals it is sent (terminate.ts:8-25), with one exception: a    *)
(* child that neither answers dispose nor ever dies holds the stop there   *)
(* (coordinator.ts:181).                                                   *)
StopEnds == <>[](pc = "dispose" /\ Alive) \/ (pc = "collect" ~> pc = "done")

(* docs/architecture.md:88 says that Lanterna releases the startup         *)
(* breakpoint: the target does not stand in it during the capture.         *)
ReleasedForGood == pc = "wait" => child # "paused"

(* docs/report-schema.md:38 says that targetCrash records a fatal crash.   *)
ReportedCrashIsFatal == reported.crash => threw \in {"fatal", "late"}

(* session.ts:35-38 says that of the two channels the one that saw the     *)
(* highest counter wins: the bundle's is no less than what CDP read.       *)
HighestCounterWins == pc = "done" /\ ~aborted => live.dropped >= counted
=============================================================================
