---------------------- MODULE CaptureCoordinatorProofs ----------------------
(***************************************************************************)
(* Proofs about CaptureCoordinator for every set of kinds.                 *)
(*                                                                         *)
(* Every safety property of the module follows from one inductive          *)
(* invariant, IInv, a conjunction of parts named for what they track; with *)
(* GatherInv added, so does the refinement of ManagedCapture.              *)
(***************************************************************************)
EXTENDS CaptureCoordinator, TLAPS

BeforeStart == {"connect", "setup", "install", "start"}
BeforeWait  == BeforeStart \cup {"release", "afterRelease", "ready"}
BeforeStop  == BeforeWait \cup {"abort", "wait", "quiesce"}
BeforeClose == BeforeStop \cup {"stop", "collect", "uninstall"}
Unwinding   == {"unwindDrain", "unwindClose", "unwindFinalize"}
StopPhases  == {"stop", "collect", "uninstall", "close", "finalize"}

(* The exception flag is raised only on the way out. *)
FailureInv ==
  /\ failed => pc \in Unwinding \cup {"threw"}
  /\ pc = "threw" => failed
  /\ pc = "returned" => ~failed

(* What install leaves of each requested probe, and what the stop pass makes *)
(* of each installed one.                                                    *)
ProbeOK(k) ==
  /\ pc \in {"connect", "setup"} => life[k] = "none"
  /\ life[k] = "dropped" => <<"probe-install", k>> \in diagnostics
  /\ k \in requested /\ life[k] = "none" =>
       pc \in {"connect", "setup"} \/ (pc = "install" /\ k \in todo) \/ failed
  /\ stopStep[k] \in {"failed", "late"} => <<"probe-stop", k>> \in diagnostics
  /\ stopStep[k] = "ok" => k \in kindsData
  /\ stopStep[k] = "running" => pc = "stop" /\ cur = k
  /\ disposeStep[k] = "running" => cur = k /\ stopStep[k] # "running"
  /\ pc \in BeforeStop => stopStep[k] = "idle"
  /\ k \in Installed /\ stopStep[k] = "idle" =>
       pc \in BeforeStop \/ (pc = "stop" /\ k \in todo) \/ failed
ProbeInv == \A k \in Kinds : ProbeOK(k)

(* The drain lives between BeginWait and Quiesced. *)
DrainInv ==
  /\ timer = "set" => pc = "wait"
  /\ tick => pc \in {"wait", "quiesce"}
  /\ tickTodo # {} => tick
  /\ \A k \in Kinds :
       /\ drainStep[k] = "running" => tick
       /\ drainStep[k] = "late" => <<"probe-drain", k>> \in diagnostics
       /\ k \in tickTodo => drainStep[k] \in {"idle", "ok"}

(* What the session has done by each phase. *)
SessionInv ==
  /\ pc = "connect" => ~connected /\ ~keepalive
  /\ pc \notin {"connect", "threw"} => connected
  /\ pc \in BeforeClose => closeStep = "idle" /\ finalizeStep = "idle"
  /\ pc = "close" => closeStep \in {"idle", "running"} /\ finalizeStep = "idle"
  /\ closeStep = "running" => pc \in {"close", "unwindClose"}
  /\ closeStep # "idle" => cdpClosed
  /\ pc \in {"finalize", "unwindFinalize"} => closeStep \notin {"idle", "running"}
  /\ finalizeStep = "running" => pc \in {"finalize", "unwindFinalize"}
  /\ finalizeCalls = (IF finalizeStep = "idle" THEN 0 ELSE 1)
  /\ pc \in {"unwindClose", "unwindFinalize"} \cup Ended => ~keepalive
  /\ connected /\ pc \in Ended =>
       closeStep \notin {"idle", "running"} /\ finalizeStep \in {"ok", "failed"}

(* Who has been disposed by each phase. *)
DisposeInv ==
  /\ stopReason # "none" => pc \notin BeforeWait \cup {"abort", "wait"}
  /\ pc \in {"quiesce"} \cup StopPhases => stopReason # "none"
  /\ requested = {} \/ HasStarted \/ pc \in BeforeStart \cup {"abort"} \/ failed
  /\ pc = "abort" => requested # {} /\ ~HasStarted
  /\ cur # None => pc \in {"abort", "stop"}
  /\ pc \in BeforeStop \ {"abort"} => Untouched
  /\ \/ failed /\ ~NoneStarted /\ Untouched
     \/ \A k \in Installed \cap Disposable :
          \/ disposeStep[k] # "idle"
          \/ pc \in BeforeStop \ {"abort"}
          \/ pc \in {"abort", "stop"} /\ k \in todo
          \/ pc = "stop" /\ cur = k /\ stopStep[k] = "running"

IInv == TypeOK /\ FailureInv /\ ProbeInv /\ DrainInv /\ SessionInv /\ DisposeInv

(* Every step keeps the types. *)
LEMMA TypeStep == IInv /\ [Next]_vars => TypeOK'
<1> SUFFICES ASSUME IInv, [Next]_vars PROVE TypeOK'
  OBVIOUS
<1> USE KindsAssumption DEF IInv, TypeOK, Phases, Modes, Reasons, Steps, Stages, Ended, Installed, vars, outerVars, probeVars, tickVars, connVars, endVars
<1>1. CASE ConnectFails
  BY <1>1 DEF ConnectFails
<1>2. CASE Connect
  BY <1>2 DEF Connect
<1>3. CASE Throw
  BY <1>3 DEF Throw
<1>4. CASE StartClock
  BY <1>4 DEF StartClock
<1>5. ASSUME NEW k \in Kinds, InstallProbe(k) PROVE TypeOK'
  BY <1>5 DEF InstallProbe, Record
<1>6. ASSUME NEW k \in Kinds, StartProbe(k) PROVE TypeOK'
  BY <1>6 DEF StartProbe, Record
<1>7. ASSUME NEW k \in Kinds, AfterRuntimeReleased(k) PROVE TypeOK'
  BY <1>7 DEF AfterRuntimeReleased, Record
<1>8. CASE InstallDone
  BY <1>8 DEF InstallDone, Advance
<1>9. CASE StartDone
  BY <1>9 DEF StartDone, Advance
<1>10. CASE ReleaseRuntime
  BY <1>10 DEF ReleaseRuntime, Advance
<1>11. CASE AfterRuntimeReleasedDone
  BY <1>11 DEF AfterRuntimeReleasedDone, Advance
<1>12. CASE BeginWait
  BY <1>12 DEF BeginWait
<1>13. ASSUME NEW reason \in Reasons, StopWaiting(reason) PROVE TypeOK'
  BY <1>13 DEF StopWaiting, StoppedDrain
<1>14. CASE Quiesced
  BY <1>14 DEF Quiesced, Advance
<1>15. CASE StopDone
  BY <1>15 DEF StopDone, Advance
<1>16. CASE AbortDone
  BY <1>16 DEF AbortDone
<1>17. CASE CollectRuntimeSignals
  BY <1>17 DEF CollectRuntimeSignals, Advance
<1>18. CASE UninstallHooks
  BY <1>18 DEF UninstallHooks, Record
<1>19. ASSUME NEW k \in Kinds, BeginStop(k) PROVE TypeOK'
  BY <1>19 DEF BeginStop
<1>20. ASSUME NEW k \in Kinds, StopSettles(k) PROVE TypeOK'
  BY <1>20 DEF StopSettles, Record
<1>21. ASSUME NEW k \in Kinds, AbortProbe(k) PROVE TypeOK'
  BY <1>21 DEF AbortProbe
<1>22. ASSUME NEW k \in Kinds, DisposeSettles(k) PROVE TypeOK'
  BY <1>22 DEF DisposeSettles, Record
<1>23. CASE UnwindDrain
  <2>1. keepalive' \in BOOLEAN
    BY <1>23 DEF UnwindDrain
  <2> QED
    BY <1>23, <2>1 DEF UnwindDrain, StoppedDrain
<1>24. CASE CloseBegins
  BY <1>24 DEF CloseBegins
<1>25. CASE CloseSettles
  BY <1>25 DEF CloseSettles, Record, AfterClose
<1>26. CASE CloseSkipped
  BY <1>26 DEF CloseSkipped
<1>27. CASE FinalizeBegins
  BY <1>27 DEF FinalizeBegins
<1>28. CASE FinalizeSucceeds
  BY <1>28 DEF FinalizeSucceeds, Outcome
<1>29. CASE FinalizeFails
  BY <1>29 DEF FinalizeFails, Record, Outcome
<1>30. CASE FinalizeSkipped
  BY <1>30 DEF FinalizeSkipped, Outcome
<1>31. CASE SignalReadsSettle
  <2>1. signalRead' \in BOOLEAN
    BY <1>31 DEF SignalReadsSettle
  <2> QED
    BY <1>31, <2>1 DEF SignalReadsSettle
<1>32. CASE TickEnds
  <2>1. tick' \in BOOLEAN
    BY <1>32 DEF TickEnds
  <2> QED
    BY <1>32, <2>1 DEF TickEnds, DrainRunning
<1>33. ASSUME NEW k \in Kinds, DrainBegins(k) PROVE TypeOK'
  BY <1>33 DEF DrainBegins, DrainRunning
<1>34. ASSUME NEW k \in Kinds, DrainSettles(k) PROVE TypeOK'
  BY <1>34 DEF DrainSettles, Record
<1>35. CASE TickBegins
  BY <1>35 DEF TickBegins, DrainFailed
<1>36. CASE TargetExits
  BY <1>36 DEF TargetExits
<1>37. CASE ConnectionDrops
  BY <1>37 DEF ConnectionDrops
<1>38. CASE RequestStop
  BY <1>38 DEF RequestStop
<1>39. CASE TargetHangs
  BY <1>39 DEF TargetHangs
<1>40. CASE TargetRecovers
  <2>1. hung' \in BOOLEAN
    BY <1>40 DEF TargetRecovers
  <2> QED
    BY <1>40, <2>1 DEF TargetRecovers
<1>41. CASE Terminated
  BY <1>41 DEF Terminated
<1>42. CASE UNCHANGED vars
  BY <1>42
<1> QED
  BY <1>1, <1>2, <1>3, <1>4, <1>5, <1>6, <1>7, <1>8, <1>9, <1>10, <1>11,
     <1>12, <1>13, <1>14, <1>15, <1>16, <1>17, <1>18, <1>19, <1>20, <1>21,
     <1>22, <1>23, <1>24, <1>25, <1>26, <1>27, <1>28, <1>29, <1>30, <1>31,
     <1>32, <1>33, <1>34, <1>35, <1>36, <1>37, <1>38, <1>39, <1>40, <1>41,
     <1>42 DEF Next, Coordinator, Setup, Stopping, Session, TickSettles,
     World

(* Every step keeps FailureInv. *)
LEMMA FailureStep == IInv /\ [Next]_vars => FailureInv'
<1> SUFFICES ASSUME IInv, [Next]_vars PROVE FailureInv'
  OBVIOUS
<1> USE KindsAssumption DEF IInv, TypeOK, FailureInv, Unwinding, Ended, vars, outerVars, probeVars, tickVars, connVars, endVars
<1>1. CASE ConnectFails
  BY <1>1 DEF ConnectFails
<1>2. CASE Connect
  BY <1>2 DEF Connect
<1>3. CASE Throw
  BY <1>3 DEF Throw
<1>4. CASE StartClock
  BY <1>4 DEF StartClock
<1>5. ASSUME NEW k \in Kinds, InstallProbe(k) PROVE FailureInv'
  BY <1>5 DEF InstallProbe, Record
<1>6. ASSUME NEW k \in Kinds, StartProbe(k) PROVE FailureInv'
  BY <1>6 DEF StartProbe, Record
<1>7. ASSUME NEW k \in Kinds, AfterRuntimeReleased(k) PROVE FailureInv'
  BY <1>7 DEF AfterRuntimeReleased, Record
<1>8. CASE InstallDone
  BY <1>8 DEF InstallDone, Advance
<1>9. CASE StartDone
  BY <1>9 DEF StartDone, Advance
<1>10. CASE ReleaseRuntime
  BY <1>10 DEF ReleaseRuntime, Advance
<1>11. CASE AfterRuntimeReleasedDone
  BY <1>11 DEF AfterRuntimeReleasedDone, Advance
<1>12. CASE BeginWait
  BY <1>12 DEF BeginWait
<1>13. ASSUME NEW reason \in Reasons, StopWaiting(reason) PROVE FailureInv'
  BY <1>13 DEF StopWaiting, StoppedDrain
<1>14. CASE Quiesced
  BY <1>14 DEF Quiesced, Advance
<1>15. CASE StopDone
  BY <1>15 DEF StopDone, Advance
<1>16. CASE AbortDone
  BY <1>16 DEF AbortDone
<1>17. CASE CollectRuntimeSignals
  BY <1>17 DEF CollectRuntimeSignals, Advance
<1>18. CASE UninstallHooks
  BY <1>18 DEF UninstallHooks, Record
<1>19. ASSUME NEW k \in Kinds, BeginStop(k) PROVE FailureInv'
  BY <1>19 DEF BeginStop
<1>20. ASSUME NEW k \in Kinds, StopSettles(k) PROVE FailureInv'
  BY <1>20 DEF StopSettles, Record
<1>21. ASSUME NEW k \in Kinds, AbortProbe(k) PROVE FailureInv'
  BY <1>21 DEF AbortProbe
<1>22. ASSUME NEW k \in Kinds, DisposeSettles(k) PROVE FailureInv'
  BY <1>22 DEF DisposeSettles, Record
<1>23. CASE UnwindDrain
  BY <1>23 DEF UnwindDrain, StoppedDrain
<1>24. CASE CloseBegins
  BY <1>24 DEF CloseBegins
<1>25. CASE CloseSettles
  BY <1>25 DEF CloseSettles, Record, AfterClose
<1>26. CASE CloseSkipped
  BY <1>26 DEF CloseSkipped
<1>27. CASE FinalizeBegins
  BY <1>27 DEF FinalizeBegins
<1>28. CASE FinalizeSucceeds
  BY <1>28 DEF FinalizeSucceeds, Outcome
<1>29. CASE FinalizeFails
  BY <1>29 DEF FinalizeFails, Record, Outcome
<1>30. CASE FinalizeSkipped
  BY <1>30 DEF FinalizeSkipped, Outcome
<1>31. CASE SignalReadsSettle
  BY <1>31 DEF SignalReadsSettle
<1>32. CASE TickEnds
  BY <1>32 DEF TickEnds, DrainRunning
<1>33. ASSUME NEW k \in Kinds, DrainBegins(k) PROVE FailureInv'
  BY <1>33 DEF DrainBegins, DrainRunning
<1>34. ASSUME NEW k \in Kinds, DrainSettles(k) PROVE FailureInv'
  BY <1>34 DEF DrainSettles, Record
<1>35. CASE TickBegins
  BY <1>35 DEF TickBegins, DrainFailed
<1>36. CASE TargetExits
  BY <1>36 DEF TargetExits
<1>37. CASE ConnectionDrops
  BY <1>37 DEF ConnectionDrops
<1>38. CASE RequestStop
  BY <1>38 DEF RequestStop
<1>39. CASE TargetHangs
  BY <1>39 DEF TargetHangs
<1>40. CASE TargetRecovers
  BY <1>40 DEF TargetRecovers
<1>41. CASE Terminated
  BY <1>41 DEF Terminated
<1>42. CASE UNCHANGED vars
  BY <1>42
<1> QED
  BY <1>1, <1>2, <1>3, <1>4, <1>5, <1>6, <1>7, <1>8, <1>9, <1>10, <1>11,
     <1>12, <1>13, <1>14, <1>15, <1>16, <1>17, <1>18, <1>19, <1>20, <1>21,
     <1>22, <1>23, <1>24, <1>25, <1>26, <1>27, <1>28, <1>29, <1>30, <1>31,
     <1>32, <1>33, <1>34, <1>35, <1>36, <1>37, <1>38, <1>39, <1>40, <1>41,
     <1>42 DEF Next, Coordinator, Setup, Stopping, Session, TickSettles,
     World

(* Every step keeps ProbeInv, one probe at a time. *)
LEMMA ProbeStep == IInv /\ [Next]_vars => ProbeInv'
<1> SUFFICES ASSUME IInv, [Next]_vars, NEW j \in Kinds PROVE ProbeOK(j)'
  BY DEF ProbeInv
<1>0. TypeOK /\ FailureInv /\ SessionInv /\ ProbeOK(j)
  BY DEF IInv, ProbeInv
<1> USE KindsAssumption DEF TypeOK, ProbeOK, FailureInv, SessionInv, Unwinding, Ended, BeforeStart, BeforeWait, BeforeStop, Installed, Steps, vars, outerVars, probeVars, tickVars, connVars, endVars
<1>1. CASE ConnectFails
  BY <1>0, <1>1 DEF ConnectFails
<1>2. CASE Connect
  BY <1>0, <1>2 DEF Connect
<1>3. CASE Throw
  BY <1>0, <1>3 DEF Throw
<1>4. CASE StartClock
  BY <1>0, <1>4 DEF StartClock
<1>5. ASSUME NEW k \in Kinds, InstallProbe(k) PROVE ProbeOK(j)'
  BY <1>0, <1>5 DEF InstallProbe, Record
<1>6. ASSUME NEW k \in Kinds, StartProbe(k) PROVE ProbeOK(j)'
  BY <1>0, <1>6 DEF StartProbe, Record
<1>7. ASSUME NEW k \in Kinds, AfterRuntimeReleased(k) PROVE ProbeOK(j)'
  BY <1>0, <1>7 DEF AfterRuntimeReleased, Record
<1>8. CASE InstallDone
  BY <1>0, <1>8 DEF InstallDone, Advance
<1>9. CASE StartDone
  BY <1>0, <1>9 DEF StartDone, Advance
<1>10. CASE ReleaseRuntime
  BY <1>0, <1>10 DEF ReleaseRuntime, Advance
<1>11. CASE AfterRuntimeReleasedDone
  BY <1>0, <1>11 DEF AfterRuntimeReleasedDone, Advance
<1>12. CASE BeginWait
  BY <1>0, <1>12 DEF BeginWait
<1>13. ASSUME NEW reason \in Reasons, StopWaiting(reason) PROVE ProbeOK(j)'
  BY <1>0, <1>13 DEF StopWaiting, StoppedDrain
<1>14. CASE Quiesced
  BY <1>0, <1>14 DEF Quiesced, Advance
<1>15. CASE StopDone
  BY <1>0, <1>15 DEF StopDone, Advance
<1>16. CASE AbortDone
  BY <1>0, <1>16 DEF AbortDone
<1>17. CASE CollectRuntimeSignals
  BY <1>0, <1>17 DEF CollectRuntimeSignals, Advance
<1>18. CASE UninstallHooks
  BY <1>0, <1>18 DEF UninstallHooks, Record
<1>19. ASSUME NEW k \in Kinds, BeginStop(k) PROVE ProbeOK(j)'
  BY <1>0, <1>19 DEF BeginStop
<1>20. ASSUME NEW k \in Kinds, StopSettles(k) PROVE ProbeOK(j)'
  BY <1>0, <1>20 DEF StopSettles, Record
<1>21. ASSUME NEW k \in Kinds, AbortProbe(k) PROVE ProbeOK(j)'
  BY <1>0, <1>21 DEF AbortProbe
<1>22. ASSUME NEW k \in Kinds, DisposeSettles(k) PROVE ProbeOK(j)'
  <2>1. /\ UNCHANGED <<pc, requested, todo, life, stopStep, kindsData, failed>>
        /\ diagnostics \subseteq diagnostics'
        /\ cur = k /\ disposeStep[k] = "running" /\ disposeStep'[k] # "running"
        /\ j # k => disposeStep'[j] = disposeStep[j]
    BY <1>0, <1>22 DEF DisposeSettles, Record
  <2>2. stopStep[j] # "running"
    BY <1>0, <1>22 DEF DisposeSettles
  <2> QED
    BY <1>0, <2>1, <2>2
<1>23. CASE UnwindDrain
  BY <1>0, <1>23 DEF UnwindDrain, StoppedDrain
<1>24. CASE CloseBegins
  BY <1>0, <1>24 DEF CloseBegins
<1>25. CASE CloseSettles
  BY <1>0, <1>25 DEF CloseSettles, Record, AfterClose
<1>26. CASE CloseSkipped
  BY <1>0, <1>26 DEF CloseSkipped
<1>27. CASE FinalizeBegins
  BY <1>0, <1>27 DEF FinalizeBegins
<1>28. CASE FinalizeSucceeds
  BY <1>0, <1>28 DEF FinalizeSucceeds, Outcome
<1>29. CASE FinalizeFails
  BY <1>0, <1>29 DEF FinalizeFails, Record, Outcome
<1>30. CASE FinalizeSkipped
  BY <1>0, <1>30 DEF FinalizeSkipped, Outcome
<1>31. CASE SignalReadsSettle
  BY <1>0, <1>31 DEF SignalReadsSettle
<1>32. CASE TickEnds
  BY <1>0, <1>32 DEF TickEnds, DrainRunning
<1>33. ASSUME NEW k \in Kinds, DrainBegins(k) PROVE ProbeOK(j)'
  BY <1>0, <1>33 DEF DrainBegins, DrainRunning
<1>34. ASSUME NEW k \in Kinds, DrainSettles(k) PROVE ProbeOK(j)'
  BY <1>0, <1>34 DEF DrainSettles, Record
<1>35. CASE TickBegins
  BY <1>0, <1>35 DEF TickBegins, DrainFailed
<1>36. CASE TargetExits
  BY <1>0, <1>36 DEF TargetExits
<1>37. CASE ConnectionDrops
  BY <1>0, <1>37 DEF ConnectionDrops
<1>38. CASE RequestStop
  BY <1>0, <1>38 DEF RequestStop
<1>39. CASE TargetHangs
  BY <1>0, <1>39 DEF TargetHangs
<1>40. CASE TargetRecovers
  BY <1>0, <1>40 DEF TargetRecovers
<1>41. CASE Terminated
  BY <1>0, <1>41 DEF Terminated
<1>42. CASE UNCHANGED vars
  BY <1>0, <1>42
<1> QED
  BY <1>1, <1>2, <1>3, <1>4, <1>5, <1>6, <1>7, <1>8, <1>9, <1>10, <1>11,
     <1>12, <1>13, <1>14, <1>15, <1>16, <1>17, <1>18, <1>19, <1>20, <1>21,
     <1>22, <1>23, <1>24, <1>25, <1>26, <1>27, <1>28, <1>29, <1>30, <1>31,
     <1>32, <1>33, <1>34, <1>35, <1>36, <1>37, <1>38, <1>39, <1>40, <1>41,
     <1>42 DEF Next, Coordinator, Setup, Stopping, Session, TickSettles,
     World

(* Every step keeps DrainInv. *)
LEMMA DrainStep == IInv /\ [Next]_vars => DrainInv'
<1> SUFFICES ASSUME IInv, [Next]_vars PROVE DrainInv'
  OBVIOUS
<1> USE KindsAssumption DEF IInv, TypeOK, DrainInv, SessionInv, Ended, Steps, vars, outerVars, probeVars, tickVars, connVars, endVars
<1>1. CASE ConnectFails
  BY <1>1 DEF ConnectFails
<1>2. CASE Connect
  BY <1>2 DEF Connect
<1>3. CASE Throw
  BY <1>3 DEF Throw
<1>4. CASE StartClock
  BY <1>4 DEF StartClock
<1>5. ASSUME NEW k \in Kinds, InstallProbe(k) PROVE DrainInv'
  BY <1>5 DEF InstallProbe, Record
<1>6. ASSUME NEW k \in Kinds, StartProbe(k) PROVE DrainInv'
  BY <1>6 DEF StartProbe, Record
<1>7. ASSUME NEW k \in Kinds, AfterRuntimeReleased(k) PROVE DrainInv'
  BY <1>7 DEF AfterRuntimeReleased, Record
<1>8. CASE InstallDone
  BY <1>8 DEF InstallDone, Advance
<1>9. CASE StartDone
  BY <1>9 DEF StartDone, Advance
<1>10. CASE ReleaseRuntime
  BY <1>10 DEF ReleaseRuntime, Advance
<1>11. CASE AfterRuntimeReleasedDone
  BY <1>11 DEF AfterRuntimeReleasedDone, Advance
<1>12. CASE BeginWait
  BY <1>12 DEF BeginWait
<1>13. ASSUME NEW reason \in Reasons, StopWaiting(reason) PROVE DrainInv'
  BY <1>13 DEF StopWaiting, StoppedDrain
<1>14. CASE Quiesced
  BY <1>14 DEF Quiesced, Advance
<1>15. CASE StopDone
  BY <1>15 DEF StopDone, Advance
<1>16. CASE AbortDone
  BY <1>16 DEF AbortDone
<1>17. CASE CollectRuntimeSignals
  BY <1>17 DEF CollectRuntimeSignals, Advance
<1>18. CASE UninstallHooks
  BY <1>18 DEF UninstallHooks, Record
<1>19. ASSUME NEW k \in Kinds, BeginStop(k) PROVE DrainInv'
  BY <1>19 DEF BeginStop
<1>20. ASSUME NEW k \in Kinds, StopSettles(k) PROVE DrainInv'
  BY <1>20 DEF StopSettles, Record
<1>21. ASSUME NEW k \in Kinds, AbortProbe(k) PROVE DrainInv'
  BY <1>21 DEF AbortProbe
<1>22. ASSUME NEW k \in Kinds, DisposeSettles(k) PROVE DrainInv'
  BY <1>22 DEF DisposeSettles, Record
<1>23. CASE UnwindDrain
  BY <1>23 DEF UnwindDrain, StoppedDrain
<1>24. CASE CloseBegins
  BY <1>24 DEF CloseBegins
<1>25. CASE CloseSettles
  BY <1>25 DEF CloseSettles, Record, AfterClose
<1>26. CASE CloseSkipped
  BY <1>26 DEF CloseSkipped
<1>27. CASE FinalizeBegins
  BY <1>27 DEF FinalizeBegins
<1>28. CASE FinalizeSucceeds
  BY <1>28 DEF FinalizeSucceeds, Outcome
<1>29. CASE FinalizeFails
  BY <1>29 DEF FinalizeFails, Record, Outcome
<1>30. CASE FinalizeSkipped
  BY <1>30 DEF FinalizeSkipped, Outcome
<1>31. CASE SignalReadsSettle
  BY <1>31 DEF SignalReadsSettle
<1>32. CASE TickEnds
  BY <1>32 DEF TickEnds, DrainRunning
<1>33. ASSUME NEW k \in Kinds, DrainBegins(k) PROVE DrainInv'
  BY <1>33 DEF DrainBegins, DrainRunning
<1>34. ASSUME NEW k \in Kinds, DrainSettles(k) PROVE DrainInv'
  BY <1>34 DEF DrainSettles, Record
<1>35. CASE TickBegins
  BY <1>35 DEF TickBegins, DrainFailed
<1>36. CASE TargetExits
  BY <1>36 DEF TargetExits
<1>37. CASE ConnectionDrops
  BY <1>37 DEF ConnectionDrops
<1>38. CASE RequestStop
  BY <1>38 DEF RequestStop
<1>39. CASE TargetHangs
  BY <1>39 DEF TargetHangs
<1>40. CASE TargetRecovers
  BY <1>40 DEF TargetRecovers
<1>41. CASE Terminated
  BY <1>41 DEF Terminated
<1>42. CASE UNCHANGED vars
  BY <1>42
<1> QED
  BY <1>1, <1>2, <1>3, <1>4, <1>5, <1>6, <1>7, <1>8, <1>9, <1>10, <1>11,
     <1>12, <1>13, <1>14, <1>15, <1>16, <1>17, <1>18, <1>19, <1>20, <1>21,
     <1>22, <1>23, <1>24, <1>25, <1>26, <1>27, <1>28, <1>29, <1>30, <1>31,
     <1>32, <1>33, <1>34, <1>35, <1>36, <1>37, <1>38, <1>39, <1>40, <1>41,
     <1>42 DEF Next, Coordinator, Setup, Stopping, Session, TickSettles,
     World

(* Every step keeps SessionInv. *)
LEMMA SessionStep == IInv /\ [Next]_vars => SessionInv'
<1> SUFFICES ASSUME IInv, [Next]_vars PROVE SessionInv'
  OBVIOUS
<1> USE KindsAssumption DEF IInv, TypeOK, SessionInv, FailureInv, Unwinding, Ended, BeforeStart, BeforeWait, BeforeStop, BeforeClose, Steps, vars, outerVars, probeVars, tickVars, connVars, endVars
<1>1. CASE ConnectFails
  BY <1>1 DEF ConnectFails
<1>2. CASE Connect
  BY <1>2 DEF Connect
<1>3. CASE Throw
  BY <1>3 DEF Throw
<1>4. CASE StartClock
  BY <1>4 DEF StartClock
<1>5. ASSUME NEW k \in Kinds, InstallProbe(k) PROVE SessionInv'
  BY <1>5 DEF InstallProbe, Record
<1>6. ASSUME NEW k \in Kinds, StartProbe(k) PROVE SessionInv'
  BY <1>6 DEF StartProbe, Record
<1>7. ASSUME NEW k \in Kinds, AfterRuntimeReleased(k) PROVE SessionInv'
  BY <1>7 DEF AfterRuntimeReleased, Record
<1>8. CASE InstallDone
  BY <1>8 DEF InstallDone, Advance
<1>9. CASE StartDone
  BY <1>9 DEF StartDone, Advance
<1>10. CASE ReleaseRuntime
  BY <1>10 DEF ReleaseRuntime, Advance
<1>11. CASE AfterRuntimeReleasedDone
  BY <1>11 DEF AfterRuntimeReleasedDone, Advance
<1>12. CASE BeginWait
  BY <1>12 DEF BeginWait
<1>13. ASSUME NEW reason \in Reasons, StopWaiting(reason) PROVE SessionInv'
  BY <1>13 DEF StopWaiting, StoppedDrain
<1>14. CASE Quiesced
  BY <1>14 DEF Quiesced, Advance
<1>15. CASE StopDone
  BY <1>15 DEF StopDone, Advance
<1>16. CASE AbortDone
  BY <1>16 DEF AbortDone
<1>17. CASE CollectRuntimeSignals
  BY <1>17 DEF CollectRuntimeSignals, Advance
<1>18. CASE UninstallHooks
  BY <1>18 DEF UninstallHooks, Record
<1>19. ASSUME NEW k \in Kinds, BeginStop(k) PROVE SessionInv'
  BY <1>19 DEF BeginStop
<1>20. ASSUME NEW k \in Kinds, StopSettles(k) PROVE SessionInv'
  BY <1>20 DEF StopSettles, Record
<1>21. ASSUME NEW k \in Kinds, AbortProbe(k) PROVE SessionInv'
  BY <1>21 DEF AbortProbe
<1>22. ASSUME NEW k \in Kinds, DisposeSettles(k) PROVE SessionInv'
  BY <1>22 DEF DisposeSettles, Record
<1>23. CASE UnwindDrain
  BY <1>23 DEF UnwindDrain, StoppedDrain
<1>24. CASE CloseBegins
  BY <1>24 DEF CloseBegins
<1>25. CASE CloseSettles
  BY <1>25 DEF CloseSettles, Record, AfterClose
<1>26. CASE CloseSkipped
  BY <1>26 DEF CloseSkipped
<1>27. CASE FinalizeBegins
  BY <1>27 DEF FinalizeBegins
<1>28. CASE FinalizeSucceeds
  BY <1>28 DEF FinalizeSucceeds, Outcome
<1>29. CASE FinalizeFails
  BY <1>29 DEF FinalizeFails, Record, Outcome
<1>30. CASE FinalizeSkipped
  BY <1>30 DEF FinalizeSkipped, Outcome
<1>31. CASE SignalReadsSettle
  BY <1>31 DEF SignalReadsSettle
<1>32. CASE TickEnds
  BY <1>32 DEF TickEnds, DrainRunning
<1>33. ASSUME NEW k \in Kinds, DrainBegins(k) PROVE SessionInv'
  BY <1>33 DEF DrainBegins, DrainRunning
<1>34. ASSUME NEW k \in Kinds, DrainSettles(k) PROVE SessionInv'
  BY <1>34 DEF DrainSettles, Record
<1>35. CASE TickBegins
  BY <1>35 DEF TickBegins, DrainFailed
<1>36. CASE TargetExits
  BY <1>36 DEF TargetExits
<1>37. CASE ConnectionDrops
  BY <1>37 DEF ConnectionDrops
<1>38. CASE RequestStop
  BY <1>38 DEF RequestStop
<1>39. CASE TargetHangs
  BY <1>39 DEF TargetHangs
<1>40. CASE TargetRecovers
  BY <1>40 DEF TargetRecovers
<1>41. CASE Terminated
  BY <1>41 DEF Terminated
<1>42. CASE UNCHANGED vars
  BY <1>42
<1> QED
  BY <1>1, <1>2, <1>3, <1>4, <1>5, <1>6, <1>7, <1>8, <1>9, <1>10, <1>11,
     <1>12, <1>13, <1>14, <1>15, <1>16, <1>17, <1>18, <1>19, <1>20, <1>21,
     <1>22, <1>23, <1>24, <1>25, <1>26, <1>27, <1>28, <1>29, <1>30, <1>31,
     <1>32, <1>33, <1>34, <1>35, <1>36, <1>37, <1>38, <1>39, <1>40, <1>41,
     <1>42 DEF Next, Coordinator, Setup, Stopping, Session, TickSettles,
     World

(* Every step keeps DisposeInv. *)
LEMMA DisposeStep == IInv /\ [Next]_vars => DisposeInv'
<1> SUFFICES ASSUME IInv, [Next]_vars PROVE DisposeInv'
  OBVIOUS
<1> USE KindsAssumption DEF IInv, TypeOK, DisposeInv, ProbeInv, ProbeOK, FailureInv, SessionInv, Unwinding, Ended, BeforeStart, BeforeWait, BeforeStop, BeforeClose, StopPhases, Installed, HasStarted, NoneStarted, Untouched, Steps, vars, outerVars, probeVars, tickVars, connVars, endVars
<1>1. CASE ConnectFails
  BY <1>1 DEF ConnectFails
<1>2. CASE Connect
  BY <1>2 DEF Connect
<1>3. CASE Throw
  BY <1>3 DEF Throw
<1>4. CASE StartClock
  BY <1>4 DEF StartClock
<1>5. ASSUME NEW k \in Kinds, InstallProbe(k) PROVE DisposeInv'
  BY <1>5 DEF InstallProbe, Record
<1>6. ASSUME NEW k \in Kinds, StartProbe(k) PROVE DisposeInv'
  BY <1>6 DEF StartProbe, Record
<1>7. ASSUME NEW k \in Kinds, AfterRuntimeReleased(k) PROVE DisposeInv'
  BY <1>7 DEF AfterRuntimeReleased, Record
<1>8. CASE InstallDone
  BY <1>8 DEF InstallDone, Advance
<1>9. CASE StartDone
  BY <1>9 DEF StartDone, Advance
<1>10. CASE ReleaseRuntime
  BY <1>10 DEF ReleaseRuntime, Advance
<1>11. CASE AfterRuntimeReleasedDone
  BY <1>11 DEF AfterRuntimeReleasedDone, Advance
<1>12. CASE BeginWait
  BY <1>12 DEF BeginWait
<1>13. ASSUME NEW reason \in Reasons, StopWaiting(reason) PROVE DisposeInv'
  <2>1. /\ UNCHANGED <<requested, life, todo, cur, stopStep, disposeStep, failed>>
        /\ pc = "wait" /\ pc' = "quiesce" /\ stopReason' = reason
    BY <1>13 DEF StopWaiting
  <2>2. reason # "none"
    BY DEF Reasons
  <2> QED
    BY <2>1, <2>2
<1>14. CASE Quiesced
  BY <1>14 DEF Quiesced, Advance
<1>15. CASE StopDone
  BY <1>15 DEF StopDone, Advance
<1>16. CASE AbortDone
  BY <1>16 DEF AbortDone
<1>17. CASE CollectRuntimeSignals
  BY <1>17 DEF CollectRuntimeSignals, Advance
<1>18. CASE UninstallHooks
  BY <1>18 DEF UninstallHooks, Record
<1>19. ASSUME NEW k \in Kinds, BeginStop(k) PROVE DisposeInv'
  BY <1>19 DEF BeginStop
<1>20. ASSUME NEW k \in Kinds, StopSettles(k) PROVE DisposeInv'
  BY <1>20 DEF StopSettles, Record
<1>21. ASSUME NEW k \in Kinds, AbortProbe(k) PROVE DisposeInv'
  BY <1>21 DEF AbortProbe
<1>22. ASSUME NEW k \in Kinds, DisposeSettles(k) PROVE DisposeInv'
  BY <1>22 DEF DisposeSettles, Record
<1>23. CASE UnwindDrain
  BY <1>23 DEF UnwindDrain, StoppedDrain
<1>24. CASE CloseBegins
  BY <1>24 DEF CloseBegins
<1>25. CASE CloseSettles
  BY <1>25 DEF CloseSettles, Record, AfterClose
<1>26. CASE CloseSkipped
  BY <1>26 DEF CloseSkipped
<1>27. CASE FinalizeBegins
  BY <1>27 DEF FinalizeBegins
<1>28. CASE FinalizeSucceeds
  BY <1>28 DEF FinalizeSucceeds, Outcome
<1>29. CASE FinalizeFails
  BY <1>29 DEF FinalizeFails, Record, Outcome
<1>30. CASE FinalizeSkipped
  BY <1>30 DEF FinalizeSkipped, Outcome
<1>31. CASE SignalReadsSettle
  BY <1>31 DEF SignalReadsSettle
<1>32. CASE TickEnds
  BY <1>32 DEF TickEnds, DrainRunning
<1>33. ASSUME NEW k \in Kinds, DrainBegins(k) PROVE DisposeInv'
  BY <1>33 DEF DrainBegins, DrainRunning
<1>34. ASSUME NEW k \in Kinds, DrainSettles(k) PROVE DisposeInv'
  BY <1>34 DEF DrainSettles, Record
<1>35. CASE TickBegins
  BY <1>35 DEF TickBegins, DrainFailed
<1>36. CASE TargetExits
  BY <1>36 DEF TargetExits
<1>37. CASE ConnectionDrops
  BY <1>37 DEF ConnectionDrops
<1>38. CASE RequestStop
  BY <1>38 DEF RequestStop
<1>39. CASE TargetHangs
  BY <1>39 DEF TargetHangs
<1>40. CASE TargetRecovers
  BY <1>40 DEF TargetRecovers
<1>41. CASE Terminated
  BY <1>41 DEF Terminated
<1>42. CASE UNCHANGED vars
  BY <1>42
<1> QED
  BY <1>1, <1>2, <1>3, <1>4, <1>5, <1>6, <1>7, <1>8, <1>9, <1>10, <1>11,
     <1>12, <1>13, <1>14, <1>15, <1>16, <1>17, <1>18, <1>19, <1>20, <1>21,
     <1>22, <1>23, <1>24, <1>25, <1>26, <1>27, <1>28, <1>29, <1>30, <1>31,
     <1>32, <1>33, <1>34, <1>35, <1>36, <1>37, <1>38, <1>39, <1>40, <1>41,
     <1>42 DEF Next, Coordinator, Setup, Stopping, Session, TickSettles,
     World

------------------------------------------------------------------------------
(* IInv is an invariant of every capture, for any kinds and any interleaving *)
(* of the coordinator, the drain, the target and the user.                   *)
THEOREM InvariantHolds == Spec => []IInv
<1>1. Init => IInv
  <2> SUFFICES ASSUME Init PROVE IInv
    OBVIOUS
  <2> USE KindsAssumption DEF Init
  <2>1. TypeOK
    BY DEF TypeOK, Phases, Modes, Reasons, Steps, Stages
  <2>2. FailureInv
    BY DEF FailureInv
  <2>3. ProbeInv
    BY DEF ProbeInv, ProbeOK, BeforeStop, BeforeWait, BeforeStart, Installed
  <2>4. DrainInv
    BY DEF DrainInv
  <2>5. SessionInv
    BY DEF SessionInv, Ended
  <2>6. DisposeInv
    BY DEF DisposeInv, Untouched, BeforeStart, BeforeWait, BeforeStop, StopPhases, Installed
  <2> QED
    BY <2>1, <2>2, <2>3, <2>4, <2>5, <2>6 DEF IInv
<1>2. IInv /\ [Next]_vars => IInv'
  BY TypeStep, FailureStep, ProbeStep, DrainStep, SessionStep, DisposeStep DEF IInv
<1> QED
  BY <1>1, <1>2, PTL DEF Spec

(* The variables keep the values the code can give them. *)
THEOREM TypeCorrect == Spec => []TypeOK
<1>1. IInv => TypeOK
  BY DEF IInv
<1> QED
  BY <1>1, InvariantHolds, PTL

(* However a connected capture settles, its connection is closed, its source *)
(* finalized exactly once and its timers are gone (coordinator.ts:205-212).  *)
THEOREM SettledCaptureIsReleased == Spec => []SettledMeansReleased
<1>1. IInv => SettledMeansReleased
  <2> SUFFICES ASSUME IInv, connected, pc \in Ended PROVE Released
    BY DEF SettledMeansReleased
  <2>1. cdpClosed /\ closeStep \notin {"idle", "running"}
    BY DEF IInv, SessionInv
  <2>2. finalizeCalls = 1 /\ finalizeStep \in {"ok", "failed"}
    BY DEF IInv, SessionInv
  <2>3. ~keepalive
    BY DEF IInv, SessionInv
  <2>4. timer # "set" /\ ~tick
    BY DEF IInv, DrainInv, Ended
  <2> QED
    BY <2>1, <2>2, <2>3, <2>4 DEF Released
<1> QED
  BY <1>1, InvariantHolds, PTL

(* A bundle without a requested kind carries the diagnostic that says why    *)
(* (probes.ts:51-62, 158-190).                                               *)
THEOREM LostKindIsDiagnosed == Spec => []LostKindHasDiagnostic
<1>1. IInv => LostKindHasDiagnostic
  <2> SUFFICES ASSUME IInv, pc = "returned", NEW k \in requested \ kindsData
               PROVE  \/ <<"probe-install", k>> \in diagnostics
                      \/ <<"probe-stop", k>> \in diagnostics
    BY DEF LostKindHasDiagnostic
  <2>1. k \in Kinds /\ ProbeOK(k) /\ ~failed /\ TypeOK
    BY DEF IInv, TypeOK, ProbeInv, FailureInv
  <2>2. CASE k \in Installed
    <3>1. stopStep[k] \notin {"idle", "running", "ok"}
      BY <2>1, <2>2 DEF ProbeOK, BeforeStop, BeforeWait, BeforeStart
    <3> QED
      BY <2>1, <3>1 DEF ProbeOK, TypeOK, Steps
  <2>3. CASE k \notin Installed
    <3>1. life[k] = "dropped"
      BY <2>1, <2>3 DEF ProbeOK, Installed, TypeOK
    <3> QED
      BY <2>1, <3>1 DEF ProbeOK
  <2> QED
    BY <2>2, <2>3
<1> QED
  BY <1>1, InvariantHolds, PTL

(* No bundle without a started probe unless no kind was requested            *)
(* (coordinator.ts:121-128).                                                 *)
THEOREM FailFast == Spec => []NoProbeNoBundle
<1>1. IInv => NoProbeNoBundle
  BY DEF IInv, NoProbeNoBundle, FailureInv, DisposeInv, BeforeStart
<1> QED
  BY <1>1, InvariantHolds, PTL

(* A probe is never drained and stopped at once unless its drain had timed   *)
(* out on record (coordinator.ts:157-160).                                   *)
THEOREM DrainNeverRacesStop == Spec => []OverlapOnlyAfterTimeout
<1>1. IInv => OverlapOnlyAfterTimeout
  <2> SUFFICES ASSUME IInv, NEW k \in Kinds, stopStep[k] # "idle"
               PROVE  /\ drainStep[k] # "running"
                      /\ drainStep[k] = "late" => <<"probe-drain", k>> \in diagnostics
    BY DEF OverlapOnlyAfterTimeout
  <2>1. pc \notin {"wait", "quiesce"}
    BY DEF IInv, ProbeInv, ProbeOK, BeforeStop
  <2> QED
    BY <2>1 DEF IInv, DrainInv
<1> QED
  BY <1>1, InvariantHolds, PTL

(* When the connection is closed, every installed probe has been disposed,  *)
(* or an exception from outside the probes' own steps came before the stop   *)
(* pass and none has (coordinator.ts:119-170, probes.ts:133-190).            *)
THEOREM ProbesAreDisposedFirst == Spec => []DisposedBeforeClose
<1>1. IInv => DisposedBeforeClose
  <2> SUFFICES ASSUME IInv, closeStep # "idle", ~(failed /\ ~NoneStarted /\ Untouched),
                      NEW k \in Installed \cap Disposable
               PROVE  disposeStep[k] \in {"ok", "failed", "late"}
    BY DEF DisposedBeforeClose
  <2>1. pc \notin BeforeClose
    BY DEF IInv, SessionInv
  <2>2. disposeStep[k] # "idle"
    BY <2>1 DEF IInv, DisposeInv, BeforeClose, BeforeStop
  <2>3. disposeStep[k] # "running"
    BY <2>1, KindsAssumption DEF IInv, ProbeInv, ProbeOK, DisposeInv, Installed, BeforeClose, BeforeStop
  <2> QED
    BY <2>2, <2>3 DEF IInv, TypeOK, Steps, Installed
<1> QED
  BY <1>1, InvariantHolds, PTL

(* A drain begins only during the wait or in the tick the stop awaits, and   *)
(* never again for a probe that failed one (periodic-drain.ts:51-72).        *)
THEOREM DrainsStayInTheWait == Spec => NoDrainAfterStop
<1>1. IInv /\ [Next]_vars => [DrainsInTime]_vars
  <2> SUFFICES ASSUME IInv, Next, NEW j \in Kinds,
                      drainStep'[j] = "running", drainStep[j] # "running"
               PROVE  pc \in {"wait", "quiesce"} /\ drainStep[j] \in {"idle", "ok"}
    BY DEF DrainsInTime
  <2>1. PICK k \in Kinds : DrainBegins(k)
    <3> SUFFICES ASSUME \A k \in Kinds : ~DrainBegins(k)
                 PROVE  drainStep'[j] = drainStep[j] \/ drainStep'[j] # "running"
      OBVIOUS
    <3>1. ASSUME NEW k \in Kinds, DrainSettles(k) PROVE drainStep'[j] = drainStep[j] \/ drainStep'[j] # "running"
      BY <3>1 DEF DrainSettles, IInv, TypeOK
    <3>2. CASE Setup
      BY <3>2 DEF Setup, ConnectFails, Connect, Throw, StartClock,
         InstallProbe, StartProbe, AfterRuntimeReleased, InstallDone,
         StartDone, ReleaseRuntime, AfterRuntimeReleasedDone, BeginWait,
         Advance, tickVars
    <3>3. CASE Stopping
      BY <3>3 DEF Stopping, StopWaiting, Quiesced, StopDone, AbortDone,
         CollectRuntimeSignals, UninstallHooks, BeginStop, StopSettles,
         AbortProbe, DisposeSettles, Advance, tickVars
    <3>4. CASE Session
      BY <3>4 DEF Session, UnwindDrain, CloseBegins, CloseSettles,
         CloseSkipped, FinalizeBegins, FinalizeSucceeds, FinalizeFails,
         FinalizeSkipped, tickVars
    <3>5. CASE World
      BY <3>5 DEF World, TargetExits, ConnectionDrops, RequestStop,
         TargetHangs, TargetRecovers, tickVars
    <3>6. CASE TickBegins
      BY <3>6 DEF TickBegins, tickVars
    <3>7. CASE Terminated
      BY <3>7 DEF Terminated, tickVars, vars
    <3>8. CASE SignalReadsSettle
      BY <3>8 DEF SignalReadsSettle, tickVars
    <3>9. CASE TickEnds
      BY <3>9 DEF TickEnds, tickVars
    <3> QED
      BY <3>1, <3>2, <3>3, <3>4, <3>5, <3>6, <3>7, <3>8, <3>9 DEF Next,
         Coordinator, TickSettles
  <2>2. j = k /\ j \in tickTodo
    BY <2>1 DEF DrainBegins, IInv, TypeOK
  <2> QED
    BY <2>2 DEF IInv, DrainInv
<1> QED
  BY <1>1, InvariantHolds, PTL DEF Spec, NoDrainAfterStop
------------------------------------------------------------------------------
(* The refinement: initial states map to initial states of ManagedCapture, *)
(* and every step maps to a step of it or to a stutter.  GatherInv adds to *)
(* the inductive invariant what the mapping needs: which probes the data   *)
(* and the explanations of a bundle come from.                             *)

(* Data and explanations belong to requested probes, and a probe has one or *)
(* the other; the passes over the probes visit those they may.              *)
GatherOK(k) ==
  /\ life[k] # "none" => k \in requested
  /\ k \in kindsData => stopStep[k] = "ok"
  /\ k \in Explained => life[k] = "dropped" \/ stopStep[k] \in {"failed", "late"}
  /\ stopStep[k] # "idle" => k \in Installed
  /\ k \in todo /\ pc = "install" => k \in requested /\ life[k] = "none"
  /\ k \in todo /\ pc \in {"start", "stop"} => k \in Installed
  /\ k \in todo /\ pc = "stop" => stopStep[k] = "idle"

(* Whoever unwinds without an exception had a stop condition.               *)
ReasonInv == pc \in Unwinding \cup {"returned"} /\ ~failed => stopReason # "none"

GatherInv == ReasonInv /\ \A k \in Kinds : GatherOK(k)

(* Every step keeps the books of each probe.                                *)
LEMMA GatherStep ==
  ASSUME IInv, [Next]_vars, NEW j \in Kinds, GatherOK(j)
  PROVE  GatherOK(j)'
<1>0. TypeOK /\ ProbeOK(j) /\ GatherOK(j)
  BY DEF IInv, ProbeInv
<1> USE KindsAssumption DEF TypeOK, GatherOK, ProbeOK, Explained, Installed, BeforeStop, BeforeWait, BeforeStart, Steps, vars, outerVars, probeVars, tickVars, connVars, endVars
<1>1. CASE Connect
  BY <1>0, <1>1 DEF Connect
<1>2. CASE ConnectFails
  BY <1>0, <1>2 DEF ConnectFails
<1>3. CASE Throw
  BY <1>0, <1>3 DEF Throw
<1>4. CASE StartClock
  BY <1>0, <1>4 DEF StartClock
<1>5. ASSUME NEW k \in Kinds, InstallProbe(k) PROVE GatherOK(j)'
  BY <1>0, <1>5 DEF InstallProbe, Record
<1>6. ASSUME NEW k \in Kinds, StartProbe(k) PROVE GatherOK(j)'
  BY <1>0, <1>6 DEF StartProbe, Record
<1>7. ASSUME NEW k \in Kinds, AfterRuntimeReleased(k) PROVE GatherOK(j)'
  BY <1>0, <1>7 DEF AfterRuntimeReleased, Record
<1>8. CASE InstallDone
  BY <1>0, <1>8 DEF InstallDone, Advance
<1>9. CASE StartDone
  BY <1>0, <1>9 DEF StartDone, Advance
<1>10. CASE ReleaseRuntime
  BY <1>0, <1>10 DEF ReleaseRuntime, Advance
<1>11. CASE AfterRuntimeReleasedDone
  BY <1>0, <1>11 DEF AfterRuntimeReleasedDone, Advance
<1>12. CASE BeginWait
  BY <1>0, <1>12 DEF BeginWait
<1>13. ASSUME NEW reason \in Reasons, StopWaiting(reason) PROVE GatherOK(j)'
  BY <1>0, <1>13 DEF StopWaiting
<1>14. CASE Quiesced
  BY <1>0, <1>14 DEF Quiesced, Advance
<1>15. CASE StopDone
  BY <1>0, <1>15 DEF StopDone, Advance
<1>16. CASE AbortDone
  BY <1>0, <1>16 DEF AbortDone
<1>17. CASE CollectRuntimeSignals
  BY <1>0, <1>17 DEF CollectRuntimeSignals, Advance
<1>18. CASE UninstallHooks
  BY <1>0, <1>18 DEF UninstallHooks, Record
<1>19. ASSUME NEW k \in Kinds, BeginStop(k) PROVE GatherOK(j)'
  BY <1>0, <1>19 DEF BeginStop
<1>20. ASSUME NEW k \in Kinds, StopSettles(k) PROVE GatherOK(j)'
  BY <1>0, <1>20 DEF StopSettles, Record
<1>21. ASSUME NEW k \in Kinds, AbortProbe(k) PROVE GatherOK(j)'
  BY <1>0, <1>21 DEF AbortProbe
<1>22. ASSUME NEW k \in Kinds, DisposeSettles(k) PROVE GatherOK(j)'
  BY <1>0, <1>22 DEF DisposeSettles, Record
<1>23. CASE UnwindDrain
  BY <1>0, <1>23 DEF UnwindDrain
<1>24. CASE CloseBegins
  BY <1>0, <1>24 DEF CloseBegins
<1>25. CASE CloseSettles
  BY <1>0, <1>25 DEF CloseSettles, Record, AfterClose
<1>26. CASE CloseSkipped
  BY <1>0, <1>26 DEF CloseSkipped
<1>27. CASE FinalizeBegins
  BY <1>0, <1>27 DEF FinalizeBegins
<1>28. CASE FinalizeSucceeds
  BY <1>0, <1>28 DEF FinalizeSucceeds, Outcome
<1>29. CASE FinalizeFails
  BY <1>0, <1>29 DEF FinalizeFails, Record, Outcome
<1>30. CASE FinalizeSkipped
  BY <1>0, <1>30 DEF FinalizeSkipped, Outcome
<1>31. CASE SignalReadsSettle
  BY <1>0, <1>31 DEF SignalReadsSettle
<1>32. CASE TickEnds
  BY <1>0, <1>32 DEF TickEnds
<1>33. ASSUME NEW k \in Kinds, DrainBegins(k) PROVE GatherOK(j)'
  BY <1>0, <1>33 DEF DrainBegins
<1>34. ASSUME NEW k \in Kinds, DrainSettles(k) PROVE GatherOK(j)'
  BY <1>0, <1>34 DEF DrainSettles, Record
<1>35. CASE TickBegins
  BY <1>0, <1>35 DEF TickBegins
<1>36. CASE TargetExits
  BY <1>0, <1>36 DEF TargetExits
<1>37. CASE ConnectionDrops
  BY <1>0, <1>37 DEF ConnectionDrops
<1>38. CASE RequestStop
  BY <1>0, <1>38 DEF RequestStop
<1>39. CASE TargetHangs
  BY <1>0, <1>39 DEF TargetHangs
<1>40. CASE TargetRecovers
  BY <1>0, <1>40 DEF TargetRecovers
<1>41. CASE Terminated
  BY <1>0, <1>41 DEF Terminated
<1>42. CASE UNCHANGED vars
  BY <1>0, <1>42
<1> QED
  BY <1>1, <1>2, <1>3, <1>4, <1>5, <1>6, <1>7, <1>8, <1>9, <1>10, <1>11,
     <1>12, <1>13, <1>14, <1>15, <1>16, <1>17, <1>18, <1>19, <1>20, <1>21,
     <1>22, <1>23, <1>24, <1>25, <1>26, <1>27, <1>28, <1>29, <1>30, <1>31,
     <1>32, <1>33, <1>34, <1>35, <1>36, <1>37, <1>38, <1>39, <1>40, <1>41,
     <1>42 DEF Next, Coordinator, Setup, Stopping, Session, TickSettles,
     World

(* Every step keeps the reason of an unwinding capture.                     *)
LEMMA ReasonStep == IInv /\ ReasonInv /\ [Next]_vars => ReasonInv'
<1> SUFFICES ASSUME IInv, ReasonInv, [Next]_vars PROVE ReasonInv'
  OBVIOUS
<1>0. TypeOK /\ FailureInv /\ SessionInv /\ DisposeInv /\ ReasonInv
  BY DEF IInv
<1> USE DEF TypeOK, FailureInv, SessionInv, DisposeInv, ReasonInv, Unwinding, StopPhases, Ended, vars, outerVars, probeVars, tickVars, connVars, endVars
<1>1. CASE Connect
  BY <1>0, <1>1 DEF Connect
<1>2. CASE ConnectFails
  BY <1>0, <1>2 DEF ConnectFails
<1>3. CASE Throw
  BY <1>0, <1>3 DEF Throw
<1>4. CASE StartClock
  BY <1>0, <1>4 DEF StartClock
<1>5. ASSUME NEW k \in Kinds, InstallProbe(k) PROVE ReasonInv'
  BY <1>0, <1>5 DEF InstallProbe, Record
<1>6. ASSUME NEW k \in Kinds, StartProbe(k) PROVE ReasonInv'
  BY <1>0, <1>6 DEF StartProbe, Record
<1>7. ASSUME NEW k \in Kinds, AfterRuntimeReleased(k) PROVE ReasonInv'
  BY <1>0, <1>7 DEF AfterRuntimeReleased, Record
<1>8. CASE InstallDone
  BY <1>0, <1>8 DEF InstallDone, Advance
<1>9. CASE StartDone
  BY <1>0, <1>9 DEF StartDone, Advance
<1>10. CASE ReleaseRuntime
  BY <1>0, <1>10 DEF ReleaseRuntime, Advance
<1>11. CASE AfterRuntimeReleasedDone
  BY <1>0, <1>11 DEF AfterRuntimeReleasedDone, Advance
<1>12. CASE BeginWait
  BY <1>0, <1>12 DEF BeginWait
<1>13. ASSUME NEW reason \in Reasons, StopWaiting(reason) PROVE ReasonInv'
  BY <1>0, <1>13 DEF StopWaiting
<1>14. CASE Quiesced
  BY <1>0, <1>14 DEF Quiesced, Advance
<1>15. CASE StopDone
  BY <1>0, <1>15 DEF StopDone, Advance
<1>16. CASE AbortDone
  BY <1>0, <1>16 DEF AbortDone
<1>17. CASE CollectRuntimeSignals
  BY <1>0, <1>17 DEF CollectRuntimeSignals, Advance
<1>18. CASE UninstallHooks
  BY <1>0, <1>18 DEF UninstallHooks, Record
<1>19. ASSUME NEW k \in Kinds, BeginStop(k) PROVE ReasonInv'
  BY <1>0, <1>19 DEF BeginStop
<1>20. ASSUME NEW k \in Kinds, StopSettles(k) PROVE ReasonInv'
  BY <1>0, <1>20 DEF StopSettles, Record
<1>21. ASSUME NEW k \in Kinds, AbortProbe(k) PROVE ReasonInv'
  BY <1>0, <1>21 DEF AbortProbe
<1>22. ASSUME NEW k \in Kinds, DisposeSettles(k) PROVE ReasonInv'
  BY <1>0, <1>22 DEF DisposeSettles, Record
<1>23. CASE UnwindDrain
  BY <1>0, <1>23 DEF UnwindDrain
<1>24. CASE CloseBegins
  BY <1>0, <1>24 DEF CloseBegins
<1>25. CASE CloseSettles
  BY <1>0, <1>25 DEF CloseSettles, Record, AfterClose
<1>26. CASE CloseSkipped
  BY <1>0, <1>26 DEF CloseSkipped
<1>27. CASE FinalizeBegins
  BY <1>0, <1>27 DEF FinalizeBegins
<1>28. CASE FinalizeSucceeds
  BY <1>0, <1>28 DEF FinalizeSucceeds, Outcome
<1>29. CASE FinalizeFails
  BY <1>0, <1>29 DEF FinalizeFails, Record, Outcome
<1>30. CASE FinalizeSkipped
  BY <1>0, <1>30 DEF FinalizeSkipped, Outcome
<1>31. CASE SignalReadsSettle
  BY <1>0, <1>31 DEF SignalReadsSettle
<1>32. CASE TickEnds
  BY <1>0, <1>32 DEF TickEnds
<1>33. ASSUME NEW k \in Kinds, DrainBegins(k) PROVE ReasonInv'
  BY <1>0, <1>33 DEF DrainBegins
<1>34. ASSUME NEW k \in Kinds, DrainSettles(k) PROVE ReasonInv'
  BY <1>0, <1>34 DEF DrainSettles, Record
<1>35. CASE TickBegins
  BY <1>0, <1>35 DEF TickBegins
<1>36. CASE TargetExits
  BY <1>0, <1>36 DEF TargetExits
<1>37. CASE ConnectionDrops
  BY <1>0, <1>37 DEF ConnectionDrops
<1>38. CASE RequestStop
  BY <1>0, <1>38 DEF RequestStop
<1>39. CASE TargetHangs
  BY <1>0, <1>39 DEF TargetHangs
<1>40. CASE TargetRecovers
  BY <1>0, <1>40 DEF TargetRecovers
<1>41. CASE Terminated
  BY <1>0, <1>41 DEF Terminated
<1>42. CASE UNCHANGED vars
  BY <1>0, <1>42
<1> QED
  BY <1>1, <1>2, <1>3, <1>4, <1>5, <1>6, <1>7, <1>8, <1>9, <1>10, <1>11,
     <1>12, <1>13, <1>14, <1>15, <1>16, <1>17, <1>18, <1>19, <1>20, <1>21,
     <1>22, <1>23, <1>24, <1>25, <1>26, <1>27, <1>28, <1>29, <1>30, <1>31,
     <1>32, <1>33, <1>34, <1>35, <1>36, <1>37, <1>38, <1>39, <1>40, <1>41,
     <1>42 DEF Next, Coordinator, Setup, Stopping, Session, TickSettles,
     World

(* A step of the capture that the promise does not speak of.                *)
Quiet ==
  /\ UNCHANGED <<requested, connected, stopReason, kindsData>>
  /\ Explained' = Explained /\ Settlement' = Settlement
  /\ finalizeStep' \in {"idle", "running"} <=> finalizeStep \in {"idle", "running"}

LEMMA QuietStutters == Quiet => UNCHANGED Managed!vars
<1> SUFFICES ASSUME Quiet PROVE UNCHANGED Managed!vars
  OBVIOUS
<1>1. Source' = Source
  BY DEF Quiet, Source
<1> QED
  BY <1>1 DEF Quiet, Managed!vars

(* A connected capture before its finalize holds the source.                *)
LEMMA SourceHeld ==
  ASSUME IInv, pc \in BeforeClose \ {"connect"}
  PROVE  Source = "held" /\ connected /\ finalizeStep = "idle"
BY DEF Source, IInv, SessionInv, BeforeClose, BeforeStop, BeforeWait, BeforeStart

(* A capture that unwinds without an exception has every requested kind in  *)
(* the bundle or explained, and nothing else.                               *)
LEMMA Complete ==
  ASSUME IInv, GatherInv, pc = "unwindFinalize", ~failed
  PROVE  stopReason # "none" /\ requested = kindsData \cup Explained
<1>1. stopReason # "none"
  BY DEF GatherInv, ReasonInv, Unwinding
<1>2. ASSUME NEW k \in Kinds PROVE k \in requested <=> k \in kindsData \cup Explained
  <2>1. ProbeOK(k) /\ GatherOK(k) /\ TypeOK
    BY DEF IInv, ProbeInv, GatherInv
  <2>2. CASE k \in requested
    <3>1. life[k] # "none"
      BY <2>1, <2>2 DEF ProbeOK
    <3>2. CASE life[k] = "dropped"
      BY <2>1, <2>2, <3>2 DEF ProbeOK, Explained
    <3>3. CASE life[k] # "dropped"
      <4>1. k \in Installed
        BY <2>1, <3>1, <3>3 DEF TypeOK, Installed
      <4>2. stopStep[k] \in {"ok", "failed", "late"}
        BY <2>1, <4>1 DEF ProbeOK, TypeOK, Steps, BeforeStop, BeforeWait, BeforeStart
      <4> QED
        BY <2>1, <2>2, <4>2 DEF ProbeOK, Explained
    <3> QED
      BY <3>2, <3>3
  <2>3. CASE k \in kindsData \cup Explained
    BY <2>1, <2>3 DEF GatherOK, Installed
  <2> QED
    BY <2>2, <2>3
<1> QED
  BY <1>1, <1>2 DEF IInv, TypeOK, Explained

(* Every step of the capture is a step of the promise, or quiet.            *)
LEMMA StepRefines ==
  ASSUME IInv, GatherInv, [Next]_vars
  PROVE  Quiet \/ Managed!Next
<1>0. TypeOK /\ SessionInv /\ DisposeInv
  BY DEF IInv
<1> USE KindsAssumption DEF TypeOK, Quiet, Explained, Settlement, Ended, Stages, vars, outerVars, probeVars, tickVars, connVars, endVars
<1>1. CASE Connect
  <2>1. Source = "none" /\ Source' = "held"
    BY <1>0, <1>1 DEF Connect, SessionInv, BeforeClose, BeforeStop, BeforeWait, BeforeStart, Source
  <2>2. Managed!Acquire
    BY <2>1, <1>1 DEF Connect, Managed!Acquire
  <2> QED
    BY <2>2 DEF Managed!Next
<1>2. CASE ConnectFails
  <2>1. Source = "none" /\ Source' = "none"
    BY <1>0, <1>2 DEF ConnectFails, SessionInv, Source
  <2>2. Managed!Refuse
    BY <2>1, <1>2 DEF ConnectFails, Managed!Refuse
  <2> QED
    BY <2>2 DEF Managed!Next
<1>3. CASE Throw
  BY <1>0, <1>3 DEF Throw, SessionInv
<1>4. CASE StartClock
  BY <1>0, <1>4 DEF StartClock, SessionInv
<1>5. ASSUME NEW k \in Kinds, InstallProbe(k) PROVE Quiet \/ Managed!Next
  <2>1. pc = "install" /\ k \in todo /\ GatherOK(k) /\ ProbeOK(k)
    BY <1>5 DEF InstallProbe, GatherInv, IInv, ProbeInv
  <2>2. k \in requested \ kindsData
    BY <2>1 DEF GatherOK, ProbeOK, BeforeStop, BeforeWait, BeforeStart
  <2>3. Source = "held" /\ Source' = "held"
    BY <2>1, <1>5, SourceHeld DEF InstallProbe, Source, BeforeClose, BeforeStop, BeforeWait, BeforeStart
  <2>4. CASE UNCHANGED diagnostics
    BY <2>4, <1>5 DEF InstallProbe
  <2>5. CASE Record("probe-install", k)
    <3>1. Explained' = Explained \cup {k}
      BY <2>5 DEF Record
    <3>2. Managed!Explain(k)
      BY <2>1, <2>2, <2>3, <3>1, <1>5 DEF InstallProbe, Managed!Explain
    <3> QED
      BY <3>2 DEF Managed!Next
  <2> QED
    BY <2>4, <2>5, <1>5 DEF InstallProbe
<1>6. ASSUME NEW k \in Kinds, StartProbe(k) PROVE Quiet \/ Managed!Next
  BY <1>0, <1>6 DEF StartProbe, Record, SessionInv
<1>7. ASSUME NEW k \in Kinds, AfterRuntimeReleased(k) PROVE Quiet \/ Managed!Next
  BY <1>0, <1>7 DEF AfterRuntimeReleased, Record, SessionInv
<1>8. CASE InstallDone
  BY <1>0, <1>8 DEF InstallDone, Advance, SessionInv
<1>9. CASE StartDone
  BY <1>0, <1>9 DEF StartDone, Advance, SessionInv
<1>10. CASE ReleaseRuntime
  BY <1>0, <1>10 DEF ReleaseRuntime, Advance, SessionInv
<1>11. CASE AfterRuntimeReleasedDone
  BY <1>0, <1>11 DEF AfterRuntimeReleasedDone, Advance, SessionInv
<1>12. CASE BeginWait
  BY <1>0, <1>12 DEF BeginWait, SessionInv
<1>13. ASSUME NEW reason \in Reasons, StopWaiting(reason) PROVE Quiet \/ Managed!Next
  <2>1. Source = "held" /\ Source' = "held"
    BY <1>13, SourceHeld DEF StopWaiting, Source, BeforeClose, BeforeStop, BeforeWait, BeforeStart
  <2>2. Managed!StopFor(reason)
    BY <1>0, <2>1, <1>13 DEF StopWaiting, DisposeInv, Managed!StopFor
  <2> QED
    BY <2>2 DEF Managed!Next
<1>14. CASE Quiesced
  BY <1>0, <1>14 DEF Quiesced, Advance, SessionInv
<1>15. CASE StopDone
  BY <1>0, <1>15 DEF StopDone, Advance, SessionInv
<1>16. CASE AbortDone
  BY <1>0, <1>16 DEF AbortDone, SessionInv
<1>17. CASE CollectRuntimeSignals
  BY <1>0, <1>17 DEF CollectRuntimeSignals, Advance, SessionInv
<1>18. CASE UninstallHooks
  BY <1>0, <1>18 DEF UninstallHooks, Record, SessionInv
<1>19. ASSUME NEW k \in Kinds, BeginStop(k) PROVE Quiet \/ Managed!Next
  BY <1>0, <1>19 DEF BeginStop, SessionInv
<1>20. ASSUME NEW k \in Kinds, StopSettles(k) PROVE Quiet \/ Managed!Next
  <2>1. pc = "stop" /\ GatherOK(k) /\ ProbeOK(k) /\ stopReason # "none"
    BY <1>0, <1>20 DEF StopSettles, GatherInv, IInv, ProbeInv, ProbeOK, DisposeInv, StopPhases
  <2>2. k \in requested /\ k \notin kindsData /\ k \notin Explained
    BY <1>0, <2>1, <1>20 DEF StopSettles, GatherOK, Installed
  <2>3. Source = "held" /\ Source' = "held"
    BY <2>1, <1>20, SourceHeld DEF StopSettles, Source, BeforeClose
  <2>4. CASE UNCHANGED diagnostics /\ kindsData' = kindsData \cup {k}
    <3>1. Managed!Gather(k)
      BY <2>1, <2>2, <2>3, <2>4, <1>20 DEF StopSettles, Managed!Gather
    <3> QED
      BY <3>1 DEF Managed!Next
  <2>5. CASE Record("probe-stop", k) /\ UNCHANGED kindsData
    <3>1. Explained' = Explained \cup {k}
      BY <2>5 DEF Record
    <3>2. Managed!Explain(k)
      BY <2>1, <2>2, <2>3, <2>5, <3>1, <1>20 DEF StopSettles, Managed!Explain
    <3> QED
      BY <3>2 DEF Managed!Next
  <2> QED
    BY <2>4, <2>5, <1>20 DEF StopSettles
<1>21. ASSUME NEW k \in Kinds, AbortProbe(k) PROVE Quiet \/ Managed!Next
  BY <1>0, <1>21 DEF AbortProbe, SessionInv
<1>22. ASSUME NEW k \in Kinds, DisposeSettles(k) PROVE Quiet \/ Managed!Next
  BY <1>0, <1>22 DEF DisposeSettles, Record, SessionInv
<1>23. CASE UnwindDrain
  BY <1>0, <1>23 DEF UnwindDrain, SessionInv
<1>24. CASE CloseBegins
  BY <1>0, <1>24 DEF CloseBegins, SessionInv
<1>25. CASE CloseSettles
  BY <1>0, <1>25 DEF CloseSettles, Record, AfterClose, SessionInv
<1>26. CASE CloseSkipped
  BY <1>0, <1>26 DEF CloseSkipped, SessionInv
<1>27. CASE FinalizeBegins
  BY <1>0, <1>27 DEF FinalizeBegins, SessionInv
<1>28. CASE FinalizeSucceeds
  <2>1. connected /\ pc \in {"finalize", "unwindFinalize"}
    BY <1>0, <1>28 DEF FinalizeSucceeds, SessionInv
  <2>2. Source = "held" /\ Source' = "released"
    BY <2>1, <1>28 DEF FinalizeSucceeds, Source
  <2>3. Outcome \in {"returned", "threw"}
    BY DEF Outcome
  <2>4. CASE pc = "finalize"
    <3>1. Managed!Release
      BY <2>2, <2>4, <1>28 DEF FinalizeSucceeds, Record, Managed!Release
    <3> QED
      BY <3>1 DEF Managed!Next
  <2>5. CASE pc = "unwindFinalize"
    <3>1. Outcome = "returned" => stopReason # "none" /\ requested = kindsData \cup Explained
      BY Complete, <2>5 DEF Outcome
    <3>2. Managed!MaySettle(Outcome)
      BY <3>1 DEF Managed!MaySettle
    <3>3. Managed!Release
      BY <2>2, <2>3, <2>5, <3>2, <1>28 DEF FinalizeSucceeds, Record, Managed!Release
    <3> QED
      BY <3>3 DEF Managed!Next
  <2> QED
    BY <2>1, <2>4, <2>5
<1>29. CASE FinalizeFails
  <2>1. connected /\ pc \in {"finalize", "unwindFinalize"}
    BY <1>0, <1>29 DEF FinalizeFails, SessionInv
  <2>2. Source = "held" /\ Source' = "released"
    BY <2>1, <1>29 DEF FinalizeFails, Source
  <2>3. Outcome \in {"returned", "threw"}
    BY DEF Outcome
  <2>4. CASE pc = "finalize"
    <3>1. Managed!Release
      BY <2>2, <2>4, <1>29 DEF FinalizeFails, Record, Managed!Release
    <3> QED
      BY <3>1 DEF Managed!Next
  <2>5. CASE pc = "unwindFinalize"
    <3>1. Outcome = "returned" => stopReason # "none" /\ requested = kindsData \cup Explained
      BY Complete, <2>5 DEF Outcome
    <3>2. Managed!MaySettle(Outcome)
      BY <3>1 DEF Managed!MaySettle
    <3>3. Managed!Release
      BY <2>2, <2>3, <2>5, <3>2, <1>29 DEF FinalizeFails, Record, Managed!Release
    <3> QED
      BY <3>3 DEF Managed!Next
  <2> QED
    BY <2>1, <2>4, <2>5
<1>30. CASE FinalizeSkipped
  <2>1. connected /\ finalizeStep \in {"ok", "failed"}
    BY <1>0, <1>30 DEF FinalizeSkipped, SessionInv, Steps
  <2>2. Source = "released" /\ Source' = "released"
    BY <2>1, <1>30 DEF FinalizeSkipped, Source
  <2>3. Outcome = "returned" => stopReason # "none" /\ requested = kindsData \cup Explained
    BY Complete, <1>30 DEF FinalizeSkipped, Outcome
  <2>4. Managed!Settle(Outcome)
    BY <2>2, <2>3, <1>30 DEF FinalizeSkipped, Outcome, Managed!Settle, Managed!MaySettle
  <2> QED
    BY <2>4 DEF Managed!Next, Outcome
<1>31. CASE SignalReadsSettle
  BY <1>0, <1>31 DEF SignalReadsSettle, SessionInv
<1>32. CASE TickEnds
  BY <1>0, <1>32 DEF TickEnds, SessionInv
<1>33. ASSUME NEW k \in Kinds, DrainBegins(k) PROVE Quiet \/ Managed!Next
  BY <1>0, <1>33 DEF DrainBegins, SessionInv
<1>34. ASSUME NEW k \in Kinds, DrainSettles(k) PROVE Quiet \/ Managed!Next
  BY <1>0, <1>34 DEF DrainSettles, Record, SessionInv
<1>35. CASE TickBegins
  BY <1>0, <1>35 DEF TickBegins, SessionInv
<1>36. CASE TargetExits
  BY <1>0, <1>36 DEF TargetExits, SessionInv
<1>37. CASE ConnectionDrops
  BY <1>0, <1>37 DEF ConnectionDrops, SessionInv
<1>38. CASE RequestStop
  BY <1>0, <1>38 DEF RequestStop, SessionInv
<1>39. CASE TargetHangs
  BY <1>0, <1>39 DEF TargetHangs, SessionInv
<1>40. CASE TargetRecovers
  BY <1>0, <1>40 DEF TargetRecovers, SessionInv
<1>41. CASE Terminated
  BY <1>0, <1>41 DEF Terminated, SessionInv
<1>42. CASE UNCHANGED vars
  BY <1>0, <1>42
<1> QED
  BY <1>1, <1>2, <1>3, <1>4, <1>5, <1>6, <1>7, <1>8, <1>9, <1>10, <1>11,
     <1>12, <1>13, <1>14, <1>15, <1>16, <1>17, <1>18, <1>19, <1>20, <1>21,
     <1>22, <1>23, <1>24, <1>25, <1>26, <1>27, <1>28, <1>29, <1>30, <1>31,
     <1>32, <1>33, <1>34, <1>35, <1>36, <1>37, <1>38, <1>39, <1>40, <1>41,
     <1>42 DEF Next, Coordinator, Setup, Stopping, Session, TickSettles,
     World

(* The coordinator keeps the promise of a managed capture to its caller     *)
(* (coordinator.ts:97-212, capture/core/session.ts).                        *)
THEOREM CaptureIsManaged == Spec => ImplementsManagedCapture
<1>1. Init => Managed!Init /\ GatherInv
  <2> SUFFICES ASSUME Init PROVE Managed!Init /\ GatherInv
    OBVIOUS
  <2> USE DEF Init
  <2>1. Explained = {} /\ Source = "none" /\ Settlement = "pending"
    BY DEF Explained, Source, Settlement, Ended
  <2>2. GatherInv
    BY <2>1 DEF GatherInv, GatherOK, ReasonInv, Unwinding
  <2> QED
    BY <2>1, <2>2 DEF Managed!Init
<1>2. IInv /\ GatherInv /\ [Next]_vars => GatherInv'
  BY GatherStep, ReasonStep DEF GatherInv
<1>3. IInv /\ GatherInv /\ [Next]_vars => [Managed!Next]_(Managed!vars)
  BY StepRefines, QuietStutters
<1> QED
  BY <1>1, <1>2, <1>3, InvariantHolds, PTL DEF Spec, ImplementsManagedCapture, Managed!Spec
==============================================================================
