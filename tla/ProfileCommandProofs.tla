------------------------ MODULE ProfileCommandProofs ------------------------
(***************************************************************************)
(* For any number of signals and readiness polls: an invocation that       *)
(* returned has left nothing behind and has kept its evidence.             *)
(***************************************************************************)
EXTENDS ProfileCommand, TLAPS

Before   == {"dispatch", "config", "plugins", "registry", "connect"}
Profiled == {"connect", "ready", "delay", "wait", "analyze"}
Reported == {"finish", "target"}

(* The type invariant, by what its variables range over. *)
Flags == listening \in BOOLEAN /\ stopped \in BOOLEAN /\ killed \in BOOLEAN /\ written \in BOOLEAN

Counts == signals \in 0 .. MaxSignals /\ polls \in 0 .. MaxPolls /\ told \in 0 .. 1

Places ==
  /\ opts \in LegalOptions /\ pc \in Stages
  /\ cli \in {"alive", "killed"}
  /\ target \in {"none", "running", "exit0", "exit1", "signalled"}
  /\ shell \in {"none", "running", "unspawned", "exit0", "exit1", "signalled"}
  /\ result \in {"none", "pending", "exited", "rejected"}
  /\ term \in {"idle", "sigterm", "sigkill", "await", "over"}
  /\ thrown \in {"none", "arguments", "setup", "profile", "write", "workload", "target"}

(* The signal handlers are bound while the profile runs. *)
SignalInv == listening => pc \in Profiled

(* An error is told when the command returns with it. *)
ErrorInv ==
  /\ thrown # "none" => pc \in {"cleanup", "done"}
  /\ pc = "cleanup" => thrown = "profile"
  /\ told = (IF pc = "done" /\ thrown # "none" THEN 1 ELSE 0)

(* The workload's shell, its result, and how far its termination is. *)
WorkloadInv ==
  /\ opts.workload => opts.command = "run"
  /\ opts.command # "run" => shell = "none"
  /\ shell = "none" <=> result = "none"
  /\ result = "exited" => shell \in {"exit0", "exit1", "signalled"}
  /\ result = "rejected" => shell = "unspawned"
  /\ pc \in Before \union {"ready", "delay"} => result = "none"
  /\ term # "idle" => killed
  /\ term \notin {"idle", "over"} => pc \in {"finish", "cleanup"}
  /\ term = "over" => result \in {"exited", "rejected"}

(* Nothing that returns leaves its workload, but the error of the report.  *)
ReturnInv ==
  pc = "target" \/ (pc = "done" /\ thrown # "write") =>
    /\ result # "pending"
    /\ thrown = "none" /\ Settled /\ shell # "exit0" => killed

(* The report comes before the workload's and the target's verdicts. *)
ReportInv ==
  /\ pc \in Reported => written
  /\ thrown \in {"workload", "target"} => written
  /\ pc = "done" /\ thrown = "none" /\ target # "none" => written

(* The capture has ended the target of a run. *)
TargetInv ==
  /\ opts.failOnTargetError => opts.command = "run"
  /\ pc \in Before => target = "none"
  /\ pc \in {"analyze", "write", "finish", "target"} /\ opts.command = "run" => target # "running"
  /\ pc = "done" /\ thrown = "none" /\ opts.command = "run" /\ target # "none" =>
       /\ target # "running"
       /\ opts.failOnTargetError => target # "exit1"

IInv == /\ TypeOK /\ SignalInv /\ ErrorInv /\ WorkloadInv /\ ReturnInv /\ ReportInv
        /\ TargetInv

------------------------------------------------------------------------------
LEMMA TypeParts == TypeOK <=> Flags /\ Counts /\ Places
  BY DEF TypeOK, Flags, Counts, Places

(* The steps keep the types. *)
LEMMA FlagsStep ==
  ASSUME IInv, [Next]_vars
  PROVE  Flags'
<1> USE DEF IInv, TypeOK, Flags, workload, ended
<1>1. CASE Dispatch
  BY <1>1 DEF Dispatch, FailAtTop, Goto
<1>2. CASE Prepare
  BY <1>2 DEF Prepare, Fail, NextSetup, Goto
<1>3. CASE Connect
  BY <1>3 DEF Connect, ProfileThrows, Goto
<1>4. CASE PollFails
  BY <1>4 DEF PollFails
<1>5. CASE Ready
  BY <1>5 DEF Ready, Goto
<1>6. CASE ReadinessExpires
  BY <1>6 DEF ReadinessExpires, ProfileThrows, Goto
<1>7. CASE StartWorkload
  BY <1>7 DEF StartWorkload, Goto
<1>8. CASE CaptureStops
  BY <1>8 DEF CaptureStops, ProfileThrows, Goto
<1>9. CASE Analyze
  BY <1>9 DEF Analyze, ProfileThrows, Goto
<1>10. CASE WriteReport
  BY <1>10 DEF WriteReport, Fail, Goto
<1>11. CASE FinishSettled
  BY <1>11 DEF FinishSettled, Fail, Goto
<1>12. CASE CleanupIdle
  BY <1>12 DEF CleanupIdle, Goto
<1>13. CASE Terminate
  BY <1>13 DEF Terminate
<1>14. CASE Escalate
  BY <1>14 DEF Escalate
<1>15. CASE Terminated
  BY <1>15 DEF Terminated, AfterTermination, Goto
<1>16. CASE AssertTargetExit
  BY <1>16 DEF AssertTargetExit, Fail, Goto
<1>17. CASE ShellEvent
  BY <1>17 DEF ShellEvent
<1>18. CASE TargetExits
  BY <1>18 DEF TargetExits
<1>19. CASE ShellExits
  BY <1>19 DEF ShellExits
<1>20. CASE Signal
  BY <1>20 DEF Signal
<1>21. CASE UNCHANGED vars
  BY <1>21 DEF vars
<1> QED
  BY <1>1, <1>2, <1>3, <1>4, <1>5, <1>6, <1>7, <1>8, <1>9, <1>10, <1>11,
     <1>12, <1>13, <1>14, <1>15, <1>16, <1>17, <1>18, <1>19, <1>20, <1>21
     DEF Next, Command, Environment

(* An error is told at most once, because telling it is the last step. *)
LEMMA CountsStep ==
  ASSUME IInv, [Next]_vars
  PROVE  Counts'
<1> USE BoundsAssumption DEF IInv, TypeOK, Counts, BoundsAssumption, workload, ended
<1>1. CASE Dispatch
  BY <1>1 DEF Dispatch, FailAtTop, Goto, ErrorInv
<1>2. CASE Prepare
  BY <1>2 DEF Prepare, Fail, NextSetup, Goto, ErrorInv
<1>3. CASE Connect
  BY <1>3 DEF Connect, ProfileThrows, Goto, ErrorInv
<1>4. CASE PollFails
  BY <1>4 DEF PollFails
<1>5. CASE Ready
  BY <1>5 DEF Ready, Goto
<1>6. CASE ReadinessExpires
  BY <1>6 DEF ReadinessExpires, ProfileThrows, Goto, ErrorInv
<1>7. CASE StartWorkload
  BY <1>7 DEF StartWorkload, Goto
<1>8. CASE CaptureStops
  BY <1>8 DEF CaptureStops, ProfileThrows, Goto, ErrorInv
<1>9. CASE Analyze
  BY <1>9 DEF Analyze, ProfileThrows, Goto, ErrorInv
<1>10. CASE WriteReport
  BY <1>10 DEF WriteReport, Fail, Goto, ErrorInv
<1>11. CASE FinishSettled
  BY <1>11 DEF FinishSettled, Fail, Goto, ErrorInv
<1>12. CASE CleanupIdle
  BY <1>12 DEF CleanupIdle, Goto, ErrorInv
<1>13. CASE Terminate
  BY <1>13 DEF Terminate
<1>14. CASE Escalate
  BY <1>14 DEF Escalate
<1>15. CASE Terminated
  BY <1>15 DEF Terminated, AfterTermination, Goto, ErrorInv, WorkloadInv
<1>16. CASE AssertTargetExit
  BY <1>16 DEF AssertTargetExit, Fail, Goto, ErrorInv
<1>17. CASE ShellEvent
  BY <1>17 DEF ShellEvent
<1>18. CASE TargetExits
  BY <1>18 DEF TargetExits
<1>19. CASE ShellExits
  BY <1>19 DEF ShellExits
<1>20. CASE Signal
  BY <1>20 DEF Signal
<1>21. CASE UNCHANGED vars
  BY <1>21 DEF vars
<1> QED
  BY <1>1, <1>2, <1>3, <1>4, <1>5, <1>6, <1>7, <1>8, <1>9, <1>10, <1>11,
     <1>12, <1>13, <1>14, <1>15, <1>16, <1>17, <1>18, <1>19, <1>20, <1>21
     DEF Next, Command, Environment

(* Processes, promises and errors. *)
LEMMA PlacesStep ==
  ASSUME IInv, [Next]_vars
  PROVE  Places'
<1> USE DEF IInv, TypeOK, Places, Stages, workload, ended
<1>1. CASE Dispatch
  BY <1>1 DEF Dispatch, FailAtTop, Goto
<1>2. CASE Prepare
  BY <1>2 DEF Prepare, Fail, NextSetup, Goto
<1>3. CASE Connect
  BY <1>3 DEF Connect, ProfileThrows, Goto
<1>4. CASE PollFails
  BY <1>4 DEF PollFails
<1>5. CASE Ready
  BY <1>5 DEF Ready, Goto
<1>6. CASE ReadinessExpires
  BY <1>6 DEF ReadinessExpires, ProfileThrows, Goto
<1>7. CASE StartWorkload
  BY <1>7 DEF StartWorkload, Goto
<1>8. CASE CaptureStops
  BY <1>8 DEF CaptureStops, ProfileThrows, Goto
<1>9. CASE Analyze
  BY <1>9 DEF Analyze, ProfileThrows, Goto
<1>10. CASE WriteReport
  BY <1>10 DEF WriteReport, Fail, Goto
<1>11. CASE FinishSettled
  BY <1>11 DEF FinishSettled, Fail, Goto
<1>12. CASE CleanupIdle
  BY <1>12 DEF CleanupIdle, Goto
<1>13. CASE Terminate
  BY <1>13 DEF Terminate
<1>14. CASE Escalate
  BY <1>14 DEF Escalate
<1>15. CASE Terminated
  BY <1>15 DEF Terminated, AfterTermination, Goto
<1>16. CASE AssertTargetExit
  BY <1>16 DEF AssertTargetExit, Fail, Goto
<1>17. CASE ShellEvent
  BY <1>17 DEF ShellEvent
<1>18. CASE TargetExits
  BY <1>18 DEF TargetExits
<1>19. CASE ShellExits
  BY <1>19 DEF ShellExits
<1>20. CASE Signal
  BY <1>20 DEF Signal
<1>21. CASE UNCHANGED vars
  BY <1>21 DEF vars
<1> QED
  BY <1>1, <1>2, <1>3, <1>4, <1>5, <1>6, <1>7, <1>8, <1>9, <1>10, <1>11,
     <1>12, <1>13, <1>14, <1>15, <1>16, <1>17, <1>18, <1>19, <1>20, <1>21
     DEF Next, Command, Environment

(* Leaving the profile takes the handlers off. *)
LEMMA SignalStep ==
  ASSUME IInv, [Next]_vars
  PROVE  SignalInv'
<1> USE DEF IInv, SignalInv, Profiled, workload, ended
<1>1. CASE Dispatch
  BY <1>1 DEF Dispatch, FailAtTop, Goto
<1>2. CASE Prepare
  BY <1>2 DEF Prepare, Fail, NextSetup, Goto
<1>3. CASE Connect
  BY <1>3 DEF Connect, ProfileThrows, Goto
<1>4. CASE PollFails
  BY <1>4 DEF PollFails
<1>5. CASE Ready
  BY <1>5 DEF Ready, Goto
<1>6. CASE ReadinessExpires
  BY <1>6 DEF ReadinessExpires, ProfileThrows, Goto
<1>7. CASE StartWorkload
  BY <1>7 DEF StartWorkload, Goto
<1>8. CASE CaptureStops
  BY <1>8 DEF CaptureStops, ProfileThrows, Goto
<1>9. CASE Analyze
  BY <1>9 DEF Analyze, ProfileThrows, Goto
<1>10. CASE WriteReport
  BY <1>10 DEF WriteReport, Fail, Goto
<1>11. CASE FinishSettled
  BY <1>11 DEF FinishSettled, Fail, Goto
<1>12. CASE CleanupIdle
  BY <1>12 DEF CleanupIdle, Goto
<1>13. CASE Terminate
  BY <1>13 DEF Terminate
<1>14. CASE Escalate
  BY <1>14 DEF Escalate
<1>15. CASE Terminated
  BY <1>15 DEF Terminated, AfterTermination, Goto, WorkloadInv, TypeOK
<1>16. CASE AssertTargetExit
  BY <1>16 DEF AssertTargetExit, Fail, Goto
<1>17. CASE ShellEvent
  BY <1>17 DEF ShellEvent
<1>18. CASE TargetExits
  BY <1>18 DEF TargetExits
<1>19. CASE ShellExits
  BY <1>19 DEF ShellExits
<1>20. CASE Signal
  BY <1>20 DEF Signal
<1>21. CASE UNCHANGED vars
  BY <1>21 DEF vars
<1> QED
  BY <1>1, <1>2, <1>3, <1>4, <1>5, <1>6, <1>7, <1>8, <1>9, <1>10, <1>11,
     <1>12, <1>13, <1>14, <1>15, <1>16, <1>17, <1>18, <1>19, <1>20, <1>21
     DEF Next, Command, Environment

(* Every way out with an error tells it, or goes through the cleanup. *)
LEMMA ErrorStep ==
  ASSUME IInv, [Next]_vars
  PROVE  ErrorInv'
<1> USE DEF IInv, ErrorInv, TypeOK, Stages, workload, ended
<1>1. CASE Dispatch
  BY <1>1 DEF Dispatch, FailAtTop, Goto
<1>2. CASE Prepare
  BY <1>2 DEF Prepare, Fail, NextSetup, Goto
<1>3. CASE Connect
  BY <1>3 DEF Connect, ProfileThrows, Goto
<1>4. CASE PollFails
  BY <1>4 DEF PollFails
<1>5. CASE Ready
  BY <1>5 DEF Ready, Goto
<1>6. CASE ReadinessExpires
  BY <1>6 DEF ReadinessExpires, ProfileThrows, Goto
<1>7. CASE StartWorkload
  BY <1>7 DEF StartWorkload, Goto
<1>8. CASE CaptureStops
  BY <1>8 DEF CaptureStops, ProfileThrows, Goto
<1>9. CASE Analyze
  BY <1>9 DEF Analyze, ProfileThrows, Goto
<1>10. CASE WriteReport
  BY <1>10 DEF WriteReport, Fail, Goto
<1>11. CASE FinishSettled
  BY <1>11 DEF FinishSettled, Fail, Goto
<1>12. CASE CleanupIdle
  BY <1>12 DEF CleanupIdle, Goto
<1>13. CASE Terminate
  BY <1>13 DEF Terminate
<1>14. CASE Escalate
  BY <1>14 DEF Escalate
<1>15. CASE Terminated
  BY <1>15 DEF Terminated, AfterTermination, Goto, WorkloadInv
<1>16. CASE AssertTargetExit
  BY <1>16 DEF AssertTargetExit, Fail, Goto
<1>17. CASE ShellEvent
  BY <1>17 DEF ShellEvent
<1>18. CASE TargetExits
  BY <1>18 DEF TargetExits
<1>19. CASE ShellExits
  BY <1>19 DEF ShellExits
<1>20. CASE Signal
  BY <1>20 DEF Signal
<1>21. CASE UNCHANGED vars
  BY <1>21 DEF vars
<1> QED
  BY <1>1, <1>2, <1>3, <1>4, <1>5, <1>6, <1>7, <1>8, <1>9, <1>10, <1>11,
     <1>12, <1>13, <1>14, <1>15, <1>16, <1>17, <1>18, <1>19, <1>20, <1>21
     DEF Next, Command, Environment

(* The result follows the shell, and terminateIfRunning its two callers. *)
LEMMA WorkloadStep ==
  ASSUME IInv, [Next]_vars
  PROVE  WorkloadInv'
<1> USE DEF IInv, WorkloadInv, TypeOK, Before, Settled, workload, ended
<1>1. CASE Dispatch
  BY <1>1 DEF Dispatch, FailAtTop, Goto
<1>2. CASE Prepare
  BY <1>2 DEF Prepare, Fail, NextSetup, Goto
<1>3. CASE Connect
  BY <1>3 DEF Connect, ProfileThrows, Goto
<1>4. CASE PollFails
  BY <1>4 DEF PollFails
<1>5. CASE Ready
  BY <1>5 DEF Ready, Goto
<1>6. CASE ReadinessExpires
  BY <1>6 DEF ReadinessExpires, ProfileThrows, Goto
<1>7. CASE StartWorkload
  BY <1>7 DEF StartWorkload, Goto
<1>8. CASE CaptureStops
  BY <1>8 DEF CaptureStops, ProfileThrows, Goto
<1>9. CASE Analyze
  BY <1>9 DEF Analyze, ProfileThrows, Goto
<1>10. CASE WriteReport
  BY <1>10 DEF WriteReport, Fail, Goto
<1>11. CASE FinishSettled
  BY <1>11 DEF FinishSettled, Fail, Goto
<1>12. CASE CleanupIdle
  BY <1>12 DEF CleanupIdle, Goto
<1>13. CASE Terminate
  BY <1>13 DEF Terminate
<1>14. CASE Escalate
  BY <1>14 DEF Escalate
<1>15. CASE Terminated
  BY <1>15 DEF Terminated, AfterTermination, Goto
<1>16. CASE AssertTargetExit
  BY <1>16 DEF AssertTargetExit, Fail, Goto
<1>17. CASE ShellEvent
  BY <1>17 DEF ShellEvent
<1>18. CASE TargetExits
  BY <1>18 DEF TargetExits
<1>19. CASE ShellExits
  BY <1>19 DEF ShellExits
<1>20. CASE Signal
  BY <1>20 DEF Signal
<1>21. CASE UNCHANGED vars
  BY <1>21 DEF vars
<1> QED
  BY <1>1, <1>2, <1>3, <1>4, <1>5, <1>6, <1>7, <1>8, <1>9, <1>10, <1>11,
     <1>12, <1>13, <1>14, <1>15, <1>16, <1>17, <1>18, <1>19, <1>20, <1>21
     DEF Next, Command, Environment

(* Both ways to the last checks wait for the result. *)
LEMMA ReturnStep ==
  ASSUME IInv, [Next]_vars
  PROVE  ReturnInv'
<1> USE DEF IInv, ReturnInv, WorkloadInv, ErrorInv, TypeOK, Before, Settled, workload, ended
<1>1. CASE Dispatch
  BY <1>1 DEF Dispatch, FailAtTop, Goto
<1>2. CASE Prepare
  BY <1>2 DEF Prepare, Fail, NextSetup, Goto
<1>3. CASE Connect
  BY <1>3 DEF Connect, ProfileThrows, Goto
<1>4. CASE PollFails
  BY <1>4 DEF PollFails
<1>5. CASE Ready
  BY <1>5 DEF Ready, Goto
<1>6. CASE ReadinessExpires
  BY <1>6 DEF ReadinessExpires, ProfileThrows, Goto
<1>7. CASE StartWorkload
  BY <1>7 DEF StartWorkload, Goto
<1>8. CASE CaptureStops
  BY <1>8 DEF CaptureStops, ProfileThrows, Goto
<1>9. CASE Analyze
  BY <1>9 DEF Analyze, ProfileThrows, Goto
<1>10. CASE WriteReport
  BY <1>10 DEF WriteReport, Fail, Goto
<1>11. CASE FinishSettled
  BY <1>11 DEF FinishSettled, Fail, Goto
<1>12. CASE CleanupIdle
  BY <1>12 DEF CleanupIdle, Goto
<1>13. CASE Terminate
  BY <1>13 DEF Terminate
<1>14. CASE Escalate
  BY <1>14 DEF Escalate
<1>15. CASE Terminated
  BY <1>15 DEF Terminated, AfterTermination, Goto
<1>16. CASE AssertTargetExit
  BY <1>16 DEF AssertTargetExit, Fail, Goto
<1>17. CASE ShellEvent
  BY <1>17 DEF ShellEvent
<1>18. CASE TargetExits
  BY <1>18 DEF TargetExits
<1>19. CASE ShellExits
  BY <1>19 DEF ShellExits
<1>20. CASE Signal
  BY <1>20 DEF Signal
<1>21. CASE UNCHANGED vars
  BY <1>21 DEF vars
<1> QED
  BY <1>1, <1>2, <1>3, <1>4, <1>5, <1>6, <1>7, <1>8, <1>9, <1>10, <1>11,
     <1>12, <1>13, <1>14, <1>15, <1>16, <1>17, <1>18, <1>19, <1>20, <1>21
     DEF Next, Command, Environment

(* The report is written before finishAfterCapture and assertTargetExit. *)
LEMMA ReportStep ==
  ASSUME IInv, [Next]_vars
  PROVE  ReportInv'
<1> USE DEF IInv, ReportInv, TargetInv, ErrorInv, TypeOK, Before, Reported, workload, ended
<1>1. CASE Dispatch
  BY <1>1 DEF Dispatch, FailAtTop, Goto
<1>2. CASE Prepare
  BY <1>2 DEF Prepare, Fail, NextSetup, Goto
<1>3. CASE Connect
  BY <1>3 DEF Connect, ProfileThrows, Goto
<1>4. CASE PollFails
  BY <1>4 DEF PollFails
<1>5. CASE Ready
  BY <1>5 DEF Ready, Goto
<1>6. CASE ReadinessExpires
  BY <1>6 DEF ReadinessExpires, ProfileThrows, Goto
<1>7. CASE StartWorkload
  BY <1>7 DEF StartWorkload, Goto
<1>8. CASE CaptureStops
  BY <1>8 DEF CaptureStops, ProfileThrows, Goto
<1>9. CASE Analyze
  BY <1>9 DEF Analyze, ProfileThrows, Goto
<1>10. CASE WriteReport
  BY <1>10 DEF WriteReport, Fail, Goto
<1>11. CASE FinishSettled
  BY <1>11 DEF FinishSettled, Fail, Goto
<1>12. CASE CleanupIdle
  BY <1>12 DEF CleanupIdle, Goto
<1>13. CASE Terminate
  BY <1>13 DEF Terminate
<1>14. CASE Escalate
  BY <1>14 DEF Escalate
<1>15. CASE Terminated
  BY <1>15 DEF Terminated, AfterTermination, Goto, WorkloadInv
<1>16. CASE AssertTargetExit
  BY <1>16 DEF AssertTargetExit, Fail, Goto
<1>17. CASE ShellEvent
  BY <1>17 DEF ShellEvent
<1>18. CASE TargetExits
  BY <1>18 DEF TargetExits
<1>19. CASE ShellExits
  BY <1>19 DEF ShellExits
<1>20. CASE Signal
  BY <1>20 DEF Signal
<1>21. CASE UNCHANGED vars
  BY <1>21 DEF vars
<1> QED
  BY <1>1, <1>2, <1>3, <1>4, <1>5, <1>6, <1>7, <1>8, <1>9, <1>10, <1>11,
     <1>12, <1>13, <1>14, <1>15, <1>16, <1>17, <1>18, <1>19, <1>20, <1>21
     DEF Next, Command, Environment

(* The stop path ends the target of a run. *)
LEMMA TargetStep ==
  ASSUME IInv, [Next]_vars
  PROVE  TargetInv'
<1> USE DEF IInv, TargetInv, ErrorInv, WorkloadInv, TypeOK, Stages, Before, workload, ended
<1>1. CASE Dispatch
  BY <1>1 DEF Dispatch, FailAtTop, Goto
<1>2. CASE Prepare
  BY <1>2 DEF Prepare, Fail, NextSetup, Goto
<1>3. CASE Connect
  BY <1>3 DEF Connect, ProfileThrows, Goto
<1>4. CASE PollFails
  BY <1>4 DEF PollFails
<1>5. CASE Ready
  BY <1>5 DEF Ready, Goto
<1>6. CASE ReadinessExpires
  BY <1>6 DEF ReadinessExpires, ProfileThrows, Goto
<1>7. CASE StartWorkload
  BY <1>7 DEF StartWorkload, Goto
<1>8. CASE CaptureStops
  BY <1>8 DEF CaptureStops, ProfileThrows, Goto
<1>9. CASE Analyze
  BY <1>9 DEF Analyze, ProfileThrows, Goto
<1>10. CASE WriteReport
  BY <1>10 DEF WriteReport, Fail, Goto
<1>11. CASE FinishSettled
  BY <1>11 DEF FinishSettled, Fail, Goto
<1>12. CASE CleanupIdle
  BY <1>12 DEF CleanupIdle, Goto
<1>13. CASE Terminate
  BY <1>13 DEF Terminate
<1>14. CASE Escalate
  BY <1>14 DEF Escalate
<1>15. CASE Terminated
  BY <1>15 DEF Terminated, AfterTermination, Goto
<1>16. CASE AssertTargetExit
  BY <1>16 DEF AssertTargetExit, Fail, Goto
<1>17. CASE ShellEvent
  BY <1>17 DEF ShellEvent
<1>18. CASE TargetExits
  BY <1>18 DEF TargetExits
<1>19. CASE ShellExits
  BY <1>19 DEF ShellExits
<1>20. CASE Signal
  BY <1>20 DEF Signal
<1>21. CASE UNCHANGED vars
  BY <1>21 DEF vars
<1> QED
  BY <1>1, <1>2, <1>3, <1>4, <1>5, <1>6, <1>7, <1>8, <1>9, <1>10, <1>11,
     <1>12, <1>13, <1>14, <1>15, <1>16, <1>17, <1>18, <1>19, <1>20, <1>21
     DEF Next, Command, Environment

LEMMA InitIInv == Init => IInv
<1> SUFFICES ASSUME Init PROVE IInv
  OBVIOUS
<1>1. Flags
  BY DEF Init, Flags
<1>2. Counts
  BY BoundsAssumption DEF BoundsAssumption, Init, Counts
<1>3. Places
  BY DEF Init, Places, Stages
<1>4. opts.failOnTargetError \/ opts.workload => opts.command = "run"
  BY DEF Init, LegalOptions, Options
<1>5. SignalInv /\ ErrorInv /\ ReturnInv /\ ReportInv
  BY DEF Init, SignalInv, ErrorInv, ReturnInv, ReportInv, Reported
<1>6. WorkloadInv /\ TargetInv
  BY <1>4 DEF Init, WorkloadInv, TargetInv
<1> QED
  BY <1>1, <1>2, <1>3, <1>5, <1>6, TypeParts DEF IInv

(* IInv is inductive. *)
THEOREM Inductive == Spec => []IInv
<1>1. IInv /\ [Next]_vars => IInv'
  <2> SUFFICES ASSUME IInv, [Next]_vars PROVE IInv'
    OBVIOUS
  <2>1. TypeOK'
    BY FlagsStep, CountsStep, PlacesStep DEF TypeOK, Flags, Counts, Places
  <2> QED
    BY <2>1, SignalStep, ErrorStep, WorkloadStep, ReturnStep, ReportStep, TargetStep DEF IInv
<1> QED
  BY InitIInv, <1>1, PTL DEF Spec

(* Every variable of the invocation keeps its type. *)
THEOREM TypeCorrect == Spec => []TypeOK
<1>1. IInv => TypeOK
  BY DEF IInv
<1> QED
  BY Inductive, <1>1, PTL

(* An invocation that returned has no handlers bound, and no workload but  *)
(* after an error of the report, for any number of signals.                *)
THEOREM LeavesNothing == Spec => []NothingLeftBehind
<1>1. IInv => NothingLeftBehind
  <2> SUFFICES ASSUME IInv, pc = "done"
               PROVE  ~listening /\ (thrown # "write" => shell # "running")
    BY DEF NothingLeftBehind
  <2>1. ~listening
    BY DEF IInv, SignalInv, Profiled
  <2>2. thrown # "write" => shell # "running"
    BY DEF IInv, ReturnInv, WorkloadInv, TypeOK
  <2> QED
    BY <2>1, <2>2
<1> QED
  BY Inductive, <1>1, PTL

(* The report precedes the failures of the workload and the target, which  *)
(* a normal return does not hide, and each error is told once.             *)
THEOREM KeepsEvidence == Spec => []EvidenceKept
<1>1. IInv => EvidenceKept
  <2> SUFFICES ASSUME IInv PROVE EvidenceKept
    OBVIOUS
  <2>1. thrown \in {"workload", "target"} => written
    BY DEF IInv, ReportInv
  <2>2. ASSUME pc = "done", thrown = "none", opts.command \in {"run", "attach"}, target # "none"
        PROVE  /\ written
               /\ Settled /\ shell # "exit0" => killed
               /\ opts.failOnTargetError => target # "exit1"
    BY <2>2 DEF IInv, ReportInv, ReturnInv, TargetInv
  <2>3. pc = "done" => told = (IF thrown = "none" THEN 0 ELSE 1)
    BY DEF IInv, ErrorInv
  <2> QED
    BY <2>1, <2>2, <2>3 DEF EvidenceKept
<1> QED
  BY Inductive, <1>1, PTL
=============================================================================
