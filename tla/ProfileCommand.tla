--------------------------- MODULE ProfileCommand ---------------------------
(***************************************************************************)
(* One `lanterna` invocation: bin/lanterna.js and main.ts dispatch a       *)
(* subcommand; run and attach go through executeProfileCommand, which      *)
(* prepares options, plugins and kinds, profiles with the stop signals     *)
(* bound, writes the report and only then settles the workload.  The       *)
(* capture itself is one step that ends (CaptureCoordinator opens it up);  *)
(* what this module adds is everything that runs around it: the user's     *)
(* signals, the readiness poll, the workload's shell and the target.       *)
(***************************************************************************)
EXTENDS Naturals, FiniteSets

CONSTANTS MaxSignals,   \* signals the user or a supervisor sends
          MaxPolls      \* failed readiness polls before the deadline

ASSUME BoundsAssumption == MaxSignals \in Nat /\ MaxPolls \in Nat \ {0}

VARIABLES
  opts,        \* the parsed command line
  pc,          \* where the invocation is
  listening,   \* bindStopSignals' handlers are installed
  stopped,     \* the manual stop has been triggered
  signals,     \* signals delivered so far
  cli,         \* the profiler's own process
  polls,       \* readiness polls that failed
  target,      \* the profiled process, with the exit the bundle reports
  shell,       \* the workload's shell
  result,      \* the workload's result promise
  killed,      \* killedByLanterna
  term,        \* how far terminateIfRunning is
  written,     \* the report is on disk or on stdout
  thrown,      \* the stage whose error the command is unwinding with
  told         \* error messages the user has seen

vars == <<opts, pc, listening, stopped, signals, cli, polls, target, shell,
          result, killed, term, written, thrown, told>>
workload == <<shell, result, killed, term>>
ended    == <<written, thrown, told>>

Subcommands == {"run", "attach", "other", "unknown", "help"}

Setup == <<"config", "plugins", "registry">>

Stages == {"dispatch", "config", "plugins", "registry", "connect", "ready",
           "delay", "wait", "analyze", "write", "finish", "cleanup",
           "target", "done"}

Options == [command : Subcommands, waitForUrl : BOOLEAN, workload : BOOLEAN,
            duration : BOOLEAN, failOnTargetError : BOOLEAN]

(* A run is the only command with orchestration and with a target of its   *)
(* own; the parsers refuse those options elsewhere.                        *)
LegalOptions ==
  {o \in Options : o.command # "run" =>
     ~(o.waitForUrl \/ o.workload \/ o.failOnTargetError)}

Init ==
  /\ opts \in LegalOptions
  /\ pc = "dispatch" /\ cli = "alive" /\ target = "none"
  /\ listening = FALSE /\ stopped = FALSE /\ signals = 0 /\ polls = 0
  /\ shell = "none" /\ result = "none" /\ killed = FALSE /\ term = "idle"
  /\ written = FALSE /\ thrown = "none" /\ told = 0

Alive == cli = "alive"
Goto(stage) == pc' = stage

(* `indicator.fail` prints the message and marks the error as reported, so *)
(* that the entry script prints it no second time.                         *)
Fail(stage) == thrown' = stage /\ told' = told + 1 /\ Goto("done")

(* Errors of commands that have no indicator are printed by the script.    *)
FailAtTop(stage) == thrown' = stage /\ told' = told + 1 /\ Goto("done")

Dispatch ==
  /\ Alive /\ pc = "dispatch"
  /\ \/ /\ opts.command \in {"run", "attach"} /\ Goto("config")
        /\ UNCHANGED <<thrown, told>>
     \/ /\ opts.command \in {"help", "other", "attach"} /\ Goto("done")
        /\ UNCHANGED <<thrown, told>>
     \/ opts.command \in {"other", "run", "attach", "unknown"} /\ FailAtTop("arguments")
  /\ UNCHANGED <<opts, listening, stopped, signals, cli, polls, target, written>>
  /\ UNCHANGED workload

NextSetup(stage) ==
  CASE stage = "config" -> "plugins"
    [] stage = "plugins" -> "registry"
    [] stage = "registry" -> "connect"

(* Config and validation, then the plugins' modules, then the kinds they   *)
(* and the built-ins register; entering the profile binds the signals.     *)
Prepare ==
  /\ Alive /\ pc \in {"config", "plugins", "registry"}
  /\ \/ /\ Goto(NextSetup(pc)) /\ listening' = (pc = "registry")
        /\ UNCHANGED <<thrown, told>>
     \/ Fail("setup") /\ UNCHANGED listening
  /\ UNCHANGED <<opts, stopped, signals, cli, polls, target, written>>
  /\ UNCHANGED workload

(* An error of the profile disposes the handlers; a run's goes through     *)
(* orchestration.cleanup before it is reported.                            *)
ProfileThrows(stage) ==
  /\ listening' = FALSE /\ thrown' = stage
  /\ IF opts.command = "run" THEN Goto("cleanup") /\ UNCHANGED told
                             ELSE Goto("done") /\ told' = told + 1

Connect ==
  /\ Alive /\ pc = "connect"
  /\ \/ /\ target' = "running" /\ Goto("ready")
        /\ UNCHANGED <<listening, thrown, told>>
     \/ ProfileThrows("profile") /\ UNCHANGED target
  /\ UNCHANGED <<opts, stopped, signals, cli, polls, written>>
  /\ UNCHANGED workload

(* waitForUrl polls until a 2xx answer or its deadline; it looks at        *)
(* neither the stop signal nor the target.                                 *)
PollFails ==
  /\ Alive /\ pc = "ready" /\ opts.waitForUrl /\ polls < MaxPolls
  /\ polls' = polls + 1
  /\ UNCHANGED <<opts, pc, listening, stopped, signals, cli, target>>
  /\ UNCHANGED workload /\ UNCHANGED ended

Ready ==
  /\ Alive /\ pc = "ready"
  /\ Goto("delay")
  /\ UNCHANGED <<opts, listening, stopped, signals, cli, polls, target>>
  /\ UNCHANGED workload /\ UNCHANGED ended

ReadinessExpires ==
  /\ Alive /\ pc = "ready" /\ opts.waitForUrl /\ polls > 0
  /\ ProfileThrows("profile")
  /\ UNCHANGED <<opts, stopped, signals, cli, polls, target, written>>
  /\ UNCHANGED workload

(* The capture delay is over: onCaptureStarted starts the workload, whose  *)
(* spawn can fail after the fact.                                          *)
StartWorkload ==
  /\ Alive /\ pc = "delay"
  /\ Goto("wait")
  /\ IF opts.workload THEN shell' \in {"running", "unspawned"} /\ result' = "pending"
                      ELSE UNCHANGED <<shell, result>>
  /\ UNCHANGED <<opts, listening, stopped, signals, cli, polls, target, killed, term>>
  /\ UNCHANGED ended

TargetExits ==
  /\ target = "running" /\ target' \in {"exit0", "exit1", "signalled"}
  /\ UNCHANGED <<opts, pc, listening, stopped, signals, cli, polls>>
  /\ UNCHANGED workload /\ UNCHANGED ended

(* The wait is won by the exit, the duration or the stop signal, and the   *)
(* stop path ends a spawned target.  It may also throw (finalize, close).  *)
CaptureStops ==
  /\ Alive /\ pc = "wait"
  /\ target # "running" \/ opts.duration \/ stopped
  /\ target' = IF opts.command = "run" /\ target = "running" THEN "signalled" ELSE target
  /\ \/ Goto("analyze") /\ UNCHANGED <<listening, thrown, told>>
     \/ ProfileThrows("profile")
  /\ UNCHANGED <<opts, stopped, signals, cli, polls, written>>
  /\ UNCHANGED workload

(* analyzeAndBuild: source maps, the pipeline with the plugins' setup, the *)
(* report; its finally disposes the signal handlers either way.            *)
Analyze ==
  /\ Alive /\ pc = "analyze"
  /\ \/ Goto("write") /\ listening' = FALSE /\ UNCHANGED <<thrown, told>>
     \/ ProfileThrows("profile")
  /\ UNCHANGED <<opts, stopped, signals, cli, polls, target, written>>
  /\ UNCHANGED workload

(* Rendering refuses an invalid report, and the file may not be writable:  *)
(* that error passes the workload by.                                      *)
WriteReport ==
  /\ Alive /\ pc = "write"
  /\ \/ Goto("finish") /\ written' = TRUE /\ UNCHANGED <<thrown, told>>
     \/ Fail("write") /\ UNCHANGED written
  /\ UNCHANGED <<opts, listening, stopped, signals, cli, polls, target>>
  /\ UNCHANGED workload

Settled == result = "exited"

(* The variant that trusts a non-null code only.                           *)
FinishForgiving ==
  /\ Alive /\ pc = "finish" /\ term = "idle"
  /\ result = "none" \/ Settled
  /\ Goto("target")
  /\ UNCHANGED <<opts, listening, stopped, signals, cli, polls, target, written, thrown, told>>
  /\ UNCHANGED workload

(* finishAfterCapture of a workload that has settled: its own failure is   *)
(* the command's, one that Lanterna killed is not.                         *)
FinishSettled ==
  /\ Alive /\ pc = "finish" /\ term = "idle"
  /\ result = "none" \/ Settled
  /\ IF Settled /\ ~killed /\ shell # "exit0"
     THEN Fail("workload") ELSE Goto("target") /\ UNCHANGED <<thrown, told>>
  /\ UNCHANGED <<opts, listening, stopped, signals, cli, polls, target, written>>
  /\ UNCHANGED workload

(* terminateIfRunning, from finishAfterCapture or from cleanup.            *)
Terminate ==
  /\ Alive /\ pc \in {"finish", "cleanup"} /\ term = "idle"
  /\ result = "pending" \/ result = "rejected"
  /\ term' = "sigterm" /\ killed' = TRUE
  /\ UNCHANGED <<opts, pc, listening, stopped, signals, cli, polls, target, shell, result>>
  /\ UNCHANGED ended

(* The variant that never escalates.                                       *)
EscalateSoftly ==
  /\ Alive /\ term = "sigterm"
  /\ term' = "await"
  /\ UNCHANGED <<opts, pc, listening, stopped, signals, cli, polls, target, shell, result, killed>>
  /\ UNCHANGED ended

(* The race of the result with the second's sleep is over.                 *)
Escalate ==
  /\ Alive /\ term = "sigterm"
  /\ term' = IF Settled THEN "await" ELSE "sigkill"
  /\ UNCHANGED <<opts, pc, listening, stopped, signals, cli, polls, target, shell, result, killed>>
  /\ UNCHANGED ended

AfterTermination ==
  IF pc = "cleanup" THEN Goto("done") /\ told' = told + 1
                    ELSE Goto("target") /\ UNCHANGED told

(* The variant that does not wait for the exit after the signals.          *)
TerminatedAtOnce ==
  /\ Alive /\ term \in {"await", "sigkill"}
  /\ term' = "over" /\ AfterTermination
  /\ UNCHANGED <<opts, listening, stopped, signals, cli, polls, target, shell, result, killed,
                 written, thrown>>

Terminated ==
  /\ Alive /\ term \in {"await", "sigkill"} /\ result \in {"exited", "rejected"}
  /\ term' = "over" /\ AfterTermination
  /\ UNCHANGED <<opts, listening, stopped, signals, cli, polls, target, shell, result, killed,
                 written, thrown>>

CleanupIdle ==
  /\ Alive /\ pc = "cleanup" /\ term = "idle"
  /\ result = "none" \/ Settled
  /\ told' = told + 1 /\ Goto("done")
  /\ UNCHANGED <<opts, listening, stopped, signals, cli, polls, target, written, thrown>>
  /\ UNCHANGED workload

AssertTargetExit ==
  /\ Alive /\ pc = "target"
  /\ IF opts.failOnTargetError /\ target = "exit1"
     THEN Fail("target") ELSE Goto("done") /\ UNCHANGED <<thrown, told>>
  /\ UNCHANGED <<opts, listening, stopped, signals, cli, polls, target, written>>
  /\ UNCHANGED workload

(* The workload's shell ends on its own, or because of a signal.           *)
ShellExits ==
  /\ shell = "running"
  /\ shell' \in {"exit0", "exit1"} \union
       (IF term # "idle" THEN {"signalled"} ELSE {})
  /\ UNCHANGED <<opts, pc, listening, stopped, signals, cli, polls, target, result, killed, term>>
  /\ UNCHANGED ended

(* The child's `exit` or `error` event reaches the runner.                 *)
ShellEvent ==
  /\ Alive /\ result = "pending" /\ shell \notin {"none", "running"}
  /\ result' = IF shell = "unspawned" THEN "rejected" ELSE "exited"
  /\ UNCHANGED <<opts, pc, listening, stopped, signals, cli, polls, target, shell, killed, term>>
  /\ UNCHANGED ended

(* SIGINT or SIGTERM for the profiler.  The first one bound triggers the   *)
(* stop, the second takes the handlers off and is delivered again; without *)
(* handlers the default disposition ends the process.  A terminal sends    *)
(* SIGINT to the shell of the workload as well.                            *)
Signal ==
  /\ Alive /\ pc # "done" /\ signals < MaxSignals
  /\ signals' = signals + 1
  /\ IF listening /\ ~stopped
     THEN stopped' = TRUE /\ UNCHANGED <<cli, listening>>
     ELSE cli' = "killed" /\ listening' = FALSE /\ UNCHANGED stopped
  /\ shell' \in {shell} \union (IF shell = "running" THEN {"signalled"} ELSE {})
  /\ UNCHANGED <<opts, pc, polls, target, result, killed, term>>
  /\ UNCHANGED ended

Command == Dispatch \/ Prepare \/ Connect \/ PollFails \/ Ready \/ ReadinessExpires
           \/ StartWorkload \/ CaptureStops \/ Analyze \/ WriteReport
           \/ FinishSettled \/ CleanupIdle \/ Terminate \/ Escalate \/ Terminated
           \/ AssertTargetExit
Environment == TargetExits \/ ShellExits \/ Signal
Next == Command \/ ShellEvent \/ Environment

Spec == Init /\ [][Next]_vars

(* The event loop runs what is due; SIGKILL takes effect.  A poll that     *)
(* neither succeeds nor expires has the deadline against it.               *)
Fairness ==
  /\ WF_vars(Command) /\ WF_vars(ShellEvent)
  /\ WF_vars(term = "sigkill" /\ ShellExits)
FairSpec == Spec /\ Fairness

-----------------------------------------------------------------------------

(* Every variable keeps the values the code can give it.                   *)
TypeOK ==
  /\ opts \in LegalOptions /\ pc \in Stages
  /\ listening \in BOOLEAN /\ stopped \in BOOLEAN /\ killed \in BOOLEAN
  /\ signals \in 0 .. MaxSignals /\ polls \in 0 .. MaxPolls
  /\ cli \in {"alive", "killed"}
  /\ target \in {"none", "running", "exit0", "exit1", "signalled"}
  /\ shell \in {"none", "running", "unspawned", "exit0", "exit1", "signalled"}
  /\ result \in {"none", "pending", "exited", "rejected"}
  /\ term \in {"idle", "sigterm", "sigkill", "await", "over"}
  /\ written \in BOOLEAN
  /\ thrown \in {"none", "arguments", "setup", "profile", "write", "workload", "target"}
  /\ told \in 0 .. 1

(* An invocation that returned has taken its signal handlers off and left  *)
(* no workload running, however the signals, the exit and the timer of     *)
(* terminateIfRunning interleaved.  The one path that does leave it is an  *)
(* error of writeReportOutput, which neither cleanup nor                   *)
(* finishAfterCapture follows.                                             *)
NothingLeftBehind ==
  pc = "done" =>
    /\ ~listening
    /\ thrown # "write" => shell # "running"

(* The report is kept before anything can fail because of the workload or  *)
(* of the target's exit code, and a command that returns normally hides    *)
(* neither a failure of a workload nobody killed nor (on request) a        *)
(* failing target. Every error reaches the user exactly once: by the       *)
(* indicator, or by the script when nothing marked it as reported.         *)
EvidenceKept ==
  /\ thrown \in {"workload", "target"} => written
  /\ pc = "done" /\ thrown = "none" /\ opts.command \in {"run", "attach"} /\ target # "none" =>
       /\ written
       /\ Settled /\ shell # "exit0" => killed
       /\ opts.failOnTargetError => target # "exit1"
  /\ pc = "done" => told = (IF thrown = "none" THEN 0 ELSE 1)

(* The comment on the runner's noop handler says that the workload failure *)
(* is reported instead of an unhandled rejection; a shell that could not   *)
(* be spawned is not.                                                      *)
SpawnFailureIsTold ==
  pc = "done" /\ shell = "unspawned" => thrown # "none"

(* Once a stop was triggered or the target is gone, the command returns or *)
(* is killed: neither the readiness poll nor a workload that ignores       *)
(* SIGTERM can hold it for ever.                                           *)
StopEndsCommand ==
  (stopped \/ target \in {"exit0", "exit1", "signalled"}) ~> (pc = "done" \/ cli = "killed")
=============================================================================
