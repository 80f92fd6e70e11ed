# Lanterna: a verification project in TLA+

Lanterna profiles a Node.js process. It connects to the process through the
inspector (CDP), installs hooks in it, runs the probes of the requested profile
kinds (cpu, memory, async, plugins), stops, and turns what it collected into a
report. This directory holds TLA+ models of Lanterna: state machines for the
parts whose correctness depends on the order of events, pure operators for the
analysis that turns a capture into findings, the TLC runs that check both on
small instances, and TLAPS proofs of the central properties of the state
machines, and of four parts of the analysis, for every instance. Paths below are
relative to `src/packages/core/src` unless they begin with `cli`, `detectors` or `docs`.

    tlc -config CaptureCoordinator.cfg MCCaptureCoordinator
    tlapm CaptureCoordinatorProofs.tla

## The system

| Component | State | Operations | Interacts with |
|---|---|---|---|
| Capture coordinator (`capture/coordinator.ts`, `capture/core/session.ts`, `capture/coordinator/stop-handling.ts`, `session-cleanup.ts`) | the point where `runCapture` is suspended, integrity diagnostics, the session's `closed` and `finalized` flags, the keepalive interval | `runCapture`, `waitForStop`, `collectRuntimeSignals`, `closeCdp`, `finalize`, `cleanup` | calls the source, the probes, the drain and the CDP client; is stopped by duration, exit, signal |
| Probe orchestrator (`capture/coordinator/probes.ts`) | installed probes, how many started, kinds whose drain failed | `install`, `start`, `afterRuntimeReleased`, `drain`, `stop`, `disposeAll` | one probe per kind, each step raced against a timer |
| Periodic drain (`capture/coordinator/periodic-drain.ts`) | interval, tick in flight, accumulated samples | `tick`, `stop`, `accumulated` | ticks run beside the capture and meet its stop |
| Sources (`capture/spawn`, `capture/attach.ts`, `capture/in-process.ts`) | the child, its exit, the control channel's records | `connect`, `waitForExit`, `releaseRuntime`, `drainLiveSignals`, `finalize` | child process, inspector |
| Hook framework in the target (`runtime-signals/hooks/framework.ts`) | installed installers, reset and dispose hooks, heartbeat and watchdog timers, globals | first injection, re-injection, `startCapture`, `keepalive`, `dispose`, control-channel writes | every profiler of the process; installers |
| Installers (`runtime-signals/hooks/installers`) | capped sample buffers, async records, the await transform | sample, `drain`, `read`, `disable` | the framework, the probes' readers |
| CDP clients (`inspector/client.ts`, `in-process-client.ts`), discovery (`inspector/discovery.ts`) | closed flag, close handlers; the scan and its SIGUSR1 poll | `send`, `evaluate`, `close`; `openInspectorForPid` | target |
| Probes (`kinds/*/probe.ts`) | samples drained so far, snapshots, listeners | the probe lifecycle | CDP, hooks |
| Analysis pipeline (`analysis/core/pipeline.ts`) | the snapshot that contributors, analyzers and finalize hooks extend in turn | `register*`, `run` | kinds, plugins |
| Analysis models (`analysis/model`, `kinds/*/analysis*`) | none that outlives a call | the sections of a report | pipeline |
| Detectors (`packages/detectors`) | none that outlives a call | one `run` each, from a view of the report to findings | pipeline |
| Entry points and commands (`profile/profile.ts`, `cli/src/main.ts`, `cli/src/commands`, `cli/src/run-orchestration.ts`) | stop signals, the workload's shell and its promise, the readiness poll | `runProfile`, `attachProfile`, `profileInProcess`, `executeProfileCommand` | coordinator, the user, the shell |
| Report diff (`cli/src/diff/diff-report.ts`) | none that outlives a call | `diffReports` | two reports |
| Report schema, renderers, source maps, options, configuration | none that outlives a call | pure functions | report, user |

What is hard here is not a data structure but that everything waits for a
process that may be slow, stopped, hung, gone, or profiled by someone else:

- **Await points.** The profiler is one event loop. Between two awaits it is
  alone; across an await the target, the connection, the timers and the user
  move. `runCapture` has some twenty awaits, its drain runs beside them.
- **Timers that abandon without cancelling.** `withTimeout` and
  `withTimeoutResult` stop waiting; the call goes on, in the target too, and its
  answer may come at any later moment.
- **Destructive reads.** A drain empties the target's buffer when the *target*
  executes it, whatever becomes of the answer.
- **State that outlives a capture.** The framework object remains in a profiled
  process and is met by the next capture, or by one that runs at the same time.
- **Profilers that die.** Only the target's watchdog is left.
- **Processes that change under a look.** A pid is read, named, signalled and
  attached to in separate steps; a workload exits between a check and a kill.
- **Figures that must still add up.** Stacks recurse, run windows overlap, heaps
  share and cycle; a sample, a byte or a finding counted twice looks plausible.

For each component, the properties that make it correct:

- coordinator: whatever happens, a settled capture has closed its connection,
  finalized its source once and left no timer; a bundle explains what it lacks;
  a stop condition leads to an end; probes are disposed while they can be.
- drain and buffers: no sample is counted twice, none disappears unreported.
- framework: no installer observes twice; dispose reaches everything; a capture
  reads hooks that run; what a dead profiler left behind ends.
- sources: the child is released, waited for, and never left behind; the records
  of its end are not lost.
- async collector: the record table is bounded, keeps what is incomplete, and
  its counters agree with it.
- discovery: no connection stays open, no process is ended by a signal meant for
  another, the capture is attached to what was asked for, the search ends.
- command: nothing outlives it, the report precedes the verdicts, each error is
  told once, a stop is followed by an end.
- pipeline: a throwing part costs its own contribution only, and is on record.
- models: every figure is a division of the samples, milliseconds or bytes of
  the capture, none of which is counted twice or left out.
- detectors: what is hot is told, once, at a place that can be edited.
- diff: every finding is placed once, and the verdict follows from the findings.

`PROJECT.json` lists every component with what is modelled of it, and under
`hazards` the places where the code could go wrong unnoticed.

## Modules

| Module | Models | Checked by |
|---|---|---|
| `CaptureCoordinator` | coordinator, probe orchestrator, the control flow of the drain, the session | `CaptureCoordinator.cfg`, `CaptureCoordinatorLive.cfg`, `HungTarget.cfg` (through `MCCaptureCoordinator`) |
| `ManagedCapture` | the promise of a capture to its caller, which `CaptureCoordinator` implements | `CaptureCoordinator.cfg` (`ImplementsManagedCapture`) |
| `Custody` | what a capture promises of each item its target produces, which `SignalDrain` and `AsyncCollector` both implement | `SignalDrain.cfg`, `AsyncCollector.cfg` (`KeepsCustody`) |
| `SignalDrain` | one capped buffer in the target, its drains, late answers, final read | `SignalDrain.cfg` |
| `HookFramework` | the framework inside one target over several captures | `HookFramework.cfg` (through `MCHookFramework`) |
| `SpawnSource` | a spawned child, its control channel, the release, the end and the termination | `SpawnSource.cfg` |
| `AsyncCollector` | the record table of the async hooks, its drains and final read, the probe | `AsyncCollector.cfg` |
| `Inspector` | attach: discovery, SIGUSR1, connection, hook installation | `Inspector.cfg` |
| `ProfileCommand` | one invocation: setup, readiness, workload, signals, report, verdicts | `ProfileCommand.cfg`, `SwallowedWorkload.cfg` |
| `Timeline`, `CpuModel`, `AsyncModel`, `MemoryModel` | the analysis of timed signals, CPU profiles, async records and heaps, as operators | `Analysis.cfg`, with the inputs and references of `ModelChecks` |
| `EventAnalysis` | the analysis of one capture's timed signals as a behaviour, and what must be kept of them, for any captures | `Analysis.cfg` (`EventsAreKept`) |
| `ReportAnalysis` | one run of the pipeline, and one comparison of two reports, as behaviours: what a run must have in common with the run without the parts that throw, for any pipeline; what the findings must tell of a CPU profile, for any view of it and any order in which the detectors were registered; and what a diff must keep, for any two reports | `Analysis.cfg` (`FailuresStayLocal`, `HotFramesAreToldOnce`, `DiffsAgree`) |
| `AsyncLatency` | the life of one async operation, its run windows merged and its wait windows, as operators | through `AsyncModel` and `AsyncAnalysis` |
| `AsyncAttribution` | the owners of CPU samples: the sweep over samples and run windows, and the choice among operations that run, as operators | through `AsyncModel` and `AsyncAnalysis` |
| `AsyncAnalysis` | the division of one operation's life, and the owners of samples, as behaviours, and what must hold of them, for any records | `Analysis.cfg` (`AsyncTimeIsKept`) |
| `AnalysisRun` | what a behaviour of the analysis is: it takes one input and carries it out | through its users |
| `AnalysisPipeline`, `CpuDetectors`, `MemoryDetectors`, `AsyncDetectors`, `ReportDiff` | the pipeline, the detectors and the diff, as operators | `Analysis.cfg`, `LongAwait.cfg`, with the inputs and references of `FindingChecks` |
| `JsArrays` | the array idioms the analysis is written in (map, stable sort, slice, Map by key) | through its users |
| `CaptureCoordinatorProofs`, `SignalDrainProofs`, `HookFrameworkProofs`, `SpawnSourceProofs`, `AsyncCollectorProofs`, `InspectorProofs`, `ProfileCommandProofs`, `AnalysisProofs` | theorems of these modules | `tlapm` |

### CaptureCoordinator

`pc` names the await `runCapture` is suspended at; an action is the code from
one await to the next. `life`, `stopStep`, `disposeStep` and `drainStep` hold
what became of each probe and of the promises of its steps: `late` is a step
whose timer won while its promise is pending. `todo` is what the current pass
over the probes has still to visit, in any order (the order of the kinds array
is the caller's). `tick`, `tickTodo` and `signalRead` are the tick in flight;
`closeStep`, `finalizeStep` and `finalizeCalls` the session. The target is
`hung`, `exited` or neither; the connection is up or `cdpClosed`. A call to the
target settles when `Answers` holds (the target runs, or the connection is gone
and the call rejects); an untimed await on a hung target does not settle.

`Throw` is an exception that no inner `try` holds: in the setup, from the factory
of a kind that `install` has yet to visit (`createProbe` is called outside its
`try`, probes.ts:53), from `releaseRuntime`, from a hook of the options, or from
`onProgress`, before the wait or between the wait and the stop pass. The
`finally` block does not reach the probes, so that those installed before it are
left undisposed; `DisposedBeforeClose` says that this is all or nothing: when the
connection is closed either every installed probe has been disposed (or its
dispose timed out), or such an exception ended the capture and no probe was
touched.

Left out: progress messages (but not that sending one may throw), the contents of the signals (see SignalDrain),
durations, and which of several kinds comes first.

`ManagedCapture` says what is promised with nothing of how: a source is taken,
held and let go exactly once; a kind is gathered after the stop and never after
its loss was explained; the capture settles after the release, and returns a
bundle only after a stop condition won and with every requested kind gathered or
explained. The refinement mapping takes `source` from `connected` and
`finalizeStep`, `gathered` from `kindsData`, `explained` from the diagnostics of
installing and stopping, `outcome` from `pc`; every other step is a stutter.

### Custody

The promise about an item (a heartbeat, a pause, an async record), with nothing of
buffers, calls or timers: the target keeps it, an answer carries it, the profiler
holds it, or it is discarded at the target's bound or lost on the way; it moves
forward only, and where it ends it stays. `SignalDrain` maps `kept` to the buffer,
`carried` to the answers in flight, `delivered` to what is accumulated;
`AsyncCollector` maps them to the record table, the replies and what the probe
holds, from `CaptureStart` on. One step of either is one step of `Custody`, also
where it moves several items: an eviction with the arrival that causes it, a
drain of a whole buffer.

### SignalDrain

Samples are numbered in the order the target produces them. The buffer loses
them only at its old end (cap) or all at once (drain), so it is a range of
numbers. An `evaluate` is `queued`, `answered` when the target executes it, and
`settled` at the profiler; the timer only clears `awaiting`. `reader` tells the
two users of the protocol apart: the event-loop and GC readers drop a late
answer and drain again; a probe's own drain still pushes it and is never called
again.

### HookFramework

An instance `<<id, n>>` is the n-th installation of an installer in the process.
`live`, `resetHooks` and `disposeHooks` hold instances, `reader` the instance the
installer's global reads. A profiler is `asked` once its attach script is sent,
`injected` once the script ran, `capturing` after `markCaptureStart`; an
`orphaned` script is one whose profiler gave up (timeout) or died before it ran.
`age` counts clock steps since the last keepalive, at most `StaleAfter`.
`disturbed` records which captures were interfered with by another or by the
watchdog; properties about a single capture are about the others.

Left out: what the installers measure, the control channel and the lifecycle
events (see SpawnSource), and an installer that throws in the preload of a spawned
target. The loader of the await transform is installed only where the preload
has `require`, in a spawned process.

### SpawnSource

`child` is the process: `starting`, `held` by --inspect-brk, `running`, `paused`
at the first statement, `crashing`, `completed` (it sent app-complete, and may
live on), `dead`. `pending` is the batch of lines in the target, `pipe` what was
written and not read; a write arrives whole or throws. `live` is what the source
has accumulated, `reported` what the coordinator took from it at the stop and
completed after finalize. Lines, exit event and disconnection are independent
actions: nothing in the code orders them. `pc` follows `connect`, the steps of the
coordinator that touch the source, and `terminateSpawnedChild`.

Left out: the stdout router, stderr text, GC and memory events (they share the
batch with the heartbeats and are not counted when it is lost), the splitting of
lines into chunks, the probes. An uncaught exception kills the child or is handled
by it, and only the first is recorded: the monitor is registered once. It may also
come after the completion (`late`), in a child that sent it from `beforeExit` and
found new work. The stop and the exit event wait for the completion and not for
what is behind it, so that this crash may still be in the pipe when the bundle is
made; `EndIsReported` says that no other crash is missed. `disposeRuntime` waits for
the child without a timer: it is answered (`DisposeAnswered`), or rejected when
the connection is lost (`DisposeRejected`). `StopEnds` excepts a child that does
neither, which is what `hung_target` shows of the coordinator. When `connectCdp` fails, `connect` removes the
preload file and leaves the child as it is; `NothingLeftRunning` is about the
other ways to end.

### AsyncCollector

An operation is an id; `kind`, `resolved`, `destroyed` and `stack` are Node's
side (ids are not reused, runs nest, a resource is destroyed once), `records`,
`completed`, `openRuns` and the counters the collector's. A record is its
duration, `NoTime` while it is open. The hooks guard as the code does: `after`
returns early without a record or a window, completion ignores what is unknown
or done. At the cap `Victim` is the quickest of the oldest `ScanLimit` completed
records, or the new one is refused. Evaluations interrupt the target between any
two hook calls; `asked` and `replies` are the wire, and the probe adds answers to
`drained` until it stops. The coordinator's timer may end the stop before the
final read is answered (15 s, `StopTimesOut`): the kind then has no section, what
was drained for it is given up, and the answers that still come are lost
(`ReceiveLate`). `evicted`, `refused` and `lost` record where records
went that nobody received.

### Inspector

`exe` and `gone` are the processes, `listens` who answers on a port (or nobody,
or a server that never ends a body), `dual` the ports that answer on both
loopback hosts. `pc` is where the search is suspended. `conn` is the short-lived
connection in use, `late` an attempt that outlived its timer, `stray` an open
connection nobody will close. Between the look at the executable and the signal
a pid may change hands (`reused`). After a match the source connects for good
(`client`) and installs its hooks, or closes.

### ProfileCommand

`pc` is the stage of `executeProfileCommand`; the capture is one stage that ends
(CaptureCoordinator opens it up). `shell`, `result`, `killed` and `term` are the
workload's process, its promise and how far `terminateIfRunning` is. Signals
arrive at any moment: the first triggers the stop, a second takes the handlers
off and ends the process. The shell is the process that is signalled; what a
compound command leaves running when its shell is killed is outside the model.
`thrown` is the stage whose error unwinds, `told` how
many messages the user saw.

### The analysis

`Timeline`, `CpuModel`, `AsyncModel` and `MemoryModel` are the functions of
`analysis/model` and `kinds/*` as operators, at the level of the collections
they build: a frame is a model value with its category, a time a whole number of
milliseconds, a share the pair of numbers it divides. (The code's times are
fractional: it merges two stall windows up to 1 ms apart, and the merged window then
has that gap in it. On whole milliseconds the windows it merges overlap or follow
each other, so that "cover the same time" holds as it stands.) What is recursive in the
code (trees, chains, dominators, retainers) is recursive here.
`EventAnalysis` has the analysis of the timed signals as a specification of its
own (take a capture, carry the analysis out) with the captures, the duration, the
heartbeat resolution and the threshold as constants; what it must keep is stated
there, over operators without recursion other than on positions of a list, so that
it can be proved as well as checked. `filter`, `reduce` and the Maps of the other
parts have the same form (`Filtered`, `SumOf`, `OnePerKey`). Where the code filters or sorts an array the
model says which element stands at which place (`Picked`, `Arranged`).
`AnalysisPipeline` runs contributors, extensions, detectors and finalize hooks
that may throw, the detectors being those of `CpuDetectors`; `MemoryDetectors`
and `AsyncDetectors` are the other two kinds. `ReportDiff` compares two reports.
The loop of a phase is a function on the positions of its list (`Phase`), and an
analyzer meets what the ones before it left. `ReportAnalysis` has one run of the
pipeline as a specification of its own: the pipelines and what the detectors see
of the CPU kind are its constants, and it says what a failure may cost. With the views
and the orders of registration as constants it says which hot frames the findings tell
of (a view has one hotspot for each place, as the analyzer makes it, and every default
detector is registered once), and with the findings and figures of two reports what
their comparison keeps.
`AsyncAnalysis` does the same for async operations, twice: over `AsyncLatency`, the part
of `AsyncModel` that merges run windows and takes their complement, it says that
the operation waits exactly while it lives and does not run. The loop of
`mergeWindows` is a function on positions there (`Joined` is one turn of it), and
the cursor of `buildWaitWindows`, which follows the ends of windows that are in
order, is the end of the window before (`Gaps`). And over `AsyncAttribution` it says
that a CPU sample belongs to the innermost of the operations that run when it is
taken, and to nobody when these are not one trigger chain. The sweep of
`buildCpuAttribution` is a function on the samples there: the cursor into the sorted
windows is the set of those already taken (`taken`), which the sample's time
decides, and the active list is a set (`active`), of which a window is dropped for
good.

`ModelChecks` and `FindingChecks` hold the inputs and what must hold of the
results, with a reference that takes the long way where the code takes a short
one: totals by walking every stack, dominators by removing a node and looking
what is no longer reached, windows by asking each millisecond, ancestor by
ancestor. `Analysis` makes one behaviour of each input of every part.

Left out: text (names, paths, messages, suggestions), rounding of percentages
other than where a threshold meets it, the decoding of the profile and snapshot
formats, source maps.

## Runs

| Run | Question | Result |
|---|---|---|
| `coordinator` | two probes (one drained and stopped without a timer, one neither), all subsets, all modes: is a settled capture released, are losses explained, do drain and stop stay apart, does it implement ManagedCapture? | holds |
| `coordinator_live` | does a won stop condition end the capture when no hang is for ever? | holds |
| `hung_target` | and when the target hangs for good? | violated: `disposeRuntime` (coordinator.ts:181) has no timer |
| `signal_drain` | is every sample in one place, is a hole reported, does the final read repeat nothing, does it implement Custody, does the stop end? | holds |
| `hook_framework` | overlapping, failing and dying captures of one process: one observer per installer, dispose reaches all, an undisturbed capture reads running hooks, the watchdog ends the rest | holds |
| `spawn_source` | is the completion the last word on the samples, is the end in the bundle, is a connected child dead, killed or completed at the end, does the stop end whatever the child does, unless it neither answers dispose nor dies? | holds |
| `async_collector` | is every operation in one place, do the counters agree with the table, does eviction spare what is open or slow, does it implement Custody, over drains that interrupt runs and a stop that times out? | holds |
| `inspector` | does the search end, with no connection left, no process signalled that did not look like Node, attached to the requested one? | holds |
| `profile_command` | does nothing outlive the command, is the evidence kept, does a stop end it? | holds |
| `swallowed_workload` | is a workload that cannot be spawned reported, as the comment at run-orchestration.ts:190 has it? | violated: `settled` is never set, and the terminate branch swallows the rejection |
| `analysis` | 78,150 small inputs: do the figures of a report divide what was captured, are faults isolated, are findings told once and none lost, is a diff consistent? | holds |
| `long_await` | is every await over the threshold reported? | violated: the list ends at the first operation below it, and its order is not by duration alone |

Each violated property quotes a document or a comment of the repository; the
findings in `PROJECT.json` give the quotes.

### Further disagreements

TLC refutes more properties that the repository's documents or comments state.
Their configurations are kept for the day the code changes:

| Configuration | Property, and what it is taken from | What happens |
|---|---|---|
| `AbortedCapture.cfg` | `AbortedMeansDisposed`: disposeAll is for captures that abort (probes.ts:133) | only the fail-fast path calls it |
| `AbandonedHooks.cfg` | `HooksEndWithProfilers` (docs/security-and-privacy.md:40) | a re-injection into a disposed framework arms no watchdog |
| `AwaitGlobal.cfg` | `AwaitStaysCallable` (comment of `disable`) | `dispose` deletes the passthrough |
| `LatePause.cfg` | `ReleasedForGood` (docs/architecture.md:88) | a pause after the 500 ms, or an unseen `Debugger.enable`, holds the target |
| `HandledException.cfg` | `ReportedCrashIsFatal` (docs/report-schema.md:38) | the monitor fires for handled exceptions too |
| `LostCounters.cfg` | `HighestCounterWins` (session.ts:36) | the CDP reading is dropped in spawn mode |
| `UncountedEvictions.cfg` | `DiscardsAreCounted` (docs/signal-quality.md:102) | evicted records are not in `recordsDropped` |
| `SameReport.cfg` | `SameReportAgrees` (docs/diffing-reports.md:38) | findings are matched by id, the last of equal ids winning; sync-crypto gives all its findings one id, so a report compared with itself can be `regressed` |

Seen while modelling, without a run:

- `stop()` also stops a probe whose start threw, which probes.ts:64 says is left
  out; late answers lose every interval they cover, not one (periodic-drain.ts:24);
  probes, and the clock, start before readiness, not after it (docs/architecture.md:88).
- `supportPct` and the shares of callers can exceed 100 % under mutual recursion
  (hotspots.ts:218, 250), and the fallback without samples adds recursive
  subtrees (hotspots.ts:273).
- A kind's factory that throws, or an `onProgress` that throws after the wait,
  closes the connection over installed probes that nobody disposes of
  (probes.ts:53, coordinator.ts:161). A crash after a completion sent from
  `beforeExit` may be missing from the bundle (framework.ts:505, 539).
- An empty profile reports 100 % on the CPU (summary.ts:25).
- The retained growth total adds retained sizes of nodes that contain each other.
- Every caller of `normalizeCdpAsyncStackTrace` leaves the capture time out, so
  that the score for it is never given; a preload frame can be attributed to the
  operation itself; the primary reason may name the CDP context for a safe frame.
- `buildStubMeta` and `buildReportMeta` are outside the isolation of contributors
  (pipeline.ts:325); the candidate to be compared with is taken from a list that
  was cut before (correlations.ts:106); cpu-hotspot reads the cut list of hotspots,
  the specific detectors the full one.

### Bounds

- `coordinator`: two kinds are the least with which a pass over the probes has
  a before and an after, and a timed-out step of one overlaps the next of the
  other. The two differ in every constant (`Drainable`, `UntimedStop`). Every
  counter of the model is bounded by itself: `finalizeCalls` grows only if the
  session's flag fails to hold it back.
- `coordinator_live`, `hung_target`: one kind with every property a kind can
  have (with every one but the untimed stop); two make the temporal check long
  and add no await.
- `signal_drain`: a cap of 2, five samples and four calls let the cap bite twice,
  two drains be late at once and a queued drain run before the final read.
- `spawn_source`: two heartbeats and a batch of two: one is flushed by the timer,
  by a full batch or by a lifecycle record, before or after the other.
- `hook_framework`: three captures, so that a third can meet what an overlap of
  two left behind; three installers: the always-present one, one with `disable`,
  one that throws. One clock step until stale: pings either come in time or not.
- `async_collector`: a table of two for three operations, so that the third meets
  it full; a scan of two is the least that has a choice of victim, and two
  durations the least that make it matter. One operation may have been started
  before the capture; there are two runs, nested or in turn, and a drain before the final read: an
  answer of one can overtake the asking of the other. The proofs have no bound.
- `inspector`: two processes, so that an answer can come from the wrong one; two
  ports and two rounds, so that a port can change its server between rounds and
  a late connection of one round meet the next.
- `profile_command`: two signals are all the code tells apart; two polls, so that
  readiness can come late or not at all.
- `analysis`: trees of a root and three nodes hold a chain, a fork and a
  recursion; two samples per tree hold an order and a repetition; three
  operations hold a chain and two chains; heaps of four nodes a diamond and a
  cycle; three run windows of an operation can be merged in two turns, in any order;
  the runs of three operations, in every trigger relation, nest, overlap, repeat and
  lie apart, with samples at, between and outside their ends.
  Values are taken on both sides of each threshold of the code.

### Fairness

`LoopFairness`: continuations of the profiler run and its timers fire; that is
Node's event loop. `FairSpec` of the coordinator adds that every hang of the
target ends and that a target which returns to its event loop again and again
answers the calls queued there (strong fairness of `UninstallHooks` and of the
settling of a stop); `HangSpec` is without it. `SignalDrain` assumes only the
profiler's timers: the target may never answer. `HookFramework` assumes only
that the timers of the running target fire (`Clock`); profilers owe nothing.
`SpawnSource` assumes that the profiler's continuations and timers of the stop
run (`Stop`) and that the connection of a dead process is closed, as the kernel
sees to (`Disconnect`); the child owes nothing, not even the answer to dispose. `Inspector` assumes the profiler's
continuations and timers (`Search`) and that a connection attempt settles one day,
as the kernel sees to (`LateSettles`); the processes and servers owe nothing.
`ProfileCommand` assumes that the command's continuations and timers run
(`Command`), that the shell's exit is delivered (`ShellEvent`) and that SIGKILL
ends a shell; the shell need not heed SIGTERM. `AsyncCollector` has no liveness.

## Proofs

Each proof module extends its model and proves `Spec => []IInv` from the three
usual facts, then each property as a corollary.

`CaptureCoordinatorProofs` (any finite set of kinds). `TypeOK` and the
properties are not inductive: that a settled capture is released needs to know,
at each await, which resources are held. `IInv` is the conjunction of parts for
the types, for failures (which awaits an exception can come from), the probes
(what `life`, `stopStep` and `disposeStep` imply at each phase), the drain
(a step pending after its stop began is late and on record), the session (the
order of close and finalize against `pc`) and dispose: from a dispose pass on every
probe visited is disposed or late, and wherever an exception can come from no
probe has been touched. There is one lemma per
part, one step per action in it. Proved: `TypeOK`, `SettledMeansReleased`,
`LostKindHasDiagnostic`, `NoProbeNoBundle`, `OverlapOnlyAfterTimeout`,
`DisposedBeforeClose`, and the action property `NoDrainAfterStop`.

Its second part proves that `CaptureCoordinator` implements `ManagedCapture` for
any kinds: the initial states map to the initial state of
the promise, and every step maps to a step of it or a stutter. `IInv` is
strengthened by `GatherInv`: a kind with data stopped in time, one with an
explanation was dropped or failed to stop, none has both, and a run that
unwinds without an exception had a stop condition. The actions that map to a
step (connecting, gathering, explaining, finalizing, settling) have a lemma
each; for the others the mapped variables are shown to stay.

`SignalDrainProofs` (any cap, chunk, number of samples and of calls). Where a
sample is depends on which call carries it, so `IInv` first fixes the progress of
the calls against `sent`, `awaiting` and `phase` (they run and settle in order,
none follows the final read), then the books: `1..base` is divided among answers
in flight, accumulated, cut off and lost samples. `ReadInv` keeps the copy the
final read took apart from what the drains removed, and `QuietInv` says that
without a timeout every call is awaited until it settles, so nothing is lost and
the read took the beginning of the buffer. Proved: `Conservation` (of which a part
is that the final read repeats nothing a drain took), `CapIsExact`,
`LossIsReported`, `TypeOK`, and that the drains implement `Custody`
(`KeepsItsCustody`): each action maps to one step of it or to a stutter.

`HookFrameworkProofs` (any profilers and installers, any stale margin). The
registry part of `IInv` says what the books of the framework mean: instances
are numbered up to `count`, an installed id has its latest instance running
with both hooks registered, a released one has none running. From it follow
`ObservesOnce` and, with the part about captures in progress,
`CaptureHasItsHooks`; `NothingEscapes` is inductive with the types. Proved: all
three and `TypeOK`.

`SpawnSourceProofs` (any number of heartbeats, any batch). The books: a heartbeat
that was emitted waits in the batch, travels in the pipe, was read, was discarded
or was lost in a write that threw, and the drop counter is the size of the last
of these sets. `OrderInv` is about the order of the lines: whatever is behind a
completion is a heartbeat emitted after it, so that when it is read the earlier
ones neither wait nor travel, and its counter is what was lost of them. A fatal
crash is in the pipe, was read, or failed to be written; one that came before the
completion is never behind it in the pipe, so who has read the completion knows of
it, and one that came after is at worst still in the pipe. `ChildInv`
and `EndInv` tie what the source knows to what became of the child. Lemmas about
sequences of lines (concatenation, append, tail) come first, one about a write,
one per action that touches lines. Proved: `TypeOK`, `CompletionIsLast`,
`NothingLeftRunning`, `EndIsReported`.

`AsyncCollectorProofs` (any capacity, scan limit, operations, runs, drains and
durations). `IInv` adds to the types that ids are given in order and records
exist only for ids given (`BornInv`), that the completed list is without
repetition and refers to retained records, that the in-flight counter is the
records less the completed ones, and that the active counter is no less than the
runs it counts. Proved from it: `TypeOK`, `InflightAgrees`, `ActiveNeverUnder`,
`TableIsBounded`, and the action property `EvictionSparesTheSlow`. `Conservation`
says that the sets of ids in the list of places (each answer under way, each
answer held, the table, and the evicted, refused and lost ids) are pairwise
disjoint and cover what was observed. It needs `WireInv`: what the wire, the
probe's phase and its bundle may be together (one read, the last thing asked;
nothing on the wire once the connection is gone; nothing held once the stop timed
out), and is itself inductive only
as `BooksInv`, where the lists are apart one by one and together. The lemmas
before it say what appending, taking the head and concatenating do to such a list
of disjoint sets. From the same invariant: the collector, its wire and its probe
implement `Custody` (`KeepsItsCustody`).

`InspectorProofs` (any pids, ports and rounds). `IInv` says when a connection of
the search is open and whose answer is held (`ProbeInv`), that from the connection
on the chosen target is the requested pid (`AttachInv`), that what was seen of
the process holds until the pid changes hands (`SignalInv`), and that no
connection is stray. Proved: `TypeOK`, `NoConnectionLeft`, `SignalsOnlyNode`,
`RightTarget`.

`ProfileCommandProofs` (any number of signals and polls). `IInv` has parts for the
signal handlers, the errors, the workload's shell against its promise and its
termination, what has returned, the report and the target, each against `pc`.
Proved: `TypeOK`, `NothingLeftBehind`, `EvidenceKept`.

`AnalysisProofs`, first part (any captures, start, duration, resolution and threshold).
`EventsAreKept` is about what a computation returns, so the argument is not an
invariant but a chain of lemmas about its operators. A place counted by
`Arranged` is a bijection with `1..n` that respects the order (`PlaceIs`,
`SortLists`), which is proved by least counterexample over the number of
elements; from it follow what filtering, sorting and removing duplicates leave
(`PickedIs`, `OnceEachIs`). The merge of the stall windows is a recursive
function on the positions of the sorted list; that it exists is proved first
(`MergeExists`), then its invariant by least counterexample over the position
(`MergeKeeps`): the windows so far are in order and apart, cover the same time
as the ones read, each of which lies in exactly one of them, and have the lag of
one of them. Proved: `EventsAreKept` as an invariant of `EventSpec`.

Its second part is about the pipeline (any kinds, extensions and detectors that
registration accepts, any of which may throw). The loop of a phase is shown to
exist and to be what `Phase` returns (`PhaseIs`). `FailuresStayLocal` compares two
runs, so the invariant of the loop relates two states: they `Agree` when they have
the same views, extensions and findings and each view has its section, which is
all that a later part can see (an analyzer asks for section and view, and the
sections alone may differ by what a failed contributor had written). A step keeps
agreement, a part that throws keeps it while the other run stands still
(`StepAgrees`), and so a loop over all parts ends as the loop over the sound ones
does (`SpoiltPartsAreNotMissed`, by least counterexample over the position).
Analyzers run in sorted order, and the two runs sort different lists: by
`OneList` a stable sort leaves one order only, from which sorting the sound parts
is the same as taking the sound parts of the sorted list (`SortSound`). The
diagnostics and sections come from a second invariant of the loop, which counts
them (`PhaseDoes`); that the sort changes neither the number nor the set of the
parts that throw is `SortThrows`, and that the ids of kinds are distinct, without
which a finalize hook could find the section of another kind, is what registration
guarantees (`FaultsAssumption`). Proved: `FailuresStayLocal` as an invariant of
`FaultSpec`.

Its third part is about one async operation (any record, ended or pending, with any
run windows: unsorted, overlapping, repeated, empty, outside the life). The loop of
`mergeWindows` has an invariant (`JoinInv`, by least counterexample over the
position): the windows so far are in order and apart, begin and end where some
window read so far does, hold the same milliseconds, and last if those do. That
they begin and end where others do keeps the merge of the clipped windows inside
the life, and that they last is what makes the gaps between them apart
(`ClippedIs`, `GapsIs`; a millisecond that no run has lies before the first run that
begins later, or after the last one). Proved: `LifeIsDivided` as an invariant of
`LifeSpec`.

Its fourth part is about the owners of CPU samples (any records that name a trigger
before them or none, with any run windows, and any samples in order). The path up
the triggers, the depths and the sweep are recursive functions, so each is shown to
exist first (`ClimbExists`, `DepthsExist`, `SweepExists`). The invariant of the sweep
is `SweptTo`: after a sample it has taken the windows that start up to then, and
still has those of them that are not over; it is kept because the samples are in
order, without which a dropped window could be needed again (`PassedIs`,
`SweepKeeps`). So the operations it finds are the ones that run (`RunningIs`). An
ancestor is less deep than what it triggered (`AncestorsAreHigher`), hence an
operation below all others that run is the deepest, which is the one that
`resolveOverlappingWindow` tries (`ResolveIs`). Proved: `SamplesFindTheirOwner` as an
invariant of `OwnerSpec`; the two together are `AsyncTimeIsKept`, an invariant of
`AsyncSpec`.

Its fifth part is about two reports (any findings, any figures). `DiffFindings` walks
positions: a finding of the current report is compared with the last one of its id in
the baseline, the Map's rule. Each position of the current report is added, changed or
unchanged and nothing else, so the three numbers add up (`EachIsCounted`, for repeated
ids too). If no id is repeated, "the last of its id" is the only one, and comparing is
symmetric (`OneOfAnId`, `ChangesTurn`): an id met by both reports is met once by each
(`MetByOne`, `SameFromBoth`, which is where the bijection between the unchanged findings
of the two directions comes from), a change seen one way is the opposite change the
other way (`TurnsAre`, `TurnsTurn`), and regressed says that something is worse
(`RegressedIs`). Each figure is compared by itself (`DeltasAre`, `ComparedTurn`, `MovesTurn`).
Proved: `DiffsAgree` as an invariant of `DiffSpec`.

Its sixth part is about the findings of a CPU profile (any view, any order of
registration). Each detector but the generic one gives the same findings whatever was
found before it, and none that claims to be generic (`OthersTell`, a lemma for each
detector under it); the generic one has an order of its own, the last, so sorting runs
it last however the detectors were registered (`DetectorsAre`, `TheyRunInTurn`). Along
the loop what has been found is, finding by finding and as often, what the detectors
that ran give (`TheyGather`, by least counterexample over the positions), so two
orders gather the same before the generic one runs, which sees of them only which they
are (`GenericSeesTheSet`). It passes over what is explained and tells of the hottest
three, of those hot by themselves if there are any, so what it leaves out is behind
them (`HottestTells`, `CpuHotspotTells`). `sortFindings` is three stable sorts in the model, the
last by score, and so no finding outranks one before it (`FindingsAreRanked`). Proved:
`HotFramesAreToldOnce` as an invariant of `FindingsSpec`.

Assumed: only the named assumptions on the constants (`KindsAssumption`,
`BufferAssumption`, `InstallerAssumption`, `SpawnAssumption`,
`CollectorAssumption`, `InspectorAssumption`, `BoundsAssumption`,
`CapturesAssumption`, `TimesAssumption`, `FaultsAssumption`, `ViewsAssumption`, `OrdersAssumption`, `ComparisonsAssumption`,
`LivesAssumption`, `TracesAssumption`), which TLC evaluates in the runs. The last says that a trigger has been recorded before what it triggers,
since async ids are given in order, and that the sampler's time deltas are not negative.

Only model-checked: `StopEndsCapture`, `StopEnds` (of two modules),
`AbandonedAreDisposed`, `SearchEnds`, `StopEndsCommand` (liveness is outside the
prover's reach); and of the analysis `FiguresAddUp` and `DetectorsLoseNothing`. Their operators recurse over trees, chains and graphs (RECURSIVE definitions, which the prover cannot use), or fold over lists with an
operator as an argument; what such a definition computes for every input needs an
induction theorem with an operator parameter, which the provers cannot
instantiate. Where the recursion is a function on positions, induction can be
replaced by the least counterexample, as in `AnalysisProofs`.

## Plan

Done, in this order: `CaptureCoordinator`, `SignalDrain`, `HookFramework`,
`SpawnSource`; `AsyncCollector`, `ManagedCapture` and its refinement,
`ProfileCommand`, `Inspector`; the pure modules from `Timeline` to `ReportDiff`;
proofs of every state machine; `Custody` and its two refinements, `Conservation`
of `AsyncCollector`, the timed signals for any capture, the failures of any
pipeline, the life of any async operation, the owners of any CPU samples, the diff of
any two reports, the findings of any CPU profile. Next, most important first:

1. The memory probe's two snapshots against a target that allocates in between.
2. The composition of two invocations of the command on one target, through
   `HookFramework`.

## Not modelled

- Option parsing, configuration, plugin loading: one input, validated from top to
  bottom; `ProfileCommand` has them as a setup step that may throw.
- The process picker: a prompt over a table; its pid is an input of `Inspector`.
- Source maps: file discovery and a lookup in a third-party library.
- The report's schema and types, its renderers and the intake of saved reports:
  wording and layout; only the write is a step that may fail.
- The await transform's rewriting: a text transformation by a third-party parser.
- Decoding of profiles and heap snapshots, rounding, and the splitting of lines into
  chunks on the control channel.
