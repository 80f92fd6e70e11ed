------------------------------- MODULE Analysis -------------------------------
(* The pure part of the program, run over bounded inputs: a behaviour takes   *)
(* one input of one part of the analysis and carries that part out. What the  *)
(* results have to keep of the inputs is in ModelChecks and FindingChecks.    *)
EXTENDS FindingChecks, EventAnalysis, AsyncAnalysis, ReportAnalysis

Init ==
  /\ done = FALSE
  /\ \/ Take("timeline", Captures)
     \/ Take("cpu", CpuInputs)
     \/ Take("async", AsyncInputs)
     \/ Take("life", Lives)
     \/ Take("owners", Traces)
     \/ Take("memory", MemoryInputs)
     \/ Take("findings", Views)
     \/ Take("faults", Faults)
     \/ Take("diff", Comparisons)
     \/ Take("detectors", DetectorInputs)

Next == CarryOut
Spec == Init /\ [][Next]_vars

\* What was sampled is counted once. Self times of the hotspots add up to the samples of a CPU
\* profile, a total counts a sample once however its stack recurses, and stacks, clusters, the
\* summary and the blame for stalls and pauses agree with them; the samples blamed for the
\* stalls of a capture are those in its late heartbeats (hotspots.ts, hot-stacks.ts, summary.ts,
\* correlations.ts). The chains of an async report add up to the samples that were attributed
\* (cpu-attribution.ts, chains.ts). Allocated bytes belong to one frame and count once in every
\* total; retained sizes are what only the node keeps alive, retainer paths are shortest ones,
\* and a memory probe that fails late keeps what it had drained (analysis.ts of the memory
\* kind, heap-snapshot-analysis.ts, probe.ts).
FiguresAddUp ==
  /\ After("cpu") => CpuHolds(input)
  /\ After("timeline") => BlameHolds(EventsOf(Merged(input), input))
  /\ After("async") => AsyncHolds(input)
  /\ After("memory") => MemoryHolds(input)

\* Every heavy blocking call is told, allocations are told once and where they can be edited,
\* no await of 150 ms or more is lost in the ranking, and no async finding is surer than the
\* capture was (blocking-io.ts, large-allocator.ts, alloc-in-hot-path.ts, long-await.ts,
\* async-finding.ts).
DetectorsLoseNothing ==
  /\ After("findings") => CallsAreTold(input)
  /\ After("detectors") => DetectorsHold(input)

\* What the README says of long-await, "await expressions exceeding the wait-time threshold",
\* and the comment "sorted desc" at the place where the detector ends its list.
LongAwaitsAreReported ==
  After("detectors") /\ input.kind = "awaits" => AwaitsOverThresholdAreReported(input.in)

\* docs/diffing-reports.md has `regressed` true when the current report introduces or worsens
\* a finding, which a report cannot do to itself. The diff keeps one finding per id, and the
\* crypto detector gives every finding the same id.
SameReportAgrees ==
  After("diff") =>
    LET report == [findings |-> input.current, figures |-> input.after]
    IN ~RD!DiffReports(report, report).regressed
=============================================================================
