--------------------------- MODULE ReportAnalysis ---------------------------
(* What has to hold of reports, for any inputs. The part "faults" of          *)
(* AnalysisRun: the pipeline over any kinds, extensions and detectors of      *)
(* which any may throw, and what such a run has to have in common with one    *)
(* that lacks the parts that do. The part "findings": the detectors of the    *)
(* CPU kind over any profile, registered in any order. The part "diff": two   *)
(* reports compared.                                                          *)
EXTENDS ReportDiff, AnalysisRun

Pipeline == INSTANCE AnalysisPipeline

CONSTANTS
  Faults,       \* the pipelines asked about: kinds, sections and analyzers as registered
  CpuView       \* what the detectors see of the CPU kind

Kind     == [id : STRING, key : STRING, captured : BOOLEAN, fate : {"never", "early", "late"},
             finalize : {"none", "runs", "throws"}, meta : {"none", "throws"}]
Section  == [id : STRING, namespace : STRING, order : Int, throws : BOOLEAN]
Analyzer == [id : STRING, kinds : SUBSET STRING, order : Int, throws : BOOLEAN]

ASSUME FaultsAssumption ==
  /\ Faults \subseteq [kinds : Seq(Kind), sections : Seq(Section), analyzers : Seq(Analyzer)]
  /\ \A in \in Faults : ~Pipeline!RegistrationClash(in.kinds, in.sections, in.analyzers)

FaultInit == done = FALSE /\ Take("faults", Faults)
FaultSpec == FaultInit /\ [][CarryOut]_vars

Run(in) == Pipeline!RunAnalysis(in.kinds, in.sections, in.analyzers, CpuView)

(* What fails in a run, phase by phase: an analyzer only if it runs.         *)

Captured(kinds)    == {i \in DOMAIN kinds : kinds[i].captured}
Contributed(kinds) == {i \in Captured(kinds) : kinds[i].fate = "never"}
Sound(parts)       == {i \in DOMAIN parts : ~parts[i].throws}

Failed(stage, in) ==
  CASE stage = "contributor"      -> Captured(in.kinds) \ Contributed(in.kinds)
    [] stage = "section-analyzer" -> (DOMAIN in.sections) \ Sound(in.sections)
    [] stage = "finding-analyzer" ->
         {i \in (DOMAIN in.analyzers) \ Sound(in.analyzers) :
            in.analyzers[i].kinds \subseteq {in.kinds[k].id : k \in Contributed(in.kinds)}}
    [] stage = "finalize"         -> {i \in Captured(in.kinds) : in.kinds[i].finalize = "throws"}

Parts(stage, in) ==
  CASE stage \in {"contributor", "finalize"} -> in.kinds
    [] stage = "section-analyzer" -> in.sections
    [] stage = "finding-analyzer" -> in.analyzers

Reported(stage, in) == {Pipeline!Diagnostic(stage, Parts(stage, in)[i].id) : i \in Failed(stage, in)}

(* The run beside the run of the parts that are left when the failing ones   *)
(* are taken away.                                                           *)

Spared(in) == [kinds     |-> Picked(in.kinds, Contributed(in.kinds)),
               sections  |-> Picked(in.sections, Sound(in.sections)),
               analyzers |-> Picked(in.analyzers, Sound(in.analyzers))]

FaultsKept(in, result, spared) ==
  /\ result.findings = spared.findings
  /\ result.views = spared.views /\ result.extensions = spared.extensions
  /\ result.sections = {in.kinds[i].id : i \in {k \in Captured(in.kinds) : in.kinds[k].fate # "early"}}
  /\ result.finalized = {in.kinds[i].id : i \in {k \in Captured(in.kinds) :
                           in.kinds[k].fate # "early" /\ in.kinds[k].finalize = "runs"}}
  /\ Len(result.diagnostics) =
       Cardinality(Failed("contributor", in)) + Cardinality(Failed("section-analyzer", in))
         + Cardinality(Failed("finding-analyzer", in)) + Cardinality(Failed("finalize", in))
  /\ ToSet(result.diagnostics) =
       Reported("contributor", in) \cup Reported("section-analyzer", in)
         \cup Reported("finding-analyzer", in) \cup Reported("finalize", in)

NothingKept(result) ==
  result.findings = <<>> /\ result.sections = {} /\ Len(result.diagnostics) = 1

FaultsHold(in) ==
  \E ran \in {[pipeline \in {in, Spared(in)} |-> Run(pipeline)]} :
    IF Pipeline!MetaThrows(in.kinds) THEN NothingKept(ran[in]) ELSE FaultsKept(in, ran[in], ran[Spared(in)])

\* A contributor, an extension, a detector or a finalize hook that throws costs its own
\* results and leaves one diagnostic: findings, views and extensions are those of the run
\* without the parts that threw, in the same order; a kind whose contributor failed has no
\* findings, and what it had written of its section stays (pipeline.ts). Only a contribution
\* to the meta is not guarded: then nothing is reported at all.
FailuresStayLocal == After("faults") => FaultsHold(input)

-----------------------------------------------------------------------------
CONSTANTS
  Views,        \* what the detectors may see of the CPU kind
  Orders        \* the orders in which they may have been registered

Source  == [file : STRING, line : Int, name : STRING]
Hotspot == [id : Int, file : STRING, line : Int, fn : STRING, source : {Pipeline!Nothing} \cup Source,
            cat : STRING, package : STRING, self : Int, total : Int]
Overlap == [file : STRING, line : Int, fn : STRING, source : {Pipeline!Nothing} \cup Source,
            overlap : Int, sample : Int]
Pauses  == [ratio : Int, onCpu : Int, longest : Int, events : Int, pauses : Int, duration : Int, samples : Int,
            correlated : Seq(Overlap)]
Delays  == [available : BOOLEAN, basis : STRING, confidence : STRING, p99 : Int, max : Int]
Bailout == [fn : STRING, file : STRING, line : Int, count : Int]

\* a hotspot is all there is of its place, so no two have one id
IsView(cpu) ==
  /\ cpu.hotspots \in Seq(Hotspot) /\ cpu.shown \in Nat /\ cpu.stalls \in Seq(Overlap)
  /\ \A i, j \in DOMAIN cpu.hotspots : cpu.hotspots[i].id = cpu.hotspots[j].id => i = j
  /\ cpu.gc \in Pauses /\ cpu.loop \in Delays /\ cpu.deopts \in Seq(Bailout)

IsOrder(order) ==
  /\ order \in Seq(ToSet(Pipeline!DefaultAnalyzers)) /\ ToSet(order) = ToSet(Pipeline!DefaultAnalyzers)
  /\ \A i, j \in DOMAIN order : order[i] = order[j] => i = j

ASSUME ViewsAssumption  == \A cpu \in Views : IsView(cpu)
ASSUME OrdersAssumption == \A order \in Orders : IsOrder(order)

FindingsInit == done = FALSE /\ Take("findings", Views)
FindingsSpec == FindingsInit /\ [][CarryOut]_vars

JustCpu == [id |-> "cpu", key |-> "cpu", captured |-> TRUE, fate |-> "never", finalize |-> "runs", meta |-> "none"]
Findings(cpu, order) == Pipeline!RunAnalysis(<<JustCpu>>, <<>>, order, cpu).findings

Hot(h) == h.cat = "user" /\ (h.self >= 100 \/ h.total >= 250)

\* a frame that a specific finding is about, and one that a generic finding tells of
Generic(found)  == {f \in ToSet(found) : f.category = "cpu-hotspot"}
Named(h, found) == \E f \in ToSet(found) : Pipeline!ExplainedBy(h, f)
Shown(h, found) == \E f \in Generic(found) : f.hotspot = h.id

LeftOut(h, found) ==
  \/ h.self < 100 /\ \E f \in Generic(found) : f.self >= 100
  \/ Cardinality(Generic(found)) = 3 /\ \A f \in Generic(found) : f.self >= h.self

\* score, then severity, then share
Outranks(f, g) ==
  LET score  == Pipeline!Score(f) - Pipeline!Score(g)
      weight == Pipeline!SeverityWeight(f.severity) - Pipeline!SeverityWeight(g.severity)
  IN score > 0 \/ (score = 0 /\ (weight > 0 \/ (weight = 0 /\ f.self > g.self)))

Times(f, found) == Cardinality({i \in DOMAIN found : found[i] = f})

SameFindings(found, other) ==
  \A f \in ToSet(found) \cup ToSet(other) : Times(f, found) = Times(f, other)

ToldOnce(cpu, found) ==
  /\ \A h \in ToSet(Pipeline!Reported(cpu)) : Hot(h) =>
       IF Named(h, found) THEN ~Shown(h, found) ELSE Shown(h, found) \/ LeftOut(h, found)
  /\ \A i, j \in DOMAIN found : i < j => ~Outranks(found[j], found[i])

HotFramesHold(cpu) ==
  \E found \in {[order \in Orders |-> Findings(cpu, order)]} :
    \A order \in Orders :
      ToldOnce(cpu, found[order]) /\ \A other \in Orders : SameFindings(found[order], found[other])

\* A hot user frame is either named by a specific finding or reported as it is, never both,
\* and the findings are the same whatever order the detectors were registered in: the generic
\* detector runs last and sees every finding of the others (cpu-hotspot.ts,
\* explained-hotspot.ts, pipeline.ts). A frame is left out only behind three generic findings
\* that are no less hot, or behind frames hot by themselves. Findings are sorted by score,
\* then severity, then share (sortFindings).
HotFramesAreToldOnce == After("findings") => HotFramesHold(input)

-----------------------------------------------------------------------------
CONSTANT Comparisons          \* what may be asked: the findings and figures of two reports

Finding == [id : STRING, severity : {"info", "warning", "critical"}, confidence : STRING, score : Int]
Figures ==
  LET cpu    == [idle : Int, gc : Int, culprit : Int]
      memory == [rss : Int, heapUsed : Int]
  IN [{} -> {}] \cup [cpu : cpu] \cup [memory : memory] \cup [cpu : cpu, memory : memory]

IsComparison(in) ==
  /\ in.baseline \in Seq(Finding) /\ in.current \in Seq(Finding)
  /\ in.before \in Figures /\ in.after \in Figures

ASSUME ComparisonsAssumption == \A in \in Comparisons : IsComparison(in)

DiffInit == done = FALSE /\ Take("diff", Comparisons)
DiffSpec == DiffInit /\ [][CarryOut]_vars

Opposite == [worse |-> "better", better |-> "worse", same |-> "same"]

Distinct(fs) == \A i, j \in DOMAIN fs : fs[i].id = fs[j].id => i = j
Turns(diff)  == {<<c.id, c.direction>> : c \in ToSet(diff.changed)}
Moves(diff)  == {<<x.name, x.direction>> : x \in ToSet(diff.scalars)}

\* a finding that the baseline does not have as severe
Worse(f, baseline) == \A g \in ToSet(baseline) : g.id = f.id => SeverityRank[f.severity] > SeverityRank[g.severity]
New(f, baseline)   == \A g \in ToSet(baseline) : g.id # f.id

DiffKept(in, diff, back, same) ==
  /\ Len(diff.findings.added) + Len(diff.findings.changed) + diff.findings.unchanged = Len(in.current)
  /\ Moves(back) = {<<x[1], Opposite[x[2]]>> : x \in Moves(diff)}
  /\ \A x \in ToSet(same.scalars) : x.direction = "same"
  /\ Distinct(in.baseline) /\ Distinct(in.current) =>
       /\ back.findings.added = diff.findings.removed /\ back.findings.unchanged = diff.findings.unchanged
       /\ Turns(back.findings) = {<<t[1], Opposite[t[2]]>> : t \in Turns(diff.findings)}
       /\ diff.regressed = (\E f \in ToSet(in.current) : Worse(f, in.baseline) /\ ~(New(f, in.baseline) /\ f.severity = "info"))
       /\ same.findings.unchanged = Len(in.current) /\ ~same.regressed

DiffHolds(in) ==
  LET old == [findings |-> in.baseline, figures |-> in.before]
      new == [findings |-> in.current, figures |-> in.after]
  IN DiffKept(in, DiffReports(old, new), DiffReports(new, old), DiffReports(new, new))

\* The diff of two reports whose ids are distinct places every finding of either once, has
\* regressed exactly if some finding above info is new or some finding is more severe, agrees
\* with the diff taken the other way round, and finds nothing between a report and itself.
\* Whatever the ids, every finding of the current report is counted once (diff-report.ts).
DiffsAgree == After("diff") => DiffHolds(input)
=============================================================================
