--------------------------- MODULE AnalysisPipeline ---------------------------
(* From a captured bundle to the findings of a report: analysis/core and      *)
(* kinds/core/registry.ts, with the detectors of the CPU kind as the          *)
(* analyzers. A kind is [id, key, captured, fate, finalize, meta]: whether    *)
(* the bundle has data of it, where its contributor throws if it does         *)
(* ("never", "early" or between writing its section and its view: "late"),    *)
(* and whether its finalize hook and its contribution to the meta throw. An   *)
(* analyzer is [id, kinds, order, throws], and one of sections, which writes an *)
(* extension of the report, [id, namespace, order, throws].                   *)
EXTENDS CpuDetectors

-----------------------------------------------------------------------------
(* Registration refuses what would overwrite: the id of a kind or of an      *)
(* analyzer, the section key of a kind, the namespace of an extension.       *)

RegistrationClash(kinds, sections, analyzers) ==
  \/ \E i, j \in DOMAIN sections : i # j /\ sections[i].namespace = sections[j].namespace
  \/ \E i, j \in DOMAIN kinds : i # j /\ (kinds[i].id = kinds[j].id \/ kinds[i].key = kinds[j].key)
  \/ \E i, j \in DOMAIN analyzers : i # j /\ analyzers[i].id = analyzers[j].id

\* the kinds of a list of ids, or none if one is not known
ResolveMany(registry, ids) ==
  IF \E i \in DOMAIN ids : ~\E k \in registry : k.id = ids[i] THEN <<>>
  ELSE Mapped(ids, LAMBDA id : CHOOSE k \in registry : k.id = id)

DefaultAnalyzers ==
  LET Detector(id, order) == [id |-> id, kinds |-> {"cpu"}, order |-> order, throws |-> FALSE]
  IN <<Detector("sync-crypto-on-hot-path", 0), Detector("blocking-io", 0),
       Detector("json-on-hot-path", 20), Detector("excessive-gc", 0),
       Detector("event-loop-stall", 0), Detector("deopt-loop", 0),
       Detector("require-in-hot-path", 30), Detector("node-modules-hotspot", 40),
       Detector("cpu-hotspot", 90)>>

\* The mutant: what was registered first runs first, whatever its order.
InRegistrationOrder(analyzers) == analyzers

\* an analyzer of no order counts as 0; among equals registration decides
SortAnalyzers(analyzers) ==
  Arranged(analyzers, DOMAIN analyzers, [i \in DOMAIN analyzers |-> analyzers[i].order])

Detect(id, cpu, findings) ==
  CASE id = "sync-crypto-on-hot-path" -> SyncCrypto(cpu)
    [] id = "blocking-io"             -> BlockingIo(cpu)
    [] id = "json-on-hot-path"        -> JsonOnHotPath(cpu)
    [] id = "excessive-gc"            -> ExcessiveGc(cpu)
    [] id = "event-loop-stall"        -> EventLoopStall(cpu)
    [] id = "deopt-loop"              -> DeoptLoop(cpu)
    [] id = "require-in-hot-path"     -> RequireInHotPath(cpu)
    [] id = "node-modules-hotspot"    -> NodeModulesHotspot(cpu)
    [] id = "cpu-hotspot"             -> CpuHotspot(cpu, findings)

-----------------------------------------------------------------------------
(* The phases. One that throws leaves a diagnostic and what it had written.  *)

Diagnostic(stage, id) == [stage |-> stage, id |-> id]

Contribute(state, kind) ==
  CASE ~kind.captured -> state
    [] kind.captured /\ kind.fate = "early" ->
         [state EXCEPT !.diagnostics = Append(@, Diagnostic("contributor", kind.id))]
    [] kind.captured /\ kind.fate = "late" ->
         [state EXCEPT !.sections = @ \cup {kind.id},
                       !.diagnostics = Append(@, Diagnostic("contributor", kind.id))]
    [] OTHER -> [state EXCEPT !.sections = @ \cup {kind.id}, !.views = @ \cup {kind.id}]

Extend(state, section) ==
  IF section.throws
  THEN [state EXCEPT !.diagnostics = Append(@, Diagnostic("section-analyzer", section.id))]
  ELSE [state EXCEPT !.extensions = @ \cup {section.namespace}]

\* The mutant: a section is enough for the detectors of a kind to run.
AnalyzeSections(state, cpu, analyzer) ==
  CASE ~(analyzer.kinds \subseteq state.sections) -> state
    [] analyzer.kinds \subseteq state.sections /\ analyzer.throws ->
         [state EXCEPT !.diagnostics = Append(@, Diagnostic("finding-analyzer", analyzer.id))]
    [] OTHER -> [state EXCEPT !.findings = @ \o Detect(analyzer.id, cpu, @)]

\* a detector runs only on kinds that have both a section and a view
Analyze(state, cpu, analyzer) ==
  CASE ~(analyzer.kinds \subseteq state.sections \cap state.views) -> state
    [] analyzer.kinds \subseteq state.sections \cap state.views /\ analyzer.throws ->
         [state EXCEPT !.diagnostics = Append(@, Diagnostic("finding-analyzer", analyzer.id))]
    [] OTHER -> [state EXCEPT !.findings = @ \o Detect(analyzer.id, cpu, @)]

Finalize(state, kind) ==
  IF kind.captured /\ kind.finalize = "throws"
  THEN [state EXCEPT !.diagnostics = Append(@, Diagnostic("finalize", kind.id))]
  ELSE IF kind.captured /\ kind.finalize = "runs" /\ kind.id \in state.sections
  THEN [state EXCEPT !.finalized = @ \cup {kind.id}]
  ELSE state

-----------------------------------------------------------------------------
(* Priority: how far the finding is over its threshold, weighed by how       *)
(* certain it is and by its share of the stalls of the event loop.           *)

SeverityWeight(severity) ==
  CASE severity = "critical" -> 3 [] severity = "warning" -> 2 [] severity = "info" -> 1

CertaintyPct(finding) ==
  CASE finding.attribution = "high" -> 120 [] finding.attribution = "low" -> 85 [] OTHER -> 100
CorrelationPermille(finding) ==
  IF finding.correlation = Nothing THEN 1000 ELSE Larger(250, finding.correlation.overlap)

\* the largest of the ratios, rounded to a whole number of percents
Score(finding) ==
  LET over == {pair \in finding.pairs : pair[1] > 0 /\ pair[2] > 0}
      rounded(n, d) == (2 * n + d) \div (2 * d)
      weight == CertaintyPct(finding) * CorrelationPermille(finding)
  IN IF over = {} THEN rounded(weight, 1000)
     ELSE Max({rounded(pair[1] * weight, pair[2] * 1000) : pair \in over})

SortFindings(findings) ==
  Descending(Descending(Descending(findings, LAMBDA f : f.self),
                        LAMBDA f : SeverityWeight(f.severity)), Score)

\* a contribution to the meta is not guarded: it ends the analysis
MetaThrows(kinds) == \E i \in DOMAIN kinds : kinds[i].captured /\ kinds[i].meta = "throws"

Begun == [sections |-> {}, views |-> {}, extensions |-> {}, findings |-> <<>>, diagnostics |-> <<>>,
          finalized |-> {}]

Step(stage, state, cpu, part) ==
  CASE stage = "contributor"      -> Contribute(state, part)
    [] stage = "section-analyzer" -> Extend(state, part)
    [] stage = "finding-analyzer" -> Analyze(state, cpu, part)
    [] stage = "finalize"         -> Finalize(state, part)

\* the loop of a phase: a part meets what the ones before it left
Phase(stage, begun, cpu, parts) ==
  LET after[n \in 0..Len(parts)] == IF n = 0 THEN begun ELSE Step(stage, after[n - 1], cpu, parts[n])
  IN after[Len(parts)]

Found(kinds, sections, analyzers, cpu) ==
  Phase("finding-analyzer",
        Phase("section-analyzer", Phase("contributor", Begun, cpu, kinds), cpu, SortAnalyzers(sections)),
        cpu, SortAnalyzers(analyzers))

RunAnalysis(kinds, sections, analyzers, cpu) ==
  IF MetaThrows(kinds) THEN [Begun EXCEPT !.diagnostics = <<Diagnostic("thrown", "")>>]
  ELSE Phase("finalize", [Found(kinds, sections, analyzers, cpu) EXCEPT !.findings = SortFindings(@)], cpu, kinds)
=============================================================================
