------------------------------ MODULE ReportDiff ------------------------------
(* `lanterna diff`: two reports compared finding by finding, matched by id,   *)
(* and by a few figures of the kinds both have. A finding is [id, severity,   *)
(* confidence, score], with the score rounded to a whole number; a report is  *)
(* [findings, figures], where figures has a record of the compared figures    *)
(* for each kind that was profiled. Unknown stands for undefined.             *)
EXTENDS JsArrays

Unknown == -1
SeverityRank == [info |-> 0, warning |-> 1, critical |-> 2]

\* the figures in the order they are compared, and whether a rise is a regression
CpuFigures    == <<[name |-> "idle", worseWhenHigher |-> FALSE],
                   [name |-> "gc", worseWhenHigher |-> TRUE],
                   [name |-> "culprit", worseWhenHigher |-> TRUE]>>
MemoryFigures == <<[name |-> "rss", worseWhenHigher |-> TRUE],
                   [name |-> "heapUsed", worseWhenHigher |-> TRUE]>>

SeverityDirection(from, to) ==
  CASE SeverityRank[to] > SeverityRank[from] -> "worse"
    [] SeverityRank[to] < SeverityRank[from] -> "better"
    [] OTHER -> "same"

\* The mutant: a score that the other report does not have counts as another score.
ScoreChanged(a, b) ==
  \/ a.severity # b.severity \/ a.confidence # b.confidence
  \/ a.score # Unknown /\ a.score # b.score

FindingChanged(a, b) ==
  \/ a.severity # b.severity \/ a.confidence # b.confidence
  \/ a.score # Unknown /\ b.score # Unknown /\ a.score # b.score

\* a Map keyed by id, in which the last finding of an id stays
WithId(findings, id) == {i \in DOMAIN findings : findings[i].id = id}
HasId(findings, id)  == WithId(findings, id) # {}
ById(findings, id)   == findings[Max(WithId(findings, id))]

\* of two findings of one id, what is told when they differ
Change(before, f) == [id |-> f.id, from |-> before, to |-> f,
                      direction |-> SeverityDirection(before.severity, f.severity)]

DiffFindings(baseline, current) ==
  LET Met(f)     == HasId(baseline, f.id)
      Changed(f) == Met(f) /\ FindingChanged(ById(baseline, f.id), f)
  IN [added     |-> Filtered(current, LAMBDA f : ~Met(f)),
      removed   |-> Filtered(baseline, LAMBDA f : ~HasId(current, f.id)),
      changed   |-> Mapped(Filtered(current, Changed), LAMBDA f : Change(ById(baseline, f.id), f)),
      unchanged |-> CountOf(current, LAMBDA f : Met(f) /\ ~Changed(f))]

ScalarDelta(figure, from, to) ==
  [name |-> figure.name, from |-> from, to |-> to,
   direction |-> IF from = Unknown \/ to = Unknown \/ from = to THEN "same"
                 ELSE IF (to > from) = figure.worseWhenHigher THEN "worse" ELSE "better"]

\* a kind that only one report has is left out, and a figure that neither has
KindDeltas(kind, figures, baseline, current) ==
  IF kind \notin DOMAIN baseline \cap DOMAIN current THEN <<>>
  ELSE LET known == Filtered(figures, LAMBDA f : \/ baseline[kind][f.name] # Unknown
                                                 \/ current[kind][f.name] # Unknown)
       IN Mapped(known, LAMBDA f : ScalarDelta(f, baseline[kind][f.name], current[kind][f.name]))

DiffScalars(baseline, current) ==
  KindDeltas("cpu", CpuFigures, baseline, current)
    \o KindDeltas("memory", MemoryFigures, baseline, current)

DiffReports(baseline, current) ==
  LET findings == DiffFindings(baseline.findings, current.findings)
  IN [findings |-> findings,
      scalars |-> DiffScalars(baseline.figures, current.figures),
      regressed |-> \/ AnyOf(findings.added, LAMBDA f : f.severity # "info")
                    \/ AnyOf(findings.changed, LAMBDA c : c.direction = "worse")]
=============================================================================
