----------------------------- MODULE AnalysisRun -----------------------------
(* A behaviour of the analysis: it takes one input of one part and carries   *)
(* that part out. EventAnalysis, ReportAnalysis and AsyncAnalysis are about  *)
(* single parts, for any inputs; Analysis puts all parts together.           *)
VARIABLES topic, input, done
vars == <<topic, input, done>>

Take(t, inputs) == topic = t /\ input \in inputs

CarryOut == ~done /\ done' = TRUE /\ UNCHANGED <<topic, input>>

After(t) == done /\ topic = t
=============================================================================
