---------------------------- MODULE AsyncAnalysis ----------------------------
(* What has to hold of the analysis of asynchronous operations, for any       *)
(* inputs: the parts "life" and "owners" of AnalysisRun. The life of one      *)
(* operation is divided into running and waiting, for any record the          *)
(* collector may deliver, windows that overlap, repeat, lie outside the life  *)
(* or end before they start included; and CPU samples are given to            *)
(* operations, whose runs may nest, overlap or lie side by side. AsyncSpec    *)
(* has both parts.                                                            *)
EXTENDS AsyncLatency, AsyncAttribution, AnalysisRun

CONSTANT Lives                \* what may be asked: a record, and how long the capture was

ASSUME LivesAssumption ==
  Lives \subseteq [record : [init : Nat, dur : Nat \cup {Unset}, windows : Seq([start : Nat, end : Nat])],
                   capture : Nat]

LifeInit == done = FALSE /\ Take("life", Lives)
LifeSpec == LifeInit /\ [][CarryOut]_vars

EndOf(in)   == EffectiveEnd(in.record, in.capture)
WaitsOf(in) == WaitWindows(in.record, EndOf(in))

Covers(windows, t) == \E i \in DOMAIN windows : windows[i].start <= t /\ t < windows[i].end
InOrder(windows)   == \A i, j \in DOMAIN windows : i < j => windows[i].end < windows[j].start
Span(windows)      == UNION {windows[i].start..windows[i].end : i \in DOMAIN windows}

\* merging leaves each millisecond of the windows in one window, and adds none
MergeKept(windows, merged) ==
  /\ InOrder(merged)
  /\ \A t \in Span(windows) \cup Span(merged) : Covers(merged, t) <=> Covers(windows, t)

LifeDivided(in, waits) ==
  /\ \A k \in DOMAIN waits : in.record.init <= waits[k].start /\ waits[k].start < waits[k].end /\ waits[k].end <= EndOf(in)
  /\ InOrder(waits)
  /\ \A t \in in.record.init..(EndOf(in) - 1) : Covers(waits, t) <=> ~Covers(in.record.windows, t)

\* An operation waits exactly while it lives and does not run: its wait windows lie in its
\* life, in order and apart, and a millisecond of the life is in one of them if and only if
\* no run window has it; windows that are merged before overlaps are measured keep every
\* millisecond, none of them twice (latency.ts).
LifeIsDivided ==
  After("life") => /\ LifeDivided(input, WaitsOf(input))
                   /\ MergeKept(input.record.windows, MergeWindows(input.record.windows))

------------------------------------------------------------------------------
CONSTANT Traces               \* what may be asked: records, and the times of samples

\* a trigger is recorded before what it triggers, and samples are in the order of time
IsTrace(in) ==
  /\ in.records \in Seq([trig : Nat, windows : Seq([start : Nat, end : Nat])])
  /\ \A i \in DOMAIN in.records : in.records[i].trig < i
  /\ in.times \in Seq(Nat)
  /\ \A i, j \in DOMAIN in.times : i < j => in.times[i] <= in.times[j]

ASSUME TracesAssumption == \A in \in Traces : IsTrace(in)

OwnerInit == done = FALSE /\ Take("owners", Traces)
OwnerSpec == OwnerInit /\ [][CarryOut]_vars

RunsAt(recs, id, t) == \E k \in DOMAIN recs[id].windows : recs[id].windows[k].start <= t /\ t <= recs[id].windows[k].end
OpenAt(recs, t)     == {id \in DOMAIN recs : RunsAt(recs, id, t)}
Innermost(recs, t)  == {x \in OpenAt(recs, t) : \A o \in OpenAt(recs, t) : IsAsyncAncestor(recs, o, x)}

OwnersHold(recs, times, owners) ==
  \A i \in DOMAIN times : \A x \in DOMAIN recs : owners[i] = x <=> x \in Innermost(recs, times[i])

\* A CPU sample belongs to the operation that runs when it is taken and below all others
\* that run then, and to nobody when there is none: no sample is given to an operation that
\* does not run or that only runs beside another, none that has such an owner is left out,
\* and the sweep forgets no window that is still open (cpu-attribution.ts).
SamplesFindTheirOwner == After("owners") => OwnersHold(input.records, input.times, Owners(input.records, input.times))

AsyncInit == LifeInit \/ OwnerInit
AsyncSpec == AsyncInit /\ [][CarryOut]_vars

\* The time of async operations is told without a gap or an overlap: the life of one is
\* divided into running and waiting (latency.ts), and a CPU sample is time of the innermost
\* operation that was running, or of none (cpu-attribution.ts).
AsyncTimeIsKept == LifeIsDivided /\ SamplesFindTheirOwner
==============================================================================
