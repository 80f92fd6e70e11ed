----------------------------- MODULE ModelChecks -----------------------------
(* Inputs for the analysis models, and what their results have to keep of    *)
(* them: the events of a capture, the samples of a CPU profile, the life of  *)
(* an async operation, the bytes of a heap. Where the code takes a short     *)
(* way, the reference here takes the long one over all inputs.               *)
EXTENDS JsArrays

TL  == INSTANCE Timeline
CPU == INSTANCE CpuModel
AS  == INSTANCE AsyncModel
MEM == INSTANCE MemoryModel

(* The timed signals of a capture of 6 ms: heartbeats of two routes, some of  *)
(* them sent twice, before the capture or long after it.                     *)

Duration == 6
Resolution == 2
Threshold == 3
Samples == {s \in [at : {0, 3, 4, 7, 1009}, lag : {0, 3, 7}] : s.lag = 0 \/ s.at > 0}
TimelineInputs == [primary : BoundedSeq(Samples, 2), secondary : BoundedSeq(Samples, 1), start : {0, 3}]

\* CPU samples are placed in the stall windows of the events and counted once there, as
\* often as in the heartbeats the windows are made of (correlations.ts).
BlameHolds(events) ==
  LET raw     == TL!RawStalls(events, Duration, Resolution, Threshold)
      timed   == TL!TimedSamples(<<1, 2, 1, 3, 2>>, <<1, 1>>, 2)
      blame   == TL!Correlate(timed, TL!StallWindows(events, Duration, Resolution, Threshold),
                              <<"f", TL!Absent, "g">>, 3)
  IN /\ blame.samplesInWindows = CountOf(timed, LAMBDA s : TL!IsInAnyWindow(s.at, raw))
     /\ blame.samplesAttributed = SumOf(blame.hotspots, LAMBDA h : h.overlap)

(* CPU profiles of four nodes. Frame a may call itself through others; n is   *)
(* built into Node.js and g is Lanterna's own.                               *)

Trees == {t \in [2..4 -> 1..3] : \A n \in 2..4 : t[n] < n}
Line(t, leaf) ==
  LET up(n) == IF n = 1 THEN 1 ELSE t[n] IN {leaf, up(leaf), up(up(leaf)), up(up(up(leaf)))}

Url(kind, noise, segments) == [kind |-> kind, noise |-> noise, segments |-> segments, outside |-> FALSE]
Category ==
  [root |-> CPU!Classify("(root)", Url("none", FALSE, <<>>)), a |-> CPU!Classify("a", Url("file", FALSE, <<"app.js">>)),
   b |-> CPU!Classify("b", Url("relative", FALSE, <<"lib.js">>)), n |-> CPU!Classify("n", Url("node", FALSE, <<>>)),
   g |-> CPU!Classify("g", Url("file", TRUE, <<"node_modules", "lanterna">>))]
NodesOfTree(t, f, hits) ==
  [n \in 1..4 |->
     LET frame == IF n = 1 THEN "root" ELSE f[n]
     IN [frame |-> frame, name |-> IF n = 1 THEN "(root)" ELSE frame, category |-> Category[frame],
         hits |-> hits[n], children |-> SetToSeq({m \in 2..4 : t[m] = n})]]

CpuInputs == [t : Trees, f : [2..4 -> {"a", "b", "n", "g"}], samples : BoundedSeq(2..4, 2)]

\* a capture with a stall from 2 to 5 ms and a collection at 1 ms
CpuBundle ==
  [beats |-> <<[at |-> 5, lag |-> 3]>>, timed |-> TRUE, histogram |-> TL!Nothing, duration |-> Duration,
   resolution |-> Resolution, threshold |-> Threshold, lookaround |-> 1, keepNoise |-> FALSE,
   gcs |-> <<[at |-> 1, duration |-> 1, kind |-> "scavenge"]>>]
Deopt(pattern, fn) == [pattern |-> pattern, function |-> fn, at |-> 1, reason |-> "wrong map"]
Deopts == <<Deopt("bailout", "a"), Deopt("other", "a"), Deopt("generic", "b"), Deopt("bailout", "a")>>

\* a specific finding that names n, called by a, with a candidate that is no hotspot
SpecificFinding(n) == [category |-> "blocking-io", frame |-> "n", caller |-> "a",
                       candidates |-> <<[frame |-> "c", support |-> n]>>]

\* The samples of a profile are partitioned by the frames they were taken in, and a frame's
\* total counts each sample below it once however it recurses (hotspots.ts); stacks and
\* their clusters, categories and blamed frames add up to the same samples (hot-stacks.ts,
\* summary.ts, correlations.ts); the frame the summary names is one no finding explains,
\* whenever there is one (deriveTopUserHotspot).
CpuKept(in, r) ==
  LET total   == Len(in.samples)
      last    == CPU!FinalizeCpu(r, <<SpecificFinding(total)>>, total)
      own(f)  == CountOf(in.samples, LAMBDA l : in.f[l] = f)
      below(f, l) == \E n \in Line(in.t, l) : n # 1 /\ in.f[n] = f
      Called(f) == \E l \in ToSet(in.samples) : \E n \in Line(in.t, l) \ {1}, m \in Line(in.t, l) \ {1} :
                     m < n /\ in.f[n] = f /\ Category[in.f[m]] = "user"
      hot     == {h \in ToSet(r.hotspots) : h.category = "user" /\ 10 * h.self >= total}
  IN /\ \A h \in ToSet(r.full) :
          /\ h.self = own(h.frame) /\ h.self <= h.total
          /\ h.total = CountOf(in.samples, LAMBDA l : below(h.frame, l))
          /\ h.frame \notin ToSet(h.callers) \cup ToSet(h.callees)
          /\ h.category # "user" => (h.userCallers # <<>>) = Called(h.frame)
     /\ SumOf(r.full, LAMBDA h : h.self) = total - own("g")
     /\ SumOf(r.stacks, LAMBDA st : st.weight) =
          CountOf(in.samples, LAMBDA l : \E n \in Line(in.t, l) \ {1} : in.f[n] # "g")
     /\ \A c \in ToSet(r.clusters) : /\ Cardinality(c.members) >= 2
                                     /\ c.weight <= CountOf(in.samples, LAMBDA l : below(c.anchor, l))
     /\ r.summary.total = Max({1, total - own("g")})
     /\ total > own("g") =>
          r.summary.idle + FoldSet(LAMBDA c, n : n + r.summary.of[c], 0, DOMAIN r.summary.of) = r.summary.total
     /\ \A blame \in {r.loopBlame, r.gcBlame} :
          SumOf(blame.hotspots, LAMBDA h : h.overlap) = blame.samplesAttributed
     /\ \A i \in DOMAIN r.stallBlame : Len(r.stallBlame[i]) <= 1
     /\ SumOf(r.deopts, LAMBDA d : d.count) = 3
     /\ hot # {} => last.culprit # <<>> /\ \A h \in hot : h.self <= last.culprit[1].self
     /\ (\E h \in ToSet(r.hotspots) : h.frame = "b" /\ 5 * h.total >= total) =>
          last.user # <<>> /\ last.user[1].frame = "b"

CpuHolds(in) ==
  CpuKept(in, CPU!AnalyzeCpu(
    [nodes |-> NodesOfTree(in.t, in.f, [n \in 1..4 |-> CountOf(in.samples, LAMBDA l : l = n)]), samples |-> in.samples,
     deltas |-> <<1>>, interval |-> 2, deopts |-> Deopts, mapped |-> {}, timed |-> TRUE], CpuBundle))

(* Three async operations in a capture of 6 ms with stalls from 1 to 4 ms.    *)

Frame(file) == [fn |-> "f", file |-> file, line |-> 1]
Stacks == <<<<Frame("app.js")>>, <<Frame("preload"), Frame("lib.js")>>, <<Frame("node:fs")>>>>
NoFrames == [await |-> AS!NoFrame, handler |-> AS!NoFrame, safeHandler |-> AS!NoFrame,
             safeRegistration |-> AS!NoFrame, registration |-> AS!NoFrame]
RunChoices == {<<>>, <<[start |-> 2, end |-> 4]>>, <<[start |-> 3, end |-> 5], [start |-> 5, end |-> 6]>>}
Op(id, trig, windows, dur, stack) ==
  [trig |-> trig, kind |-> <<"tcp", "promise", "timer">>[id], init |-> id - 1, dur |-> dur,
   first |-> IF windows = <<>> THEN AS!Unset ELSE windows[1].start,
   run |-> SumOf(windows, LAMBDA w : w.end - w.start), count |-> Len(windows), orphan |-> dur = AS!Unset,
   stack |-> Stacks[stack], stacks |-> <<>>, windows |-> windows, frames |-> NoFrames,
   execution |-> AS!NoFrame, cdp |-> <<>>]

AsyncInputs ==
  [trig : {f \in [1..3 -> 0..2] : \A i \in 1..3 : f[i] < i}, windows : [1..3 -> RunChoices],
   dur : {<<AS!Unset, 5, 4>>, <<6, AS!Unset, 3>>, <<5, 5, 4>>}, stack : {<<1, 2, 3>>, <<3, 1, 1>>, <<2, 3, 3>>}]
AsyncCapture == [duration |-> Duration, stalls |-> <<[start |-> 1, end |-> 3], [start |-> 2, end |-> 4]>>,
                 gcs |-> <<>>, timed |-> TRUE]
CpuSamples == [i \in 1..6 |-> [at |-> i, frame |-> Frame("app.js")]]

\* Records of one operation: runs that touch, overlap, repeat, take no time or last past its end.
LifeInputs ==
  [record : [init : {0, 2}, dur : {AS!Unset, 0, 4},
             windows : BoundedSeq({w \in [start : {2, 3, 4}, end : {3, 5}] : w.start <= w.end}, 3)],
   capture : {4, 6}]

\* Three operations in every trigger relation, whose runs nest, overlap, touch or lie apart,
\* and samples before, in, between and after them.
TraceInputs ==
  {[records |-> [id \in 1..3 |-> [trig |-> in.trig[id], windows |-> in.windows[id]]], times |-> in.times] :
     in \in [trig : {f \in [1..3 -> 0..2] : \A i \in 1..3 : f[i] < i},
            windows : [1..3 -> {<<>>, <<[start |-> 1, end |-> 6]>>, <<[start |-> 3, end |-> 4], [start |-> 2, end |-> 4]>>,
                                <<[start |-> 2, end |-> 3], [start |-> 5, end |-> 5]>>}],
            times : {<<0, 1, 2, 3, 4, 5, 6, 7>>, <<2, 2, 5>>, <<4, 7>>}]}

\* The samples that were attributed (cpu-attribution.ts), and the ambiguous ones, are those at
\* which an operation ran, and the chains add up to the former; no operation waits or is
\* delayed longer than it lives; every operation with a frame is counted in one file and one
\* trigger tree.
AsyncKept(recs, r) ==
  LET Open(i) == {id \in 1..3 : \E w \in ToSet(recs[id].windows) : w.start <= i /\ i <= w.end}
  IN /\ r.cpu.attributed = SumOf(r.cpu.chains, LAMBDA e : e.samples)
     /\ r.cpu.attributed + r.cpu.ambiguous = Cardinality({i \in 1..6 : Open(i) # {}})
     /\ \A op \in ToSet(r.operations) :
          op.wait <= op.duration /\ op.duration <= Duration /\ (op.delay = AS!Unset \/ op.delay <= op.duration)
     /\ SumOf(r.files, LAMBDA f : f.count) = 3
     /\ \A c \in ToSet(r.chains) : \A m \in 1..3 : m \in c.members <=> AS!RootOf(recs, m) = c.root
     /\ Len(r.operations) + Len(r.orphans) = 3
     /\ r.summary.p50 <= r.summary.p99

CdpContext == [at |-> 2] @@ AS!NormalizeCdpTrace(<<<<Frame("lib.js"), Frame("")>>, <<Frame("")>>>>)
Analyzed(recs) ==
  AS!AnalyzeAsync(recs, <<CdpContext>>, CpuSamples,
                  [dropped |-> 0, via |-> "async-hooks", partial |-> FALSE, transformPartial |-> FALSE], AsyncCapture)
RecordsKept(recs) == AsyncKept(recs, Analyzed(recs))
AsyncHolds(in) == RecordsKept([id \in 1..3 |-> Op(id, in.trig[id], in.windows[id], in.dur[id], in.stack[id])])

(* Heaps: sampled allocations by the trees above, with a byte in every node,  *)
(* and snapshots of a root and three nodes with any of the edges below.      *)

Bytes == <<0, 3, 2, 1>>
MemoryTrees == [t : Trees, f : [2..4 -> {"a", "b", "n", "g"}]]
Edge(type, to) == [type |-> type, name |-> "p", to |-> to]
Arcs == {<<1, 2>>, <<1, 3>>, <<2, 3>>, <<3, 2>>, <<2, 4>>, <<3, 4>>, <<4, 2>>}
Weak(arc) == arc = <<1, 3>>
Heap(arcs, weak) ==
  [n \in 1..4 |->
    [type |-> IF n = 1 THEN "synthetic" ELSE "object", name |-> <<"root", "Map", "Leak", "Leak">>[n], self |-> n,
     edges |-> Mapped(SetToSeq({a \in arcs : a[1] = n}),
                      LAMBDA a : Edge(IF weak /\ Weak(a) THEN "weak" ELSE "property", a[2])) \o <<Edge("element", 9)>>]]
SnapshotEvents == {"chunk", "finished", "error"}
MemoryInputs ==
  {[kind |-> "allocators", in |-> x] : x \in MemoryTrees}
    \cup {[kind |-> "snapshots", in |-> x] : x \in [arcs : SUBSET Arcs, weak : BOOLEAN, limit : 1..3]}
    \cup {[kind |-> "probe", in |-> x] :
             x \in [drained : BoundedSeq({1, 2}, 1), read : BoundedSeq({3}, 1), live : BoundedSeq({4}, 1),
                    closed : BOOLEAN, readable : BOOLEAN, stops : BOOLEAN, start : BoundedSeq(SnapshotEvents, 2),
                    end : BoundedSeq(SnapshotEvents, 1), aborted : BOOLEAN, signal : BOOLEAN]}

\* Every sampled byte is self of one frame, and inclusive of a frame exactly once however
\* the frame recurses (aggregateAllocators).
AllocatorsKept(in, r) ==
  LET Sum(ns) == MapThenSumSet(LAMBDA n : Bytes[n], ns)
  IN /\ \A a \in ToSet(r.view) :
          /\ a.self = Sum({n \in 2..4 : in.f[n] = a.frame})
          /\ a.total = Sum({n \in 2..4 : \E m \in Line(in.t, n) \ {1} : in.f[m] = a.frame})
     /\ SumOf(r.view, LAMBDA a : a.self) = r.total - Sum({n \in 2..4 : in.f[n] = "g"})
     /\ r.confidence = "high" /\ r.series[1].slope > 0

HeapNodes(nodes, bytes) == [n \in 1..4 |-> nodes[n] @@ [self |-> bytes[n]]]
AllocatorsHold(in) ==
  AllocatorsKept(in, MEM!AnalyzeMemory(
    [nodes |-> HeapNodes(NodesOfTree(in.t, in.f, Bytes), Bytes),
     samples |-> <<[at |-> 1, bytes |-> 5], [at |-> 3, bytes |-> 9]>>, available |-> TRUE, sampling |-> TRUE,
     warnings |-> {}, snapshots |-> <<>>], [enabled |-> FALSE, keepNoise |-> FALSE]))

\* A node retains exactly what cannot be reached without it (computeRetainedSizes, against
\* its definition), and a retainer path is a shortest one up to its limit.
SnapshotsKept(in, snapshot, sizes, path, report) ==
  LET strong   == {a \in in.arcs : ~(in.weak /\ Weak(a))}
      Without(gone) == LET step(s) == s \cup ({a[2] : a \in {b \in strong : b[1] \in s}} \ gone)
                       IN step(step(step({1})))
      Near(k)  == LET up(s) == s \cup {a[1] : a \in {b \in strong : b[2] \in s}}
                  IN 1 \in <<up({4}), up(up({4})), up(up(up({4})))>>[k]
  IN /\ snapshot.warnings = 4
     /\ \A n \in 2..4 : sizes[n] = MapThenSumSet(LAMBDA m : m, Without({}) \ Without({n}))
     /\ (\E k \in 1..in.limit : Near(k)) => "root" \in path[1] /\ Len(path) = 1 + Min({k \in 1..in.limit : Near(k)})
     /\ report.available
     /\ SumOf(report.analysis.growth, LAMBDA g : g.count) = Cardinality(Without({}) \ {1, 2})

RawFile(raw) == [size |-> 1, raw |-> raw]
ReportOf(raw, limit) ==
  MEM!HeapSnapshotReport([available |-> TRUE, warnings |-> {}, start |-> RawFile(Heap({<<1, 2>>}, FALSE)), end |-> RawFile(raw)],
                         2, [maxGroups |-> 2, maxPaths |-> 1, maxDepth |-> limit, keepNoise |-> FALSE])
SnapshotKept(in, raw, snapshot) ==
  SnapshotsKept(in, snapshot, MEM!RetainedSizes(snapshot), MEM!ReadableRetainerPath(snapshot, 4, in.limit),
                ReportOf(raw, in.limit))
HeapKept(in, raw) == SnapshotKept(in, raw, MEM!ParseHeapSnapshot(raw))
SnapshotsHold(in) == HeapKept(in, Heap(in.arcs, in.weak))

\* What was drained stays whatever fails later, and a pair of snapshots is only offered
\* when both files are whole (MemoryProbe.stop, takeHeapSnapshotToFile).
ProbeHolds(in) ==
  LET result == MEM!MemoryProbeStop([drained |-> in.drained, live |-> in.live, closed |-> in.closed,
                  read |-> [samples |-> in.read, available |-> in.readable], samplingStops |-> in.stops, profile |-> <<1>>])
      start  == MEM!TakeHeapSnapshot(FALSE, TRUE, in.start)
      end    == MEM!TakeHeapSnapshot(in.aborted, ~in.aborted, in.end)
      pair   == MEM!CapturedSnapshots(start, end, in.signal)
  IN /\ IsPrefix(in.drained, result.samples)
     /\ result.samples # <<>> => result.available
     /\ ~in.closed => \A b \in ToSet(in.read) : b \in ToSet(result.samples)
     /\ pair.available => pair.startFile = "whole" /\ pair.endFile = "whole"
     /\ ~pair.available => pair.warnings # {}
     /\ \A s \in {start, end} : s.ok <=> s.settled /\ s.file = "whole"

MemoryHolds(in) ==
  CASE in.kind = "allocators" -> AllocatorsHold(in.in)
    [] in.kind = "snapshots"  -> SnapshotsHold(in.in)
    [] in.kind = "probe"      -> ProbeHolds(in.in)
=============================================================================
