---------------------------- MODULE FindingChecks ----------------------------
(* Inputs for the analysis pipeline, the detectors and the diff, and what the *)
(* findings of a detector have to keep: calls that are heavy together are    *)
(* reported call by call, allocated bytes where they can be changed, and no  *)
(* long await is lost.                                                       *)
EXTENDS ModelChecks

PIPE == INSTANCE AnalysisPipeline
MD   == INSTANCE MemoryDetectors
AD   == INSTANCE AsyncDetectors
RD   == INSTANCE ReportDiff

(* CPU profiles. In app.js a handler calls fs.readFileSync on its second line *)
(* and work, mapped from app.ts, calls JSON.parse on its third.              *)

Spot(id, file, line, fn, cat, weight) ==
  [id |-> id, file |-> file, line |-> line, fn |-> fn, cat |-> cat,
   source |-> IF fn = "work" THEN [file |-> "app.ts", line |-> 5, name |-> "work"] ELSE PIPE!Nothing,
   package |-> IF cat = "node_modules" THEN "dep" ELSE "", self |-> weight[1], total |-> weight[2]]
Row(calls, braces) == [calls |-> calls, braces |-> braces]
AppText == <<Row({}, <<1>>), Row({"fs.readFileSync"}, <<>>), Row({}, <<-1>>), Row({}, <<1>>),
             Row({}, <<>>), Row({}, <<>>), Row({"JSON.parse"}, <<>>), Row({}, <<-1>>)>>

Absence == <<0, 0>>
Present(spots) == SelectSeq(spots, LAMBDA h : <<h.self, h.total>> # Absence)
Hotspots(in) ==
  Present(<<Spot(1, "app.js", 1, "handler", "user", in.handler), Spot(2, "app.js", 4, "work", "user", in.work),
            Spot(3, "app.js", 20, "other", "user", in.crowd), Spot(4, "app.js", 30, "another", "user", in.crowd),
            Spot(5, "node:fs", 9, "fs.readFileSync", "node:builtin", in.file),
            Spot(6, "node:zlib", 9, "processChunkSync", "node:builtin", in.zlib),
            Spot(7, "", 0, "JSON.parse", "native", in.json),
            Spot(8, "dep.js", 3, "run", "node_modules", in.dependency)>>)

\* callers: how the frames that are not user code were attributed, with which confidence
View(in) ==
  LET hotspots == Hotspots(in)
      Caller(h) == [file |-> h.file, line |-> h.line, fn |-> h.fn, source |-> h.source, confidence |-> in.sure]
      Users(ids) == Mapped(SelectSeq(hotspots, LAMBDA h : h.id \in ids), Caller)
      Above(h) == IF h.cat = "user" THEN <<>> ELSE Users(in.callers)
  IN [hotspots |-> hotspots, shown |-> 25, deep |-> TRUE,
      text |-> IF in.text THEN [f \in {"app.js"} |-> AppText] ELSE <<>>,
      candidates |-> [id \in 1..8 |-> IF id <= 4 THEN <<>> ELSE Users(in.callers)],
      callers |-> [id \in 1..8 |-> IF id <= 4 \/ Users(in.callers) = <<>> THEN PIPE!Nothing
                                   ELSE Head(Users(in.callers))],
      stalls |-> <<[file |-> "app.js", line |-> 1, fn |-> "handler", source |-> PIPE!Nothing,
                    overlap |-> 700, sample |-> 100]>>,
      gc |-> [ratio |-> 120, onCpu |-> 500, longest |-> 20, events |-> 1, pauses |-> 1, duration |-> 1000,
              samples |-> 500, correlated |-> <<>>],
      loop |-> [available |-> TRUE, basis |-> "both", confidence |-> "high", p99 |-> 150, max |-> 210],
      deopts |-> <<[fn |-> "work", file |-> "", line |-> 0, count |-> 2],
                   [fn |-> "unknown", file |-> "", line |-> 0, count |-> 2]>>]

FindingInputs ==
  [handler : {Absence, <<20, 260>>, <<120, 300>>}, work : {Absence, <<150, 150>>, <<40, 50>>},
   crowd : {Absence, <<110, 110>>}, file : {Absence, <<4, 9>>, <<8, 25>>}, zlib : {Absence, <<4, 22>>},
   json : {Absence, <<25, 25>>, <<40, 45>>}, dependency : {Absence, <<10, 160>>},
   callers : {{}, {1}, {1, 2}}, sure : {"high", "low"}, text : BOOLEAN]

CpuViews == {View(in) : in \in FindingInputs}
CpuOrders == {PIPE!DefaultAnalyzers, Reverse(PIPE!DefaultAnalyzers)}

\* A family of blocking calls that is heavy together is reported call by call (blocking-io.ts),
\* and a JSON API once, be it sampled or inlined (json-on-hot-path.ts).
CallsAreTold(cpu) ==
  LET blocking == SelectSeq(cpu.hotspots, LAMBDA h : h.id \in {5, 6})
      family   == SumOf(blocking, LAMBDA h : h.total)
      told     == {f.hotspot : f \in ToSet(PIPE!BlockingIo(cpu))}
  IN /\ \A h \in ToSet(blocking) : h.id \in told <=> family >= 30 \/ h.self >= 5 \/ h.total >= 10
     /\ Len(PIPE!JsonOnHotPath(cpu)) <= 1

(* Faults: what throws in a run over two kinds, one of which has detectors.   *)

HotCase == [handler |-> <<120, 300>>, work |-> <<150, 150>>, crowd |-> Absence, file |-> <<8, 25>>, zlib |-> Absence,
            json |-> <<40, 45>>, dependency |-> <<10, 160>>, callers |-> {1}, sure |-> "high", text |-> TRUE]
HotView == View(HotCase)
FaultCases ==
  [fate : {"never", "early", "late"}, otherFate : {"never", "early", "late"}, captured : BOOLEAN,
   meta : {"none", "throws"}, finalize : {"runs", "throws"},
   thrown : SUBSET {"blocking-io", "json-on-hot-path", "cpu-hotspot"}, extension : BOOLEAN]
CpuKind == [id |-> "cpu", key |-> "cpu", captured |-> TRUE, fate |-> "never", finalize |-> "runs", meta |-> "none"]
FaultInput(in) ==
  LET cpu   == [CpuKind EXCEPT !.fate = in.fate, !.captured = in.captured, !.finalize = in.finalize, !.meta = in.meta]
      other == [CpuKind EXCEPT !.id = "memory", !.key = "memory", !.fate = in.otherFate, !.finalize = "none"]
  IN [kinds |-> PIPE!ResolveMany({cpu, other}, IF in.extension THEN <<"memory", "cpu">> ELSE <<"cpu", "memory">>),
      sections |-> <<[id |-> "x", namespace |-> "x", order |-> 1, throws |-> in.extension],
                     [id |-> "y", namespace |-> "y", order |-> 0, throws |-> FALSE]>>,
      analyzers |-> [i \in DOMAIN PIPE!DefaultAnalyzers |->
                       [PIPE!DefaultAnalyzers[i] EXCEPT !.throws = @ \/ PIPE!DefaultAnalyzers[i].id \in in.thrown]]]
\* what registration lets through
FaultInputs == {in \in {FaultInput(c) : c \in FaultCases} : ~PIPE!RegistrationClash(in.kinds, in.sections, in.analyzers)}

(* Memory findings over the allocators of sampled trees, and long awaits.    *)

Heaps == [t : Trees, f : [2..4 -> {"a", "b", "n"}], bytes : [2..4 -> {0, 1, 30}], line : {1, 2}]
OpKinds == {"ran", "idle", "background"}
Awaits ==
  [durations : {d \in [1..3 -> {80, 120, 160, 1200}] : \A i \in 1..2 : d[i] >= d[i + 1]},
   modes : [1..3 -> OpKinds], frames : [1..3 -> {1, 2}], dropped : {0, 1}]
Loads ==
  [aged : {0, 49, 50}, orphans : {50, 500}, recursion : [1..4 -> {15, 16}], shares : {<<40, 12, 9>>, <<9, 8>>},
   mean : {100, 200}, first : {450, 700, 930, 1500}, dropped : {0, 1}, quality : {"high", "medium"}]

\* Two reports of up to two findings. Findings of one id differ in any way, and a report
\* may well repeat an id: the crypto detector gives every finding the same one.
Told ==
  LET Finding(id, v) == [id |-> id, severity |-> v[1], confidence |-> v[2], score |-> v[3]]
  IN {Finding("a", v) : v \in {<<"info", "low", 1>>, <<"warning", "low", 1>>, <<"warning", "low", 2>>,
                               <<"warning", "low", RD!Unknown>>, <<"critical", "high", 2>>}}
       \cup {Finding("b", v) : v \in {<<"info", "low", 1>>, <<"critical", "low", 1>>}}
CpuOnly == [cpu |-> [idle |-> 1, gc |-> 2, culprit |-> RD!Unknown]]
FigureSamples == {CpuOnly, [cpu    |-> [idle |-> 2, gc |-> 2, culprit |-> 3],
                            memory |-> [rss |-> 1, heapUsed |-> RD!Unknown]]}
Diffs == [baseline : BoundedSeq(Told, 2), current : BoundedSeq(Told, 2), before : FigureSamples, after : FigureSamples]
DetectorInputs == {[kind |-> "heap", in |-> x] : x \in Heaps} \cup {[kind |-> "awaits", in |-> x] : x \in Awaits}
                    \cup {[kind |-> "load", in |-> x] : x \in Loads}

\* What allocates much is told at a frame that can be edited, and once: a caller that only
\* passes the bytes on is not reported beside the frame that allocates them, whichever is
\* listed first (analysis.ts sorts them so that large-allocator.ts can tell), and nothing
\* heavy is left out but for such a caller. A finding about the whole process points at the
\* heaviest frame that can be edited (selectCorrelatedMemoryAllocator). With a CPU profile
\* of the same calls every heavy editable frame is told as hot in both; when its places
\* differ, bytes of the runtime are told at a user frame that called it (alloc-in-hot-path.ts).
HeapFindingsKept(in, nodes, editable, large, both, wide) ==
  LET Calls(fn)  == \E n \in 2..4 : nodes[n].self > 0 /\ in.f[n] = "n" /\ \E m \in Line(in.t, n) \ {1, n} : in.f[m] = fn
      Passes(a)  == 20 * a.self < a.total
  IN /\ \A a \in ToSet(large) : a \in ToSet(editable)
     /\ \A i, j \in DOMAIN large : i # j /\ large[i].total = large[j].total => ~Passes(large[i])
     /\ \A a \in ToSet(editable) : a.totalPct >= 15 =>
          \/ a \in ToSet(large)
          \/ Passes(a) /\ \E b \in ToSet(large) : b.total = a.total
     /\ in.line = 1 => /\ {f.frame.fn : f \in ToSet(both)} = {a.fn : a \in {e \in ToSet(editable) : e.totalPct >= 5}}
                       /\ Len(both) = Cardinality({f.frame.fn : f \in ToSet(both)})
     /\ in.line = 2 => Len(both) <= 1 /\ \A f \in ToSet(both) : Category[f.frame.fn] = "user" /\ Calls(f.frame.fn)
     /\ Len(wide) = 3
     /\ \A f \in ToSet(wide) : f.frame = IF editable = <<>> THEN MD!None ELSE Head(editable)

AllocatorFindingsKept(in, nodes, mem, hotspots) ==
  HeapFindingsKept(in, nodes, SelectSeq(mem.allocators, MD!Editable),
                   Mapped(MD!LargeAllocator([allocators |-> mem.allocators]), LAMBDA f : f.frame),
                   MD!AllocInHotPath(mem, hotspots),
                   MD!MemoryGrowth(mem) \o MD!ExternalBufferPressure(mem, <<>>))

HeapViewsKept(in, nodes, total, hot) ==
  LET Pct(bytes) == (100 * bytes) \div total
      File(category) == IF category = "user" THEN "app.js" ELSE "node:internal"
      Report(a) == [id |-> a.frame, file |-> File(Category[a.frame]), line |-> 1, fn |-> a.frame, cat |-> Category[a.frame],
                    package |-> "", self |-> a.self, total |-> a.total, selfPct |-> Pct(a.self), totalPct |-> Pct(a.total)]
      allocators == Mapped(hot, Report)
      Steep      == [slope |-> 50, mean |-> 400]
      series     == [m \in {"rss", "heapUsed", "external", "arrayBuffers"} |-> Steep]
      mem        == [allocators |-> allocators, top |-> IF allocators = <<>> THEN MD!None ELSE Head(allocators),
                     series |-> series, samples |-> 8, duration |-> 2000]
      CalledFrom(a) == IF a.caller = <<>> THEN MD!None ELSE [file |-> "app.js", line |-> in.line, fn |-> a.caller[1].frame]
      hotspots   == Mapped(hot, LAMBDA a :
                      [id |-> a.frame, file |-> File(Category[a.frame]), line |-> in.line, fn |-> a.frame,
                       cat |-> Category[a.frame], total |-> Pct(a.total), caller |-> CalledFrom(a), callees |-> <<>>])
  IN AllocatorFindingsKept(in, nodes, mem, hotspots)

AllocationsKept(in, nodes) ==
  HeapViewsKept(in, nodes, PIPE!Larger(1, SumOf(nodes, LAMBDA n : n.self)), MEM!HotAllocators(nodes, FALSE))
HeapFindingsHold(in) ==
  AllocationsKept(in, HeapNodes(NodesOfTree(in.t, in.f, <<0, 0, 0, 0>>), <<0>> \o [n \in 1..3 |-> in.bytes[n + 1]]))

\* Frame 1 is code of the user, frame 2 a promise of a library with a handler of the user's.
AwaitReport(in) ==
  LET Place(file, k) == [fn |-> "f", file |-> file, line |-> k]
      Library(i)     == in.frames[i] = 2
      Created(i)     == Place(IF Library(i) THEN "node_modules" ELSE "app.js", in.frames[i])
      Operation(i) ==
        [id |-> i, kind |-> IF Library(i) THEN "promise" ELSE "tcp", trig |-> 1, dur |-> in.durations[i], run |-> 0,
         runs |-> IF in.modes[i] = "idle" THEN 0 ELSE 1, first |-> 0, wait |-> in.durations[i], orphan |-> FALSE,
         cause |-> IF in.modes[i] = "background" THEN "background" ELSE "io-wait", sure |-> "high",
         stack |-> <<Created(i)>>, creation |-> Created(i), execution |-> AD!NoPlace, await |-> AD!NoPlace,
         handler |-> IF Library(i) THEN Place("app.js", i) ELSE AD!NoPlace]
  IN [available |-> TRUE, total |-> 5, dropped |-> in.dropped, quality |-> "high", sampled |-> 0, hotFiles |-> <<>>,
      operations |-> [i \in 1..3 |-> Operation(i)]]
LongAwaits(in) == AD!LongAwait(AwaitReport(in), 5000)
Reports(findings, op) == \E f \in ToSet(findings) : f.id = <<"long-await", op.id>>

\* An operation that lived for 150 ms or more, and was no background handle, is reported
\* as a long await, or one is that ran on the same frames for about as long: the ranking
\* prefers operations that ran among near ones (rankLongAwaitOperations) and the list ends
\* at the first short one, and between them nothing so long is lost. What is reported is
\* long, is told of in the user's code, and is not certain when records were dropped.
AwaitFindingsHold(in) ==
  LET report   == AwaitReport(in)
      findings == LongAwaits(in)
      ops      == ToSet(report.operations)
      Behind(op, other) == AD!Ran(other) /\ other.stack = op.stack /\ other.dur \in (op.dur - 50)..(op.dur + 50)
  IN /\ \A op \in ops : op.dur >= 150 /\ op.cause # "background" =>
          \/ Reports(findings, op)
          \/ \E other \in ops : Behind(op, other) /\ (other.cause = "background" \/ Reports(findings, other))
     /\ \A op \in ops : Reports(findings, op) => op.dur >= 100 /\ op.cause # "background"
     /\ \A f \in ToSet(findings) : f.place.file = "app.js"
     /\ in.dropped > 0 => \A f \in ToSet(findings) : f.confidence = "low"

Here(k) == [fn |-> "f", file |-> "app.js", line |-> k]
LoadReport(in) ==
  LET Chain(i) == [id |-> i, recursion |-> in.recursion[i], root |-> Here(i), deepest |-> Here(i), file |-> "",
                   path |-> {"promise"}]
      Stall(from, to, k) == [start |-> from, end |-> to, lag |-> 250, top |-> Here(k), sure |-> "high"]
      Operation == [id |-> 9, cause |-> "event-loop-blocked", wait |-> 600, first |-> in.first, sure |-> "high"]
      Share(i) == [id |-> i, pct |-> in.shares[i], execution |-> Here(i), root |-> Here(i)]
  IN [available |-> TRUE, total |-> 100, dropped |-> in.dropped, quality |-> in.quality, sampled |-> 100,
      hotFiles |-> <<[file |-> "lib.js", frame |-> Here(9)], [file |-> "app.js", frame |-> AD!NoPlace]>>, orphanCount |-> in.orphans, chains |-> [i \in 1..4 |-> Chain(i)],
      orphans |-> [i \in 1..50 |-> [age |-> IF i <= in.aged THEN 1000 ELSE 999, frame |-> Here((i % 3) + 1)]],
      inflight |-> [samples |-> 10, mean |-> in.mean, max |-> 10 * in.mean],
      cpu |-> [available |-> TRUE, attributed |-> 60, chains |-> [i \in DOMAIN in.shares |-> Share(i)]],
      stalls |-> <<Stall(100, 400, 1), Stall(600, 900, 2)>>, operations |-> <<Operation>>,
      blocking |-> <<[overlap |-> 60, frame |-> Here(3), sure |-> "medium"]>>]

\* Whatever an async report is of, no finding is surer than the capture was, and none is
\* sure when records were dropped; no two findings have one id. A blocked operation is
\* blamed on its own stall and on the loop's worst frame only when it has none; recursion
\* is reported chain by chain, up to three, each where it starts and not in the hottest
\* file, and never for a chain that is only deep.
LoadFindingsHold(in) ==
  LET report   == LoadReport(in)
      blocked  == AD!EventLoopBlockedAsync(report)
      deep     == AD!DeepAsyncChain(report)
      findings == blocked \o deep \o AD!OrphanAsyncResource(report) \o AD!MicrotaskFlood(report)
                    \o AD!HotAsyncContext(report)
      Sure     == IF in.dropped > 0 THEN "low" ELSE in.quality
  IN /\ \A f \in ToSet(findings) : AD!Rank(f.confidence) <= AD!Rank(Sure)
     /\ Cardinality({f.id : f \in ToSet(findings)}) = Len(findings)
     /\ [i \in DOMAIN blocked |-> blocked[i].place] = <<Here(CASE in.first = 450 -> 1 [] in.first \in {700, 930} -> 2
                                                              [] OTHER -> 3)>>
     /\ Len(deep) = Min({3, CountOf(report.chains, LAMBDA c : c.recursion >= 16)})
     /\ \A f \in ToSet(deep) : in.recursion[f.id[2]] >= 16 /\ f.place = Here(f.id[2])
     /\ (\E f \in ToSet(findings) : f.id = <<"orphan-async-resource">>) = (in.aged = 50)

DetectorsHold(in) ==
  CASE in.kind = "heap"   -> HeapFindingsHold(in.in)
    [] in.kind = "awaits" -> AwaitFindingsHold(in.in)
    [] in.kind = "load"   -> LoadFindingsHold(in.in)

\* The same from the reporting threshold of 100 ms on, and for every operation that is not
\* exempt: "await expressions exceeding the wait-time threshold" are reported.
AwaitsOverThresholdAreReported(in) ==
  \A op \in ToSet(AwaitReport(in).operations) :
    op.dur >= 100 /\ ~AD!LongAwaitExempt(op, AwaitReport(in), 5000) => Reports(LongAwaits(in), op)
=============================================================================
