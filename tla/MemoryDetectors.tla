--------------------------- MODULE MemoryDetectors ---------------------------
(* The detectors of the memory kind, packages/detectors/src. A series is      *)
(* [slope, mean] in tenths of a megabyte (per second), an allocator [id, file,*)
(* line, fn, cat, package, self, total, selfPct, totalPct], sizes in units of *)
(* 1 KB and percentages whole; a CPU hotspot has self and total in percent,   *)
(* its caller and its callees [id, pct]. Nothing stands for undefined.        *)
EXTENDS JsArrays

None == <<>>
MemoryThresholds ==
  [growth   |-> [warn |-> 10, critical |-> 50, minDuration |-> 2000, minSamples |-> 8],
   large    |-> [minTotal |-> 15, critical |-> 40, max |-> 5],
   external |-> [warn |-> 5, critical |-> 15, minMean |-> 320],
   hotPath  |-> [minCpu |-> 5, minAlloc |-> 5, combined |-> 60, dominant |-> 40]]

RuntimePath(file) == file \in {"node:internal", "native"}
Editable(frame)   == frame.cat \in {"user", "node_modules"} /\ ~RuntimePath(frame.file)
Actionable(frame) == Editable(frame) /\ frame.fn \notin {"(root)", "(program)", "(anonymous)"}
SamePlace(a, b)   == a.file = b.file /\ a.line = b.line /\ a.fn = b.fn

MemoryFinding(id, severity, frame, pairs) ==
  [id |-> id, severity |-> severity, frame |-> frame, pairs |-> pairs]

\* the allocator that a finding about the whole process points at
SelectCorrelatedMemoryAllocator(top, allocators) ==
  LET same   == FirstThat(allocators, LAMBDA a : SamePlace(a, top), None)
      edited == SelectSeq(allocators, Editable)
      nearby == FirstThat(edited, LAMBDA a : a.file = top.file, None)
  IN CASE same # None /\ Editable(same)          -> same
       [] same = None /\ ~RuntimePath(top.file)   -> top
       [] OTHER -> IF nearby # None THEN nearby
                   ELSE IF edited # <<>> THEN Head(edited) ELSE None

CorrelatedAllocator(mem) ==
  IF mem.top = None THEN None ELSE SelectCorrelatedMemoryAllocator(mem.top, mem.allocators)

\* growth of the resident set alone is not reported: some part of the heap or
\* of the memory outside it has to grow with it
Slope(series) == IF series = None THEN 0 ELSE series.slope

GrowthFinding(metric, mem) ==
  LET limit == MemoryThresholds.growth
      slope == Slope(mem.series[metric])
  IN IF slope < limit.warn THEN <<>>
     ELSE <<MemoryFinding(<<"memory-growth", metric>>,
              IF metric = "rss" /\ slope >= limit.critical THEN "critical" ELSE "warning",
              CorrelatedAllocator(mem), {<<slope, limit.warn>>})>>

MemoryGrowth(mem) ==
  LET limit == MemoryThresholds.growth
      corroborated == \E part \in {"heapUsed", "external", "arrayBuffers"} :
                        Slope(mem.series[part]) >= limit.warn
  IN IF mem.samples < limit.minSamples \/ mem.duration < limit.minDuration THEN <<>>
     ELSE (IF mem.series["rss"] # None /\ corroborated THEN GrowthFinding("rss", mem) ELSE <<>>)
          \o (IF mem.series["heapUsed"] # None THEN GrowthFinding("heapUsed", mem) ELSE <<>>)

\* A frame that allocates little itself and stands for the same bytes as one
\* already reported is only its caller.
LargeAllocator(mem) ==
  LET limit == MemoryThresholds.large
      Score(a)   == IF a.totalPct > a.selfPct THEN a.totalPct ELSE a.selfPct
      Subtree(a) == <<a.total, a.totalPct>>
      Wrapper(a) == a.total > 0 /\ 20 * a.self < a.total
      Emit(emitted, a) ==
        IF Len(emitted) >= limit.max \/ Score(a) < limit.minTotal
           \/ (Wrapper(a) /\ \E i \in DOMAIN emitted : Subtree(emitted[i]) = Subtree(a))
        THEN emitted ELSE Append(emitted, a)
  IN Mapped(FoldLeft(Emit, <<>>, SelectSeq(mem.allocators, Actionable)),
            LAMBDA a : MemoryFinding(<<"large-allocator", a.id>>,
              IF Score(a) >= limit.critical THEN "critical" ELSE "warning", a,
              {<<a.totalPct, limit.minTotal>>}))

ExternalBufferPressure(mem, hotspots) ==
  LET limit    == MemoryThresholds.external
      heap     == mem.series["heapUsed"]
      external == mem.series["external"]
      lead == FirstThat(hotspots, LAMBDA h : h.cat = "user" /\ h.total > 1, None)
      over(ratio) == external.mean * 10 >= ratio * (IF heap.mean > 1 THEN heap.mean ELSE 1)
  IN IF \/ heap = None \/ external = None \/ mem.series["arrayBuffers"] = None
        \/ external.mean < limit.minMean \/ ~over(limit.warn)
     THEN <<>>
     ELSE <<MemoryFinding(<<"external-buffer-pressure">>,
              IF over(limit.critical) THEN "critical" ELSE "warning",
              IF lead # None THEN lead ELSE CorrelatedAllocator(mem),
              {<<external.mean, limit.minMean>>})>>

\* A frame that is hot in both profiles; when there is none and one runtime
\* frame allocates most of it, the hottest user frame that spends its time in
\* the runtime.
SystemCpuPct(h, hotspots) ==
  LET attributed == SumOf(SelectSeq(hotspots, LAMBDA o : /\ ~Actionable(o)
                            /\ o.caller # None /\ SamePlace(o.caller, h)), LAMBDA o : o.total)
      called == SumOf(SelectSeq(h.callees, LAMBDA c :
                        \E i \in DOMAIN hotspots : hotspots[i].id = c.id
                                                   /\ ~Actionable(hotspots[i])),
                      LAMBDA c : c.pct)
  IN IF attributed > called THEN attributed ELSE called

FindCpuCorrelatedAllocator(hotspots, allocator) ==
  LET limit == MemoryThresholds.hotPath
      able  == SelectSeq(hotspots, LAMBDA h : /\ Actionable(h) /\ h.total >= limit.minCpu
                                              /\ SystemCpuPct(h, hotspots) >= limit.minCpu)
      best  == Descending(able, LAMBDA h : h.total + SystemCpuPct(h, hotspots))
  IN FirstThat(FirstOf(best, 1), LAMBDA h : allocator.totalPct + h.total >= limit.combined, None)

AllocInHotPath(mem, hotspots) ==
  LET limit == MemoryThresholds.hotPath
      usable == SelectSeq(hotspots, Actionable)
      \* of the allocators at one place the last one stands
      At(h)  == FirstThat(Reverse(SelectSeq(mem.allocators, Actionable)),
                          LAMBDA a : SamePlace(a, h), None)
      Both(h) == h.total >= limit.minCpu /\ At(h) # None /\ At(h).totalPct >= limit.minAlloc
      Finding(h, a) == MemoryFinding(<<"alloc-in-hot-path", a.id>>,
        IF h.total + a.totalPct >= limit.combined THEN "critical" ELSE "warning", h,
        {<<a.totalPct, limit.minAlloc>>, <<h.total + a.totalPct, limit.combined>>})
      direct == Mapped(OnePerKey(SelectSeq(usable, Both), LAMBDA h : <<h.file, h.line, h.fn>>),
                       LAMBDA h : Finding(h, At(h)))
      top  == FirstThat(mem.allocators, LAMBDA a : a.totalPct >= limit.minAlloc, None)
      lead == IF top # None /\ ~Actionable(top) /\ top.totalPct >= limit.dominant
              THEN FindCpuCorrelatedAllocator(hotspots, top) ELSE None
  IN IF usable = <<>> THEN <<>>
     ELSE IF direct = <<>> /\ lead # None THEN <<Finding(lead, top)>> ELSE direct
=============================================================================
