----------------------------- MODULE AsyncModel -----------------------------
(* The async section of a report. An operation is a record of the in-target  *)
(* collector: asyncId is its place in the sequence of records, in which a    *)
(* trigger precedes what it triggers; trig 0 stands for a trigger that was   *)
(* not recorded. A frame is [fn, file, line], its file one of a few that the *)
(* code tells apart. Times are milliseconds, ratios pairs of counts.         *)
EXTENDS AsyncLatency, AsyncAttribution

NoFrame == [fn |-> "", file |-> "", line |-> 0]
IoKinds == {"tcp", "udp", "fs", "http", "http2", "tls", "dns", "pipe"}
ReadinessMargin == 50
MaxChains == 25
MaxOrphans == 50
MaxTopOperations == 50
MaxHotFiles == 25
MaxCpuChains == 10

(* Frames -- latency.ts, analysis/frames.ts, cdp-stack.ts *)

IsUserEditableFile(file) == file \notin {"", "node:fs", "node_modules"}
IsInstrumentationFrame(f) == f.file = "preload"

\* the first frame that is not Lanterna's own, or none
FirstUserFrame(frames) == FirstThat(frames, LAMBDA f : ~IsInstrumentationFrame(f), NoFrame)
FirstFrame(frames) == FirstThat(frames, LAMBDA f : TRUE, NoFrame)
UserCallerFromFrame(f) == IF IsInstrumentationFrame(f) THEN NoFrame ELSE f

\* an inspector trace as its segments, root first: frames without a url are left
\* out, and of the parents those that keep no frame
NormalizeCdpTrace(segments) ==
  LET named  == Mapped(segments, LAMBDA s : SelectSeq(s, LAMBDA f : f.file # ""))
      async  == SelectSeq(Tail(named), LAMBDA s : s # <<>>)
  IN [frames |-> named[1] \o FlattenSeq(async), async |-> async]

(* Trigger trees -- analysis/chains.ts *)

RECURSIVE RootFrom(_, _, _)
RootFrom(recs, id, seen) ==
  IF id \in seen \/ recs[id].trig \notin DOMAIN recs THEN id
  ELSE RootFrom(recs, recs[id].trig, seen \cup {id})

RootOf(recs, id) == RootFrom(recs, id, {})

\* the trigger ancestors of an operation, nearest first
RECURSIVE AncestorsFrom(_, _, _)
AncestorsFrom(recs, id, seen) ==
  LET up == recs[id].trig
  IN IF up \notin DOMAIN recs \/ up \in seen THEN <<>>
     ELSE <<up>> \o AncestorsFrom(recs, up, seen \cup {up})

Ancestors(recs, id) == AncestorsFrom(recs, id, {id})
Descendants(recs, id) == {d \in DOMAIN recs : id \in ToSet(Ancestors(recs, d))}

\* how often one named function is on a creation stack
MaxFrameRepeat(stack) ==
  LET named == SelectSeq(stack, LAMBDA f : f.fn \notin {"", "<anonymous>"})
  IN Max({0} \cup {CountOf(named, LAMBDA g : g.fn = f.fn /\ g.file = f.file) : f \in ToSet(named)})

Chain(recs, root) ==
  LET members == {root} \cup Descendants(recs, root)
      depth   == Max({Depth(recs, m) : m \in members}) - 1
  IN [root |-> root, members |-> members, depth |-> depth,
      recursion |-> Max({MaxFrameRepeat(recs[m].stack) : m \in members}),
      duration |-> MapThenSumSet(LAMBDA m : Max({0, recs[m].dur}), members),
      deepest |-> {m \in members : Depth(recs, m) = depth + 1}]

\* trees of more than one operation, the recursive ones before the merely long ones
BuildChains(recs) ==
  LET roots  == SelectSeq([i \in DOMAIN recs |-> i], LAMBDA id : recs[id].trig \notin DOMAIN recs)
      chains == SelectSeq(Mapped(roots, LAMBDA r : Chain(recs, r)), LAMBDA c : Cardinality(c.members) > 1)
  IN FirstOf(SortSeq(chains, LAMBDA l, r :
       \/ l.recursion > r.recursion
       \/ l.recursion = r.recursion /\ l.depth > r.depth
       \/ l.recursion = r.recursion /\ l.depth = r.depth
            /\ Cardinality(l.members) > Cardinality(r.members)), MaxChains)

BuildOrphans(recs, capture) ==
  LET orphans == SelectSeq([i \in DOMAIN recs |-> i], LAMBDA id : recs[id].orphan)
      aged    == Mapped(orphans, LAMBDA id : [id |-> id, age |-> Max({0, capture - recs[id].init})])
  IN FirstOf(Descending(aged, LAMBDA o : o.age), MaxOrphans)

(* The cause of latency -- latency.ts *)

TotalMs(windows) == SumOf(windows, LAMBDA w : Max({0, w.end - w.start}))
OverlapMs(windows, others) ==
  SumOf(windows, LAMBDA w :
    SumOf(others, LAMBDA o : Max({0, Min({w.end, o.end}) - Max({w.start, o.start})})))

StallActiveAtReadiness(stalls, waits, first) ==
  LET ready == IF first # Unset THEN first ELSE Max({0} \cup {w.end : w \in ToSet(waits)})
  IN AnyOf(stalls, LAMBDA s : s.start <= ready /\ ready <= s.end + ReadinessMargin)

DescendantWindows(recs, id) ==
  FlattenSeq(Mapped(SetToSeq(Descendants(recs, id)), LAMBDA d : recs[d].windows))

ClassifyLatencyCause(r, duration, capture, waits, stallWindows, gcWindows, downstream, timed) ==
  LET stalls == MergeWindows(stallWindows)
      total  == TotalMs(waits)
      stall  == OverlapMs(waits, stalls)
      gc     == OverlapMs(waits, MergeWindows(gcWindows))
      down   == OverlapMs(waits, MergeWindows(downstream))
      \* runMs / durationMs >= pct %
      Busy(pct) == duration > 0 /\ 100 * r.run >= pct * duration
      Result(cause, confidence, basis) == [cause |-> cause, confidence |-> confidence, basis |-> basis]
  IN IF r.run = 0 /\ 10 * duration >= 9 * capture THEN Result("background", "high", "long-lived")
     ELSE IF r.count > 1 /\ 10 * duration >= 8 * capture /\ ~Busy(60)
       THEN Result("background", "high", "long-lived-multiplexed")
     ELSE IF Busy(60) THEN Result("cpu-bound", IF Busy(80) THEN "high" ELSE "medium", "cpu-ratio")
     ELSE IF total = 0 THEN Result("unknown", "low", "none")
     ELSE IF 2 * stall >= total /\ StallActiveAtReadiness(stalls, waits, r.first)
       THEN Result("event-loop-blocked", ScoreConfidence(stall, Max({gc, down}), total), "event-loop-stall")
     ELSE IF 2 * gc >= total /\ gc >= down THEN Result("gc-pause", ScoreConfidence(gc, down, total), "gc")
     ELSE IF 2 * down >= total
       THEN Result("downstream-async", ScoreConfidence(down, gc, total), "downstream-async")
     ELSE IF r.kind \in IoKinds THEN Result("io-wait", "medium", "io-kind")
     ELSE Result("unknown", "low", IF timed THEN "none" ELSE "no-eventloop-signal")

\* the whole judgement of one operation of a capture: [stalls, gcs, timed, duration]
LatencyOf(recs, id, capture) ==
  LET r        == recs[id]
      duration == EffectiveDuration(r, capture.duration)
      waits    == WaitWindows(r, r.init + duration)
  IN ClassifyLatencyCause(r, duration, capture.duration, waits, capture.stalls, capture.gcs,
                          DescendantWindows(recs, id), capture.timed)

ByKindLatency(recs, capture, kind) ==
  LET own    == SelectSeq(recs, LAMBDA r : r.kind = kind)
      sorted == Ascending(Mapped(own, LAMBDA r : Max({0, EffectiveEnd(r, capture) - r.init})), LAMBDA d : d)
  IN [count |-> Len(own), p50 |-> Percentile(sorted, 1, 2), p95 |-> Percentile(sorted, 95, 100),
      max |-> Max({0} \cup ToSet(sorted)),
      waitSum |-> SumOf(own, LAMBDA r : WaitMs(r, EffectiveEnd(r, capture)))]

\* its own frame, else the nearest one of a trigger, else where it was seen executing,
\* else what the inspector saw
ResolveAttributedFrame(recs, id) ==
  LET Editable(n) == SelectSeq(recs[n].stack, LAMBDA f : IsUserEditableFile(f.file))
      inherited   == SelectSeq(Ancestors(recs, id), LAMBDA a : Editable(a) # <<>>)
      Found(frame, origin) == [frame |-> frame, origin |-> origin]
  IN IF Editable(id) # <<>> THEN Found(Editable(id)[1], "self")
     ELSE IF inherited # <<>> THEN Found(Editable(inherited[1])[1], "inherited-trigger")
     ELSE IF recs[id].execution # NoFrame THEN Found(recs[id].execution, "cpu-window")
     ELSE IF FirstFrame(recs[id].cdp) # NoFrame THEN Found(FirstFrame(recs[id].cdp), "cdp")
     ELSE Found(NoFrame, Absent)

(* Inspector traces matched to operations -- analysis/top-operations.ts *)

SameFrameFile(f, g) == f.file = g.file /\ f.line - g.line \in -2..2

ScoreCdpMatch(r, context) ==
  LET end    == IF r.dur # Unset THEN r.init + r.dur ELSE r.init
      frame  == FirstFrame(context.frames)
      at     == context.at
      inside == at # Unset /\ at >= r.init /\ at <= end + 25
      near   == at # Unset /\ (at - r.init \in -25..25 \/ at - end \in -25..25)
      shares == frame # NoFrame /\ AnyOf(r.stack \o r.stacks, LAMBDA f : SameFrameFile(f, frame))
  IN (IF inside THEN 40 ELSE 0) + (IF near THEN 20 ELSE 0) + (IF shares THEN 40 ELSE 0)
       + (IF r.kind = "promise" /\ context.async # <<>> THEN 10 ELSE 0)

\* a context goes to the first best match; one that is there gives way to a strong match only
CorrelateCdpContexts(recs, contexts) ==
  FoldLeft(LAMBDA rs, context :
    LET scores == Mapped(rs, LAMBDA r : ScoreCdpMatch(r, context))
        best   == Max({0} \cup ToSet(scores))
        winner == Min({i \in DOMAIN rs : scores[i] = best})
    IN IF best > 0 /\ (rs[winner].cdp = <<>> \/ best >= 60)
       THEN [rs EXCEPT ![winner].cdp = context.frames] ELSE rs,
    recs, contexts)

(* CPU samples and run windows -- analysis/cpu-attribution.ts *)

ExecutionConfidence(attributed, ambiguous) ==
  LET n == attributed + ambiguous
  IN IF n = 0 \/ 10 * ambiguous < n THEN "high"
     ELSE IF 100 * ambiguous < 33 * n THEN "medium" ELSE "low"

\* taken: the samples that found an owner
Attribute(recs, samples) ==
  LET times    == [i \in DOMAIN samples |-> samples[i].at]
      running  == Running(recs, times)
      owners   == Owners(recs, times)
      taken    == SelectSeq([i \in DOMAIN samples |-> i], LAMBDA i : owners[i] # Nobody)
      unsure   == CountOf([i \in DOMAIN samples |-> i], LAMBDA i : running[i] # {} /\ owners[i] = Nobody)
      ChainOf(i) == RootOf(recs, owners[i])
      Within(root) == SelectSeq(taken, LAMBDA i : ChainOf(i) = root)
      Frames(root) == Descending(KeysOf(SelectSeq(Within(root), LAMBDA i : samples[i].frame # NoFrame),
                                        LAMBDA i : samples[i].frame),
                                 LAMBDA f : CountOf(Within(root), LAMBDA i : samples[i].frame = f))
      Entry(root) == [root |-> root, samples |-> Len(Within(root)),
                      contributing |-> {owners[i] : i \in ToSet(Within(root))},
                      rootFrame |-> FirstUserFrame(recs[root].stack),
                      execution |-> FirstUserFrame(Frames(root))]
  IN [available |-> samples # <<>> /\ RunWindows(recs) # {},
      samples |-> Len(samples), attributed |-> Len(taken),
      ambiguous |-> unsure, confidence |-> ExecutionConfidence(Len(taken), unsure),
      chains |-> FirstOf(Descending(Mapped(KeysOf(taken, ChainOf), Entry), LAMBDA e : e.samples), MaxCpuChains)]

\* the roots remember where their chain was seen executing
WithExecution(recs, attribution) ==
  FoldLeft(LAMBDA rs, e : IF e.execution = NoFrame THEN rs ELSE [rs EXCEPT ![e.root].execution = e.execution],
           recs, attribution.chains)

(* The operations that are reported -- analysis/top-operations.ts *)

\* frames: the first frame of each stack the instrumentation kept, by its kind
PrimaryFrame(r) ==
  FirstThat(<<r.frames.await, r.execution, r.frames.handler, FirstUserFrame(r.stack), r.frames.safeHandler,
              r.frames.safeRegistration, r.frames.registration, FirstFrame(r.cdp)>>,
            LAMBDA f : f # NoFrame, NoFrame)

PrimaryReason(r) ==
  IF r.frames.await # NoFrame THEN "await"
  ELSE IF r.execution # NoFrame THEN "execution"
  ELSE IF r.frames.handler # NoFrame THEN "promise-handler"
  ELSE IF FirstUserFrame(r.stack) # NoFrame THEN "creation"
  ELSE IF FirstFrame(r.cdp) # NoFrame THEN "cdp-async-context" ELSE "creation"

\* callers: the user caller each chain root was given by the CPU samples, or NoFrame
OperationCaller(recs, id, callers) ==
  LET attributed == ResolveAttributedFrame(recs, id)
  IN IF callers[RootOf(recs, id)] # NoFrame THEN callers[RootOf(recs, id)]
     ELSE IF attributed.origin = "inherited-trigger" THEN UserCallerFromFrame(attributed.frame)
     ELSE UserCallerFromFrame(PrimaryFrame(recs[id]))

ChainCallers(recs, attribution) ==
  [id \in DOMAIN recs |->
     LET e == FirstThat(attribution.chains, LAMBDA c : c.root = id,
                        [execution |-> NoFrame, rootFrame |-> NoFrame])
     IN UserCallerFromFrame(IF e.execution # NoFrame THEN e.execution ELSE e.rootFrame)]

TopOperations(recs, capture, attribution) ==
  LET traced  == WithExecution(recs, attribution)
      callers == ChainCallers(recs, attribution)
      Duration(id) == EffectiveDuration(recs[id], capture.duration)
      ids == SelectSeq([i \in DOMAIN recs |-> i], LAMBDA id : ~recs[id].orphan /\ Duration(id) > 0)
  IN Mapped(FirstOf(Descending(ids, Duration), MaxTopOperations), LAMBDA id :
       [id |-> id, duration |-> Duration(id), wait |-> WaitMs(recs[id], recs[id].init + Duration(id)),
        delay |-> ScheduleDelay(recs[id]),
        cause |-> LatencyOf(recs, id, capture), primary |-> PrimaryFrame(traced[id]),
        reason |-> PrimaryReason(traced[id]), origin |-> ResolveAttributedFrame(traced, id).origin,
        caller |-> OperationCaller(traced, id, callers)])

(* Files, quality and summary -- hot-files.ts, quality.ts, summary.ts *)

\* cpuPct as the samples of the chains whose root frame is in the file, out of n
HotFiles(recs, capture, attribution, confidence) ==
  LET located == SelectSeq([i \in DOMAIN recs |-> i], LAMBDA id : FirstUserFrame(recs[id].stack) # NoFrame)
      FileOf(id) == FirstUserFrame(recs[id].stack).file
      Own(file)  == SelectSeq(located, LAMBDA id : FileOf(id) = file)
      Cpu(file)  == SumOf(SelectSeq(attribution.chains, LAMBDA e : e.rootFrame.file = file),
                          LAMBDA e : e.samples)
      n == Max({1, attribution.samples})
      Entry(file) ==
        [file |-> file, count |-> Len(Own(file)),
         duration |-> SumOf(Own(file), LAMBDA id : EffectiveDuration(recs[id], capture)),
         orphans |-> CountOf(Own(file), LAMBDA id : recs[id].orphan),
         oldest |-> Max({0} \cup {capture - recs[id].init : id \in {i \in ToSet(Own(file)) : recs[i].orphan}}),
         depth |-> Max({Depth(recs, id) : id \in ToSet(Own(file))}),
         run |-> SumOf(Own(file), LAMBDA id : recs[id].run), cpu |-> Cpu(file),
         confidence |-> IF confidence \in {"low", "high"} THEN confidence ELSE "medium"]
      Score(f) == n * (f.duration + f.run + 100 * f.orphans + 10 * f.depth) + 500 * f.cpu
  IN FirstOf(SortSeq(Mapped(KeysOf(located, FileOf), Entry), LAMBDA l, r :
       \/ Score(l) > Score(r)
       \/ Score(l) = Score(r) /\ l.count > r.count), MaxHotFiles)

\* data: [dropped, via, partial, transformPartial]
AsyncConfidence(recs, data, attribution) ==
  LET n       == Len(recs)
      stacked == CountOf(recs, LAMBDA r : r.stack # <<>>)
      whole   == n > 0 /\ data.dropped = 0 /\ data.via = "async-hooks"
  IN IF data.partial \/ data.transformPartial
          \/ 2 * attribution.ambiguous > attribution.attributed + attribution.ambiguous THEN "low"
     ELSE IF whole /\ 100 * stacked >= 99 * n THEN "high"
     ELSE IF whole /\ 2 * stacked >= n THEN "medium" ELSE "low"

QualityReport(recs, data, attribution, timed) ==
  LET n == Len(recs)
      origins == [id \in DOMAIN recs |-> ResolveAttributedFrame(recs, id).origin]
      stacked == CountOf(recs, LAMBDA r : r.stack # <<>>)
  IN [confidence |-> AsyncConfidence(recs, data, attribution),
      stacked |-> stacked, located |-> CountOf(origins, LAMBDA o : o \in {"self", "inherited-trigger"}),
      reasons |-> (IF n = 0 THEN {"no operations"} ELSE {})
        \cup (IF stacked < n THEN {"stacks missing"} ELSE {})
        \cup (IF data.dropped > 0 THEN {"records dropped"} ELSE {})
        \cup (IF data.via # "async-hooks" THEN {"no async hooks"} ELSE {})
        \cup (IF data.partial THEN {"attached late"} ELSE {})
        \cup (IF n > 0 /\ ~timed THEN {"no event loop signal"} ELSE {})
        \cup (IF attribution.ambiguous > 0 THEN {"ambiguous samples"} ELSE {})
        \cup (IF data.transformPartial THEN {"partly transformed"} ELSE {})]

\* the summary's own percentile: Math.floor(n p / 100), from 0
FlooredPercentile(sorted, p) ==
  IF sorted = <<>> THEN 0 ELSE sorted[Min({Len(sorted), (Len(sorted) * p) \div 100 + 1})]

AsyncSummary(recs, hotFiles, capture) ==
  LET durations == Ascending(SelectSeq(Mapped(recs, LAMBDA r : r.dur), LAMBDA d : d # Unset), LAMBDA d : d)
      settled   == SelectSeq(recs, LAMBDA r : ~r.orphan)
  IN [operations |-> Len(recs), orphans |-> CountOf(recs, LAMBDA r : r.orphan),
      p50 |-> FlooredPercentile(durations, 50), p99 |-> FlooredPercentile(durations, 99),
      topFile |-> IF hotFiles = <<>> THEN Absent ELSE hotFiles[1].file,
      byKind |-> [k \in {recs[i].kind : i \in DOMAIN recs} |-> CountOf(recs, LAMBDA r : r.kind = k)],
      latency |-> [k \in {settled[i].kind : i \in DOMAIN settled} |-> ByKindLatency(settled, capture, k)]]

(* analysis.ts: contexts first, then operations, chains, orphans, quality, files, summary *)
AsyncSection(matched, cpu, data, capture) ==
  LET recs    == WithExecution(matched, cpu)
      quality == QualityReport(recs, data, cpu, capture.timed)
      files   == HotFiles(recs, capture.duration, cpu, quality.confidence)
  IN [cpu |-> cpu, operations |-> TopOperations(matched, capture, cpu), chains |-> BuildChains(recs),
      orphans |-> BuildOrphans(recs, capture.duration), quality |-> quality, files |-> files,
      summary |-> AsyncSummary(recs, files, capture.duration)]

AttributedSection(matched, samples, data, capture) ==
  AsyncSection(matched, Attribute(matched, samples), data, capture)
AnalyzeAsync(records, contexts, samples, data, capture) ==
  AttributedSection(CorrelateCdpContexts(records, contexts), samples, data, capture)
=============================================================================
