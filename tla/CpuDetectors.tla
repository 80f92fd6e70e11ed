---------------------------- MODULE CpuDetectors ----------------------------
(* The detectors of the CPU kind, packages/detectors/src: what the hotspots   *)
(* of a profile turn into findings. Percentages are in tenths of a percent.   *)
(* A hotspot is [id, file, line, fn, source, cat, package, self, total]; fn   *)
(* is the name without its optimisation prefix, and where it is that of an    *)
(* API the detectors look for, the name of the API. A caller is the same      *)
(* frame with the confidence of its attribution. The view of the kind is      *)
(*   [hotspots, shown, callers, candidates, text, stalls, gc, loop, deopts,   *)
(*    deep]                                                                   *)
(* where text has the readable source files, each a sequence of lines         *)
(* [calls, braces]: the APIs a line names before a parenthesis, and its       *)
(* braces in order, 1 and -1. Nothing stands for undefined.                   *)
EXTENDS JsArrays

Nothing == <<>>
OrElse(value, otherwise) == IF value # Nothing THEN value ELSE otherwise
Larger(a, b) == IF a > b THEN a ELSE b

FileApis   == {"fs.readFileSync", "fs.writeFileSync", "fs.statSync", "fs.existsSync",
               "fs.readdirSync", "child_process.execSync", "child_process.execFileSync",
               "child_process.spawnSync"}
ZlibApis   == {"zlib.gzipSync", "zlib.gunzipSync", "zlib.deflateSync", "zlib.inflateSync"}
CryptoApis == {"crypto.pbkdf2Sync", "crypto.scryptSync", "crypto.randomBytesSync"}
JsonApis   == {"JSON.parse", "JSON.stringify"}

DetectorThresholds ==
  [blockingIo |-> [minSelf |-> 5, minTotal |-> 10, critical |-> 100, category |-> 30],
   syncCrypto |-> [minSelf |-> 0, minTotal |-> 10, critical |-> 100, category |-> 30],
   json       |-> [minTotal |-> 30, critical |-> 120, category |-> 60],
   dependency |-> [minSelf |-> 30, minTotal |-> 150, critical |-> 350],
   require    |-> [minSelf |-> 5, minTotal |-> 10, warningSelf |-> 30],
   cpuHotspot |-> [minSelf |-> 100, minTotal |-> 250, critical |-> 400, max |-> 3],
   deopt      |-> [minCount |-> 3, critical |-> 10],
   gc         |-> [ratio |-> 100, pause |-> 100, ratioCritical |-> 250,
                   pauseCritical |-> 250, minDuration |-> 250, minSamples |-> 100,
                   minOnCpu |-> 50],
   stall      |-> [p99 |-> 100, max |-> 200, p99Low |-> 200, maxLow |-> 400,
                   critical |-> 500, overlap |-> 600]]

-----------------------------------------------------------------------------
(* Shared: matching, attribution to a caller, the text of the source.        *)

IsBuiltinRuntime(h) == h.cat \in {"node:builtin", "native"}
SameFrame(a, b) == a.file = b.file /\ a.line = b.line /\ a.fn = b.fn
SameSource(a, b) ==
  /\ a # Nothing /\ b # Nothing
  /\ a.file = b.file /\ a.line = b.line
  /\ a.name = "" \/ b.name = "" \/ a.name = b.name

FamilyTotal(hotspots, apis) ==
  SumOf(Filtered(hotspots, LAMBDA h : IsBuiltinRuntime(h) /\ h.fn \in apis),
        LAMBDA h : h.total)

\* the source of a frame: its mapped file if that can be read, or its own
SourceText(frame, text) ==
  LET mapped == IF frame.source = Nothing THEN <<>> ELSE <<frame.source.file>>
      file   == FirstThat(mapped \o <<frame.file>>, LAMBDA f : f \in DOMAIN text, "")
  IN IF file = "" THEN Nothing ELSE text[file]

AnchorLine(frame) == IF frame.source = Nothing THEN frame.line ELSE frame.source.line

LineNearAnchor(lines, anchor, api) ==
  IF anchor \notin DOMAIN lines THEN {}
  ELSE {n \in DOMAIN lines : n - anchor \in -2..2 /\ api \in lines[n].calls}

\* the braces from line a to line b have opened a block and closed it
BlockClosed(lines, a, b) ==
  LET braces == FoldLeft(LAMBDA all, n : all \o lines[n].braces, <<>>,
                         [i \in 1..(b - a + 1) |-> a + i - 1])
  IN \E k \in DOMAIN braces :
       /\ braces[k] = -1 /\ SumOf(SubSeq(braces, 1, k), LAMBDA d : d) <= 0
       /\ \E j \in 1..k : braces[j] = 1

LineInFunctionBlock(lines, anchor, api) ==
  {n \in DOMAIN lines :
     /\ n > anchor /\ anchor > 0 /\ api \in lines[n].calls
     /\ \E m \in anchor..(n - 1) : 1 \in ToSet(lines[m].braces)
     /\ ~BlockClosed(lines, anchor, n - 1)}

\* the line of the call, which takes the place of the line of the function
FirstLine(near, block) ==
  CASE near # {} -> Min(near) [] near = {} /\ block # {} -> Min(block) [] OTHER -> 0
CallLine(lines, anchor, api) ==
  FirstLine(LineNearAnchor(lines, anchor, api), LineInFunctionBlock(lines, anchor, api))
AtLine(caller, line) ==
  IF line = 0 THEN Nothing
  ELSE [caller EXCEPT !.line = line, !.source = IF @ = Nothing THEN @ ELSE [@ EXCEPT !.line = line]]

PickPrimaryCallerBySource(candidates, text, api) ==
  FirstThat(Mapped(candidates,
                   LAMBDA c : AtLine(c, CallLine(SourceText(c, text), AnchorLine(c), api))),
            LAMBDA c : c # Nothing, Nothing)

SelfCaller(h) ==
  [file |-> h.file, line |-> h.line, fn |-> h.fn, source |-> h.source, confidence |-> "high"]

FindStallCorrelation(caller, stalls) ==
  IF caller = Nothing THEN Nothing
  ELSE FirstThat(stalls, LAMBDA s : SameFrame(s, caller), Nothing)

\* The finding about h, told as [id, category, severity, pairs]: it shows the
\* caller whose source has the call, else the attributed one if that is
\* certain, else the hotspot.
AttributedFinding(h, cpu, told, bySource, attribution, fallback) ==
  LET certain  == IF attribution # Nothing /\ attribution.confidence = "high"
                  THEN attribution ELSE Nothing
      evidence == OrElse(OrElse(bySource, attribution), fallback)
      shown    == OrElse(OrElse(bySource, certain),
                         IF fallback # Nothing THEN evidence ELSE Nothing)
      frame    == OrElse(shown, h)
  IN [id |-> told.id, category |-> told.category, severity |-> told.severity, hotspot |-> h.id,
      file |-> frame.file, line |-> frame.line, fn |-> frame.fn,
      source |-> OrElse(IF shown = Nothing THEN Nothing ELSE shown.source, h.source),
      self |-> h.total, caller |-> evidence,
      candidates |-> IF cpu.candidates[h.id] # <<>> THEN cpu.candidates[h.id]
                     ELSE IF evidence # Nothing THEN <<evidence>> ELSE <<>>,
      attribution |-> IF evidence = Nothing THEN "low" ELSE evidence.confidence,
      correlation |-> FindStallCorrelation(OrElse(OrElse(bySource, certain), attribution),
                                           cpu.stalls),
      pairs |-> told.pairs]

AssembleAttributedFinding(h, cpu, told, api, userSelf) ==
  AttributedFinding(h, cpu, told, PickPrimaryCallerBySource(cpu.candidates[h.id], cpu.text, api),
                    cpu.callers[h.id],
                    IF userSelf /\ h.cat = "user" THEN SelfCaller(h) ELSE Nothing)

Told(id, category, severity, pairs) ==
  [id |-> id, category |-> category, severity |-> severity, pairs |-> pairs]

SeverityForPct(observed, critical) == IF observed > critical THEN "critical" ELSE "warning"

-----------------------------------------------------------------------------
(* The detectors that look for a family of APIs.                             *)

ZlibChunk(h) == h.fn = "processChunkSync" /\ h.file = "node:zlib"

\* which zlib API the sampled worker function stands for: the first that a
\* caller's source names, or gzipSync
ZlibCalls(lines) == {call \in (DOMAIN lines) \X ZlibApis : call[2] \in lines[call[1]].calls}
FirstApi(calls) ==
  IF calls = {} THEN "zlib.gzipSync"
  ELSE (CHOOSE first \in calls : \A other \in calls : first[1] <= other[1])[2]
InferZlibSyncApi(h, cpu) ==
  LET callers == (IF cpu.callers[h.id] = Nothing THEN <<>> ELSE <<cpu.callers[h.id]>>)
                 \o cpu.candidates[h.id]
  IN FirstApi(FirstThat(Mapped(callers, LAMBDA c : ZlibCalls(SourceText(c, cpu.text))),
                        LAMBDA calls : calls # {}, {}))

BlockingIo(cpu) ==
  LET limit  == DetectorThresholds.blockingIo
      family == FamilyTotal(cpu.hotspots, FileApis \cup ZlibApis)
                + SumOf(Filtered(cpu.hotspots, ZlibChunk), LAMBDA h : h.total)
      Hit(h) == /\ IsBuiltinRuntime(h) /\ (h.fn \in FileApis \cup ZlibApis \/ ZlibChunk(h))
                /\ h.self >= limit.minSelf \/ h.total >= limit.minTotal
                   \/ family >= limit.category
      Finding(h, api) == AssembleAttributedFinding(h, cpu, Told(<<"blocking-io", api>>, "blocking-io",
        SeverityForPct(Larger(h.self, h.total), limit.critical),
        {<<family, limit.category>>, <<h.total, limit.minTotal>>, <<h.self, limit.minSelf>>}), api, FALSE)
  IN Mapped(Filtered(cpu.hotspots, Hit),
            LAMBDA h : Finding(h, IF ZlibChunk(h) THEN InferZlibSyncApi(h, cpu) ELSE h.fn))

\* every finding of this detector has the same id
SyncCrypto(cpu) ==
  LET limit  == DetectorThresholds.syncCrypto
      family == FamilyTotal(cpu.hotspots, CryptoApis)
      Hit(h) == /\ IsBuiltinRuntime(h) /\ h.fn \in CryptoApis
                /\ h.total >= limit.minTotal \/ family >= limit.category
      Finding(h) == AssembleAttributedFinding(h, cpu, Told(<<"sync-crypto-on-hot-path">>,
        "sync-crypto", SeverityForPct(h.total, limit.critical),
        {<<family, limit.category>>, <<h.total, limit.minTotal>>}), h.fn, FALSE)
  IN Mapped(Filtered(cpu.hotspots, Hit), Finding)

\* the JSON API a user frame has near its line, stringify before parse
CallsAround(lines, line) ==
  IF line \notin DOMAIN lines THEN {}
  ELSE UNION {lines[n].calls : n \in {m \in DOMAIN lines : m - line \in -3..3}}
JsonApiOf(calls) ==
  CASE "JSON.stringify" \in calls -> "JSON.stringify"
    [] "JSON.stringify" \notin calls /\ "JSON.parse" \in calls -> "JSON.parse"
    [] OTHER -> ""
InlinedJsonApi(h, cpu) == JsonApiOf(CallsAround(SourceText(h, cpu.text), h.line))

\* the calls that were sampled, then the user frames V8 inlined one into; of
\* each API the first
JsonOnHotPath(cpu) ==
  LET limit   == DetectorThresholds.json
      family  == FamilyTotal(cpu.hotspots, JsonApis)
      Heavy(h) == h.total >= limit.minTotal \/ family >= limit.category
      Called(h)  == h.fn \in JsonApis /\ IsBuiltinRuntime(h) /\ Heavy(h)
      Inlined(h) == /\ h.cat = "user" /\ Heavy(h)
                    /\ h.self >= limit.minTotal /\ 2 * h.self >= h.total
                    /\ InlinedJsonApi(h, cpu) # ""
      Finding(h, api) == AssembleAttributedFinding(h, cpu, Told(<<"json-on-hot-path", api>>,
        "json-on-hot-path", IF h.total >= limit.critical THEN "critical" ELSE "warning",
        {<<family, limit.category>>, <<h.total, limit.minTotal>>}), api, TRUE)
  IN OnePerKey(Mapped(Filtered(cpu.hotspots, Called) \o Filtered(cpu.hotspots, Inlined),
                      LAMBDA h : Finding(h, IF h.cat = "user" THEN InlinedJsonApi(h, cpu) ELSE h.fn)),
               LAMBDA f : f.id)

RequireInHotPath(cpu) ==
  LET limit  == DetectorThresholds.require
      Hit(h) == /\ h.fn = "require" /\ h.cat \in {"node:builtin", "node_modules"}
                /\ h.self >= limit.minSelf \/ h.total >= limit.minTotal
      Finding(h) == [AssembleAttributedFinding(h, cpu, Told(<<"require-in-hot-path">>,
        "require-in-hot-path", IF h.self > limit.warningSelf THEN "warning" ELSE "info",
        {<<h.total, limit.minTotal>>, <<h.self, limit.minSelf>>}), "require", FALSE)
        EXCEPT !.self = h.self]
  IN Mapped(Filtered(cpu.hotspots, Hit), Finding)

\* by total, then by self: the order of a stable sort by self and then by total
ByTotal(hotspots) ==
  Descending(Descending(hotspots, LAMBDA h : h.self), LAMBDA h : h.total)
BySelf(hotspots) ==
  Descending(Descending(hotspots, LAMBDA h : h.total), LAMBDA h : h.self)

\* only the heaviest frame of a dependency is reported
NodeModulesHotspot(cpu) ==
  LET limit  == DetectorThresholds.dependency
      Hit(h) == /\ h.cat = "node_modules" /\ h.package # ""
                /\ h.self >= limit.minSelf \/ h.total >= limit.minTotal
      Finding(h) == AssembleAttributedFinding(h, cpu, Told(<<"node-modules-hotspot", h.package>>,
        "node-modules-hotspot", IF h.total >= limit.critical THEN "critical" ELSE "warning",
        {<<h.total, limit.minTotal>>, <<h.self, limit.minSelf>>}), h.fn, FALSE)
  IN Mapped(FirstOf(ByTotal(Filtered(cpu.hotspots, Hit)), 1), Finding)

-----------------------------------------------------------------------------
(* The detectors that read the report.                                       *)

Plain(id, category, severity, at, self, attribution, pairs) ==
  [id |-> id, category |-> category, severity |-> severity, hotspot |-> 0,
   file |-> at.file, line |-> at.line, fn |-> at.fn, source |-> at.source, self |-> self,
   caller |-> Nothing, candidates |-> <<>>, attribution |-> attribution,
   correlation |-> Nothing, pairs |-> pairs]
Process == [file |-> "(process)", line |-> 0, fn |-> "(aggregate)", source |-> Nothing,
            self |-> 0, total |-> 0, sample |-> 0]

\* the report keeps the first hotspots of the view, and shows a frame at the
\* place its source map gives it
Reported(cpu) == FirstOf(cpu.hotspots, cpu.shown)
SourcePlace(h) ==
  IF h.source = Nothing THEN h
  ELSE [h EXCEPT !.file = h.source.file, !.line = h.source.line,
                 !.fn = IF h.source.name = "" THEN @ ELSE h.source.name]

ExcessiveGc(cpu) ==
  LET limit == DetectorThresholds.gc
      gc    == cpu.gc
      ratio == gc.ratio > limit.ratio /\ gc.onCpu >= limit.minOnCpu
      long  == gc.longest > limit.pause
      timed == gc.events > 0 \/ gc.pauses > 0
      enough == gc.duration >= limit.minDuration /\ gc.samples >= limit.minSamples
      lead  == FirstThat(Reported(cpu), LAMBDA h : h.cat = "user" /\ h.total > 10, Process)
      frame == IF gc.correlated # <<>> THEN Head(gc.correlated) ELSE lead
      share == IF gc.correlated # <<>> THEN Head(gc.correlated).sample ELSE lead.total
  IN IF ~(long \/ (ratio /\ (timed \/ enough))) THEN <<>>
     ELSE <<Plain(<<"excessive-gc">>, "excessive-gc",
                  IF gc.ratio > limit.ratioCritical \/ gc.longest > limit.pauseCritical
                  THEN "critical" ELSE "warning", frame, share, "medium",
                  {<<gc.longest, limit.pause>>, <<gc.ratio, limit.ratio>>})>>

FallbackUserHotspots(hotspots) ==
  FirstOf(BySelf(Filtered(hotspots, LAMBDA h : h.cat = "user"
                                               /\ (h.self >= 100 \/ h.total >= 250))), 3)

EventLoopStall(cpu) ==
  LET limit == DetectorThresholds.stall
      loop  == cpu.loop
      low   == loop.confidence = "low"
      p99   == IF low THEN limit.p99Low ELSE limit.p99
      max   == IF low THEN limit.maxLow ELSE limit.max
      strong == /\ loop.basis \in {"heartbeats", "both"} /\ loop.confidence = "high"
                /\ cpu.stalls # <<>> /\ Head(cpu.stalls).overlap >= limit.overlap
      lead  == FallbackUserHotspots(Reported(cpu))
      frame == CASE strong -> Head(cpu.stalls)
                 [] ~strong /\ lead # <<>> -> SourcePlace(Head(lead))
                 [] OTHER -> Process
  IN IF ~loop.available \/ (loop.p99 < p99 /\ loop.max < max) THEN <<>>
     ELSE <<Plain(<<"event-loop-stall">>, "event-loop-stall",
                  IF loop.max > limit.critical THEN "critical" ELSE "warning", frame,
                  IF strong THEN frame.sample ELSE frame.self, loop.confidence, {<<loop.p99, p99>>, <<loop.max, max>>})>>

\* A deoptimisation without a place takes the one hot user frame of its name,
\* and one without a name the one place the others agree on.
UniqueUserHotspot(fn, hotspots) ==
  LET found == Filtered(hotspots, LAMBDA h : h.fn = fn /\ h.cat = "user" /\ h.total > 10)
  IN IF Len(found) = 1 THEN found[1] ELSE Nothing

HasPlace(d) == d.file # "" /\ d.line > 0
AtHotspot(d, h) == [d EXCEPT !.fn = h.fn, !.file = h.file, !.line = h.line]

InferUnknownDeoptHotspot(deopts, hotspots) ==
  LET known == {UniqueUserHotspot(d.fn, hotspots) :
                  d \in {e \in ToSet(deopts) : e.fn # "unknown"}} \ {Nothing}
  IN IF ~AnyOf(deopts, LAMBDA d : d.fn = "unknown" /\ ~HasPlace(d)) \/ Cardinality(known) # 1
     THEN Nothing ELSE CHOOSE h \in known : TRUE

EnrichDeopt(d, deopts, hotspots) ==
  LET near == FirstThat(hotspots, LAMBDA h : /\ h.cat = "user" /\ h.total > 10
                          /\ h.file = d.file /\ h.line - d.line \in -1..1, Nothing)
      h == CASE d.fn # "unknown" /\ HasPlace(d)  -> Nothing
             [] d.fn # "unknown" /\ ~HasPlace(d) -> UniqueUserHotspot(d.fn, hotspots)
             [] d.fn = "unknown" /\ HasPlace(d)  -> near
             [] d.fn = "unknown" /\ ~HasPlace(d) -> InferUnknownDeoptHotspot(deopts, hotspots)
  IN IF h = Nothing THEN d ELSE AtHotspot(d, h)

DeoptKey(d) == IF HasPlace(d) THEN <<d.fn, d.file, d.line>> ELSE <<d.fn>>

AggregateDeopts(deopts, hotspots) ==
  LET placed == Mapped(deopts, LAMBDA d : EnrichDeopt(d, deopts, hotspots))
      Count(key) == SumOf(Filtered(placed, LAMBDA d : DeoptKey(d) = key), LAMBDA d : d.count)
  IN Descending(Mapped(OnePerKey(placed, DeoptKey),
                       LAMBDA d : [d EXCEPT !.count = Count(DeoptKey(d))]),
                LAMBDA d : d.count)

FindHotDeoptHotspot(d, hotspots) ==
  IF ~HasPlace(d) THEN UniqueUserHotspot(d.fn, hotspots)
  ELSE FirstThat(hotspots, LAMBDA h : /\ h.fn = d.fn /\ h.file = d.file /\ h.total > 10
                                      /\ h.line - d.line \in -1..1, Nothing)

DeoptLoop(cpu) ==
  LET limit == DetectorThresholds.deopt
      Hit(d) == /\ d.count >= limit.minCount
                /\ FindHotDeoptHotspot(d, cpu.hotspots) # Nothing
      Finding(d) ==
        LET h == FindHotDeoptHotspot(d, cpu.hotspots)
        IN Plain(<<"deopt-loop", d.fn>>, "deopt-loop",
                 IF d.count >= limit.critical THEN "critical" ELSE "warning",
                 [file |-> IF d.file # "" THEN d.file ELSE h.file,
                  line |-> IF d.line # 0 THEN d.line ELSE h.line,
                  fn |-> d.fn, source |-> h.source], 0, "medium", {<<d.count, limit.minCount>>})
  IN IF ~cpu.deep THEN <<>>
     ELSE Mapped(Filtered(AggregateDeopts(cpu.deopts, cpu.hotspots), Hit), Finding)

-----------------------------------------------------------------------------
(* What no detector has explained is reported as it is.                      *)

SpecificCategories == {"blocking-io", "sync-crypto", "json-on-hot-path",
                       "node-modules-hotspot", "require-in-hot-path"}

ExplainedBy(h, finding) ==
  /\ finding.category \in SpecificCategories
  /\ \/ SameFrame(finding, h)
     \/ SameSource(finding.source, h.source)
     \/ finding.caller # Nothing /\ SameFrame(finding.caller, h)
     \/ \E i \in DOMAIN finding.candidates : SameFrame(finding.candidates[i], h)

Unexplained(cpu, findings) ==
  LET limit == DetectorThresholds.cpuHotspot
  IN {i \in DOMAIN Reported(cpu) :
        LET h == Reported(cpu)[i]
        IN /\ h.cat = "user" /\ (h.self >= limit.minSelf \/ h.total >= limit.minTotal)
           /\ ~\E f \in ToSet(findings) : ExplainedBy(h, f)}

\* frames that are hot by themselves, or all when there is none
Hottest(open) ==
  LET limit == DetectorThresholds.cpuHotspot
      selfs == Filtered(open, LAMBDA h : h.self >= limit.minSelf)
  IN FirstOf(IF selfs # <<>> THEN selfs ELSE open, limit.max)

CpuHotspot(cpu, findings) ==
  LET limit == DetectorThresholds.cpuHotspot
      Finding(h) == [Plain(<<"cpu-hotspot", h.id>>, "cpu-hotspot",
        IF Larger(h.self, h.total) >= limit.critical THEN "critical" ELSE "warning",
        SourcePlace(h), h.self, "medium",
        {<<h.total, limit.minTotal>>, <<h.self, limit.minSelf>>}) EXCEPT !.hotspot = h.id,
          !.correlation = FirstThat(cpu.stalls, LAMBDA s : SameFrame(s, h), Nothing)]
  IN Mapped(Hottest(BySelf(Picked(Reported(cpu), Unexplained(cpu, findings)))), Finding)
=============================================================================
