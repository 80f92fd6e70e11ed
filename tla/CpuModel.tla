------------------------------ MODULE CpuModel ------------------------------
(* The CPU section of a report: frames are classified, the nodes of V8's     *)
(* call tree are merged by frame, samples are walked to the root for totals, *)
(* callers and user callers, and stacks, summary and confidence are derived. *)
(* A node is [frame, name, category, hits, children]; a frame stands for the *)
(* file, function and line that make the aggregation key, so its category is *)
(* a function of it. Percentages are kept as the sample counts they are of.  *)
EXTENDS Timeline

MaxPublicHotspots == 25
MaxHotStacks == 10
Pseudo == {"(root)", "(idle)", "(program)"}
NoiseCategories == {"lanterna"}
OnCpu == <<"user", "node_modules", "node:builtin", "native", "gc">>

(* Classification -- analysis/model/classify.ts, analysis/noise-filters.ts *)

\* the package a path below node_modules belongs to: after the last node_modules
PackageOf(segments) ==
  LET at    == SelectLastInSeq(segments, LAMBDA s : s = "node_modules")
      after == SubSeq(segments, at + 1, Len(segments))
  IN IF at = 0 \/ after = <<>> THEN <<>>
     ELSE IF after[1] = "@scope" /\ Len(after) > 1 THEN FirstOf(after, 2) ELSE FirstOf(after, 1)

IsNoisePackage(package) == package # <<>> /\ package[1] \in {"lanterna", "@lanterna", "@lanterna-profiler"}

\* url: [kind, noise, segments, outside]; noise when it is a preload file or a hook of Lanterna's
Classify(name, url) ==
  LET package == PackageOf(url.segments)
  IN CASE name = "(garbage collector)" -> "gc"
       [] name = "(idle)" -> "idle"
       [] name = "(program)" -> "program"
       [] name \in {"(root)", "(logging)", "(unresolved function)"} -> "native"
       [] OTHER ->
            IF url.kind \in {"none", "extension"} THEN "native"
            ELSE IF url.kind = "node" THEN "node:builtin"
            ELSE IF url.noise THEN "lanterna"
            ELSE IF url.kind = "relative" \/ package = <<>> THEN "user"
            ELSE IF IsNoisePackage(package) THEN "lanterna" ELSE "node_modules"

(* The tree -- enrichCpuTree and the walks over it, analysis/model/hotspots.ts *)

ParentsOf(nodes, id) == {p \in DOMAIN nodes : id \in ToSet(nodes[p].children)}
TotalHits(nodes) == MapThenSumSet(LAMBDA id : nodes[id].hits, DOMAIN nodes)

\* the ids from a leaf up to the root; a malformed tree ends at the first id met again
RECURSIVE IdsUp(_, _, _)
IdsUp(nodes, id, seen) ==
  IF id \in seen THEN <<>>
  ELSE <<id>> \o IF ParentsOf(nodes, id) = {} THEN <<>>
                 ELSE IdsUp(nodes, Max(ParentsOf(nodes, id)), seen \cup {id})

PathIds(nodes, leaf) == IdsUp(nodes, leaf, {})

\* frames from leaf to root, direct recursion folded into one entry
AggregatedPath(nodes, leaf) ==
  FoldLeft(LAMBDA path, id : IF path # <<>> /\ Last(path) = nodes[id].frame THEN path
                             ELSE Append(path, nodes[id].frame), <<>>, PathIds(nodes, leaf))

RECURSIVE SubtreeHits(_, _)
SubtreeHits(nodes, id) ==
  nodes[id].hits + SumOf(nodes[id].children, LAMBDA c : SubtreeHits(nodes, c))

(* Hotspots -- buildHotspotAnalysis, analysis/model/hotspots.ts *)

FramesOf(nodes) == {nodes[id].frame : id \in DOMAIN nodes}
NodesOf(nodes, f) == {id \in DOMAIN nodes : nodes[id].frame = f}
CategoryOf(nodes, f) == nodes[CHOOSE id \in NodesOf(nodes, f) : TRUE].category
NameOf(nodes, f) == nodes[CHOOSE id \in NodesOf(nodes, f) : TRUE].name

SelfSamples(nodes, f) == MapThenSumSet(LAMBDA id : nodes[id].hits, NodesOf(nodes, f))

\* The mutant: every step of the path adds, so a recursive frame is counted more than once.
TotalSamplesPerStep(nodes, samples, f) ==
  IF samples # <<>> THEN SumOf(samples, LAMBDA leaf : CountOf(AggregatedPath(nodes, leaf), LAMBDA g : g = f))
  ELSE MapThenSumSet(LAMBDA id : SubtreeHits(nodes, id), NodesOf(nodes, f))

\* samples on whose path the frame is; without samples, the hits below each of its nodes
TotalSamples(nodes, samples, f) ==
  IF samples # <<>> THEN CountOf(samples, LAMBDA leaf : f \in ToSet(AggregatedPath(nodes, leaf)))
  ELSE MapThenSumSet(LAMBDA id : SubtreeHits(nodes, id), NodesOf(nodes, f))

\* how often parent stands directly above child on the sampled paths
EdgeSamples(nodes, samples, child, parent) ==
  SumOf(samples, LAMBDA leaf :
    LET path == AggregatedPath(nodes, leaf)
    IN Cardinality({i \in 1..(Len(path) - 1) : path[i] = child /\ path[i + 1] = parent}))

TopRefs(weight) ==
  LET refs == {f \in DOMAIN weight : weight[f] > 0}
  IN FirstOf(Descending(SetToSeq(refs), LAMBDA f : weight[f]), 3)

\* user frames above position i of a path, from the root down: the last is the nearest
UserAbove(nodes, path, i) ==
  SelectSeq(Reverse(SubSeq(path, i + 1, Len(path))), LAMBDA f : CategoryOf(nodes, f) = "user")

\* the positions a frame that is not user code has on a path below some user frame
Reached(nodes, path, f) ==
  {i \in DOMAIN path : path[i] = f /\ CategoryOf(nodes, f) # "user" /\ UserAbove(nodes, path, i) # <<>>}

\* how often user frame u was met above f: once for each time it is above each entry of f
CandidateSamples(nodes, samples, f, u) ==
  SumOf(samples, LAMBDA leaf :
    LET path == AggregatedPath(nodes, leaf)
    IN MapThenSumSet(LAMBDA i : CountOf(UserAbove(nodes, path, i), LAMBDA g : g = u),
                     Reached(nodes, path, f)))

\* the distances of u from f on the sampled paths, 1 for the nearest user frame; the least counts
Distances(nodes, samples, f, u) ==
  UNION {LET path == AggregatedPath(nodes, samples[s])
         IN UNION {LET above == UserAbove(nodes, path, i)
                   IN {Len(above) - k + 1 : k \in {k \in DOMAIN above : above[k] = u}}
                   : i \in Reached(nodes, path, f)}
         : s \in DOMAIN samples}

NearestSamples(nodes, samples, f, u) ==
  SumOf(samples, LAMBDA leaf :
    LET path == AggregatedPath(nodes, leaf)
    IN Cardinality({i \in Reached(nodes, path, f) : Last(UserAbove(nodes, path, i)) = u}))

SupportConfidence(support, total) ==
  IF 100 * support >= 80 * total THEN "high" ELSE IF 100 * support >= 25 * total THEN "medium" ELSE "low"

\* nearest first, then the better supported, then the more often nearest
UserCallers(nodes, samples, f) ==
  LET total   == Max({1, TotalSamples(nodes, samples, f)})
      found   == {u \in FramesOf(nodes) : Distances(nodes, samples, f, u) # {}}
      caller(u) == [frame |-> u, distance |-> Min(Distances(nodes, samples, f, u)),
                    support |-> CandidateSamples(nodes, samples, f, u),
                    nearest |-> NearestSamples(nodes, samples, f, u),
                    confidence |-> SupportConfidence(CandidateSamples(nodes, samples, f, u), total)]
  IN SortSeq(SetToSeq({caller(u) : u \in found}), LAMBDA l, r :
       \/ l.distance < r.distance
       \/ l.distance = r.distance /\ l.support > r.support
       \/ l.distance = r.distance /\ l.support = r.support /\ l.nearest > r.nearest)

IsPublished(nodes, samples, f, keepNoise) ==
  /\ SelfSamples(nodes, f) # 0 \/ TotalSamples(nodes, samples, f) # 0
  /\ NameOf(nodes, f) \notin Pseudo
  /\ keepNoise \/ CategoryOf(nodes, f) \notin NoiseCategories

Hotspot(nodes, samples, f) ==
  [frame |-> f, category |-> CategoryOf(nodes, f), self |-> SelfSamples(nodes, f),
   total |-> TotalSamples(nodes, samples, f),
   callers |-> TopRefs([g \in FramesOf(nodes) |-> EdgeSamples(nodes, samples, f, g)]),
   callees |-> TopRefs([g \in FramesOf(nodes) |-> EdgeSamples(nodes, samples, g, f)]),
   userCallers |-> UserCallers(nodes, samples, f)]

FullHotspots(nodes, samples, keepNoise) ==
  Descending(SetToSeq({Hotspot(nodes, samples, f) :
                         f \in {g \in FramesOf(nodes) : IsPublished(nodes, samples, g, keepNoise)}}),
             LAMBDA h : h.self)

PublicHotspots(full, topN) ==
  FirstOf(SelectSeq(full, LAMBDA h : h.category \notin NoiseCategories), topN)

(* Stacks -- analysis/model/hot-stacks.ts *)

StackFrames(nodes, leaf, keepNoise) ==
  SelectSeq(PathIds(nodes, leaf), LAMBDA id :
    /\ nodes[id].name # "(root)"
    /\ keepNoise \/ nodes[id].category \notin NoiseCategories)

\* one stack for each leaf, the most sampled first, leaf to root, without empty ones
HotStacks(nodes, samples, keepNoise, topN) ==
  LET weight(leaf) == CountOf(samples, LAMBDA l : l = leaf)
      leaves == SelectSeq(Descending(KeysOf(samples, LAMBDA l : l), weight),
                          LAMBDA leaf : StackFrames(nodes, leaf, keepNoise) # <<>>)
  IN Mapped(FirstOf(leaves, topN), LAMBDA leaf :
       [weight |-> weight(leaf), ids |-> StackFrames(nodes, leaf, keepNoise)])

AnchorOf(nodes, stack) ==
  LET user == SelectSeq(stack.ids, LAMBDA id : nodes[id].category = "user")
  IN IF user = <<>> THEN Absent ELSE nodes[user[1]].frame

Clusters(nodes, stacks) ==
  LET anchored == SelectSeq(stacks, LAMBDA st : AnchorOf(nodes, st) # Absent)
      members(a) == {i \in DOMAIN stacks : AnchorOf(nodes, stacks[i]) = a}
      grouped == SelectSeq(KeysOf(anchored, LAMBDA st : AnchorOf(nodes, st)),
                           LAMBDA a : Cardinality(members(a)) >= 2)
  IN Descending(Mapped(grouped, LAMBDA a :
       [anchor |-> a, members |-> members(a),
        weight |-> MapThenSumSet(LAMBDA i : stacks[i].weight, members(a))]), LAMBDA c : c.weight)

(* Summary and confidence -- analysis/model/summary.ts, profile-quality.ts *)

CategoryHits(nodes, c) ==
  MapThenSumSet(LAMBDA id : nodes[id].hits, {id \in DOMAIN nodes : nodes[id].category = c})

\* ratios as the two counts they divide
CpuSummary(nodes, keepNoise) ==
  LET noise == IF keepNoise THEN 0 ELSE MapThenSumSet(LAMBDA c : CategoryHits(nodes, c), NoiseCategories)
      total == Max({1, TotalHits(nodes) - noise})
      idle  == CategoryHits(nodes, "idle") + CategoryHits(nodes, "program")
  IN [total |-> total, idle |-> idle, onCpu |-> total - idle, onCpuDenominator |-> Max({1, total - idle}),
      of |-> [c \in ToSet(OnCpu) |-> CategoryHits(nodes, c)],
      top |-> Descending(OnCpu, LAMBDA c : CategoryHits(nodes, c))[1]]

SpecificCategories ==
  {"blocking-io", "sync-crypto", "json-on-hot-path", "node-modules-hotspot", "require-in-hot-path"}

DominantBlockingKind(findings) ==
  IF AnyOf(findings, LAMBDA f : f.category = "sync-crypto") THEN "sync-crypto"
  ELSE IF AnyOf(findings, LAMBDA f : f.category = "blocking-io") THEN "blocking-io" ELSE Absent

\* a finding that names the frame itself, its caller or one of its candidate callers
Explains(finding, f) ==
  finding.category \in SpecificCategories
    /\ f \in {finding.frame, finding.caller} \cup {c.frame : c \in ToSet(finding.candidates)}

\* candidate callers of specific findings enter with their support as total
CandidateHotspots(hotspots, findings) ==
  LET specific   == SelectSeq(findings, LAMBDA f : f.category \in SpecificCategories)
      candidates == FlattenSeq(Mapped(specific, LAMBDA f : f.candidates))
  IN OnePerKey(Mapped(hotspots, LAMBDA h :
                 [frame |-> h.frame, category |-> h.category, self |-> h.self, total |-> h.total])
               \o Mapped(candidates, LAMBDA c :
                 [frame |-> c.frame, category |-> "user", self |-> 0, total |-> c.support]),
               LAMBDA h : h.frame)

CorrelationScore(correlated, f) ==
  LET weight == [high |-> 3000, medium |-> 2000, low |-> 1000, none |-> 0]
      own == FirstThat(correlated, LAMBDA c : c.frame = f, [confidence |-> "none", overlap |-> 0])
  IN weight[own.confidence] + own.overlap

\* n: the samples of the profile, of which 10 % self or 20 % in total make a frame eligible;
\* one that no specific finding explains goes before those that are explained
TopUserHotspot(hotspots, correlated, findings, n) ==
  LET eligible == SelectSeq(CandidateHotspots(hotspots, findings), LAMBDA h :
                    h.category = "user" /\ (10 * h.self >= n \/ 5 * h.total >= n))
      unexplained == SelectSeq(eligible, LAMBDA h : ~AnyOf(findings, LAMBDA f : Explains(f, h.frame)))
      score(h) == CorrelationScore(correlated, h.frame)
  IN SortSeq(IF unexplained # <<>> THEN unexplained ELSE eligible, LAMBDA l, r :
       \/ score(l) > score(r)
       \/ score(l) = score(r) /\ l.total > r.total
       \/ score(l) = score(r) /\ l.total = r.total /\ l.self > r.self)

TopCpuCulprit(hotspots, correlated, n) ==
  LET score(h) == CorrelationScore(correlated, h.frame)
  IN SortSeq(SelectSeq(hotspots, LAMBDA h : h.category = "user" /\ 10 * h.self >= n), LAMBDA l, r :
       \/ l.self > r.self
       \/ l.self = r.self /\ score(l) > score(r)
       \/ l.self = r.self /\ score(l) = score(r) /\ l.total > r.total)

\* idle in percent
QualityConfidence(samples, duration, idle, timed) ==
  IF samples >= 1000 /\ duration >= 1000 /\ timed /\ idle < 80 THEN "high"
  ELSE IF samples >= 250 /\ idle < 90 THEN "medium" ELSE "low"

QualityReasons(samples, duration, idle, timed) ==
  (IF samples < 250 THEN {"few samples"} ELSE IF samples < 1000 THEN {"not many samples"} ELSE {})
    \cup (IF duration < 1000 THEN {"short"} ELSE {})
    \cup (IF idle >= 80 THEN {"idle"} ELSE {})
    \cup (IF timed THEN {} ELSE {"not timed"})

(* Deoptimizations -- capture/core/deopts.ts, analysis/model/deopts.ts *)

\* a line is [pattern, function, at, reason]: the first pattern that matches it, or "none"
DeoptKey(line) ==
  CASE line.pattern = "bailout" -> <<line.function, line.at, line.reason>>
    [] line.pattern = "generic" -> <<"<unknown>", line.reason>>
    [] line.pattern \in {"node", "deoptimizing", "dependent"} -> <<line.function, line.reason>>
    [] OTHER -> <<>>

ParseDeopts(lines) ==
  LET matched == SelectSeq(lines, LAMBDA l : DeoptKey(l) # <<>>)
  IN Mapped(OnePerKey(matched, DeoptKey), LAMBDA l :
       [key |-> DeoptKey(l), located |-> l.pattern = "bailout",
        count |-> CountOf(matched, LAMBDA m : DeoptKey(m) = DeoptKey(l))])

EnrichDeopts(raw, resolved) ==
  Descending(Mapped(raw, LAMBDA d : [deopt |-> d, count |-> d.count,
                                     mapped |-> d.located /\ d.key \in resolved]), LAMBDA e : e.count)

(* The section -- the contributor of kinds/cpu/analysis.ts and its finalize hook *)

\* the nearest user frame on the way up from a leaf
NearestUser(nodes, leaf) ==
  LET user == SelectSeq(PathIds(nodes, leaf), LAMBDA id : nodes[id].category = "user")
  IN IF user = <<>> THEN Absent ELSE nodes[user[1]].frame

\* profile: [nodes, samples, deltas, interval, deopts, mapped, timed]; bundle: [beats, timed,
\* histogram, duration, resolution, threshold, gcs, lookaround, keepNoise]. The frames a
\* stall is blamed on are those of all stalls together and of each by itself
CpuSection(profile, bundle, full, stacks, summary, loop) ==
  LET nodes == profile.nodes
      idle  == (100 * summary.idle) \div summary.total
      Blamed(windows, topN) ==
        Correlate(TimedSamples(profile.samples, profile.deltas, profile.interval), windows,
                  [leaf \in DOMAIN nodes |-> NearestUser(nodes, leaf)], topN)
  IN [summary |-> summary, full |-> full, hotspots |-> PublicHotspots(full, MaxPublicHotspots),
      stacks |-> stacks, clusters |-> Clusters(nodes, stacks),
      gc |-> GcReport(bundle.gcs),
      gcBlame |-> Blamed(GcWindows(bundle.gcs, bundle.duration, bundle.lookaround), 3),
      loop |-> loop, loopBlame |-> Blamed(loop.stalls, 3),
      stallBlame |-> Mapped(loop.stalls, LAMBDA stall : Blamed(<<stall>>, 1).hotspots),
      quality |-> [confidence |-> QualityConfidence(TotalHits(nodes), bundle.duration, idle, profile.timed),
                   reasons |-> QualityReasons(TotalHits(nodes), bundle.duration, idle, profile.timed)],
      deopts |-> EnrichDeopts(ParseDeopts(profile.deopts), profile.mapped)]

AnalyzeCpu(profile, bundle) ==
  CpuSection(profile, bundle, FullHotspots(profile.nodes, profile.samples, bundle.keepNoise),
             HotStacks(profile.nodes, profile.samples, bundle.keepNoise, MaxHotStacks),
             CpuSummary(profile.nodes, bundle.keepNoise),
             EventLoopReport(bundle.beats, bundle.timed, bundle.histogram, bundle.duration,
                             bundle.resolution, bundle.threshold))

FinalizeCpu(section, findings, n) ==
  LET correlated == section.loopBlame.hotspots
  IN [blocking |-> DominantBlockingKind(findings),
      user     |-> FirstOf(TopUserHotspot(section.hotspots, correlated, findings, n), 1),
      culprit  |-> FirstOf(TopCpuCulprit(section.hotspots, correlated, n), 1)]
=============================================================================
