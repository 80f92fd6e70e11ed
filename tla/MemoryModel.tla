----------------------------- MODULE MemoryModel ----------------------------
(* The memory section of a report: what its probe brings back when parts of  *)
(* the capture fail, the allocators of the sampling heap profile, the series *)
(* of process.memoryUsage(), and the growth between two heap snapshots with  *)
(* the retained size of every node, computed from dominators.                *)
(* A node of a snapshot is [type, name, self, edges], an edge [type, name,   *)
(* to]; a name is one of the words that the classification of paths tells    *)
(* apart. Shares are kept as the two numbers they divide.                    *)
EXTENDS JsArrays

MaxPublicAllocators == 50

(* The probe -- kinds/memory/probe.ts, capture/core/heap.ts *)

\* one snapshot, from the events that may end it in the order they come: the first
\* of them settles it. A failure removes the file, but one that comes before the
\* file was opened leaves the empty file that is opened after it
TakeHeapSnapshot(aborted, opened, events) ==
  LET ends  == {i \in DOMAIN events : events[i] # "chunk"}
      first == IF ends = {} THEN Len(events) + 1 ELSE Min(ends)
      done  == ~aborted /\ ends # {} /\ events[first] = "finished"
  IN [settled |-> aborted \/ ends # {}, ok |-> done,
      file |-> IF done THEN "whole" ELSE IF opened /\ ~aborted THEN "none" ELSE "empty",
      chunks |-> IF aborted THEN 0 ELSE first - 1]

\* start and end: how the two snapshots went; a stop by signal skips the second
CapturedSnapshots(start, end, stoppedBySignal) ==
  [available |-> start.ok /\ ~stoppedBySignal /\ end.ok,
   startFile |-> start.file, endFile |-> IF stoppedBySignal THEN "none" ELSE end.file,
   warnings |-> (IF start.ok THEN {} ELSE {"start snapshot"})
     \cup (IF stoppedBySignal THEN {"skipped end snapshot"} ELSE IF end.ok THEN {} ELSE {"end snapshot"})]

\* the samples still in the target, else those the control channel brought
ReadMemoryUsage(closed, read, live) ==
  IF ~closed /\ (read.available \/ read.samples # <<>>) THEN read
  ELSE [samples |-> live, available |-> live # <<>>]

\* drained: what periodic drains brought before; nothing of it is lost to a failing stop
MemoryProbeStop(in) ==
  LET usage    == ReadMemoryUsage(in.closed, in.read, in.live)
      samples  == in.drained \o usage.samples
      sampling == ~in.closed /\ in.samplingStops
  IN [samples |-> samples, available |-> usage.available \/ samples # <<>>, sampling |-> sampling,
      profile |-> IF sampling THEN in.profile ELSE <<>>,
      warnings |-> IF sampling THEN {} ELSE {"heap sampling"}]

(* Allocators -- kinds/memory/analysis.ts; a node: [frame, name, category, self, children] *)

RECURSIVE SubtreeBytes(_, _)
SubtreeBytes(nodes, id) == nodes[id].self + SumOf(nodes[id].children, LAMBDA c : SubtreeBytes(nodes, c))

\* the ids above a node, nearest first
RECURSIVE Above(_, _)
Above(nodes, id) ==
  LET parent == {p \in DOMAIN nodes : id \in ToSet(nodes[p].children)}
  IN IF parent = {} THEN <<>> ELSE <<Min(parent)>> \o Above(nodes, Min(parent))

\* a frame that is already on the path owns the subtree there
Reentrant(nodes, id) == AnyOf(Above(nodes, id), LAMBDA a : nodes[a].frame = nodes[id].frame)

UserAncestor(nodes, id) ==
  FirstThat(<<id>> \o Above(nodes, id), LAMBDA a : nodes[a].category = "user", 0)

AllocatorFrames(nodes) == {nodes[id].frame : id \in DOMAIN nodes}
NodesOfFrame(nodes, f) == {id \in DOMAIN nodes : nodes[id].frame = f}
SelfBytes(nodes, f) == MapThenSumSet(LAMBDA id : nodes[id].self, NodesOfFrame(nodes, f))
TotalBytes(nodes, f) ==
  MapThenSumSet(LAMBDA id : SubtreeBytes(nodes, id), {id \in NodesOfFrame(nodes, f) : ~Reentrant(nodes, id)})
TotalSampledBytes(nodes) == MapThenSumSet(LAMBDA id : nodes[id].self, DOMAIN nodes)

\* bytes a frame that is not user code allocated below user frame u
CallerBytes(nodes, f, u) ==
  MapThenSumSet(LAMBDA id : nodes[id].self,
    {id \in NodesOfFrame(nodes, f) : /\ nodes[id].category # "user" /\ UserAncestor(nodes, id) # 0
                                     /\ nodes[UserAncestor(nodes, id)].frame = u})

\* bytes: those below each user frame, of the self bytes of one that is not user code
TopCaller(bytes, self) ==
  LET callers == {u \in DOMAIN bytes : bytes[u] > 0}
      top     == CHOOSE u \in callers : \A v \in callers : bytes[v] <= bytes[u]
  IN IF callers = {} THEN <<>>
     ELSE <<[frame |-> top, bytes |-> bytes[top],
             confidence |-> IF 100 * bytes[top] >= 80 * self THEN "high"
                            ELSE IF 2 * bytes[top] >= self THEN "medium" ELSE "low"]>>

AllocatorCaller(nodes, f) ==
  TopCaller([u \in AllocatorFrames(nodes) |-> CallerBytes(nodes, f, u)], SelfBytes(nodes, f))

HotAllocators(nodes, keepNoise) ==
  LET a(f) == [frame |-> f, self |-> SelfBytes(nodes, f), total |-> TotalBytes(nodes, f),
               node |-> nodes[CHOOSE id \in NodesOfFrame(nodes, f) : TRUE], caller |-> AllocatorCaller(nodes, f)]
      kept == {x \in {a(f) : f \in AllocatorFrames(nodes)} :
                 /\ x.self # 0 \/ x.total # 0
                 /\ x.node.name # "(root)"
                 /\ keepNoise \/ x.node.category # "lanterna"}
      weight(x) == Max({x.self, x.total})
  IN SortSeq(SetToSeq(kept), LAMBDA l, r :
       \/ weight(l) > weight(r)
       \/ weight(l) = weight(r) /\ l.self > r.self
       \/ weight(l) = weight(r) /\ l.self = r.self /\ l.total > r.total)

\* figures of one metric: mean as sum over n, slope as a fraction of least squares
SeriesStats(samples) ==
  LET values == Mapped(samples, LAMBDA s : s.bytes)
      sorted == Ascending(values, LAMBDA v : v)
      n      == Len(samples)
      x      == SumOf(samples, LAMBDA s : s.at)
      y      == SumOf(samples, LAMBDA s : s.bytes)
      over   == n * SumOf(samples, LAMBDA s : s.at * s.at) - x * x
  IN [start |-> values[1], end |-> Last(values), min |-> sorted[1], max |-> Last(sorted), sum |-> y,
      p95 |-> sorted[Min({n, (n * 95) \div 100 + 1})],
      slope |-> IF n < 2 \/ over = 0 THEN 0 ELSE n * SumOf(samples, LAMBDA s : s.at * s.bytes) - x * y]

MemoryConfidence(data, total) ==
  LET heap  == data.sampling /\ total > 0
      usage == data.available /\ data.samples # <<>>
  IN IF heap /\ usage THEN "high" ELSE IF heap \/ usage THEN "medium" ELSE "low"

MemoryReasons(data, total, snapshots) ==
  (IF data.available /\ data.samples # <<>> THEN {} ELSE {"no usage samples"})
    \cup (IF ~data.sampling THEN {"no heap profile"} ELSE IF total = 0 THEN {"empty heap profile"} ELSE {})
    \cup data.warnings
    \cup IF snapshots # <<>> /\ ~snapshots[1].available THEN {"no snapshot analysis"} \cup snapshots[1].warnings
         ELSE {}

(* Heap snapshots -- kinds/memory/heap-snapshot-analysis.ts *)

\* edges of raw nodes that point outside the table are left out with a warning
ParseHeapSnapshot(raw) ==
  LET Valid(e) == e.to \in DOMAIN raw
      synthetic == {i \in DOMAIN raw : raw[i].type = "synthetic"}
  IN [nodes |-> [i \in DOMAIN raw |-> [raw[i] EXCEPT !.edges = SelectSeq(@, Valid)]],
      root |-> IF synthetic = {} THEN 1 ELSE Min(synthetic),
      warnings |-> SumOf(raw, LAMBDA n : CountOf(n.edges, LAMBDA e : ~Valid(e)))]

StrongEdges(snapshot, n) == SelectSeq(snapshot.nodes[n].edges, LAMBDA e : e.type # "weak")

\* [from, edge] for every strong edge into n, in the order of the file
IncomingStrong(snapshot, n) ==
  FlattenSeq([from \in DOMAIN snapshot.nodes |->
    Mapped(SelectSeq(StrongEdges(snapshot, from), LAMBDA e : e.to = n),
           LAMBDA e : [from |-> from, type |-> e.type, name |-> e.name])])

RECURSIVE ReachFrom(_, _, _)
ReachFrom(snapshot, frontier, seen) ==
  LET next == UNION {{e.to : e \in ToSet(StrongEdges(snapshot, n))} : n \in frontier} \ seen
  IN IF next = {} THEN seen ELSE ReachFrom(snapshot, next, seen \cup next)

ReachableNodes(snapshot) == ReachFrom(snapshot, {snapshot.root}, {snapshot.root})

\* depth-first from n, appending each node when it is left: [seen, post]
RECURSIVE Visit(_, _, _)
Visit(snapshot, state, n) ==
  IF n \in state.seen THEN state
  ELSE LET inside == FoldLeft(LAMBDA st, e : Visit(snapshot, st, e.to),
                              [state EXCEPT !.seen = @ \cup {n}], StrongEdges(snapshot, n))
       IN [inside EXCEPT !.post = Append(@, n)]

\* reverse postorder: the root first
DfsOrder(snapshot) == Reverse(Visit(snapshot, [seen |-> {}, post |-> <<>>], snapshot.root).post)

\* the nearest node on both paths up the dominator tree; order: place in DfsOrder
RECURSIVE Intersect(_, _, _, _)
Intersect(idom, order, a, b) ==
  IF a = b THEN a
  ELSE IF order[a] > order[b] THEN Intersect(idom, order, idom[a], b) ELSE Intersect(idom, order, a, idom[b])

\* one pass over the nodes in order; 0 stands for a dominator that is not known yet
Sweep(snapshot, order, places, idom) ==
  FoldLeft(LAMBDA known, n :
    LET preds == SelectSeq(Mapped(IncomingStrong(snapshot, n), LAMBDA e : e.from), LAMBDA p : known[p] # 0)
    IN IF n = snapshot.root \/ preds = <<>> THEN known
       ELSE [known EXCEPT ![n] = FoldLeft(LAMBDA d, p : Intersect(known, places, p, d), preds[1], Tail(preds))],
    idom, order)

RECURSIVE Settle(_, _, _, _)
Settle(snapshot, order, places, idom) ==
  LET next == Sweep(snapshot, order, places, idom)
  IN IF next = idom THEN idom ELSE Settle(snapshot, order, places, next)

Dominators(snapshot, order) ==
  LET places == [n \in ToSet(order) |-> CHOOSE i \in DOMAIN order : order[i] = n]
  IN Settle(snapshot, order, places,
            [n \in DOMAIN snapshot.nodes |-> IF n = snapshot.root THEN n ELSE 0])

\* leaves first, every node adds what it retains to its dominator
Accumulate(snapshot, order, idom) ==
  LET own == [n \in DOMAIN snapshot.nodes |-> IF n \in ReachableNodes(snapshot) THEN snapshot.nodes[n].self ELSE 0]
  IN FoldLeft(LAMBDA sizes, n :
       IF n = snapshot.root \/ idom[n] \in {0, n} THEN sizes
       ELSE [sizes EXCEPT ![idom[n]] = @ + sizes[n]], own, Reverse(order))

RetainedAlong(snapshot, order) == Accumulate(snapshot, order, Dominators(snapshot, order))
RetainedSizes(snapshot) == RetainedAlong(snapshot, DfsOrder(snapshot))

ConstructorName(node) == IF node.name = "" THEN node.type ELSE node.name

\* count, self and retained of a constructor; retained sizes of nested nodes add up
GroupOf(snapshot, sizes, name) ==
  LET own == {n \in DOMAIN snapshot.nodes :
                /\ snapshot.nodes[n].type # "synthetic" /\ snapshot.nodes[n].name # ""
                /\ sizes[n] > 0 /\ ConstructorName(snapshot.nodes[n]) = name}
  IN [count |-> Cardinality(own), self |-> MapThenSumSet(LAMBDA n : snapshot.nodes[n].self, own),
      retained |-> MapThenSumSet(LAMBDA n : sizes[n], own)]

EdgeRank(e) ==
  CASE e.type \in {"property", "context"} -> 0 [] e.type = "element" -> 1 [] e.type = "internal" -> 2 [] OTHER -> 3

\* breadth first up to the root or to the depth limit, readable edges first; a path is its words
RECURSIVE SearchUp(_, _, _, _)
SearchUp(snapshot, queue, seen, limit) ==
  LET here     == Head(queue)
      incoming == OnePerKey(SelectSeq(Ascending(IncomingStrong(snapshot, here.node), EdgeRank),
                                      LAMBDA e : e.from \notin seen), LAMBDA e : e.from)
  IN IF queue = <<>> THEN <<>>
     ELSE IF here.node = snapshot.root \/ Len(here.path) >= limit + 1 THEN here.path
     ELSE SearchUp(snapshot, Tail(queue) \o Mapped(incoming, LAMBDA e :
            [node |-> e.from, path |-> Append(here.path, {snapshot.nodes[e.from].name, e.name})]),
            seen \cup {e.from : e \in ToSet(incoming)}, limit)

ReadableRetainerPath(snapshot, target, limit) ==
  LET own  == {snapshot.nodes[target].name}
      path == SearchUp(snapshot, <<[node |-> target, path |-> <<own>>]>>, {target}, limit)
  IN IF path = <<>> THEN <<own>> ELSE Reverse(path)

Words(path) == UNION ToSet(path)

ClassifyRetainerPath(path) ==
  LET Has(words) == Words(path) \cap words # {}
  IN IF Has({"_events", "EventEmitter", "listener"}) THEN "event-listener"
     ELSE IF Has({"Timeout", "TimersList"}) THEN "timer"
     ELSE IF Has({"Map", "Set", "WeakMap", "cache"}) THEN "cache"
     ELSE IF Has({"closure", "context"}) THEN "closure" ELSE "unknown"

IsNoiseRetainerPath(path) ==
  \/ Words(path) \cap {"lanterna-preload", "event-loop-hook", "__LANTERNA_"} # {}
  \/ "kObservers" \in Words(path) /\ "PerformanceObserver" \in Words(path)

Growth(name, before, after) ==
  [name |-> name, count |-> after.count - before.count, self |-> after.self - before.self,
   retained |-> after.retained - before.retained]

\* the constructors that have grown in anything, the most retained first
GrowthTable(start, end, earlier, later) ==
  LET names == {ConstructorName(n) : n \in ToSet(start.nodes) \cup ToSet(end.nodes)}
  IN SortSeq(SetToSeq({g \in {Growth(name, GroupOf(start, earlier, name), GroupOf(end, later, name)) : name \in names} :
                         g.count > 0 \/ g.self > 0 \/ g.retained > 0}), LAMBDA l, r :
       \/ l.retained > r.retained
       \/ l.retained = r.retained /\ l.self > r.self
       \/ l.retained = r.retained /\ l.self = r.self /\ l.count > r.count)

\* a constructor all of whose paths are Lanterna's own leaves the growth table with them
GrowthReport(start, end, sizes, grown, options) ==
  LET top   == FirstOf(grown, options.maxGroups)
      Candidates(name) ==
        FirstOf(SortSeq(SelectSeq([i \in DOMAIN end.nodes |-> i],
                                  LAMBDA n : ConstructorName(end.nodes[n]) = name),
                        LAMBDA l, r : sizes[l] > sizes[r]), options.maxPaths)
      paths == FlattenSeq(Mapped(top, LAMBDA g : Mapped(Candidates(g.name), LAMBDA n :
                 [name |-> g.name, retained |-> sizes[n],
                  path |-> ReadableRetainerPath(end, n, options.maxDepth)])))
      kept  == SelectSeq(paths, LAMBDA p : options.keepNoise \/ ~IsNoiseRetainerPath(p.path))
      Named(ps, name) == AnyOf(ps, LAMBDA p : p.name = name)
      groups == SelectSeq(top, LAMBDA g : Named(paths, g.name) => Named(kept, g.name))
  IN [growth |-> groups, paths |-> Mapped(kept, LAMBDA p : [p |-> p, pattern |-> ClassifyRetainerPath(p.path)]),
      total |-> SumOf(groups, LAMBDA g : Max({0, g.retained})),
      warnings |-> start.warnings + end.warnings + IF Len(grown) > options.maxGroups THEN 1 ELSE 0]

AnalyzeHeapSnapshotGrowth(start, end, options) ==
  GrowthReport(start, end, RetainedSizes(end), GrowthTable(start, end, RetainedSizes(start), RetainedSizes(end)), options)

\* captured: [available, start, end, warnings], a file: [size, raw]; any failure leaves an empty report
HeapSnapshotReport(captured, maxBytes, options) ==
  LET Usable(f) == f.size # 0 /\ f.size <= maxBytes
      failed == captured.available /\ ~(Usable(captured.start) /\ Usable(captured.end))
  IN IF captured.available /\ ~failed
     THEN [available |-> TRUE, warnings |-> captured.warnings, analysis |-> AnalyzeHeapSnapshotGrowth(
             ParseHeapSnapshot(captured.start.raw), ParseHeapSnapshot(captured.end.raw), options)]
     ELSE [available |-> FALSE, warnings |-> captured.warnings \cup IF failed THEN {"analysis failed"} ELSE {},
           analysis |-> [growth |-> <<>>, paths |-> <<>>, total |-> 0, warnings |-> 0]]

(* The section -- the contributor of kinds/memory/analysis.ts *)

\* data: [nodes, samples, available, sampling, warnings, snapshots], the last one <<>> when none
\* were asked for; the report shows the first allocators, the detectors see all of them
MemorySection(data, allocators, total, snapshots) ==
  [allocators |-> FirstOf(allocators, MaxPublicAllocators), view |-> allocators,
   top |-> FirstOf(allocators, 1), total |-> total,
   series |-> IF data.samples = <<>> THEN <<>> ELSE <<SeriesStats(data.samples)>>,
   confidence |-> MemoryConfidence(data, total), reasons |-> MemoryReasons(data, total, snapshots),
   snapshots |-> snapshots]

AnalyzeMemory(data, options) ==
  MemorySection(data, HotAllocators(data.nodes, options.keepNoise), TotalSampledBytes(data.nodes),
    IF ~options.enabled THEN <<>>
    ELSE Mapped(data.snapshots, LAMBDA c : HeapSnapshotReport(c, options.maxBytes, options)))
=============================================================================
