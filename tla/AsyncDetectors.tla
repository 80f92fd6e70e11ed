---------------------------- MODULE AsyncDetectors ----------------------------
(* The detectors of the async kind, packages/detectors/src. The report is     *)
(*   [available, total, dropped, quality, sampled, hotFiles, operations,      *)
(*    orphans, orphanCount, chains, inflight, cpu, stalls, blocking]          *)
(* with an operation [id, kind, trig, dur, run, runs, first, wait, orphan,    *)
(* cause, sure, stack, creation, execution, await, handler], its frames       *)
(* [fn, file, line]. Times are milliseconds, ratios whole percentages;        *)
(* NoPlace stands for a frame that is not there.                              *)
EXTENDS JsArrays

NoPlace == [fn |-> "", file |-> "", line |-> 0]
FirstPlace(places) == FirstThat(places, LAMBDA p : p # NoPlace, NoPlace)

AsyncThresholds ==
  [longAwait |-> [min |-> 100, critical |-> 1000, max |-> 5, minOperations |-> 5],
   orphan    |-> [min |-> 50, critical |-> 500, minAge |-> 1000],
   deepChain |-> [min |-> 16, critical |-> 32, max |-> 3],
   flood     |-> [mean |-> 200, critical |-> 2000, minSamples |-> 10],
   hot       |-> [min |-> 10, critical |-> 30, coverage |-> 15, max |-> 3],
   blocked   |-> [min |-> 100, critical |-> 500, stall |-> 200, max |-> 5]]

\* the level of confidence, and the lower of two
Rank(confidence) == CASE confidence = "low" -> 0 [] confidence = "medium" -> 1 [] OTHER -> 2
MinConfidence(a, b) == IF Rank(a) <= Rank(b) THEN a ELSE b

\* a capture that lost records says nothing with certainty
ConfidenceForAsyncFinding(report, base) ==
  IF report.dropped > 0 THEN "low" ELSE MinConfidence(report.quality, base)

\* the frame a finding is anchored at, and without one that of the hottest file
\* when enough stacks were sampled to trust it
AnchorForFrame(report, place) ==
  IF place # NoPlace THEN place
  ELSE IF report.hotFiles = <<>> \/ report.sampled < 50 THEN NoPlace
  ELSE Head(report.hotFiles).frame

\* A hot file that is found gives its frame even when it has none; the hottest
\* stands in only for a file that is not among them.
AnchorForFile(report, file) ==
  LET named == SelectSeq(report.hotFiles, LAMBDA h : h.file = file /\ file # "")
  IN IF named # <<>> THEN Head(named).frame ELSE AnchorForFrame(report, NoPlace)

AsyncFinding(id, severity, place, confidence, observed, threshold) ==
  [id |-> id, severity |-> severity, place |-> place, confidence |-> confidence,
   pairs |-> {<<observed, threshold>>}]

\* In order, up to max findings, an item either ends the list, is passed over
\* or is reported.
CollectAsyncListFindings(items, max, stops, skips) ==
  LET ends == {i \in DOMAIN items : items[i] \in stops \ skips}
      seen == FirstOf(items, IF ends = {} THEN Len(items) ELSE Min(ends) - 1)
  IN FirstOf(SelectSeq(seen, LAMBDA i : i \notin skips), max)

-----------------------------------------------------------------------------
(* long-await: operations alive for long, that are not explained by another. *)

Ran(op) == op.run > 0 \/ op.runs > 0
Within(a, b, margin) == a - b \in (-margin)..margin

\* The mutant: operations that ran come first, however short they were.
RunsFirstDelta(a, b) ==
  IF Ran(a) # Ran(b) THEN (IF Ran(a) THEN -1 ELSE 1) ELSE b.dur - a.dur

\* durations of operations that ran count for more when they are close
RankDelta(a, b) ==
  IF Within(a.dur, b.dur, 50) /\ Ran(a) # Ran(b) THEN (IF Ran(a) THEN -1 ELSE 1)
  ELSE b.dur - a.dur

\* The comparison is not transitive, so that the outcome is that of the sort:
\* the first run, turned round when it falls, then insertion by halving.
RunLength(s, Delta(_, _)) ==
  LET down == Delta(s[2], s[1]) < 0
      ends == {i \in 3..Len(s) : (Delta(s[i], s[i - 1]) < 0) # down}
  IN IF ends = {} THEN Len(s) ELSE Min(ends) - 1
FirstRun(s, Delta(_, _)) ==
  LET run == FirstOf(s, RunLength(s, Delta))
  IN IF Delta(s[2], s[1]) < 0 THEN Reverse(run) ELSE run

\* where insertion by halving puts e into the sorted prefix
InsertPlace(s, e, Delta(_, _)) ==
  LET Halve[lo \in 0..Len(s), hi \in 0..Len(s)] ==
        IF lo >= hi THEN lo
        ELSE LET mid == (lo + hi) \div 2
             IN IF Delta(e, s[mid + 1]) < 0 THEN Halve[lo, mid] ELSE Halve[mid + 1, hi]
  IN Halve[0, Len(s)]

SortedBy(s, Delta(_, _)) ==
  IF Len(s) < 2 THEN s
  ELSE FoldLeft(LAMBDA sorted, e : InsertAt(sorted, InsertPlace(sorted, e, Delta) + 1, e),
                FirstRun(s, Delta), SubSeq(s, RunLength(s, Delta) + 1, Len(s)))

RankLongAwaitOperations(ops) == SortedBy(ops, RankDelta)

IsBackgroundWindowOperation(op, capture) == op.run = 0 /\ 10 * op.dur > 9 * capture
IsUnattributedRootHandle(op) ==
  /\ ~Ran(op) /\ op.trig = 0 /\ op.stack = <<>>
  /\ op.creation = NoPlace /\ op.await = NoPlace /\ op.execution = NoPlace

\* another operation of about the same length, created on the same frames, ran
IsShadowedByResumedOperation(op, ops) ==
  /\ ~Ran(op) /\ op.stack # <<>>
  /\ \E i \in DOMAIN ops : /\ ops[i].id # op.id /\ Ran(ops[i])
                           /\ Within(ops[i].dur, op.dur, 50)
                           /\ ToSet(ops[i].stack) \cap ToSet(op.stack) # {}

EditablePlace(p) == p # NoPlace /\ p.file \notin {"node:fs", "node_modules"}

\* initFrame of the report is creationFrame under its first name
PreferredLongAwaitFrame(op) ==
  LET edited == FirstThat(op.stack, EditablePlace, NoPlace)
  IN IF op.cause = "cpu-bound" /\ EditablePlace(op.execution) THEN op.execution
     ELSE FirstPlace(<<edited>> \o (IF op.kind = "promise" THEN <<op.await, op.handler>> ELSE <<>>)
                       \o <<op.creation>>)

LongAwaitExempt(op, report, capture) ==
  \/ op.cause = "background"
  \/ IsBackgroundWindowOperation(op, capture)
  \/ IsUnattributedRootHandle(op)
  \/ IsShadowedByResumedOperation(op, report.operations)

LongAwait(report, capture) ==
  LET limit == AsyncThresholds.longAwait
      ops   == ToSet(report.operations)
      short == {op \in ops : op.dur < limit.min}
      spare == {op \in ops : LongAwaitExempt(op, report, capture)}
      Finding(op) == AsyncFinding(<<"long-await", op.id>>,
        IF op.dur >= limit.critical THEN "critical" ELSE "warning",
        AnchorForFrame(report, PreferredLongAwaitFrame(op)),
        ConfidenceForAsyncFinding(report, IF op.orphan THEN "medium" ELSE "high"),
        op.dur, limit.min)
  IN IF ~report.available \/ report.total < limit.minOperations THEN <<>>
     ELSE Mapped(CollectAsyncListFindings(RankLongAwaitOperations(report.operations), limit.max,
                                          short, spare), Finding)

-----------------------------------------------------------------------------
(* event-loop-blocked-async: a wait that a stall of the loop accounts for.   *)

BlockingStallForOp(op, stalls) ==
  FirstThat(stalls, LAMBDA s : op.first >= 0 /\ s.start <= op.first /\ op.first <= s.end + 50,
            [start |-> 0, end |-> 0, lag |-> 0, top |-> NoPlace, sure |-> "low"])

EventLoopBlockedAsync(report) ==
  LET limit  == AsyncThresholds.blocked
      worst  == Descending(report.blocking, LAMBDA b : b.overlap)
      spare  == {op \in ToSet(report.operations) :
                   op.cause # "event-loop-blocked" \/ op.wait < limit.min}
      Blocking(op) == LET stall == BlockingStallForOp(op, report.stalls)
                      IN IF stall.top # NoPlace THEN [frame |-> stall.top, sure |-> stall.sure]
                         ELSE [frame |-> Head(worst).frame, sure |-> Head(worst).sure]
      Finding(op) == AsyncFinding(<<"event-loop-blocked-async", op.id>>,
        IF op.wait >= limit.critical THEN "critical" ELSE "warning",
        AnchorForFrame(report, Blocking(op).frame),
        MinConfidence(MinConfidence(ConfidenceForAsyncFinding(report, "high"), op.sure),
                      Blocking(op).sure), op.wait, limit.min)
  IN IF worst = <<>> \/ ~AnyOf(report.stalls, LAMBDA s : s.lag >= limit.stall) THEN <<>>
     ELSE Mapped(CollectAsyncListFindings(report.operations, limit.max, {}, spare), Finding)

-----------------------------------------------------------------------------
(* The other four: leaks, recursion, floods and hot chains.                  *)

\* the report lists only some of the orphans, and counts them all
OrphanAsyncResource(report) ==
  LET limit  == AsyncThresholds.orphan
      aged   == SelectSeq(report.orphans, LAMBDA o : o.age >= limit.minAge)
      count  == Max({Len(aged), report.orphanCount})
      places == SelectSeq(Mapped(aged, LAMBDA o : o.frame), LAMBDA p : p # NoPlace)
      common == Descending(OnePerKey(places, LAMBDA p : p),
                           LAMBDA p : CountOf(places, LAMBDA q : q = p))
  IN IF ~report.available \/ Len(aged) < limit.min THEN <<>>
     ELSE <<AsyncFinding(<<"orphan-async-resource">>,
              IF count >= limit.critical THEN "critical" ELSE "warning",
              AnchorForFrame(report, FirstPlace(common)),
              ConfidenceForAsyncFinding(report, IF count >= 2 * limit.min THEN "high"
                                                ELSE "medium"), count, limit.min)>>

DeepAsyncChain(report) ==
  LET limit == AsyncThresholds.deepChain
      TimersOnly(c) == /\ c.root = NoPlace /\ c.deepest = NoPlace /\ c.file = ""
                       /\ c.path # {} /\ c.path \subseteq {"timer", "immediate"}
      spare == {c \in ToSet(report.chains) : c.recursion < limit.min \/ TimersOnly(c)}
      Finding(c) == AsyncFinding(<<"deep-async-chain", c.id>>,
        IF c.recursion >= limit.critical THEN "critical" ELSE "warning",
        FirstPlace(<<AnchorForFile(report, IF c.file # "" THEN c.file ELSE c.root.file), c.root>>),
        ConfidenceForAsyncFinding(report, "high"), c.recursion, limit.min)
  IN IF ~report.available THEN <<>>
     ELSE Mapped(CollectAsyncListFindings(report.chains, limit.max, {}, spare), Finding)

MicrotaskFlood(report) ==
  LET limit == AsyncThresholds.flood
      load  == report.inflight
  IN IF ~report.available \/ load.samples < limit.minSamples \/ load.mean < limit.mean THEN <<>>
     ELSE <<AsyncFinding(<<"microtask-flood">>,
              IF load.max >= limit.critical THEN "critical" ELSE "warning",
              AnchorForFrame(report, NoPlace), ConfidenceForAsyncFinding(report, "high"),
              load.mean, limit.mean)>>

HotAsyncContext(report) ==
  LET limit == AsyncThresholds.hot
      small == {chain \in ToSet(report.cpu.chains) : chain.pct < limit.min}
      Finding(chain) == AsyncFinding(<<"hot-async-context", chain.id>>,
        IF chain.pct >= limit.critical THEN "critical" ELSE "warning",
        AnchorForFrame(report, FirstPlace(<<chain.execution, chain.root>>)),
        ConfidenceForAsyncFinding(report, "high"), chain.pct, limit.min)
  IN IF ~report.cpu.available \/ report.cpu.attributed < limit.coverage THEN <<>>
     ELSE Mapped(CollectAsyncListFindings(report.cpu.chains, limit.max, small, {}), Finding)
=============================================================================
