------------------------------ MODULE Timeline ------------------------------
(* What becomes of the timed signals of a capture: event-loop heartbeats and *)
(* garbage collections reach the coordinator over up to three routes, are    *)
(* merged, moved onto the capture's own clock and reported as stall windows, *)
(* lag figures and pauses; CPU samples are then placed into those windows.   *)
(* Times are whole milliseconds; a mean is kept as the sum it is taken from. *)
EXTENDS JsArrays

Absent == "undefined"       \* no frame
Nothing == <<>>             \* no figures
EventSlack == 1000          \* ms an event may lie past the end of the capture
LongPause == 10             \* ms from which a pause is listed by itself

(* Merging the routes -- capture/core/timed-signals.ts, coordinator.ts *)

\* a Map keyed by the figures of a sample: a sample that came twice is kept once
MergeTimedSamples(primary, secondary) == OnceEach(primary \o secondary)
DedupeTimedEvents(events) == OnceEach(events)

\* onto the clock of the capture, and up to a second past its end
Moved(events, start) == [i \in DOMAIN events |-> [events[i] EXCEPT !.at = Max({0, @ - start})]]
Cut(events, duration) == Picked(events, {i \in DOMAIN events : events[i].at <= duration + EventSlack})
InTime(events) == Arranged(events, DOMAIN events, [i \in DOMAIN events |-> events[i].at])

\* The mutant: what lies outside the capture is cut away before the clock is moved.
NormalizeBeforeShift(events, start, duration) == InTime(Moved(Cut(events, duration), start))

NormalizeTimedEvents(events, start, duration) == InTime(Cut(Moved(events, start), duration))

\* percentile(sorted, num/den): 1-based here, Math.ceil(n q) - 1 there
Percentile(sorted, num, den) ==
  IF sorted = <<>> THEN 0
  ELSE sorted[Min({Len(sorted), Max({1, (Len(sorted) * num + den - 1) \div den})})]

LagFigures(lags) ==
  LET sorted == Arranged(lags, DOMAIN lags, lags)
  IN IF lags = <<>> THEN Nothing
     ELSE [max |-> Last(sorted), p50 |-> Percentile(sorted, 1, 2),
           p99 |-> Percentile(sorted, 99, 100), sum |-> SumOf(sorted, LAMBDA l : l)]

SummarizeEventLoop(samples) == LagFigures(Mapped(samples, LAMBDA s : s.lag))

\* the in-target histogram is taken when it counted something above its own resolution
IsUsableSummary(summary, resolution) ==
  /\ summary # Nothing
  /\ \E lag \in {summary.max, summary.p99, summary.p50} : lag >= Max({1, resolution \div 10})

ResolveHistogram(summary, samples, resolution) ==
  IF IsUsableSummary(summary, resolution) THEN summary ELSE SummarizeEventLoop(samples)

(* Stall windows and the event-loop report -- analysis/model/event-loop-report.ts *)

\* a window that begins before the last one has ended, or right after, is a part of it
Absorbed(windows, w) ==
  IF windows = <<>> \/ w.start > Last(windows).end + 1 THEN Append(windows, w)
  ELSE Append(Front(windows), [start |-> Last(windows).start, end |-> Max({Last(windows).end, w.end}),
                               lag |-> Max({Last(windows).lag, w.lag})])

MergeIntervals(intervals) ==
  LET sorted == Arranged(intervals, DOMAIN intervals, [i \in DOMAIN intervals |-> intervals[i].start])
      merged[n \in 0..Len(sorted)] == IF n = 0 THEN <<>> ELSE Absorbed(merged[n - 1], sorted[n])
  IN merged[Len(sorted)]

\* the lag of a loop that was still stalled when the capture ended
TrailingLag(samples, duration, resolution) ==
  IF samples = <<>> THEN 0 ELSE Max({0, duration - Last(samples).at - resolution})

RawStalls(samples, duration, resolution, threshold) ==
  LET late     == Picked(samples, {i \in DOMAIN samples : samples[i].lag >= threshold})
      trailing == TrailingLag(samples, duration, resolution)
  IN Mapped(late, LAMBDA s : [start |-> Max({0, s.at - s.lag}), end |-> s.at, lag |-> s.lag])
     \o IF samples # <<>> /\ trailing >= threshold
        THEN <<[start |-> Max({0, Last(samples).at + resolution}), end |-> duration, lag |-> trailing]>>
        ELSE <<>>

StallWindows(samples, duration, resolution, threshold) ==
  MergeIntervals(RawStalls(samples, duration, resolution, threshold))

HeartbeatFigures(samples, duration, resolution) ==
  LET trailing == TrailingLag(samples, duration, resolution)
  IN LagFigures(Mapped(samples, LAMBDA s : s.lag) \o IF trailing > 0 THEN <<trailing>> ELSE <<>>)

MeasurementBasis(heartbeats, histogram) ==
  CASE heartbeats /\ histogram  -> "both"
    [] heartbeats /\ ~histogram -> "heartbeats"
    [] ~heartbeats /\ histogram -> "histogram"
    [] OTHER                    -> "none"

EventLoopReport(samples, timed, histogram, duration, resolution, threshold) ==
  LET heartbeats == timed /\ samples # <<>>
      basis      == MeasurementBasis(heartbeats, histogram # Nothing)
  IN [available |-> basis # "none", basis |-> basis,
      confidence |-> CASE basis = "none" -> "none" [] basis = "histogram" -> "low" [] OTHER -> "high",
      figures |-> IF histogram # Nothing THEN histogram
                  ELSE IF heartbeats THEN HeartbeatFigures(samples, duration, resolution) ELSE Nothing,
      stalls |-> IF heartbeats THEN StallWindows(samples, duration, resolution, threshold) ELSE <<>>]

(* Collections -- analysis/model/gc-report.ts *)

GcKind(e) == IF e.kind \in {"scavenge", "markSweep", "incremental"} THEN e.kind ELSE "other"

GcReport(events) ==
  [total |-> SumOf(events, LAMBDA e : e.duration),
   longest |-> Max({0} \cup {events[i].duration : i \in DOMAIN events}),
   count |-> [k \in {"scavenge", "markSweep", "incremental", "other"} |->
                CountOf(events, LAMBDA e : GcKind(e) = k)],
   long |-> SelectSeq(events, LAMBDA e : e.duration >= LongPause)]

GcWindows(events, duration, lookaround) ==
  Mapped(events, LAMBDA e : [start |-> Max({0, e.at - lookaround}),
                             end |-> Min({duration, e.at + e.duration + lookaround})])

(* Placing CPU samples -- analysis/model/correlations.ts *)

\* deltas may be shorter than the samples: the sampling interval stands in for the rest
TimedSamples(leaves, deltas, interval) ==
  [i \in DOMAIN leaves |->
     [leaf |-> leaves[i],
      at |-> SumOf([j \in 1..i |-> IF j <= Len(deltas) THEN deltas[j] ELSE interval], LAMBDA d : d)]]

IsInAnyWindow(at, windows) == AnyOf(windows, LAMBDA w : at >= w.start /\ at <= w.end)

\* percentages in hundredths of the attributed samples: overlap and runner-up counts out of n
ScoreConfidence(overlap, next, n) ==
  IF 100 * overlap >= 60 * n \/ (100 * overlap >= 30 * n /\ 100 * (overlap - next) >= 15 * n)
  THEN "high"
  ELSE IF 100 * overlap >= 25 * n THEN "medium" ELSE "low"

\* blame[leaf] is the nearest user frame above a leaf, or Absent. The runner-up of a
\* frame is looked for among the topN that are listed
Correlate(timed, windows, blame, topN) ==
  LET inside     == SelectSeq(timed, LAMBDA s : IsInAnyWindow(s.at, windows))
      attributed == SelectSeq(inside, LAMBDA s : blame[s.leaf] # Absent)
      hits(f)    == CountOf(attributed, LAMBDA s : blame[s.leaf] = f)
      listed     == FirstOf(Descending(KeysOf(attributed, LAMBDA s : blame[s.leaf]), hits), topN)
      next(i)    == IF i = Len(listed) THEN 0 ELSE hits(listed[i + 1])
  IN [samplesInWindows |-> Len(inside), samplesAttributed |-> Len(attributed),
      hotspots |-> [i \in DOMAIN listed |->
        [frame |-> listed[i], overlap |-> hits(listed[i]),
         confidence |-> ScoreConfidence(hits(listed[i]), next(i), Len(attributed))]]]
=============================================================================
