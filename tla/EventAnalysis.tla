---------------------------- MODULE EventAnalysis ----------------------------
(* The analysis of the timed signals of one capture, from the two routes the *)
(* heartbeats came by to the event-loop report, and what the report has to   *)
(* keep of them: the part "timeline" of AnalysisRun, for any captures.       *)
EXTENDS Timeline, AnalysisRun

CONSTANTS
  Captures,                 \* what may be asked of the timeline: samples by route, and the start
  CaptureDuration,          \* ms from the start of a capture to its end
  HeartbeatResolution,      \* ms between two heartbeats
  StallThreshold            \* ms of lag from which a heartbeat tells of a stall

ASSUME CapturesAssumption ==
  Captures \subseteq [primary : Seq([at : Nat, lag : Nat]), secondary : Seq([at : Nat, lag : Nat]), start : Nat]
ASSUME TimesAssumption ==
  CaptureDuration \in Nat /\ HeartbeatResolution \in Nat /\ StallThreshold \in Nat \ {0}

EventInit == done = FALSE /\ Take("timeline", Captures)
EventSpec == EventInit /\ [][CarryOut]_vars

(* What the analysis makes of one input.                                     *)

Merged(in)  == MergeTimedSamples(in.primary, in.secondary)
Swapped(in) == MergeTimedSamples(in.secondary, in.primary)
EventsOf(merged, in) == NormalizeTimedEvents(merged, in.start, CaptureDuration)
RawOf(events)    == RawStalls(events, CaptureDuration, HeartbeatResolution, StallThreshold)
StallsOf(events) == StallWindows(events, CaptureDuration, HeartbeatResolution, StallThreshold)
LoopReport(events) ==
  EventLoopReport(events, TRUE, ResolveHistogram(SummarizeEventLoop(events), events, HeartbeatResolution),
                  CaptureDuration, HeartbeatResolution, StallThreshold)

(* What the results have to keep of it.                                      *)

\* the samples that came on either route and lie before the end, each once
Heard(in) == {s \in ToSet(in.primary) \cup ToSet(in.secondary) :
                s.at - in.start <= CaptureDuration + EventSlack}

Lies(w, v) == v.start <= w.start /\ w.end <= v.end
During(windows, t) == \E i \in DOMAIN windows : windows[i].start <= t /\ t <= windows[i].end

EventsKept(in, events) ==
  /\ \A i \in DOMAIN events : events[i].at \in 0..(CaptureDuration + EventSlack)
  /\ \A i, j \in DOMAIN events : i <= j => events[i].at <= events[j].at
  /\ Len(events) = Cardinality(Heard(in))
  /\ ToSet(events) = {[s EXCEPT !.at = Max({0, @ - in.start})] : s \in Heard(in)}

StallsKept(raw, stalls) ==
  /\ \A i, j \in DOMAIN stalls : i < j => stalls[i].end + 1 < stalls[j].start
  /\ \A i \in DOMAIN stalls : \A t \in stalls[i].start..stalls[i].end : During(raw, t)
  /\ \A k \in DOMAIN raw : \E i \in DOMAIN stalls :
       /\ Lies(raw[k], stalls[i]) /\ raw[k].lag <= stalls[i].lag
       /\ \A j \in (DOMAIN stalls) \ {i} : ~Lies(raw[k], stalls[j])
  /\ \A i \in DOMAIN stalls : \E k \in DOMAIN raw :
       Lies(raw[k], stalls[i]) /\ raw[k].lag = stalls[i].lag

FiguresKept(events, report) ==
  /\ report.available = (events # <<>>)
  /\ report.stalls = StallsOf(events)
  /\ events # <<>> => report.figures.p50 <= report.figures.p99 /\ report.figures.p99 <= report.figures.max

EventsHold(in) ==
  LET events == EventsOf(Merged(in), in)
  IN /\ DedupeTimedEvents(Merged(in)) = Merged(in)
     /\ EventsKept(in, events) /\ EventsKept(in, EventsOf(Swapped(in), in))
     /\ StallsKept(RawOf(events), StallsOf(events))
     /\ FiguresKept(events, LoopReport(events))

\* Timed signals that reach the coordinator over several routes are merged, moved onto the
\* capture's clock and cut at its end without losing or doubling an event, whichever route
\* came first; the stall windows made of them are in order, apart and cover the same time,
\* each late heartbeat lies in exactly one of them, and a window's lag is that of a heartbeat
\* in it (timed-signals.ts, event-loop-report.ts).
EventsAreKept == After("timeline") => EventsHold(input)
=============================================================================
