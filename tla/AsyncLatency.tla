---------------------------- MODULE AsyncLatency ----------------------------
(* How long an asynchronous operation lived, and when of that it waited:     *)
(* kinds/async/latency.ts. An operation is a record of the in-target         *)
(* collector, with its start, its duration if it ended, and the windows in   *)
(* which it ran; a window holds the milliseconds from its start up to, but   *)
(* not including, its end.                                                   *)
EXTENDS Timeline

Unset == -1

EffectiveEnd(r, capture) == IF r.dur # Unset THEN r.init + r.dur ELSE Max({r.init, capture})
EffectiveDuration(r, capture) == IF r.dur # Unset THEN r.dur ELSE Max({0, capture - r.init})

WaitMs(r, end) == Max({0, Max({0, end - r.init}) - r.run})
ScheduleDelay(r) == IF r.first = Unset THEN Unset ELSE Max({0, r.first - r.init})

\* a window that begins no later than the last one ends is a part of it
Joined(windows, w) ==
  IF windows = <<>> \/ w.start > Last(windows).end THEN Append(windows, w)
  ELSE Append(Front(windows), [start |-> Last(windows).start, end |-> Max({Last(windows).end, w.end})])

MergeWindows(windows) ==
  LET sorted == Arranged(windows, DOMAIN windows, [i \in DOMAIN windows |-> windows[i].start])
      merged[n \in 0..Len(sorted)] == IF n = 0 THEN <<>> ELSE Joined(merged[n - 1], sorted[n])
  IN merged[Len(sorted)]

Clamp(v, lo, hi) == Max({lo, Min({hi, v})})

\* what of the windows lies between two times
Clipped(windows, lo, hi) ==
  LET cut == [i \in DOMAIN windows |-> [start |-> Clamp(windows[i].start, lo, hi), end |-> Clamp(windows[i].end, lo, hi)]]
  IN Picked(cut, {i \in DOMAIN cut : cut[i].end > cut[i].start})

\* what lies between two times and in none of the windows, which are in order and apart
Gaps(windows, lo, hi) ==
  LET n    == Len(windows)
      gaps == [i \in 1..(n + 1) |-> [start |-> IF i = 1 THEN lo ELSE windows[i - 1].end,
                                     end |-> IF i = n + 1 THEN hi ELSE windows[i].start]]
  IN Picked(gaps, {i \in 1..(n + 1) : gaps[i].start < gaps[i].end})

\* the complement of the run windows within the lifetime
WaitWindows(r, end) ==
  LET stop == Max({r.init, end})
  IN Gaps(MergeWindows(Clipped(r.windows, r.init, stop)), r.init, stop)
=============================================================================
