-------------------------- MODULE AsyncAttribution --------------------------
(* Whose is a CPU sample: kinds/async/analysis/cpu-attribution.ts. Samples    *)
(* and run windows are swept together in the order of time, and a sample is   *)
(* given to the innermost of the operations that run when it is taken, if    *)
(* the others are its trigger ancestors. An operation is its place in recs,  *)
(* and its trigger one before it, or Nobody if that was not recorded.        *)
EXTENDS JsArrays

Nobody == 0
MaxHops == 256              \* how far up the triggers of an operation are followed

\* the triggers of an operation, itself first; beyond one that was not recorded there is none
Triggers(recs, id) ==
  LET up[n \in 0..Len(recs)] == IF n = 0 THEN id
                                ELSE IF up[n - 1] \in DOMAIN recs THEN recs[up[n - 1]].trig ELSE Nobody
  IN up

IsAsyncAncestor(recs, a, d) == a = d \/ \E n \in 1..Min({MaxHops, Len(recs)}) : Triggers(recs, d)[n] = a

\* depth in the trigger tree, 1 for a root (chains.ts)
Depth(recs, id) ==
  LET depth[i \in DOMAIN recs] == IF recs[i].trig \in DOMAIN recs THEN depth[recs[i].trig] + 1 ELSE 1
  IN depth[id]

RunWindows(recs) ==
  UNION {{[id |-> id, start |-> w.start, end |-> w.end] : w \in ToSet(recs[id].windows)} : id \in DOMAIN recs}

\* a window is taken from the list when a sample has reached its start, and dropped for good
\* when one has passed its end; the list is sorted by start, so that what has not been taken
\* starts later than what has
Passed(windows, before, t) ==
  LET opened == {w \in windows \ before.taken : w.start <= t}
  IN [taken |-> before.taken \cup opened, active |-> {w \in before.active \cup opened : w.end >= t}]

\* the operations that are found running at each sample
Running(recs, times) ==
  LET sweep[i \in 0..Len(times)] == IF i = 0 THEN [taken |-> {}, active |-> {}]
                                    ELSE Passed(RunWindows(recs), sweep[i - 1], times[i])
  IN [i \in DOMAIN times |-> {w.id : w \in sweep[i].active}]

\* the deepest operation, of equally deep ones the one recorded last
Deepest(recs, open) ==
  CHOOSE d \in open : \A o \in open : \/ Depth(recs, o) < Depth(recs, d)
                                      \/ Depth(recs, o) = Depth(recs, d) /\ o <= d

\* The mutant: the deepest operation is taken whatever else is running.
DeepestWindow(recs, open) == IF open = {} THEN Nobody ELSE Deepest(recs, open)

ResolveWindow(recs, open) ==
  IF open # {} /\ \A o \in open : IsAsyncAncestor(recs, o, Deepest(recs, open))
  THEN Deepest(recs, open) ELSE Nobody

Owners(recs, times) ==
  LET running == Running(recs, times)
  IN [i \in DOMAIN times |-> ResolveWindow(recs, running[i])]
=============================================================================
