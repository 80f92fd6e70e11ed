--------------------------- MODULE AsyncCollector ---------------------------
(***************************************************************************)
(* The async_hooks collector inside the target: its record table, bounded  *)
(* by MaxRecords, what its five hooks do to it, the drains that take the   *)
(* completed records out while the capture runs, the final read, and the   *)
(* probe at the other end of the connection that adds the answers up.      *)
(*                                                                         *)
(* Node calls the hooks, and the guards of the Hook actions say which      *)
(* calls it makes: ids are never reused, runs nest, an operation is        *)
(* destroyed once and a promise is resolved once, possibly inside its own  *)
(* run.  CDP evaluations (drain, read, disable) interrupt the target       *)
(* between any two hook calls, also inside a run.                          *)
(*                                                                         *)
(* An answer is the set of operations whose records it carries, and a      *)
(* record is its duration, chosen when it completes; stacks, those of      *)
(* awaits included, run windows and concurrency samples are data and left  *)
(* out.  So are filtered types, of which init only counts the name.        *)
(***************************************************************************)
EXTENDS FiniteSets, Integers, Sequences, SequencesExt

CONSTANTS
  MaxRecords,   \* --async-max-events
  ScanLimit,    \* EVICTION_SCAN_LIMIT
  MaxOps,       \* bound: async resources the target creates
  MaxEarly,     \* bound: of them, those created before the capture
  MaxDrains,    \* bound: drains sent
  MaxRuns,      \* bound: runs of operations, all told
  Durations     \* durationMs of completed operations

ASSUME CollectorAssumption ==
  /\ MaxRecords \in Nat \ {0}
  /\ ScanLimit \in Nat \ {0}
  /\ MaxOps \in Nat /\ MaxEarly \in Nat /\ MaxDrains \in Nat /\ MaxRuns \in Nat
  /\ Durations \in SUBSET Nat

Ops == 1..MaxOps
NoTime == -1       \* durationMs undefined

VARIABLES
  kind,        \* [Ops -> what was created under this id, "unborn" before]
  early,       \* what was created before the capture started
  resolved,    \* promises that were resolved
  destroyed,   \* resources that were destroyed
  stack,       \* runs open in the target, innermost last
  runs,        \* runs begun so far
  records,     \* the record table: retained id -> durationMs
  completed,   \* completedRecords, in the order of completion
  openRuns,    \* ids with an open run window
  activeCount,
  inflightCount,
  recordsDropped,
  disabled,    \* disable() ran
  asked,       \* evaluations the target has not run yet
  replies,     \* answers on their way, each a set of operations
  closed,      \* the connection is gone
  drains,      \* drains sent so far
  drained,     \* drainedRecords of the probe, answer by answer
  bundle,      \* records of the finished section
  phase,       \* of the probe
  evicted, refused, lost   \* recorded: what became of records that left otherwise

nodeVars  == <<kind, early, resolved, destroyed, stack, runs>>
tableVars == <<records, completed, openRuns, activeCount, inflightCount, recordsDropped>>
wireVars  == <<asked, replies, closed>>
probeVars == <<drains, drained, bundle, phase>>
ghostVars == <<evicted, refused, lost>>
vars == <<nodeVars, tableVars, disabled, wireVars, probeVars, ghostVars>>

Kinds  == {"promise", "resource"}
Phases == {"install", "capture", "stopping", "stopped", "abandoned", "disposed"}

Retained == DOMAIN records
Born     == {id \in Ops : kind[id] # "unborn"}
Open     == Range(stack)

(* What the hooks are to observe in this capture: created after its reset. *)
Observed == Born \ early

TypeOK ==
  /\ kind \in [Ops -> Kinds \cup {"unborn"}] /\ early \in SUBSET Ops
  /\ resolved \in SUBSET Ops /\ destroyed \in SUBSET Ops
  /\ stack \in Seq(Ops) /\ runs \in 0..MaxRuns
  /\ Retained \in SUBSET Ops /\ \A id \in Retained : records[id] \in Durations \cup {NoTime}
  /\ completed \in Seq(Ops) /\ openRuns \in SUBSET Ops
  /\ activeCount \in Nat /\ inflightCount \in Nat /\ recordsDropped \in Nat
  /\ disabled \in BOOLEAN /\ closed \in BOOLEAN
  /\ asked \in Seq({"drain", "read"})
  /\ replies \in Seq(SUBSET Ops)
  /\ drains \in 0..MaxDrains
  /\ drained \in Seq(SUBSET Ops) /\ bundle \in Seq(SUBSET Ops)
  /\ phase \in Phases
  /\ evicted \in SUBSET Ops /\ refused \in SUBSET Ops /\ lost \in SUBSET Ops

Empty == [id \in {} |-> NoTime]

Init ==
  /\ kind = [id \in Ops |-> "unborn"] /\ early = {}
  /\ resolved = {} /\ destroyed = {} /\ stack = <<>> /\ runs = 0
  /\ records = Empty /\ completed = <<>> /\ openRuns = {}
  /\ activeCount = 0 /\ inflightCount = 0 /\ recordsDropped = 0
  /\ disabled = FALSE /\ asked = <<>> /\ replies = <<>> /\ closed = FALSE
  /\ drains = 0 /\ drained = <<>> /\ bundle = <<>> /\ phase = "install"
  /\ evicted = {} /\ refused = {} /\ lost = {}

------------------------------------------------------------------------------
(* The hooks.                                                              *)

Without(table, ids) == [id \in DOMAIN table \ ids |-> table[id]]

(* The candidates: positions of the oldest ScanLimit completed records.    *)
Scanned == 1 .. (IF Len(completed) < ScanLimit THEN Len(completed) ELSE ScanLimit)

Quicker(i, j) == records[completed[i]] < records[completed[j]]

(* Mutant: the newest completed record goes, not the quickest candidate. *)
EvictionNewest == Len(completed)

(* selectAsyncRecordEvictionCandidate: the first candidate with the least  *)
(* duration; there is none when nothing is completed.                      *)
EvictionPlace ==
  CHOOSE i \in Scanned :
    \A j \in Scanned : ~Quicker(j, i) /\ (j < i => Quicker(i, j))

Victim == completed[EvictionPlace]

(* init of an operation that is retained, beside the records that are kept. *)
Retain(id, kept) ==
  /\ records' = [i \in kept \cup {id} |-> IF i = id THEN NoTime ELSE records[i]]
  /\ inflightCount' = inflightCount + 1
  /\ UNCHANGED <<recordsDropped, refused>>

NextId == Cardinality(Born) + 1

HookInit(k) ==
  /\ ~disabled /\ NextId \in Ops
  /\ phase = "install" => NextId <= MaxEarly
  /\ kind' = [kind EXCEPT ![NextId] = k]
  /\ \/ /\ Cardinality(Retained) < MaxRecords
        /\ Retain(NextId, Retained)
        /\ UNCHANGED <<completed, evicted>>
     \/ /\ Cardinality(Retained) >= MaxRecords /\ completed # <<>>
        /\ Retain(NextId, Retained \ {Victim})
        /\ completed' = RemoveAt(completed, EvictionPlace)
        /\ evicted' = evicted \cup {Victim}
     \/ /\ Cardinality(Retained) >= MaxRecords /\ completed = <<>>
        /\ recordsDropped' = recordsDropped + 1
        /\ refused' = refused \cup {NextId}
        /\ UNCHANGED <<records, completed, inflightCount, evicted>>
  /\ UNCHANGED <<early, resolved, destroyed, stack, runs, openRuns, activeCount,
                 disabled, wireVars, probeVars, lost>>

(* A promise runs once; another resource may be entered again, also while  *)
(* it is open (AsyncResource.runInAsyncScope).                             *)
HookBefore(id) ==
  /\ ~disabled /\ id \in Born \ destroyed
  /\ kind[id] = "promise" => id \notin Open \cup resolved
  /\ runs < MaxRuns /\ runs' = runs + 1
  /\ stack' = Append(stack, id)
  /\ IF id \in Retained
       THEN openRuns' = openRuns \cup {id} /\ activeCount' = activeCount + 1
       ELSE UNCHANGED <<openRuns, activeCount>>
  /\ UNCHANGED <<kind, early, resolved, destroyed, records, completed, inflightCount,
                 recordsDropped, disabled, wireVars, probeVars, ghostVars>>

(* Mutant: the run window is not required. *)
HookAfterUnguarded ==
  /\ ~disabled /\ stack # <<>>
  /\ openRuns' = openRuns \ {Last(stack)}
  /\ activeCount' = IF activeCount > 0 THEN activeCount - 1 ELSE 0
  /\ stack' = Front(stack)
  /\ UNCHANGED <<kind, early, resolved, destroyed, runs, records, completed, inflightCount,
                 recordsDropped, disabled, wireVars, probeVars, ghostVars>>

(* The early return leaves the count as it is when the record was evicted  *)
(* or drained inside the run, or an inner run of the same id ended.        *)
HookAfter ==
  /\ ~disabled /\ stack # <<>>
  /\ stack' = Front(stack)
  /\ IF Last(stack) \in Retained \cap openRuns
       THEN /\ openRuns' = openRuns \ {Last(stack)}
            /\ activeCount' = IF activeCount > 0 THEN activeCount - 1 ELSE 0
       ELSE UNCHANGED <<openRuns, activeCount>>
  /\ UNCHANGED <<kind, early, resolved, destroyed, runs, records, completed, inflightCount,
                 recordsDropped, disabled, wireVars, probeVars, ghostVars>>

(* Mutant: a promise that is resolved and then destroyed completes twice. *)
CompleteAgain(id, elapsed) ==
  IF id \notin Retained THEN UNCHANGED <<records, completed, inflightCount>>
  ELSE /\ records' = [records EXCEPT ![id] = IF @ = NoTime THEN elapsed ELSE @]
       /\ completed' = Append(SelectSeq(completed, LAMBDA other : other # id), id)
       /\ inflightCount' = IF inflightCount > 0 THEN inflightCount - 1 ELSE 0

(* The common part of destroy and promiseResolve. *)
Complete(id, elapsed) ==
  IF id \notin Retained THEN UNCHANGED <<records, completed, inflightCount>>
  ELSE /\ records' = [records EXCEPT ![id] = IF @ = NoTime THEN elapsed ELSE @]
       /\ IF Contains(completed, id) THEN UNCHANGED <<completed, inflightCount>>
          ELSE /\ completed' = Append(completed, id)
               /\ inflightCount' = IF inflightCount > 0 THEN inflightCount - 1 ELSE 0

HookDestroy(id) ==
  /\ ~disabled /\ id \in Born \ (destroyed \cup Open)
  /\ destroyed' = destroyed \cup {id}
  /\ \E elapsed \in Durations : Complete(id, elapsed)
  /\ UNCHANGED <<kind, early, resolved, stack, runs, openRuns, activeCount, recordsDropped,
                 disabled, wireVars, probeVars, ghostVars>>

HookPromiseResolve(id) ==
  /\ ~disabled /\ id \in Born \ (resolved \cup destroyed)
  /\ kind[id] = "promise"
  /\ resolved' = resolved \cup {id}
  /\ \E elapsed \in Durations : Complete(id, elapsed)
  /\ UNCHANGED <<kind, early, destroyed, stack, runs, openRuns, activeCount, recordsDropped,
                 disabled, wireVars, probeVars, ghostVars>>

ClearRetained ==
  /\ records' = Empty /\ completed' = <<>> /\ openRuns' = {}
  /\ activeCount' = 0 /\ inflightCount' = 0 /\ recordsDropped' = 0

------------------------------------------------------------------------------
(* The capture.                                                            *)

(* The reset hook, run by markCaptureStart.  What was created before it is *)
(* not of this capture.                                                    *)
CaptureStart ==
  /\ phase = "install"
  /\ phase' = "capture"
  /\ ClearRetained
  /\ early' = Born
  /\ evicted' = {} /\ refused' = {} /\ lost' = {}
  /\ UNCHANGED <<kind, resolved, destroyed, stack, runs, disabled, wireVars,
                 drains, drained, bundle>>

SendDrain ==
  /\ phase = "capture" /\ ~closed /\ drains < MaxDrains
  /\ drains' = drains + 1
  /\ asked' = Append(asked, "drain")
  /\ UNCHANGED <<nodeVars, tableVars, disabled, replies, closed,
                 drained, bundle, phase, ghostVars>>

(* Mutant: the drain copies the completed records and leaves them. *)
EvaluateDrainKeeping ==
  /\ asked # <<>> /\ Head(asked) = "drain"
  /\ asked' = Tail(asked)
  /\ replies' = Append(replies, Range(completed))
  /\ UNCHANGED <<nodeVars, tableVars, disabled, closed, probeVars, ghostVars>>

(* drain(): the completed records leave.  What is in flight stays, and so  *)
(* do the windows of open runs.                                            *)
EvaluateDrain ==
  /\ asked # <<>> /\ Head(asked) = "drain"
  /\ asked' = Tail(asked)
  /\ replies' = Append(replies, Range(completed))
  /\ records' = Without(records, Range(completed))
  /\ completed' = <<>>
  /\ UNCHANGED <<nodeVars, openRuns, activeCount, inflightCount, recordsDropped,
                 disabled, closed, probeVars, ghostVars>>

(* read(): every record, the ones in flight as orphans; the table is       *)
(* cleared.                                                                *)
EvaluateRead ==
  /\ asked # <<>> /\ Head(asked) = "read"
  /\ asked' = Tail(asked)
  /\ replies' = Append(replies, Retained)
  /\ ClearRetained
  /\ UNCHANGED <<nodeVars, disabled, closed, probeVars, ghostVars>>

(* An answer to a drain is pushed whether or not its caller still waits;   *)
(* the answer to the read is the last one and finishes the section.        *)
ReceiveDrain ==
  /\ replies # <<>>
  /\ phase = "capture" \/ (phase = "stopping" /\ Len(replies) + Len(asked) > 1)
  /\ drained' = Append(drained, Head(replies))
  /\ replies' = Tail(replies)
  /\ UNCHANGED <<nodeVars, tableVars, disabled, asked, closed,
                 drains, bundle, phase, ghostVars>>

Stop ==
  /\ phase = "capture"
  /\ IF closed THEN phase' = "stopped" /\ bundle' = drained /\ UNCHANGED asked
     ELSE phase' = "stopping" /\ asked' = Append(asked, "read") /\ UNCHANGED bundle
  /\ UNCHANGED <<nodeVars, tableVars, disabled, replies, closed,
                 drains, drained, ghostVars>>

(* Mutant: the bundle has the final read without what was drained. *)
ReceiveReadAlone ==
  /\ phase = "stopping" /\ asked = <<>> /\ Len(replies) = 1
  /\ bundle' = replies
  /\ replies' = <<>>
  /\ phase' = "stopped"
  /\ UNCHANGED <<nodeVars, tableVars, disabled, asked, closed,
                 drains, drained, ghostVars>>

ReceiveRead ==
  /\ phase = "stopping" /\ asked = <<>> /\ Len(replies) = 1
  /\ bundle' = Append(drained, Head(replies))
  /\ replies' = <<>>
  /\ phase' = "stopped"
  /\ UNCHANGED <<nodeVars, tableVars, disabled, asked, closed,
                 drains, drained, ghostVars>>

(* The coordinator's timer for the stop (stopTimeoutMs): the kind has no    *)
(* section, and what was drained for it is given up too.  What was sent    *)
(* stays sent, and its answers come too late.                              *)
StopTimesOut ==
  /\ phase = "stopping"
  /\ phase' = "abandoned"
  /\ bundle' = <<>> /\ drained' = <<>>
  /\ lost' = lost \cup UNION Range(drained)
  /\ UNCHANGED <<nodeVars, tableVars, disabled, wireVars, drains, evicted, refused>>

ReceiveLate ==
  /\ phase = "abandoned" /\ replies # <<>>
  /\ lost' = lost \cup Head(replies)
  /\ replies' = Tail(replies)
  /\ UNCHANGED <<nodeVars, tableVars, disabled, asked, closed, probeVars,
                 evicted, refused>>

(* The connection drops: the target keeps what it was not asked for, what  *)
(* it had answered is gone, and a read in flight rejects, which leaves the *)
(* section with what was drained.                                          *)
Disconnect ==
  /\ ~closed /\ phase \in {"capture", "stopping", "stopped", "abandoned"}
  /\ closed' = TRUE
  /\ lost' = lost \cup UNION Range(replies)
  /\ asked' = <<>> /\ replies' = <<>>
  /\ IF phase = "stopping" THEN phase' = "stopped" /\ bundle' = drained
     ELSE UNCHANGED <<phase, bundle>>
  /\ UNCHANGED <<nodeVars, tableVars, disabled, drains, drained,
                 evicted, refused>>

(* dispose: disable() when the connection is there to carry it.  The       *)
(* target answers in order, so what was sent before is answered before.  A *)
(* dispose that times out is followed by the end of the connection.        *)
Dispose ==
  /\ phase \in {"stopped", "abandoned"} /\ asked = <<>> /\ replies = <<>>
  /\ phase' = "disposed"
  /\ IF closed THEN UNCHANGED <<tableVars, disabled>>
     ELSE disabled' = TRUE /\ ClearRetained
  /\ UNCHANGED <<nodeVars, wireVars, drains, drained, bundle, ghostVars>>

Done == phase = "disposed" /\ UNCHANGED vars

Next ==
  \/ phase # "disposed" /\
       \/ \E k \in Kinds : HookInit(k)
       \/ \E id \in Ops : HookBefore(id) \/ HookDestroy(id) \/ HookPromiseResolve(id)
       \/ HookAfter
       \/ CaptureStart \/ SendDrain \/ EvaluateDrain \/ EvaluateRead
       \/ ReceiveDrain \/ Stop \/ ReceiveRead \/ StopTimesOut \/ ReceiveLate
       \/ Disconnect \/ Dispose
  \/ Done

Spec == Init /\ [][Next]_vars

------------------------------------------------------------------------------
(* Properties.                                                             *)

Carried == UNION Range(replies)

(* What the probe holds, answer by answer. *)
Held == IF phase \in {"stopped", "abandoned", "disposed"} THEN bundle ELSE drained

Places == replies \o Held \o <<Retained, evicted, refused, lost>>

(* Until the probe is disposed of, every operation of the capture is in    *)
(* exactly one place: the table, an answer on its way, the records the     *)
(* probe holds, or among those evicted, refused at the cap, or lost with   *)
(* the connection or a stop that timed out.  No drain, late answer or      *)
(* final read hands one over twice (source.ts drain and read, probe.ts).   *)
Conservation ==
  phase # "disposed" =>
    /\ UNION Range(Places) = Observed
    /\ \A i, j \in DOMAIN Places : i # j => Places[i] \cap Places[j] = {}

(* inflightCount, which the concurrency timeline reports, is the number of *)
(* records that are neither resolved nor destroyed, over evictions, drains *)
(* and a promise that is resolved first and destroyed later; the set of    *)
(* completed records never names one that left the table.                  *)
InflightAgrees ==
  /\ Range(completed) = {id \in Retained : records[id] # NoTime}
  /\ inflightCount = Cardinality(Retained) - Len(completed)

(* activeCount may stay too high (after() returns early for a record that  *)
(* was drained or evicted inside its run) but never too low: the runs that *)
(* are open in the target and still have their record are counted.         *)
ActiveNeverUnder == activeCount >= Cardinality(Open \cap Retained)

(* At the cap the table gives up what is done and quickest: an operation   *)
(* in flight is never evicted, and none that took longer than another of   *)
(* the oldest ScanLimit completed ones.                                    *)
EvictionSparesTheSlow ==
  [][\A id \in (evicted' \ evicted) \cap Retained :
       /\ records[id] # NoTime
       /\ \A i \in Scanned : records[completed[i]] >= records[id]]_vars

(* The capture keeps the promise of Custody about every operation: one     *)
(* that was handed over, discarded or lost never comes back, and what the  *)
(* probe holds it keeps (source.ts drain, read and disable, probe.ts).     *)
(* Before CaptureStart there is no capture; dispose discards what is left. *)
Began == phase # "install"
Over  == phase = "disposed"
Custodian == INSTANCE Custody WITH
  Items     <- Ops,
  kept      <- IF Began /\ ~Over THEN Retained ELSE {},
  carried   <- Carried,
  delivered <- UNION Range(Held),
  discarded <- CASE ~Began -> {}
                 [] Over -> Observed \ ((UNION Range(Held)) \cup lost)
                 [] OTHER -> evicted \cup refused,
  lost      <- lost
KeepsCustody == Custodian!Spec

(* docs/signal-quality.md:102 takes recordsDropped for the number of       *)
(* records discarded at --async-max-events: then it would be zero only     *)
(* when nothing was.                                                       *)
DiscardsAreCounted ==
  phase = "capture" => recordsDropped = Cardinality(evicted) + Cardinality(refused)
==============================================================================
