---------------------------- MODULE SignalDrain ----------------------------
(***************************************************************************)
(* Where the samples of one in-target buffer go during an attach capture:  *)
(* the capped buffer of the hook, the drains PeriodicSignalDrain requests  *)
(* on every tick, the answers in flight, what the profiler accumulates,    *)
(* and the final read that collects the rest.                              *)
(*                                                                         *)
(* Samples are numbered in the order the target produces them.  The buffer *)
(* loses samples only at its old end or all at once, so it always holds an *)
(* unbroken range of numbers: buffer == base+1 .. produced.                *)
(*                                                                         *)
(* The event-loop and GC readers drop an answer that comes after its timer *)
(* and drain again on the next tick; a kind probe (memory) keeps the late  *)
(* answer and is not drained again.  reader tells the two apart.           *)
(***************************************************************************)
EXTENDS FiniteSets, Integers

CONSTANTS
  Cap,         \* HEARTBEAT_SAMPLE_CAP and its like
  Chunk,       \* HEARTBEAT_SAMPLE_DROP_CHUNK and its like
  MaxSamples,  \* bound: samples the target produces
  MaxCalls     \* bound: drains and the final read together

ASSUME BufferAssumption ==
  /\ Cap \in Nat \ {0}
  /\ Chunk \in 1..Cap
  /\ MaxSamples \in Nat
  /\ MaxCalls \in Nat \ {0}

Samples == 1..MaxSamples
Calls   == 1..MaxCalls

VARIABLES
  reader,     \* who drains: a signal reader or a kind probe; never changes
  produced,   \* samples the hook has pushed since markCaptureStart
  base,       \* samples that have left the buffer
  evicted,    \* samples the cap cut off
  dropped,    \* integrity counter of the hook (eventLoopSamplesDropped, ...)
  open,       \* the CDP connection is up
  sent,       \* evaluate calls issued; call n is the n-th
  status,     \* [Calls -> progress of the call]
  data,       \* [Calls -> samples the target put in the answer]
  awaiting,   \* the call raced against a timer now, 0 if none
  phase,      \* of the coordinator
  held,       \* samples accumulated by the drains
  final,      \* samples of the final read
  lost,       \* samples whose answer nobody took
  timeouts,   \* recorded: a drain or the final read timed out
  bornIn      \* [Samples -> interval the sample was produced in]

targetVars == <<reader, produced, base, evicted, dropped, bornIn>>
callVars   == <<open, sent, status, data>>
hostVars   == <<awaiting, phase, held, final, timeouts>>
vars == <<targetVars, callVars, hostVars, lost>>

Buffer == (base + 1)..produced

(* The coordinator waits, has stopped ticking, reads, or has its signals. *)
Phases == {"wait", "stopping", "reading", "done"}

(* An evaluate is queued at the target until its event loop runs it, then  *)
(* answered, then settled at the profiler.                                 *)
Statuses == {"unsent", "queued", "answered", "settled"}

KeepsLate == reader = "probe"

TypeOK ==
  /\ reader \in {"signal", "probe"}
  /\ produced \in 0..MaxSamples
  /\ base \in 0..produced
  /\ evicted \in SUBSET Samples
  /\ dropped \in Nat
  /\ open \in BOOLEAN
  /\ sent \in 0..MaxCalls
  /\ status \in [Calls -> Statuses]
  /\ data \in [Calls -> SUBSET Samples]
  /\ awaiting \in 0..MaxCalls
  /\ phase \in Phases
  /\ held \in SUBSET Samples
  /\ final \in SUBSET Samples
  /\ lost \in SUBSET Samples
  /\ timeouts \in SUBSET {"drain", "read"}
  /\ bornIn \in [Samples -> 0..MaxCalls]

Init ==
  /\ reader \in {"signal", "probe"}
  /\ produced = 0 /\ base = 0 /\ evicted = {} /\ dropped = 0
  /\ open = TRUE /\ sent = 0
  /\ status = [n \in Calls |-> "unsent"]
  /\ data = [n \in Calls |-> {}]
  /\ awaiting = 0
  /\ phase = "wait"
  /\ held = {} /\ final = {} /\ lost = {}
  /\ timeouts = {}
  /\ bornIn = [s \in Samples |-> 0]

------------------------------------------------------------------------------
(* The target.                                                             *)

(* Mutant: the cut is not counted. *)
ProduceUncounted ==
  /\ produced < MaxSamples
  /\ produced' = produced + 1
  /\ IF produced - base >= Cap
       THEN base' = base + Chunk /\ evicted' = evicted \cup ((base + 1)..(base + Chunk))
       ELSE UNCHANGED <<base, evicted>>
  /\ bornIn' = [bornIn EXCEPT ![produced + 1] = sent]
  /\ UNCHANGED <<reader, dropped, callVars, hostVars, lost>>

(* One heartbeat, GC entry or memory sample: cut the oldest, then push. *)
Produce ==
  /\ produced < MaxSamples
  /\ produced' = produced + 1
  /\ IF produced - base >= Cap
       THEN /\ base' = base + Chunk
            /\ evicted' = evicted \cup ((base + 1)..(base + Chunk))
            /\ dropped' = dropped + Chunk
       ELSE UNCHANGED <<base, evicted, dropped>>
  /\ bornIn' = [bornIn EXCEPT ![produced + 1] = sent]
  /\ UNCHANGED <<reader, callVars, hostVars, lost>>

FirstOf(n, states) == status[n] \in states /\ \A m \in 1..(n - 1) : status[m] \notin states

IsRead(n) == phase \in {"reading", "done"} /\ n = sent

(* Mutant: the drain copies the buffer and does not empty it. *)
ExecuteKeeping(n) ==
  /\ open /\ FirstOf(n, {"queued"})
  /\ status' = [status EXCEPT ![n] = "answered"]
  /\ data' = [data EXCEPT ![n] = Buffer]
  /\ UNCHANGED <<targetVars, open, sent, hostVars, lost>>

(* Mutant: the drain empties the buffer before it copies it. *)
ExecuteClearsFirst(n) ==
  /\ open /\ FirstOf(n, {"queued"})
  /\ status' = [status EXCEPT ![n] = "answered"]
  /\ data' = [data EXCEPT ![n] = IF IsRead(n) THEN Buffer ELSE {}]
  /\ base' = IF IsRead(n) THEN base ELSE produced
  /\ UNCHANGED <<reader, produced, evicted, dropped, bornIn, open, sent,
                 hostVars, lost>>

(* The target runs its oldest queued evaluate.  drain() empties the buffer, *)
(* read() copies it.                                                       *)
Execute(n) ==
  /\ open /\ FirstOf(n, {"queued"})
  /\ status' = [status EXCEPT ![n] = "answered"]
  /\ data' = [data EXCEPT ![n] = Buffer]
  /\ base' = IF IsRead(n) THEN base ELSE produced
  /\ UNCHANGED <<reader, produced, evicted, dropped, bornIn, open, sent,
                 hostVars, lost>>

(* The target exits, or its connection fails: no answer arrives any more.  *)
(* Every reader turns the rejection of its evaluate into an empty result.  *)
Disconnect ==
  /\ open
  /\ open' = FALSE
  /\ status' = [n \in Calls |-> IF status[n] = "unsent" THEN "unsent" ELSE "settled"]
  /\ lost' = lost \cup
       UNION {data[n] : n \in {m \in Calls : status[m] = "answered" /\ ~IsRead(m)}}
  /\ awaiting' = 0
  /\ phase' = IF phase = "reading" THEN "done" ELSE phase
  /\ UNCHANGED <<targetVars, sent, data, held, final, timeouts>>

------------------------------------------------------------------------------
(* The profiler.                                                           *)

Send ==
  /\ sent' = sent + 1
  /\ status' = [status EXCEPT ![sent + 1] = "queued"]
  /\ awaiting' = sent + 1
  /\ UNCHANGED <<open, data>>

(* An interval elapses.  A tick is skipped while the last one is in flight, *)
(* and a probe whose drain failed is not drained again.  One call is left  *)
(* for the final read.                                                     *)
Tick ==
  /\ phase = "wait" /\ open
  /\ awaiting = 0
  /\ ~(KeepsLate /\ "drain" \in timeouts)
  /\ sent + 1 < MaxCalls
  /\ Send
  /\ UNCHANGED <<targetVars, phase, held, final, timeouts, lost>>

(* Answers arrive in the order of their calls.  The one awaited is taken;  *)
(* after its timer, only a probe's own promise still pushes it.            *)
Receive(n) ==
  /\ FirstOf(n, {"answered", "queued"}) /\ status[n] = "answered"
  /\ status' = [status EXCEPT ![n] = "settled"]
  /\ awaiting' = IF n = awaiting THEN 0 ELSE awaiting
  /\ IF IsRead(n)
       THEN /\ final' = IF n = awaiting THEN data[n] ELSE final
            /\ phase' = IF n = awaiting THEN "done" ELSE phase
            /\ UNCHANGED <<held, lost>>
       ELSE /\ IF n = awaiting \/ (KeepsLate /\ phase # "done")
                 THEN held' = held \cup data[n] /\ UNCHANGED lost
                 ELSE lost' = lost \cup data[n] /\ UNCHANGED held
            /\ UNCHANGED <<final, phase>>
  /\ UNCHANGED <<targetVars, open, sent, data, timeouts>>

(* Mutant: the tick's timeout leaves no diagnostic. *)
TimeoutSilently ==
  /\ awaiting # 0
  /\ awaiting' = 0
  /\ phase' = IF phase = "reading" THEN "done" ELSE phase
  /\ UNCHANGED <<targetVars, callVars, held, final, timeouts, lost>>

(* Mutant: the final read is not raced against a timer. *)
TimeoutOfDrains ==
  /\ awaiting # 0 /\ phase # "reading"
  /\ awaiting' = 0
  /\ timeouts' = timeouts \cup {"drain"}
  /\ UNCHANGED <<targetVars, callVars, phase, held, final, lost>>

(* The timer wins. A probe whose stop times out leaves no data at all.     *)
Timeout ==
  /\ awaiting # 0
  /\ awaiting' = 0
  /\ IF phase = "reading"
       THEN /\ phase' = "done"
            /\ timeouts' = timeouts \cup {"read"}
            /\ IF KeepsLate THEN held' = {} /\ lost' = lost \cup held
                            ELSE UNCHANGED <<held, lost>>
       ELSE /\ timeouts' = timeouts \cup {"drain"}
            /\ UNCHANGED <<phase, held, lost>>
  /\ UNCHANGED <<targetVars, callVars, final>>

(* PeriodicSignalDrain.stop(): no tick begins from here on. *)
StopTicking ==
  /\ phase = "wait"
  /\ phase' = "stopping"
  /\ UNCHANGED <<targetVars, callVars, awaiting, held, final, timeouts, lost>>

(* The tick in flight is over: read what is left, if anyone answers. *)
FinalRead ==
  /\ phase = "stopping"
  /\ awaiting = 0
  /\ IF open
       THEN phase' = "reading" /\ Send
       ELSE phase' = "done" /\ UNCHANGED <<callVars, awaiting>>
  /\ UNCHANGED <<targetVars, held, final, timeouts, lost>>

Terminated == phase = "done" /\ UNCHANGED vars

Host == FinalRead \/ Timeout

Next ==
  \/ Produce \/ Disconnect
  \/ Tick \/ StopTicking \/ Host
  \/ \E n \in Calls : Execute(n) \/ Receive(n)
  \/ Terminated

(* Only the profiler's own timers are fair: the target may never answer. *)
Spec == Init /\ [][Next]_vars /\ WF_vars(Host)

------------------------------------------------------------------------------
(* Properties                                                              *)

InFlight == UNION {data[n] : n \in {m \in Calls : status[m] = "answered" /\ ~IsRead(m)}}

Places == <<Buffer, InFlight, held, evicted, lost>>

(* No sample vanishes without a trace and none is in two places: each one  *)
(* is still in the buffer, in the answer of a drain, held by the profiler, *)
(* cut off by the cap, or in an answer nobody took (periodic-drain.ts:78-  *)
(* 106, hooks/installers/runtime-signals.ts:119-161).  The drains and the  *)
(* final read never hand over one sample twice.                            *)
Conservation ==
  /\ 1..produced = Buffer \cup InFlight \cup held \cup evicted \cup lost
  /\ \A i, j \in DOMAIN Places : i # j => Places[i] \cap Places[j] = {}
  /\ held \cap final = {}

(* The cap bounds the buffer and the counter counts exactly what it cut    *)
(* (framework.ts:385-402).                                                 *)
CapIsExact == Cardinality(Buffer) <= Cap /\ dropped = Cardinality(evicted)

(* A signal that misses samples says so.  With no timeout diagnostic, no   *)
(* drop counter and no lost connection, what the drains and the final read *)
(* collected is the whole beginning of the series, without a hole, and     *)
(* reaches to the final read at least (periodic-drain.ts:78-106,           *)
(* coordinator.ts:330-356).                                                *)
LossIsReported ==
  LET collected == held \cup final
  IN  phase = "done" /\ open /\ timeouts = {} /\ dropped = 0 =>
        /\ \A s \in collected : 1..s \subseteq collected
        /\ \A s \in 1..produced : bornIn[s] < sent => s \in collected

(* The drains keep the promise of Custody about every sample: one that was *)
(* handed over, cut off or lost never comes back, and the profiler keeps   *)
(* what it holds, but for a probe whose stop times out, which gives up all *)
(* of it at once (periodic-drain.ts, readers/event-loop.ts, readers/gc.ts, *)
(* kinds/memory/probe.ts).                                                 *)
Custodian == INSTANCE Custody WITH
  Items     <- Samples,
  kept      <- Buffer,
  carried   <- InFlight,
  delivered <- held,
  discarded <- evicted,
  lost      <- lost
KeepsCustody == Custodian!Spec

(* The stop needs no answer of the target to end.                          *)
StopEnds == phase = "stopping" ~> phase = "done"
==============================================================================
