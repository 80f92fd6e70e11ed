------------------------------ MODULE Custody ------------------------------
(***************************************************************************)
(* What a capture promises of the items its target produces -- heartbeats, *)
(* pauses, memory samples, async records -- with nothing of how they get   *)
(* to the profiler: the target keeps an item, an answer carries it, the    *)
(* profiler holds it; or it is cut off at the target's bound, or lost on   *)
(* the way.  An item moves forward and its end is final.  SignalDrain and  *)
(* AsyncCollector both implement this specification.                       *)
(***************************************************************************)
CONSTANT Items

VARIABLES
  kept,       \* in the target
  carried,    \* in an answer on its way
  delivered,  \* with the profiler
  discarded,  \* cut off, or turned away, at the bound of the target
  lost        \* in an answer nobody took, or given up by the profiler

vars == <<kept, carried, delivered, discarded, lost>>

Known == kept \cup carried \cup delivered \cup discarded \cup lost

Init ==
  /\ kept = {} /\ carried = {} /\ delivered = {}
  /\ discarded = {} /\ lost = {}

(* A new item is kept; at the bound, others make room for it. *)
Admit ==
  /\ UNCHANGED <<carried, delivered, lost>>
  /\ discarded' = discarded \cup (kept \ kept')
  /\ \E item \in Items \ Known : item \in kept' /\ kept' \subseteq kept \cup {item}

(* A new item finds no room. *)
TurnAway ==
  /\ UNCHANGED <<kept, carried, delivered, lost>>
  /\ \E item \in Items \ Known : discarded' = discarded \cup {item}

(* The target answers, and forgets what it hands over. *)
Answer ==
  /\ kept' \subseteq kept
  /\ carried' = carried \cup (kept \ kept')
  /\ UNCHANGED <<delivered, discarded, lost>>

Deliver ==
  /\ carried' \subseteq carried
  /\ delivered' = delivered \cup (carried \ carried')
  /\ UNCHANGED <<kept, discarded, lost>>

(* An answer comes too late, or its connection is gone. *)
Lose ==
  /\ carried' \subseteq carried
  /\ lost' = lost \cup (carried \ carried')
  /\ UNCHANGED <<kept, delivered, discarded>>

(* The profiler gives up all it holds, never a part of it. *)
GiveUp ==
  /\ lost' = lost \cup delivered
  /\ delivered' = {}
  /\ UNCHANGED <<kept, carried, discarded>>

(* The capture is over for the target: what nobody asked for is dropped,   *)
(* and no answer is on its way.                                            *)
Retire ==
  /\ carried = {}
  /\ kept' = {}
  /\ discarded' = discarded \cup kept
  /\ UNCHANGED <<carried, delivered, lost>>

Next ==
  \/ Admit \/ TurnAway \/ Answer
  \/ Deliver \/ Lose \/ GiveUp \/ Retire

Spec == Init /\ [][Next]_vars
==============================================================================
