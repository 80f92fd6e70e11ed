--------------------------- MODULE ManagedCapture ---------------------------
(***************************************************************************)
(* What runCapture promises its caller, with nothing of how it is done: it *)
(* takes a source, holds it, lets go of it exactly once, and settles only  *)
(* afterwards; it returns a bundle only after a stop condition won, and    *)
(* then every requested kind is in the bundle or has its explanation.      *)
(* CaptureCoordinator implements this specification.                       *)
(***************************************************************************)
CONSTANTS Kinds, Reasons

VARIABLES
  requested,  \* options.kinds
  source,     \* "none", "held", or "released"
  reason,     \* why the capture stopped, "none" while it goes on
  gathered,   \* kinds with data in the bundle
  explained,  \* kinds whose loss has a diagnostic
  outcome     \* "pending", "returned", or "threw"

vars == <<requested, source, reason, gathered, explained, outcome>>

Init ==
  /\ requested \in SUBSET Kinds
  /\ source = "none" /\ reason = "none" /\ outcome = "pending"
  /\ gathered = {} /\ explained = {}

Acquire ==
  /\ source = "none" /\ outcome = "pending"
  /\ source' = "held"
  /\ UNCHANGED <<requested, reason, gathered, explained, outcome>>

(* Nothing was taken: the caller gets the error and there is nothing to    *)
(* let go of.                                                              *)
Refuse ==
  /\ source = "none" /\ outcome = "pending"
  /\ outcome' = "threw"
  /\ UNCHANGED <<requested, source, reason, gathered, explained>>

StopFor(r) ==
  /\ source = "held" /\ reason = "none"
  /\ reason' = r
  /\ UNCHANGED <<requested, source, gathered, explained, outcome>>

(* A kind is gathered once the capture has stopped, and never after its    *)
(* loss was explained.                                                     *)
Gather(k) ==
  /\ source = "held" /\ reason # "none" /\ k \in requested \ explained
  /\ gathered' = gathered \cup {k}
  /\ UNCHANGED <<requested, source, reason, explained, outcome>>

Explain(k) ==
  /\ source = "held" /\ k \in requested \ gathered
  /\ explained' = explained \cup {k}
  /\ UNCHANGED <<requested, source, reason, gathered, outcome>>

MaySettle(how) ==
  how = "returned" => reason # "none" /\ requested = gathered \cup explained

(* The release may be the last thing that happens, and then it settles the *)
(* capture in the same step.                                               *)
Release ==
  /\ source = "held"
  /\ source' = "released"
  /\ \/ UNCHANGED outcome
     \/ \E how \in {"returned", "threw"} : MaySettle(how) /\ outcome' = how
  /\ UNCHANGED <<requested, reason, gathered, explained>>

Settle(how) ==
  /\ source = "released" /\ outcome = "pending"
  /\ MaySettle(how) /\ outcome' = how
  /\ UNCHANGED <<requested, source, reason, gathered, explained>>

Next ==
  \/ Acquire \/ Refuse \/ Release
  \/ \E r \in Reasons : StopFor(r)
  \/ \E k \in Kinds : Gather(k) \/ Explain(k)
  \/ \E how \in {"returned", "threw"} : Settle(how)

Spec == Init /\ [][Next]_vars
==============================================================================
