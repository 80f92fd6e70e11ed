-------------------------- MODULE MCHookFramework --------------------------
(* Finite instances of HookFramework for TLC. *)
EXTENDS HookFramework, TLC

CONSTANTS
  p1, p2, p3,                 \* profilers
  signals, async, plugin   \* installer ids

MCRank == signals :> 1 @@ async :> 2 @@ plugin :> 3
==============================================================================
