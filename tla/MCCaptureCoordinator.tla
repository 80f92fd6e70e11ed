------------------------ MODULE MCCaptureCoordinator ------------------------
(***************************************************************************)
(* Instances of CaptureCoordinator: the memory probe (drained, disposed,   *)
(* stopped without a timer when it takes heap snapshots) and the cpu probe *)
(* (disposed, never drained).                                              *)
(***************************************************************************)
EXTENDS CaptureCoordinator

CONSTANTS Cpu, Memory

MCNoKind == {}
MCOneKind == {Memory}
MCKinds == {Cpu, Memory}
MCDrainable == {Memory}
MCDisposable == {Cpu, Memory}
MCUntimedStop == {Memory}
==============================================================================
