-------------------------- MODULE MCReconcileQueue --------------------------
(* TLC instances of ReconcileQueue.                                        *)
EXTENDS ReconcileQueue

CONSTANTS c1, c2, c3, c4

MCCalls == {c1, c2, c3, c4}
MCNoHanging == {}
=============================================================================
