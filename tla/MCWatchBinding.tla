--------------------------- MODULE MCWatchBinding ---------------------------
(* TLC instances of WatchBinding.                                          *)
EXTENDS WatchBinding

CONSTANTS o1, o2

MCObjects == {o1, o2}
MCMatchOne == {o1}
\* Reconcile and Watch bindings, for a map entry of two phases and of one
MCBindings == [event : {"CREATEORUPDATE", "UPDATE"}, isQueue : BOOLEAN]
\* the calls the bounds allow, and one of them that never returns
MCCalls == 1..(2 * (2 + 1))
MCHanging == {2}
=============================================================================
