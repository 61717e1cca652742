----------------------------- MODULE MCSchedule -----------------------------
(* TLC instances of Schedule.                                              *)
EXTENDS Schedule

MCLimits == {2, 3, NoLimit}
MCStartIns == {0, 1, 3}
=============================================================================
