------------------------------ MODULE MCBuild -------------------------------
(* The TLC instance of Build.                                              *)
EXTENDS Build

CONSTANTS Full, Lean, Misnamed, Misplaced, Silent

MCNeeds ==
  [c \in {Full, Lean, Misnamed, Misplaced, Silent} |->
     CASE c = Full -> Optional [] c = Lean -> {"mutate"} [] OTHER -> {"watcher"}]

Plain(c) == [code |-> c, embed |-> TRUE, images |-> TRUE, secret |-> TRUE]
Library(c, s) == [code |-> c, embed |-> FALSE, images |-> TRUE, secret |-> s]
Refused(c, i) == [code |-> c, embed |-> TRUE, images |-> i, secret |-> ~i]

\* A module grows, shrinks and stays, and what is refused comes before,
\* between and after what is not.
MCPlans ==
  {<<Plain(Lean), Plain(Full), Plain(Lean)>>, <<Plain(Full), Plain(Misnamed), Plain(Full)>>,
   <<Plain(Misplaced), Plain(Lean), Plain(Silent)>>,
   <<Library(Lean, FALSE), Plain(Lean), Refused(Full, TRUE)>>,
   <<Library(Lean, TRUE), Refused(Lean, FALSE), Plain(Full)>>}
=============================================================================
