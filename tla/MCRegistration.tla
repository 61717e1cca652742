--------------------------- MODULE MCRegistration ---------------------------
(* The TLC instance of Registration.                                       *)
EXTENDS Registration

CONSTANTS c1, c2, s1

OwnNames == [c \in {c1, c2} |-> IF c = c1 THEN "one" ELSE "two"]

\* Two capabilities with names of their own and with one name, and one
\* capability that is listed twice
MCModules == {[list |-> <<c1, c2>>, naming |-> OwnNames],
              [list |-> <<c1, c2>>, naming |-> [c \in {c1, c2} |-> "one"]],
              [list |-> <<c1, c1>>, naming |-> OwnNames]}
=============================================================================
