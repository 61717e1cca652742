------------------------------ MODULE MCDeploy ------------------------------
(* The TLC instance of Deploy.                                             *)
EXTENDS Deploy

CONSTANTS Full, Lean, Misnamed

\* Two modules need everything, the other one a mutating webhook only.
MCNeeds == [c \in {Full, Lean, Misnamed} |-> IF c = Lean THEN {"mutate"} ELSE Optional]

\* The watcher comes, goes and stays; a name is refused before a module that is
\* fine, and after one; the same module is deployed again.
MCPlans == {<<Full, Lean, Full>>, <<Lean, Full>>, <<Full, Full>>, <<Full, Misnamed>>, <<Misnamed, Full>>}
=============================================================================
