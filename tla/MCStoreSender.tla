--------------------------- MODULE MCStoreSender ----------------------------
(* TLC instances of StoreSender.                                           *)
EXTENDS StoreSender

CONSTANTS s1, s2, s3, capA, capB, k1, k2, v1, v2, v3

MCOneSender == {s1}
MCTwoProcesses == {s1, s2, s3}
MCOneCapability == {capA}
MCTwoCapabilities == {capA, capB}
MCCapabilityOfOne == [s \in {s1} |-> capA]
\* s1 and s2: the same capability in two processes
MCCapabilityOf == [s \in {s1, s2, s3} |-> IF s = s3 THEN capB ELSE capA]
MCOneKey == {k1}
MCTwoKeys == {k1, k2}
MCOneValue == {v1}
MCTwoValues == {v1, v2}
=============================================================================
