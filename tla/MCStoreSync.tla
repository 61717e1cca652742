---------------------------- MODULE MCStoreSync -----------------------------
(* TLC instances of StoreSync: one capability in two processes.            *)
EXTENDS StoreSync

CONSTANTS s1, s2, capA, k1, k2, v1, v2, w1

MCSenders == {s1, s2}
MCWriters == {s1}
MCCapabilities == {capA}
MCCapabilityOf == [s \in {s1, s2} |-> capA]
MCOwnKeys == [c \in {capA} |-> {c}]
MCOneKey == {k1}
MCTwoKeys == {k1, k2}
MCOneValue == {v1}
MCTwoValues == {v1, v2}
MCOneWait == {w1}
=============================================================================
