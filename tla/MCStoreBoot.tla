---------------------------- MODULE MCStoreBoot -----------------------------
(* TLC instances of StoreBoot.                                             *)
EXTENDS StoreBoot

CONSTANTS p1, p2, v1, v2

MCProcesses == {p1, p2}
MCWords == {"foo", "baz", "x", "y", "-", "v2", "__peppr_do_not_delete__"}
MCNames == <<<<"foo">>, <<"baz">>>>
MCKeys == {<<"x">>, <<"y">>}
MCValues == {v1, v2}

With(contents) == [q \in DOMAIN Placeholder \cup DOMAIN contents |->
                     IF q \in DOMAIN contents THEN contents[q] ELSE Placeholder[q]]

\* Data of version 1, of version 2, and none yet.
MCInitialData ==
  {Placeholder,
   With([q \in {V1Key(<<"foo">>, <<"x">>), V1Key(<<"foo">>, <<"y">>)} |-> v1]),
   With([q \in {V1Key(<<"foo">>, <<"x">>), V1Key(<<"baz">>, <<"x">>)} |-> v1]),
   With([q \in {V2Key(<<"foo">>, <<"x">>), V2Key(<<"baz">>, <<"y">>)} |-> v1])}
=============================================================================
