---------------------------- MODULE SharedStore -----------------------------
(***************************************************************************)
(* What the peppr Store promises to those who read it                      *)
(* (docs/030_user-guide/050_store.md): one history of the shared data, of  *)
(* which each store sees some moment, never an earlier one after a later   *)
(* one, and calls that wait until their store sees what they ask for.      *)
(* Nothing is said of how an update travels.                               *)
(***************************************************************************)
EXTENDS Naturals, Sequences

CONSTANTS Senders,       \* the stores: one per capability and process
          Waits,         \* the calls of setItemAndWait and removeItemAndWait
          Satisfied(_, _, _)  \* whether data d answers what wait w asks for

VARIABLES versions,  \* the history of the shared data
          view,      \* the moment of it each store sees; 0 if it sees nothing
          wait       \* the state of the waiting calls

vars == <<versions, view, wait>>

Statuses == {"none", "waiting", "resolved", "rejected", "gone"}

Init ==
  /\ Len(versions) = 1
  /\ view = [s \in Senders |-> 0]
  /\ \A w \in Waits : wait[w].status = "none"

\* Somebody's update of the data takes effect.
Commit ==
  /\ \E d \in {versions'[Len(versions')]} : versions' = Append(versions, d)
  /\ UNCHANGED <<view, wait>>

\* A call starts to wait.
Begin(w) ==
  /\ wait[w].status = "none"
  /\ \E r \in {wait'[w]} : r.status = "waiting" /\ wait' = [wait EXCEPT ![w] = r]
  /\ UNCHANGED <<versions, view>>

\* A store catches up with some later moment, and in the same instant the
\* calls that wait on it for just that are resolved, and no others.
CatchUp(s) ==
  \E v \in view[s]..Len(versions) :
    /\ v # 0
    /\ view' = [view EXCEPT ![s] = v]
    /\ wait' = [w \in Waits |->
                  IF wait[w].status = "waiting" /\ wait[w].sender = s
                     /\ Satisfied(versions, v, wait[w])
                  THEN [wait[w] EXCEPT !.status = "resolved"]
                  ELSE wait[w]]
    /\ UNCHANGED versions

\* A call has waited too long.
Expire(w) ==
  /\ wait[w].status = "waiting"
  /\ wait' = [wait EXCEPT ![w].status = "rejected"]
  /\ UNCHANGED <<versions, view>>

\* The process of a store ends, and with it the calls that wait there.
Forget(s) ==
  /\ view' = [view EXCEPT ![s] = 0]
  /\ wait' = [w \in Waits |->
                IF wait[w].status = "waiting" /\ wait[w].sender = s
                THEN [wait[w] EXCEPT !.status = "gone"]
                ELSE wait[w]]
  /\ UNCHANGED versions

Next ==
  \/ Commit
  \/ \E w \in Waits : Begin(w) \/ Expire(w)
  \/ \E s \in Senders : CatchUp(s) \/ Forget(s)

SafeSpec == Init /\ [][Next]_vars
=============================================================================
