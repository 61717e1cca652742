--------------------------- MODULE ReconcileQueue ---------------------------
(***************************************************************************)
(* The Queue class of src/lib/queue.ts: a FIFO of reconcile requests that  *)
(* is drained one element at a time.                                       *)
(*                                                                         *)
(* JavaScript runs one piece of code at a time and switches only where a   *)
(* function awaits, so each action below is the code between two awaits:   *)
(* enqueue() up to the await of the reconcile function (or its return),    *)
(* and the continuation after that await, which settles the caller's       *)
(* promise, clears the flag and dequeues again before it gives up control. *)
(***************************************************************************)
EXTENDS Naturals, Sequences, SequencesExt

CONSTANTS Calls,    \* the calls of enqueue() that may be made, one element each
          Hanging   \* the calls whose reconcile function never settles

ASSUME HangingAssumption == Hanging \subseteq Calls

VARIABLES queue,           \* #queue
          pendingPromise,  \* #pendingPromise
          running,         \* elements whose reconcile is awaited, in start order
          promise          \* the promise enqueue() returned for each call

queueVars == <<queue, pendingPromise, running, promise>>

Outcomes == {"resolved", "rejected"}

InitQueue ==
  /\ queue = <<>>
  /\ pendingPromise = FALSE
  /\ running = <<>>
  /\ promise = [c \in Calls |-> "none"]

\* The Queue object and its awaited elements after a piece of code has run.
Becomes(q, pending, started) ==
  /\ queue' = q
  /\ pendingPromise' = pending
  /\ running' = started

\* Mutant: the flag is not looked at.
DequeueUnguarded(q, pending, started) ==
  IF q = <<>> THEN Becomes(q, pending, started)
              ELSE Becomes(Tail(q), TRUE, Append(started, Head(q)))

\* Mutant: the element is read but stays in the queue.
DequeuePeek(q, pending, started) ==
  IF pending \/ q = <<>> THEN Becomes(q, pending, started)
                         ELSE Becomes(q, TRUE, Append(started, Head(q)))

\* Mutant: pop() instead of shift().
DequeuePop(q, pending, started) ==
  IF pending \/ q = <<>> THEN Becomes(q, pending, started)
                         ELSE Becomes(Front(q), TRUE, Append(started, Last(q)))

\* #dequeue, called with the queue, the flag and the awaited elements as
\* its caller left them: do nothing under the flag or on an empty queue,
\* otherwise raise the flag and start the next element.
Dequeue(q, pending, started) ==
  \/ /\ pending \/ q = <<>>
     /\ Becomes(q, pending, started)
  \/ /\ ~pending
     /\ q # <<>>
     /\ Becomes(Tail(q), TRUE, Append(started, Head(q)))

\* enqueue(): push the element, then try to dequeue in the same turn.
Enqueue(c) ==
  /\ promise[c] = "none"
  /\ promise' = [promise EXCEPT ![c] = "waiting"]
  /\ Dequeue(Append(queue, c), pendingPromise, running)

\* Mutant: the finally block does not dequeue the next element.
SettleAndStop(i, outcome) ==
  /\ i \in DOMAIN running
  /\ running[i] \notin Hanging
  /\ promise' = [promise EXCEPT ![running[i]] = outcome]
  /\ Becomes(queue, FALSE, RemoveAt(running, i))

\* Mutant: the flag is not cleared.
SettleUnderFlag(i, outcome) ==
  /\ i \in DOMAIN running
  /\ running[i] \notin Hanging
  /\ promise' = [promise EXCEPT ![running[i]] = outcome]
  /\ Dequeue(queue, pendingPromise, RemoveAt(running, i))

\* The i-th awaited reconcile ends: resolve or reject its promise, clear
\* the flag (finally) and dequeue the next element.
Settle(i, outcome) ==
  /\ i \in DOMAIN running
  /\ running[i] \notin Hanging
  /\ promise' = [promise EXCEPT ![running[i]] = outcome]
  /\ Dequeue(queue, FALSE, RemoveAt(running, i))

SettleAny == \E i \in DOMAIN running, outcome \in Outcomes : Settle(i, outcome)

Next == (\E c \in Calls : Enqueue(c)) \/ SettleAny

\* Weak fairness: a reconcile that can settle does (the callback is the
\* module author's code; calls for which it does not are in Hanging).
Spec == InitQueue /\ [][Next]_queueVars /\ WF_queueVars(SettleAny)

-----------------------------------------------------------------------------
(* Properties                                                              *)

\* Type invariant: each variable of the Queue object holds a value of its
\* declared type.
TypeOK ==
  /\ queue \in Seq(Calls)
  /\ pendingPromise \in BOOLEAN
  /\ running \in Seq(Calls)
  /\ promise \in [Calls -> {"none", "waiting"} \cup Outcomes]

\* Two reconciles are never in progress at once, whatever the order in
\* which enqueue() calls arrive and reconciles end (queue.ts:67, "to avoid
\* concurrent reconciliations").
SingleFlight == Len(running) <= 1

\* The queue is never left idle with elements in it: an element that found
\* the flag up relies on the running one to dequeue it (queue.ts:85).
NoIdleBacklog == queue # <<>> => running # <<>>

\* Every call whose promise is unsettled is in the queue or running, in
\* exactly one place, and a settled call is in neither: no element is lost
\* or reconciled twice.
InFlight == running \o queue
EachCallOnce ==
  /\ \A c \in Calls : promise[c] = "waiting" <=> \E i \in DOMAIN InFlight : InFlight[i] = c
  /\ \A i, j \in DOMAIN InFlight : InFlight[i] = InFlight[j] => i = j

\* The queue implements the abstract line: calls are reconciled one at a
\* time and their promises settle in the order of the enqueue() calls.
Line == INSTANCE OrderedReconcile WITH line <- running \o queue
ImplementsOrder == Line!Spec

\* Every promise enqueue() returns is settled, or some call whose reconcile
\* never settles is running: only such a call can hold up the others.
EveryPromiseSettles ==
  \A c \in Calls :
    promise[c] = "waiting" ~>
      promise[c] \in Outcomes \/ \E i \in DOMAIN running : running[i] \in Hanging
=============================================================================
