---------------------------- MODULE WatchBinding ----------------------------
(***************************************************************************)
(* One watch binding of src/lib/watch-processor.ts: the cluster's events   *)
(* for the bound kind, the callback runBinding() hands to the watcher, and *)
(* the binding's queue.  A Reconcile binding (isQueue) goes through the    *)
(* queue of ReconcileQueue; a Watch binding runs its callback directly.    *)
(*                                                                         *)
(* The cluster and the watcher (kubernetes-fluent-client) are external:    *)
(* events of an object arrive in order and without waiting for earlier     *)
(* callbacks, a fresh process starts from a list in which every existing   *)
(* object is ADDED, and a watch that gives up ends the process, which the  *)
(* Deployment restarts.  What the module author's callback does with an    *)
(* object is seen in "applied": its effect happens when it completes.      *)
(***************************************************************************)
EXTENDS ReconcileQueue, FiniteSets

CONSTANTS Objects,     \* the objects of the bound kind
          MatchSet,    \* those that filterNoMatchReason() lets through
          Bindings,    \* what the binding may be: its event and isQueue
          MaxVersion,  \* bound on the changes of each object
          MaxGiveUps,  \* bound on the times the watch gives up
          MaxErrors    \* bound on the times the callback throws

Phases == {"ADDED", "MODIFIED", "DELETED"}

\* eventToPhaseMap: the watch phases each binding event stands for.
EventToPhase ==
  [CREATE |-> {"ADDED"},
   UPDATE |-> {"MODIFIED"},
   CREATEORUPDATE |-> {"ADDED", "MODIFIED"},
   DELETE |-> {"DELETED"},
   ANY |-> Phases]

ASSUME BindingAssumption ==
  /\ IsFiniteSet(Objects)
  /\ MatchSet \subseteq Objects
  /\ Bindings \subseteq [event : DOMAIN EventToPhase, isQueue : BOOLEAN]
  /\ {MaxVersion, MaxGiveUps, MaxErrors} \subseteq Nat
  \* every event the bounds allow can be delivered
  /\ Calls = 1..(Cardinality(Objects) * (MaxVersion + MaxGiveUps))

VARIABLES binding,  \* the binding, which never changes
          version,  \* number of changes made to each object
          exists,   \* whether the object is in the cluster
          stream,   \* events on their way to this process
          up,       \* whether the process runs
          event,    \* the event of each call made so far, in order
          applied,  \* the last event of each object handled to the end
          giveUps, errors

clusterVars == <<version, exists>>
counters == <<giveUps, errors>>
vars == <<queueVars, binding, clusterVars, stream, up, event, applied, counters>>

\* eventToPhaseMap[binding.event]
PhaseMatch == EventToPhase[binding.event]

Init ==
  /\ InitQueue
  /\ binding \in Bindings
  /\ version = [o \in Objects |-> 0]
  /\ exists = [o \in Objects |-> FALSE]
  /\ stream = <<>>
  /\ up = TRUE
  /\ event = <<>>
  /\ applied = [o \in Objects |-> [phase |-> "NONE", version |-> 0]]
  /\ giveUps = 0
  /\ errors = 0

EventOf(o, phase, v) == [object |-> o, phase |-> phase, version |-> v]

\* The object is created, updated or deleted; a connected watch hears of it.
Change(o, phase) ==
  /\ version[o] < MaxVersion
  /\ exists[o] <=> phase \in {"MODIFIED", "DELETED"}
  /\ version' = [version EXCEPT ![o] = @ + 1]
  /\ exists' = [exists EXCEPT ![o] = phase # "DELETED"]
  /\ stream' = IF up THEN Append(stream, EventOf(o, phase, version'[o])) ELSE stream
  /\ UNCHANGED <<queueVars, binding, up, event, applied, counters>>

\* The start of watchCallback without the queue: nothing else is touched.
RunDirectly(c) ==
  /\ promise' = [promise EXCEPT ![c] = "waiting"]
  /\ running' = Append(running, c)
  /\ UNCHANGED <<queue, pendingPromise>>

NextCall == Len(event) + 1

\* Calls bounds the deliveries; it is never reached (BindingAssumption).
Take ==
  /\ up
  /\ stream # <<>>
  /\ NextCall \in Calls
  /\ stream' = Tail(stream)
  /\ event' = Append(event, Head(stream))
  /\ UNCHANGED <<binding, clusterVars, up, applied, counters>>

\* Mutant: isQueue is not looked at, every event runs directly.
DeliverDirectly == Take /\ RunDirectly(NextCall)

\* The watcher calls back: enqueue the event or run the callback on it.
Deliver == Take /\ IF binding.isQueue THEN Enqueue(NextCall) ELSE RunDirectly(NextCall)

\* watchCallback's two filters: the phase, then filterNoMatchReason().
Selected(e) == e.phase \in PhaseMatch /\ e.object \in MatchSet

\* watchCallback returned: through Settle under the queue.  It catches what
\* the module author's callback throws, so it always resolves.
Return(i) ==
  IF binding.isQueue
  THEN Settle(i, "resolved")
  ELSE /\ running[i] \notin Hanging
       /\ promise' = [promise EXCEPT ![running[i]] = "resolved"]
       /\ running' = RemoveAt(running, i)
       /\ UNCHANGED <<queue, pendingPromise>>

\* What the callback, called with the object and the phase, has dealt with.
Applied(e) == [phase |-> e.phase, version |-> e.version]

\* The callback completes on a selected event.
Complete(i) ==
  /\ up
  /\ LET e == event[running[i]]
     IN /\ Selected(e)
        /\ applied' = [applied EXCEPT ![e.object] = Applied(e)]
  /\ Return(i)
  /\ UNCHANGED <<binding, clusterVars, stream, up, event, counters>>

\* The event is filtered out: the module author's code never sees it.
Skip(i) ==
  /\ up
  /\ ~Selected(event[running[i]])
  /\ Return(i)
  /\ UNCHANGED <<binding, clusterVars, stream, up, event, applied, counters>>

Threw(i) ==
  /\ up
  /\ errors < MaxErrors
  /\ errors' = errors + 1
  /\ Selected(event[running[i]])
  /\ UNCHANGED <<binding, clusterVars, stream, up, event, applied, giveUps>>

\* Mutant: no try and catch around the callback.
ThrowUncaught(i) == Threw(i) /\ Settle(i, "rejected")

\* The callback throws before its effect: the error is logged, no retry.
Throw(i) == Threw(i) /\ Return(i)

\* WatchEvent.GIVE_UP, or start() fails: process.exit(1).  Everything the
\* process held is gone; the effects of its callbacks are not.
GiveUp ==
  /\ up
  /\ giveUps < MaxGiveUps
  /\ giveUps' = giveUps + 1
  /\ up' = FALSE
  /\ stream' = <<>>
  /\ queue' = <<>>
  /\ running' = <<>>
  /\ pendingPromise' = FALSE
  /\ promise' = [c \in Calls |-> IF promise[c] = "waiting" THEN "none" ELSE promise[c]]
  /\ UNCHANGED <<binding, clusterVars, event, applied, errors>>

\* A new process runs setupWatch(): the watcher lists, in some order.
Restart ==
  /\ ~up
  /\ up' = TRUE
  /\ \E order \in SetToSeqs({o \in Objects : exists[o]}) :
       stream' = [k \in DOMAIN order |-> EventOf(order[k], "ADDED", version[order[k]])]
  /\ UNCHANGED <<queueVars, binding, clusterVars, event, applied, counters>>

Finish == \E i \in DOMAIN running : Complete(i) \/ Skip(i)

NextBinding ==
  \/ \E o \in Objects, phase \in Phases : Change(o, phase)
  \/ Deliver
  \/ Finish
  \/ \E i \in DOMAIN running : Throw(i)
  \/ GiveUp
  \/ Restart

\* Weak fairness of the watcher (it delivers), of the Deployment (it
\* restarts) and of each callback that is not in Hanging.
SpecBinding ==
  /\ Init /\ [][NextBinding]_vars
  /\ WF_vars(Deliver) /\ WF_vars(Restart)
  /\ \A c \in Calls : WF_vars(\E i \in DOMAIN running : running[i] = c /\ (Complete(i) \/ Skip(i)))

-----------------------------------------------------------------------------
(* Properties                                                              *)

\* Type invariant of the binding and of the queue it owns.  No promise is
\* rejected: an error of the callback would then be an unhandled rejection
\* in the watcher (watch-processor.ts:71, "should not crash").
BindingTypeOK ==
  /\ TypeOK
  /\ \A c \in Calls : promise[c] # "rejected"
  /\ binding \in Bindings
  /\ version \in [Objects -> 0..MaxVersion]
  /\ exists \in [Objects -> BOOLEAN]
  /\ stream \in Seq([object : Objects, phase : Phases, version : 1..MaxVersion])
  /\ up \in BOOLEAN
  /\ event \in Seq([object : Objects, phase : Phases, version : 1..MaxVersion])
  /\ applied \in [Objects -> [phase : Phases \cup {"NONE"}, version : 0..MaxVersion]]
  /\ giveUps \in 0..MaxGiveUps
  /\ errors \in 0..MaxErrors

\* With the queue, the effect of an older event never overwrites the effect
\* of a newer one of the same object, across errors, give-ups and restarts:
\* what Reconcile adds to Watch (030_reconcile.md:3, "ordered and synchronous").
EffectsInOrder ==
  [][binding.isQueue => \A o \in Objects : applied'[o].version >= applied[o].version]_vars

HungRunning == \E i \in DOMAIN running : running[i] \in Hanging

\* A Reconcile binding for creations and updates whose callback neither
\* throws nor hangs ends up having handled every matching object that
\* exists in its latest version, however often the watch gave up before:
\* the relist makes up for the events the dead process lost.
Converges ==
  <>[](/\ binding.isQueue
       /\ {"ADDED", "MODIFIED"} \subseteq PhaseMatch
       /\ errors = 0
       /\ ~HungRunning
       => \A o \in MatchSet : exists[o] => applied[o].version = version[o])
=============================================================================
