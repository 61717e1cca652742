-------------------------- MODULE ReconcileProofs ---------------------------
(***************************************************************************)
(* Proofs about the reconcile queue alone (ReconcileQueue), for any set of *)
(* calls and any subset of them that never settles, and then about the     *)
(* watch of a binding that feeds it (WatchBinding), for any objects,       *)
(* bindings and bounds.                                                    *)
(*                                                                         *)
(* For the queue the flag is the key: it is up exactly while one element   *)
(* is running, and the queue is empty while it is down.  Under that        *)
(* invariant an enqueue() appends to running \o queue and a settlement     *)
(* takes its head away, which is what the abstract line does.              *)
(*                                                                         *)
(* For the binding: the events that were delivered and those on their way, *)
(* one after the other, are a history in which the versions of an object   *)
(* never go down, also across a new list.  The queue's line holds calls in *)
(* the order of their events.  So all that is still to be handled of an    *)
(* object is at least as new as what was handled last.                     *)
(***************************************************************************)
EXTENDS WatchBinding, SequenceTheorems, FiniteSetTheorems, TLAPS

-----------------------------------------------------------------------------
(* The queue alone.                                                        *)

\* The flag is up while exactly one element runs, and while it is down
\* nothing waits.
FlagInv ==
  /\ pendingPromise <=> running # <<>>
  /\ Len(running) <= 1
  /\ ~pendingPromise => queue = <<>>

\* The inductive invariant.
IInv == TypeOK /\ FlagInv /\ EachCallOnce

-----------------------------------------------------------------------------
(* Lemmas on sequences.                                                    *)

\* A sequence that is not empty and has at most one element is a singleton.
LEMMA OnlyElement ==
  ASSUME NEW S, NEW s \in Seq(S), s # <<>>, Len(s) <= 1
  PROVE  /\ s[1] \in S
         /\ DOMAIN s = {1}
         /\ s = <<s[1]>>
<1>1. Len(s) \in Nat \ {0} /\ DOMAIN s = 1..Len(s)
  BY EmptySeq, LenProperties
<1>2. Len(s) = 1 /\ DOMAIN s = {1}
  BY <1>1
<1>3. s[1] \in S
  BY <1>2, ElementOfSeq
<1>4. <<s[1]>> \in Seq(S) /\ Len(<<s[1]>>) = 1
  BY <1>3
<1>5. s = <<s[1]>>
  BY <1>2, <1>4, SeqEqual
<1>6. QED
  BY <1>2, <1>3, <1>5

\* Removing the only element leaves the empty sequence.
LEMMA RemoveOnly ==
  ASSUME NEW x
  PROVE  RemoveAt(<<x>>, 1) = <<>>
<1>1. SubSeq(<<x>>, 1, 0) = <<>> /\ SubSeq(<<x>>, 2, 1) = <<>>
  BY SubSeqEmpty
<1>2. RemoveAt(<<x>>, 1) = SubSeq(<<x>>, 1, 1 - 1) \o SubSeq(<<x>>, 1 + 1, Len(<<x>>))
  BY DEF RemoveAt
<1>3. 1 - 1 = 0 /\ 1 + 1 = 2 /\ Len(<<x>>) = 1
  OBVIOUS
<1>4. RemoveAt(<<x>>, 1) = <<>> \o <<>>
  BY <1>1, <1>2, <1>3
<1>5. QED
  BY <1>4

\* Putting one element before a sequence and taking it away again.
LEMMA OneThenTail ==
  ASSUME NEW S, NEW x \in S, NEW q \in Seq(S)
  PROVE  /\ <<x>> \o q # <<>>
         /\ Head(<<x>> \o q) = x
         /\ Tail(<<x>> \o q) = q
  OBVIOUS

\* Splitting a non-empty sequence into its head and tail.
LEMMA HeadThenTail ==
  ASSUME NEW S, NEW q \in Seq(S), q # <<>>
  PROVE  /\ Head(q) \in S
         /\ Tail(q) \in Seq(S)
         /\ <<Head(q)>> \o Tail(q) = q
  OBVIOUS

\* The empty sequence is neutral, and Append moves through concatenation.
LEMMA ConcatAppend ==
  ASSUME NEW S, NEW x \in S, NEW q \in Seq(S), NEW c \in S
  PROVE  /\ <<>> \o q = q
         /\ q \o <<>> = q
         /\ <<x>> \o Append(q, c) = Append(<<x>> \o q, c)
         /\ <<>> \o Append(<<>>, c) = <<c>>
  OBVIOUS

-----------------------------------------------------------------------------
(* The effect of the two operations on the line running \o queue.          *)

\* enqueue() puts its call at the end of the line and keeps the flag right.
LEMMA EnqueueExtends ==
  ASSUME TypeOK, FlagInv, NEW c \in Calls, Enqueue(c)
  PROVE  /\ (running \o queue)' = Append(running \o queue, c)
         /\ FlagInv'
         /\ queue' \in Seq(Calls) /\ running' \in Seq(Calls)
         /\ pendingPromise' \in BOOLEAN
<1> USE DEF TypeOK, FlagInv, Enqueue, Dequeue, Becomes
<1>1. CASE pendingPromise
  <2>1. running = <<running[1]>> /\ running[1] \in Calls
    BY <1>1, OnlyElement
  <2>2. queue' = Append(queue, c) /\ running' = running /\ pendingPromise'
    BY <1>1
  <2>3. <<running[1]>> \o Append(queue, c) = Append(<<running[1]>> \o queue, c)
    BY <2>1, ConcatAppend
  <2>4. QED
    BY <1>1, <2>1, <2>2, <2>3
<1>2. CASE ~pendingPromise
  <2>1. running = <<>> /\ queue = <<>>
    BY <1>2
  <2>2. Append(queue, c) = <<c>> /\ Append(running, c) = <<c>>
    BY <2>1
  <2>3. queue' = Tail(<<c>>) /\ running' = Append(<<>>, Head(<<c>>)) /\ pendingPromise'
    BY <1>2, <2>1, <2>2
  <2>4. queue' = <<>> /\ running' = <<c>>
    BY <2>3
  <2>5. QED
    BY <2>1, <2>3, <2>4
<1>3. QED
  BY <1>1, <1>2

\* A settlement takes the head of the line away, the call that was running,
\* and keeps the flag right.
LEMMA SettlePops ==
  ASSUME TypeOK, FlagInv, NEW i \in DOMAIN running, NEW outcome \in Outcomes,
         Settle(i, outcome)
  PROVE  /\ running \o queue # <<>>
         /\ Head(running \o queue) = running[i]
         /\ (running \o queue)' = Tail(running \o queue)
         /\ running[i] \in Calls
         /\ FlagInv'
         /\ queue' \in Seq(Calls) /\ running' \in Seq(Calls)
         /\ pendingPromise' \in BOOLEAN
<1> USE DEF TypeOK, FlagInv
<1>1. PICK x \in Calls : running = <<x>>
  <2>1. running # <<>>
    OBVIOUS
  <2>2. QED
    BY <2>1, OnlyElement
<1>2. i = 1 /\ running[i] = x /\ RemoveAt(running, i) = <<>>
  BY <1>1, RemoveOnly
<1>3. /\ running \o queue # <<>>
      /\ Head(running \o queue) = x
      /\ Tail(running \o queue) = queue
  BY <1>1, OneThenTail
<1>4. Dequeue(queue, FALSE, <<>>)
  BY <1>2 DEF Settle
<1>5. /\ running' \o queue' = queue
      /\ FlagInv'
      /\ queue' \in Seq(Calls) /\ running' \in Seq(Calls)
      /\ pendingPromise' \in BOOLEAN
  <2>1. CASE queue = <<>>
    <3>1. queue' = <<>> /\ running' = <<>> /\ pendingPromise' = FALSE
      BY <1>4, <2>1 DEF Dequeue, Becomes
    <3>2. Len(<<>>) = 0 /\ <<>> \in Seq(Calls) /\ <<>> \o <<>> = <<>>
      OBVIOUS
    <3>3. Len(running') <= 1
      BY <3>1, <3>2
    <3>4. FlagInv'
      BY <3>1, <3>3
    <3>5. QED
      BY <2>1, <3>1, <3>2, <3>4
  <2>2. CASE queue # <<>>
    <3>1. PICK h \in Calls : h = Head(queue)
      BY <2>2, HeadThenTail
    <3>2. queue' = Tail(queue) /\ running' = <<h>> /\ pendingPromise' = TRUE
      BY <1>4, <2>2, <3>1 DEF Dequeue, Becomes
    <3>3. <<h>> \o Tail(queue) = queue /\ Tail(queue) \in Seq(Calls)
      BY <2>2, <3>1, HeadThenTail
    <3>4. QED
      BY <3>2, <3>3
  <2>3. QED
    BY <2>1, <2>2
<1>6. QED
  BY <1>1, <1>2, <1>3, <1>5

-----------------------------------------------------------------------------
(* The invariant.                                                          *)

LEMMA InitInv == InitQueue => IInv
<1> SUFFICES ASSUME InitQueue PROVE IInv
  OBVIOUS
<1>1. <<>> \in Seq(Calls) /\ Len(<<>>) = 0 /\ <<>> \o <<>> = <<>> /\ DOMAIN <<>> = {}
  OBVIOUS
<1>2. TypeOK
  BY <1>1 DEF InitQueue, TypeOK
<1>3. FlagInv
  <2>1. 0 <= 1
    OBVIOUS
  <2>2. Len(running) <= 1
    BY <1>1, <2>1 DEF InitQueue
  <2>3. QED
    BY <2>2 DEF InitQueue, FlagInv
<1>4. InFlight = <<>>
  BY <1>1 DEF InitQueue, InFlight
<1>5. EachCallOnce
  BY <1>1, <1>4 DEF InitQueue, EachCallOnce
<1>6. QED
  BY <1>2, <1>3, <1>5 DEF IInv

LEMMA EnqueueInv ==
  ASSUME IInv, NEW c \in Calls, Enqueue(c)
  PROVE  IInv'
<1>1. TypeOK /\ FlagInv /\ EachCallOnce
  BY DEF IInv
<1>2. /\ InFlight' = Append(InFlight, c)
      /\ FlagInv'
      /\ queue' \in Seq(Calls) /\ running' \in Seq(Calls)
      /\ pendingPromise' \in BOOLEAN
  BY <1>1, EnqueueExtends DEF InFlight
<1>3. promise[c] = "none" /\ promise' = [promise EXCEPT ![c] = "waiting"]
  BY DEF Enqueue
<1>4. TypeOK'
  BY <1>1, <1>2, <1>3 DEF TypeOK
<1>5. InFlight \in Seq(Calls)
  BY <1>1, ConcatProperties DEF TypeOK, InFlight
<1>6. /\ DOMAIN InFlight' = 1..(Len(InFlight) + 1)
      /\ DOMAIN InFlight = 1..Len(InFlight)
      /\ Len(InFlight) \in Nat
      /\ \A i \in 1..Len(InFlight) : InFlight'[i] = InFlight[i]
      /\ InFlight'[Len(InFlight) + 1] = c
  BY <1>2, <1>5
<1>7. \A i \in DOMAIN InFlight : InFlight[i] # c
  BY <1>1, <1>3 DEF EachCallOnce
<1>8. \A d \in Calls : promise'[d] = "waiting" <=> \E i \in DOMAIN InFlight' : InFlight'[i] = d
  <2> SUFFICES ASSUME NEW d \in Calls
               PROVE  promise'[d] = "waiting" <=> \E i \in DOMAIN InFlight' : InFlight'[i] = d
    OBVIOUS
  <2>1. CASE d = c
    BY <1>1, <1>3, <1>6, <2>1 DEF TypeOK
  <2>2. CASE d # c
    <3>1. promise'[d] = promise[d]
      BY <1>1, <1>3, <2>2 DEF TypeOK
    <3>2. promise[d] = "waiting" <=> \E i \in DOMAIN InFlight : InFlight[i] = d
      BY <1>1 DEF EachCallOnce
    <3>3. (\E i \in DOMAIN InFlight : InFlight[i] = d)
            <=> \E i \in DOMAIN InFlight' : InFlight'[i] = d
      BY <1>6, <2>2
    <3>4. QED
      BY <3>1, <3>2, <3>3
  <2>3. QED
    BY <2>1, <2>2
<1>9. \A i, j \in DOMAIN InFlight' : InFlight'[i] = InFlight'[j] => i = j
  BY <1>1, <1>6, <1>7 DEF EachCallOnce
<1>10. QED
  BY <1>2, <1>4, <1>8, <1>9 DEF IInv, EachCallOnce

LEMMA SettleInv ==
  ASSUME IInv, NEW i \in DOMAIN running, NEW outcome \in Outcomes, Settle(i, outcome)
  PROVE  IInv'
<1>1. TypeOK /\ FlagInv /\ EachCallOnce
  BY DEF IInv
<1>2. /\ InFlight # <<>>
      /\ Head(InFlight) = running[i]
      /\ InFlight' = Tail(InFlight)
      /\ running[i] \in Calls
      /\ FlagInv'
      /\ queue' \in Seq(Calls) /\ running' \in Seq(Calls)
      /\ pendingPromise' \in BOOLEAN
  BY <1>1, SettlePops DEF InFlight
<1>3. promise' = [promise EXCEPT ![running[i]] = outcome]
  BY DEF Settle
<1>4. TypeOK'
  BY <1>1, <1>2, <1>3 DEF TypeOK
<1>5. InFlight \in Seq(Calls)
  BY <1>1, ConcatProperties DEF TypeOK, InFlight
<1>6. /\ Len(InFlight) \in Nat \ {0}
      /\ DOMAIN InFlight = 1..Len(InFlight)
      /\ DOMAIN InFlight' = 1..(Len(InFlight) - 1)
      /\ \A k \in 1..(Len(InFlight) - 1) : InFlight'[k] = InFlight[k + 1]
      /\ InFlight[1] = running[i]
  BY <1>2, <1>5, EmptySeq, HeadTailProperties, LenProperties
<1>7. \A d \in Calls : promise'[d] = "waiting" <=> \E k \in DOMAIN InFlight' : InFlight'[k] = d
  <2> SUFFICES ASSUME NEW d \in Calls
               PROVE  promise'[d] = "waiting" <=> \E k \in DOMAIN InFlight' : InFlight'[k] = d
    OBVIOUS
  <2>1. CASE d = running[i]
    <3>1. promise'[d] # "waiting"
      BY <1>1, <1>3, <2>1 DEF TypeOK, Outcomes
    <3>2. ASSUME NEW k \in DOMAIN InFlight', InFlight'[k] = d
          PROVE  FALSE
      <4>1. k + 1 \in DOMAIN InFlight /\ InFlight[k + 1] = InFlight[1] /\ 1 \in DOMAIN InFlight
        BY <1>6, <2>1, <3>2
      <4>2. k + 1 = 1
        BY <1>1, <4>1 DEF EachCallOnce
      <4>3. QED
        BY <1>6, <4>2
    <3>3. QED
      BY <3>1, <3>2
  <2>2. CASE d # running[i]
    <3>1. promise'[d] = promise[d]
      BY <1>1, <1>3, <2>2 DEF TypeOK
    <3>2. promise[d] = "waiting" <=> \E k \in DOMAIN InFlight : InFlight[k] = d
      BY <1>1 DEF EachCallOnce
    <3>3. ASSUME NEW k \in DOMAIN InFlight, InFlight[k] = d
          PROVE  \E m \in DOMAIN InFlight' : InFlight'[m] = d
      <4>1. k - 1 \in DOMAIN InFlight' /\ InFlight'[k - 1] = d
        BY <1>6, <2>2, <3>3
      <4>2. QED
        BY <4>1
    <3>4. ASSUME NEW k \in DOMAIN InFlight', InFlight'[k] = d
          PROVE  \E m \in DOMAIN InFlight : InFlight[m] = d
      <4>1. k + 1 \in DOMAIN InFlight /\ InFlight[k + 1] = d
        BY <1>6, <3>4
      <4>2. QED
        BY <4>1
    <3>5. QED
      BY <3>1, <3>2, <3>3, <3>4
  <2>3. QED
    BY <2>1, <2>2
<1>8. ASSUME NEW k \in DOMAIN InFlight', NEW m \in DOMAIN InFlight', InFlight'[k] = InFlight'[m]
      PROVE  k = m
  <2>1. /\ k + 1 \in DOMAIN InFlight /\ m + 1 \in DOMAIN InFlight
        /\ InFlight[k + 1] = InFlight[m + 1]
    BY <1>6, <1>8
  <2>2. k + 1 = m + 1
    BY <1>1, <2>1 DEF EachCallOnce
  <2>3. QED
    BY <1>6, <2>2
<1>9. QED
  BY <1>2, <1>4, <1>7, <1>8 DEF IInv, EachCallOnce

LEMMA StutterInv ==
  ASSUME IInv, UNCHANGED queueVars
  PROVE  IInv'
  BY DEF IInv, TypeOK, FlagInv, EachCallOnce, InFlight, queueVars

LEMMA NextInv == IInv /\ [Next]_queueVars => IInv'
<1> SUFFICES ASSUME IInv, [Next]_queueVars PROVE IInv'
  OBVIOUS
<1>1. CASE \E c \in Calls : Enqueue(c)
  BY <1>1, EnqueueInv
<1>2. CASE SettleAny
  BY <1>2, SettleInv DEF SettleAny
<1>3. CASE UNCHANGED queueVars
  BY <1>3, StutterInv
<1>4. QED
  BY <1>1, <1>2, <1>3 DEF Next

\* In every reachable state the flag tells whether an element runs, and
\* every waiting call is in exactly one place.
THEOREM QueueInvariant == Spec => []IInv
  BY InitInv, NextInv, PTL DEF Spec

\* Type correctness of the Queue object's state.
THEOREM TypeCorrect == Spec => []TypeOK
<1>1. IInv => TypeOK
  BY DEF IInv
<1>2. QED
  BY <1>1, QueueInvariant, PTL

\* At most one reconcile is in progress at any time, for any number of calls.
THEOREM OneAtATime == Spec => []SingleFlight
<1>1. IInv => SingleFlight
  BY DEF IInv, FlagInv, SingleFlight
<1>2. QED
  BY <1>1, QueueInvariant, PTL

\* An idle queue is an empty queue: no enqueued call is stranded.
THEOREM NeverStranded == Spec => []NoIdleBacklog
<1>1. IInv => NoIdleBacklog
  BY DEF IInv, FlagInv, NoIdleBacklog
<1>2. QED
  BY <1>1, QueueInvariant, PTL

\* No call is lost, duplicated or reconciled after its promise settled.
THEOREM ExactlyOnce == Spec => []EachCallOnce
<1>1. IInv => EachCallOnce
  BY DEF IInv
<1>2. QED
  BY <1>1, QueueInvariant, PTL

\* Every step of the queue is a step of the abstract line or leaves it
\* unchanged: promises settle in the order of the enqueue() calls.
THEOREM RefinesOrder == Spec => Line!SafeSpec
<1>1. InitQueue => Line!Init
  <2>1. <<>> \o <<>> = <<>>
    OBVIOUS
  <2>2. QED
    BY <2>1 DEF InitQueue, Line!Init
<1>2. IInv /\ [Next]_queueVars => [Line!Next]_(Line!vars)
  <2> SUFFICES ASSUME IInv, [Next]_queueVars PROVE [Line!Next]_(Line!vars)
    OBVIOUS
  <2>1. ASSUME NEW c \in Calls, Enqueue(c) PROVE Line!Submit(c)
    <3>1. (running \o queue)' = Append(running \o queue, c)
      BY <2>1, EnqueueExtends DEF IInv
    <3>2. QED
      BY <2>1, <3>1 DEF Enqueue, Line!Submit
  <2>2. ASSUME NEW i \in DOMAIN running, NEW outcome \in Outcomes, Settle(i, outcome)
        PROVE  Line!Complete(outcome)
    <3>1. /\ running \o queue # <<>>
          /\ Head(running \o queue) = running[i]
          /\ (running \o queue)' = Tail(running \o queue)
      BY <2>2, SettlePops DEF IInv
    <3>2. QED
      BY <2>2, <3>1 DEF Settle, Line!Complete
  <2>3. CASE UNCHANGED queueVars
    BY <2>3 DEF queueVars, Line!vars
  <2>4. QED
    BY <2>1, <2>2, <2>3 DEF Next, SettleAny, Line!Next, Line!CompleteHead, Outcomes
<1>3. QED
  BY <1>1, <1>2, QueueInvariant, PTL DEF Spec, Line!SafeSpec

-----------------------------------------------------------------------------
(* The watch of a binding.                                                 *)

Events == [object : Objects, phase : Phases, version : 1..MaxVersion]

\* The binding's own variables have their types.
BindingTypes ==
  /\ binding \in Bindings
  /\ version \in [Objects -> 0..MaxVersion]
  /\ exists \in [Objects -> BOOLEAN]
  /\ stream \in Seq(Events)
  /\ up \in BOOLEAN
  /\ event \in Seq(Events)
  /\ applied \in [Objects -> [phase : Phases \cup {"NONE"}, version : 0..MaxVersion]]
  /\ giveUps \in 0..MaxGiveUps
  /\ errors \in 0..MaxErrors

\* An object in the cluster has been created by some change.
ExistsInv == \A o \in Objects : exists[o] => version[o] > 0

\* The line holds calls that were made, in the order in which they were.
Ordered(line) ==
  /\ \A i \in DOMAIN line : line[i] \in 1..Len(event)
  /\ \A i, j \in DOMAIN line : i < j => line[i] < line[j]

\* What runs is the event of a call that was made, and under the queue the
\* flag is right and the line in order.
CallsInv ==
  /\ \A c \in Calls : promise[c] # "rejected"
  /\ IF binding.isQueue
     THEN FlagInv /\ Ordered(InFlight)
     ELSE \A i \in DOMAIN running : running[i] \in 1..Len(event)

\* All events of the watch, whatever process they were for.
History == event \o stream

\* The versions of an object never go down, nor above the cluster's.
HistoryInv ==
  /\ \A k \in DOMAIN History : History[k].version <= version[History[k].object]
  /\ \A j, k \in DOMAIN History :
       j <= k /\ History[j].object = History[k].object => History[j].version <= History[k].version

\* The k-th event has yet to be handled by this process.
Outstanding(k) == k > Len(event) \/ \E i \in DOMAIN InFlight : InFlight[i] = k

\* What is yet to be handled is at least as new as what was handled last.
AppliedInv ==
  binding.isQueue =>
    /\ \A o \in Objects : applied[o].version <= version[o]
    /\ \A k \in DOMAIN History :
         Outstanding(k) => applied[History[k].object].version <= History[k].version

\* The inductive invariant.
BindingInv ==
  /\ TypeOK
  /\ BindingTypes
  /\ ExistsInv
  /\ CallsInv
  /\ HistoryInv
  /\ AppliedInv

-----------------------------------------------------------------------------
(* Lemmas on sequences.                                                    *)

\* What is left of a sequence has elements of the same set.
LEMMA RemoveAtType ==
  ASSUME NEW S, NEW s \in Seq(S), NEW i \in DOMAIN s
  PROVE  RemoveAt(s, i) \in Seq(S)
<1>1. Len(s) \in Nat /\ i \in 1..Len(s)
  BY LenProperties
<1>2. SubSeq(s, 1, i - 1) \in Seq(S)
  <2>1. \A k \in 1..(i - 1) : s[k] \in S
    BY <1>1, ElementOfSeq
  <2>2. QED
    BY <1>1, <2>1, SubSeqProperties
<1>3. SubSeq(s, i + 1, Len(s)) \in Seq(S)
  <2>1. \A k \in (i + 1)..Len(s) : s[k] \in S
    BY <1>1, ElementOfSeq
  <2>2. QED
    BY <1>1, <2>1, SubSeqProperties
<1>4. QED
  BY <1>2, <1>3, ConcatProperties DEF RemoveAt

\* The head of one sequence moves to the end of another.
LEMMA HeadMoves ==
  ASSUME NEW S, NEW s \in Seq(S), NEW t \in Seq(S), t # <<>>
  PROVE  /\ Head(t) \in S
         /\ Append(s, Head(t)) \in Seq(S)
         /\ Tail(t) \in Seq(S)
         /\ Append(s, Head(t)) \o Tail(t) = s \o t
<1>1. Head(t) \in S /\ Tail(t) \in Seq(S) /\ <<Head(t)>> \o Tail(t) = t
  BY HeadThenTail
<1>2. <<Head(t)>> \in Seq(S) /\ Append(s, Head(t)) = s \o <<Head(t)>>
  BY <1>1, AppendIsConcat
<1>3. (s \o <<Head(t)>>) \o Tail(t) = s \o (<<Head(t)>> \o Tail(t))
  BY <1>1, <1>2, ConcatAssociative
<1>4. QED
  BY <1>1, <1>2, <1>3, AppendProperties

\* The elements of a concatenation.
LEMMA ConcatElements ==
  ASSUME NEW S, NEW s \in Seq(S), NEW t \in Seq(S)
  PROVE  /\ s \o t \in Seq(S)
         /\ Len(s) \in Nat /\ Len(t) \in Nat
         /\ Len(s \o t) = Len(s) + Len(t)
         /\ DOMAIN s = 1..Len(s) /\ DOMAIN t = 1..Len(t)
         /\ DOMAIN (s \o t) = 1..(Len(s) + Len(t))
         /\ \A k \in DOMAIN s : (s \o t)[k] = s[k]
         /\ \A k \in DOMAIN t : (s \o t)[Len(s) + k] = t[k]
<1>1. /\ s \o t \in Seq(S)
      /\ Len(s) \in Nat /\ Len(t) \in Nat
      /\ Len(s \o t) = Len(s) + Len(t)
      /\ DOMAIN s = 1..Len(s) /\ DOMAIN t = 1..Len(t)
  BY ConcatProperties, LenProperties
<1>2. DOMAIN (s \o t) = 1..(Len(s) + Len(t))
  BY <1>1, LenProperties
<1>3. \A k \in DOMAIN s : (s \o t)[k] = s[k]
  BY <1>1, ConcatProperties
<1>4. \A k \in DOMAIN t : (s \o t)[Len(s) + k] = t[k]
  BY <1>1, ConcatProperties
<1>5. QED
  BY <1>1, <1>2, <1>3, <1>4

\* The elements of a sequence that has grown by one.
LEMMA AppendElements ==
  ASSUME NEW S, NEW s \in Seq(S), NEW x \in S
  PROVE  /\ Append(s, x) \in Seq(S)
         /\ Len(s) \in Nat /\ Len(Append(s, x)) = Len(s) + 1
         /\ DOMAIN s = 1..Len(s) /\ DOMAIN Append(s, x) = 1..(Len(s) + 1)
         /\ \A k \in DOMAIN s : Append(s, x)[k] = s[k]
         /\ Append(s, x)[Len(s) + 1] = x
  BY AppendProperties, LenProperties

-----------------------------------------------------------------------------
(* Lemmas about the binding.                                               *)

\* The elements of the history.
LEMMA HistoryElements ==
  ASSUME BindingTypes
  PROVE  /\ History \in Seq(Events)
         /\ Len(event) \in Nat /\ Len(stream) \in Nat /\ MaxVersion \in Nat
         /\ DOMAIN event = 1..Len(event) /\ DOMAIN stream = 1..Len(stream)
         /\ DOMAIN History = 1..(Len(event) + Len(stream))
         /\ \A k \in 1..Len(event) : History[k] = event[k]
         /\ \A k \in 1..Len(stream) : History[Len(event) + k] = stream[k]
         /\ \A k \in DOMAIN History : History[k] \in Events
<1>1. event \in Seq(Events) /\ stream \in Seq(Events) /\ MaxVersion \in Nat
  BY BindingAssumption DEF BindingTypes
<1>2. \A k \in DOMAIN History : History[k] \in Events
  BY <1>1, ConcatElements, ElementOfSeq DEF History
<1>3. QED
  BY <1>1, <1>2, ConcatElements DEF History

\* Nothing of the queue and nothing of the events delivered changes.
LEMMA CallsKept ==
  ASSUME TypeOK, CallsInv, UNCHANGED <<queueVars, binding, event>>
  PROVE  TypeOK' /\ CallsInv' /\ InFlight' = InFlight
<1>1. UNCHANGED <<queue, pendingPromise, running, promise, binding, event>>
  BY DEF queueVars
<1>2. InFlight' = InFlight
  BY <1>1 DEF InFlight
<1>3. TypeOK'
  BY <1>1 DEF TypeOK
<1>4. CallsInv'
  BY <1>1, <1>2 DEF CallsInv, FlagInv, Ordered
<1>5. QED
  BY <1>2, <1>3, <1>4

\* Appending moves through concatenation.
LEMMA AppendToConcat ==
  ASSUME NEW S, NEW s \in Seq(S), NEW t \in Seq(S), NEW x \in S
  PROVE  s \o Append(t, x) = Append(s \o t, x)
<1>1. <<x>> \in Seq(S) /\ s \o t \in Seq(S)
  BY ConcatProperties
<1>2. Append(t, x) = t \o <<x>> /\ Append(s \o t, x) = (s \o t) \o <<x>>
  BY <1>1, AppendIsConcat
<1>3. QED
  BY <1>1, <1>2, ConcatAssociative

-----------------------------------------------------------------------------
(* The invariant, action by action.                                        *)

LEMMA InitBindingInv == Init => BindingInv
<1> SUFFICES ASSUME Init PROVE BindingInv
  OBVIOUS
<1>1. InitQueue
  BY DEF Init
<1>2. TypeOK /\ FlagInv
  BY <1>1, InitInv DEF IInv
<1>3. BindingTypes
  <2>1. 0 \in 0..MaxVersion /\ 0 \in 0..MaxGiveUps /\ 0 \in 0..MaxErrors
    BY BindingAssumption
  <2>2. <<>> \in Seq(Events)
    OBVIOUS
  <2>3. QED
    BY <2>1, <2>2 DEF Init, BindingTypes
<1>4. ExistsInv
  BY DEF Init, ExistsInv
<1>5. InFlight = <<>> /\ History = <<>> /\ DOMAIN <<>> = {}
  <2>1. <<>> \o <<>> = <<>> /\ DOMAIN <<>> = {}
    OBVIOUS
  <2>2. QED
    BY <2>1 DEF Init, InitQueue, InFlight, History
<1>6. CallsInv
  BY <1>1, <1>2, <1>5 DEF InitQueue, CallsInv, Ordered
<1>7. HistoryInv
  BY <1>5 DEF HistoryInv
<1>8. AppliedInv
  <2>1. \A o \in Objects : applied[o].version = 0 /\ version[o] = 0
    BY DEF Init
  <2>2. QED
    BY <1>5, <2>1 DEF AppliedInv
<1>9. QED
  BY <1>2, <1>3, <1>4, <1>6, <1>7, <1>8 DEF BindingInv

LEMMA ChangeInv ==
  ASSUME BindingInv, NEW o \in Objects, NEW phase \in Phases, Change(o, phase)
  PROVE  BindingInv'
<1> DEFINE e == EventOf(o, phase, version[o] + 1)
<1>1. TypeOK /\ BindingTypes /\ ExistsInv /\ CallsInv /\ HistoryInv /\ AppliedInv
  BY DEF BindingInv
<1>2. /\ version[o] < MaxVersion
      /\ version' = [version EXCEPT ![o] = @ + 1]
      /\ exists' = [exists EXCEPT ![o] = phase # "DELETED"]
      /\ UNCHANGED <<queueVars, binding, up, event, applied, giveUps, errors>>
  BY DEF Change, counters
<1>3. MaxVersion \in Nat /\ \A p \in Objects : version[p] \in 0..MaxVersion
  BY <1>1, BindingAssumption DEF BindingTypes
<1>4. /\ version' \in [Objects -> 0..MaxVersion]
      /\ version'[o] = version[o] + 1
      /\ \A p \in Objects : p # o => version'[p] = version[p]
      /\ \A p \in Objects : version[p] <= version'[p]
  BY <1>1, <1>2, <1>3 DEF BindingTypes
<1>5. stream' = IF up THEN Append(stream, e) ELSE stream
  BY <1>4 DEF Change
<1>6. e \in Events /\ e.object = o /\ e.version = version[o] + 1
  BY <1>2, <1>3 DEF EventOf, Events
<1> HIDE DEF e
<1>7. TypeOK' /\ CallsInv' /\ InFlight' = InFlight
  BY <1>1, <1>2, CallsKept
<1>8. BindingTypes'
  <2>1. stream' \in Seq(Events)
    BY <1>1, <1>5, <1>6, AppendElements DEF BindingTypes
  <2>2. exists' \in [Objects -> BOOLEAN]
    BY <1>1, <1>2 DEF BindingTypes
  <2>3. QED
    BY <1>1, <1>2, <1>4, <2>1, <2>2 DEF BindingTypes
<1>9. ExistsInv'
  BY <1>1, <1>2, <1>3, <1>4 DEF ExistsInv, BindingTypes
<1>10. /\ History \in Seq(Events)
       /\ Len(History) \in Nat
       /\ DOMAIN History = 1..Len(History)
       /\ \A k \in DOMAIN History : /\ History[k].object \in Objects
                                    /\ History[k].version \in 1..MaxVersion
  BY <1>1, HistoryElements, LenProperties DEF Events
<1>11. \/ History' = History
       \/ /\ DOMAIN History' = 1..(Len(History) + 1)
          /\ \A k \in DOMAIN History : History'[k] = History[k]
          /\ History'[Len(History) + 1] = e
  <2>1. CASE ~up
    BY <1>2, <1>5, <2>1 DEF History
  <2>2. CASE up
    <3>1. History' = Append(History, e)
      BY <1>1, <1>2, <1>5, <1>6, <2>2, AppendToConcat DEF History, BindingTypes
    <3>2. /\ DOMAIN Append(History, e) = 1..(Len(History) + 1)
          /\ \A k \in DOMAIN History : Append(History, e)[k] = History[k]
          /\ Append(History, e)[Len(History) + 1] = e
      BY <1>6, <1>10, AppendElements
    <3>3. QED
      BY <3>1, <3>2, Zenon
  <2>3. QED
    BY <2>1, <2>2
<1>12. HistoryInv'
  <2>1. CASE History' = History
    BY <1>1, <1>3, <1>4, <1>10, <2>1 DEF HistoryInv
  <2>2. CASE /\ DOMAIN History' = 1..(Len(History) + 1)
             /\ \A k \in DOMAIN History : History'[k] = History[k]
             /\ History'[Len(History) + 1] = e
    <3>1. \A k \in DOMAIN History' : k \in DOMAIN History \/ k = Len(History) + 1
      BY <1>10, <2>2
    <3>2. \A k \in DOMAIN History' : History'[k].version <= version'[History'[k].object]
      BY <1>1, <1>3, <1>4, <1>6, <1>10, <2>2, <3>1 DEF HistoryInv
    <3>3. \A j \in DOMAIN History : History[j].object = o => History[j].version <= e.version
      BY <1>1, <1>3, <1>6, <1>10 DEF HistoryInv
    <3>4. ASSUME NEW j \in DOMAIN History', NEW k \in DOMAIN History',
                 j <= k, History'[j].object = History'[k].object
          PROVE  History'[j].version <= History'[k].version
      <4>1. CASE k \in DOMAIN History
        <5>1. j \in DOMAIN History
          BY <1>10, <2>2, <3>4, <4>1
        <5>2. QED
          BY <1>1, <2>2, <3>4, <4>1, <5>1 DEF HistoryInv
      <4>2. CASE k = Len(History) + 1 /\ j \in DOMAIN History
        BY <1>6, <2>2, <3>3, <3>4, <4>2
      <4>3. CASE k = Len(History) + 1 /\ j = Len(History) + 1
        BY <1>3, <1>6, <2>2, <4>3
      <4>4. QED
        BY <3>1, <4>1, <4>2, <4>3
    <3>5. QED
      BY <3>2, <3>4 DEF HistoryInv
  <2>3. QED
    BY <1>11, <2>1, <2>2
<1>13. AppliedInv'
  <2> SUFFICES ASSUME binding.isQueue
               PROVE  /\ \A p \in Objects : applied[p].version <= version'[p]
                      /\ \A k \in DOMAIN History' :
                           Outstanding(k)' => applied[History'[k].object].version <= History'[k].version
    BY <1>2 DEF AppliedInv
  <2>1. \A p \in Objects : applied[p].version \in 0..MaxVersion /\ applied[p].version <= version[p]
    BY <1>1 DEF AppliedInv, BindingTypes
  <2>2. \A p \in Objects : applied[p].version <= version'[p]
    BY <1>3, <1>4, <2>1
  <2>3. \A k : Outstanding(k)' <=> Outstanding(k)
    BY <1>2, <1>7 DEF Outstanding
  <2>4. \A k \in DOMAIN History : Outstanding(k) => applied[History[k].object].version <= History[k].version
    BY <1>1 DEF AppliedInv
  <2>5. applied[o].version <= e.version
    BY <1>3, <1>6, <2>1
  <2>6. QED
    BY <1>6, <1>10, <1>11, <2>2, <2>3, <2>4, <2>5
<1>14. QED
  BY <1>7, <1>8, <1>9, <1>12, <1>13 DEF BindingInv

\* A new call joins the binding's own state, in either way.
LEMMA CallJoins ==
  ASSUME TypeOK, BindingTypes, CallsInv, UNCHANGED binding,
         NextCall \in Calls, NEW x \in Events, event' = Append(event, x),
         IF binding.isQueue THEN Enqueue(NextCall) ELSE RunDirectly(NextCall)
  PROVE  /\ TypeOK' /\ CallsInv'
         /\ binding.isQueue => InFlight' = Append(InFlight, NextCall)
<1> DEFINE c == NextCall
<1>1. /\ Len(event) \in Nat /\ Len(event') = Len(event) + 1
      /\ c = Len(event) + 1
  BY AppendElements DEF BindingTypes, NextCall
<1>2. /\ queue \in Seq(Calls) /\ running \in Seq(Calls)
      /\ InFlight \in Seq(Calls)
  BY ConcatElements DEF TypeOK, InFlight
<1> HIDE DEF c
<1>3. c = NextCall
  BY DEF c
<1>4. CASE binding.isQueue
  <2>1. FlagInv /\ Ordered(InFlight) /\ Enqueue(c) /\ c \in Calls
    BY <1>3, <1>4 DEF CallsInv
  <2>2. /\ InFlight' = Append(InFlight, c)
        /\ FlagInv'
        /\ queue' \in Seq(Calls) /\ running' \in Seq(Calls)
        /\ pendingPromise' \in BOOLEAN
    BY <2>1, EnqueueExtends DEF InFlight
  <2>3. promise' = [promise EXCEPT ![c] = "waiting"]
    BY <2>1 DEF Enqueue
  <2>4. TypeOK'
    BY <2>2, <2>3 DEF TypeOK
  <2>5. \A d \in Calls : promise'[d] # "rejected"
    BY <2>3 DEF TypeOK, CallsInv
  <2>6. Ordered(InFlight)'
    <3>1. /\ Len(InFlight) \in Nat
          /\ DOMAIN InFlight = 1..Len(InFlight)
          /\ DOMAIN Append(InFlight, c) = 1..(Len(InFlight) + 1)
          /\ \A k \in DOMAIN InFlight : Append(InFlight, c)[k] = InFlight[k]
          /\ Append(InFlight, c)[Len(InFlight) + 1] = c
      BY <1>2, <2>1, AppendElements
    <3>2. /\ DOMAIN InFlight' = 1..(Len(InFlight) + 1)
          /\ \A k \in DOMAIN InFlight : InFlight'[k] = InFlight[k]
          /\ InFlight'[Len(InFlight) + 1] = c
      BY <2>2, <3>1, Zenon
    <3>3. \A k \in DOMAIN InFlight' : k \in DOMAIN InFlight \/ k = Len(InFlight) + 1
      BY <3>1, <3>2
    <3>4. \A k \in DOMAIN InFlight : InFlight[k] \in 1..Len(event)
      BY <2>1 DEF Ordered
    <3>5. \A k \in DOMAIN InFlight' : InFlight'[k] \in 1..Len(event')
      BY <1>1, <1>3, <3>2, <3>3, <3>4
    <3>6. ASSUME NEW i \in DOMAIN InFlight', NEW j \in DOMAIN InFlight', i < j
          PROVE  InFlight'[i] < InFlight'[j]
      <4>1. i \in DOMAIN InFlight
        BY <3>1, <3>2, <3>6
      <4>2. CASE j \in DOMAIN InFlight
        BY <2>1, <3>2, <3>6, <4>1, <4>2 DEF Ordered
      <4>3. CASE j = Len(InFlight) + 1
        BY <1>1, <1>3, <3>2, <3>4, <4>1, <4>3
      <4>4. QED
        BY <3>3, <4>2, <4>3
    <3>7. QED
      BY <3>5, <3>6 DEF Ordered
  <2>7. QED
    BY <1>3, <1>4, <2>2, <2>4, <2>5, <2>6 DEF CallsInv
<1>5. CASE ~binding.isQueue
  <2>1. /\ promise' = [promise EXCEPT ![c] = "waiting"]
        /\ running' = Append(running, c)
        /\ UNCHANGED <<queue, pendingPromise>>
        /\ c \in Calls
    BY <1>3, <1>5 DEF RunDirectly
  <2>2. /\ Append(running, c) \in Seq(Calls)
        /\ Len(running) \in Nat /\ DOMAIN running = 1..Len(running)
        /\ DOMAIN Append(running, c) = 1..(Len(running) + 1)
        /\ \A k \in DOMAIN running : Append(running, c)[k] = running[k]
        /\ Append(running, c)[Len(running) + 1] = c
    BY <1>2, <2>1, AppendElements
  <2>3. TypeOK'
    BY <2>1, <2>2 DEF TypeOK
  <2>4. \A d \in Calls : promise'[d] # "rejected"
    BY <2>1 DEF TypeOK, CallsInv
  <2>5. \A k \in DOMAIN running' : running'[k] \in 1..Len(event')
    <3>1. /\ DOMAIN running' = 1..(Len(running) + 1)
          /\ \A k \in DOMAIN running : running'[k] = running[k]
          /\ running'[Len(running) + 1] = c
      BY <2>1, <2>2, Zenon
    <3>2. \A k \in DOMAIN running : running[k] \in 1..Len(event)
      BY <1>5 DEF CallsInv
    <3>3. QED
      BY <1>1, <1>3, <2>2, <3>1, <3>2
  <2>6. QED
    BY <1>5, <2>3, <2>4, <2>5 DEF CallsInv
<1>6. QED
  BY <1>4, <1>5

LEMMA DeliverInv ==
  ASSUME BindingInv, Deliver
  PROVE  BindingInv'
<1> DEFINE x == Head(stream)
<1>1. TypeOK /\ BindingTypes /\ ExistsInv /\ CallsInv /\ HistoryInv /\ AppliedInv
  BY DEF BindingInv
<1>2. /\ stream # <<>> /\ NextCall \in Calls
      /\ stream' = Tail(stream)
      /\ event' = Append(event, x)
      /\ UNCHANGED <<binding, version, exists, up, applied, giveUps, errors>>
      /\ IF binding.isQueue THEN Enqueue(NextCall) ELSE RunDirectly(NextCall)
  BY DEF Deliver, Take, clusterVars, counters
<1>3. /\ x \in Events
      /\ Append(event, x) \in Seq(Events)
      /\ Tail(stream) \in Seq(Events)
      /\ Append(event, x) \o Tail(stream) = event \o stream
  BY <1>1, <1>2, HeadMoves DEF BindingTypes
<1> HIDE DEF x
<1>4. History' = History
  BY <1>2, <1>3 DEF History
<1>5. /\ TypeOK' /\ CallsInv'
      /\ binding.isQueue => InFlight' = Append(InFlight, NextCall)
  BY <1>1, <1>2, <1>3, CallJoins
<1>6. BindingTypes'
  BY <1>1, <1>2, <1>3 DEF BindingTypes
<1>7. ExistsInv' /\ HistoryInv'
  BY <1>1, <1>2, <1>4 DEF ExistsInv, HistoryInv
<1>8. AppliedInv'
  <2> SUFFICES ASSUME binding.isQueue, NEW k \in DOMAIN History, Outstanding(k)'
               PROVE  Outstanding(k)
    BY <1>1, <1>2, <1>4 DEF AppliedInv
  <2>1. Len(event) \in Nat /\ Len(event') = Len(event) + 1 /\ k \in Nat
    BY <1>1, <1>2, <1>3, AppendElements, HistoryElements DEF BindingTypes
  <2>2. CASE k > Len(event')
    BY <2>1, <2>2 DEF Outstanding
  <2>3. CASE \E i \in DOMAIN InFlight' : InFlight'[i] = k
    <3>1. InFlight \in Seq(Calls)
      BY <1>1, ConcatElements DEF TypeOK, InFlight
    <3>2. /\ Len(InFlight) \in Nat
          /\ DOMAIN InFlight = 1..Len(InFlight)
          /\ DOMAIN Append(InFlight, NextCall) = 1..(Len(InFlight) + 1)
          /\ \A i \in DOMAIN InFlight : Append(InFlight, NextCall)[i] = InFlight[i]
          /\ Append(InFlight, NextCall)[Len(InFlight) + 1] = NextCall
      BY <1>2, <3>1, AppendElements
    <3>3. /\ DOMAIN InFlight' = 1..(Len(InFlight) + 1)
          /\ \A i \in DOMAIN InFlight : InFlight'[i] = InFlight[i]
          /\ InFlight'[Len(InFlight) + 1] = NextCall
      BY <1>5, <3>2, Zenon
    <3>4. PICK i \in DOMAIN InFlight' : InFlight'[i] = k
      BY <2>3
    <3>5. CASE i \in DOMAIN InFlight
      BY <3>3, <3>4, <3>5 DEF Outstanding
    <3>6. CASE i = Len(InFlight) + 1
      BY <2>1, <3>3, <3>4, <3>6 DEF Outstanding, NextCall
    <3>7. QED
      BY <3>2, <3>3, <3>5, <3>6
  <2>4. QED
    BY <2>2, <2>3 DEF Outstanding
<1>9. QED
  BY <1>5, <1>6, <1>7, <1>8 DEF BindingInv

\* A callback returns: under the queue it was the head of the line.
LEMMA ReturnPops ==
  ASSUME TypeOK, BindingTypes, CallsInv, NEW i \in DOMAIN running, Return(i),
         UNCHANGED <<binding, event>>
  PROVE  /\ TypeOK' /\ CallsInv'
         /\ running[i] \in 1..Len(event)
         /\ binding.isQueue => /\ InFlight # <<>>
                               /\ InFlight[1] = running[i]
                               /\ InFlight' = Tail(InFlight)
<1>1. /\ queue \in Seq(Calls) /\ running \in Seq(Calls)
      /\ InFlight \in Seq(Calls)
      /\ running[i] \in Calls
  BY ConcatElements, ElementOfSeq, LenProperties DEF TypeOK, InFlight
<1>2. CASE binding.isQueue
  <2>1. FlagInv /\ Ordered(InFlight) /\ Settle(i, "resolved") /\ "resolved" \in Outcomes
    BY <1>2 DEF CallsInv, Return, Outcomes
  <2>2. /\ InFlight # <<>> /\ Head(InFlight) = running[i]
        /\ InFlight' = Tail(InFlight)
        /\ FlagInv'
        /\ queue' \in Seq(Calls) /\ running' \in Seq(Calls)
        /\ pendingPromise' \in BOOLEAN
    BY <2>1, SettlePops DEF InFlight
  <2>3. promise' = [promise EXCEPT ![running[i]] = "resolved"]
    BY <2>1 DEF Settle
  <2>4. TypeOK'
    BY <2>1, <2>2, <2>3 DEF TypeOK
  <2>5. \A d \in Calls : promise'[d] # "rejected"
    BY <2>3 DEF TypeOK, CallsInv
  <2>6. /\ Len(InFlight) \in Nat \ {0}
        /\ DOMAIN InFlight = 1..Len(InFlight)
        /\ InFlight[1] = running[i]
    BY <1>1, <2>2, EmptySeq, LenProperties
  <2>7. /\ DOMAIN Tail(InFlight) = 1..(Len(InFlight) - 1)
        /\ \A k \in 1..(Len(InFlight) - 1) : Tail(InFlight)[k] = InFlight[k + 1]
    BY <1>1, <2>2, HeadTailProperties, LenProperties
  <2>8. Ordered(InFlight)'
    <3>1. /\ DOMAIN InFlight' = 1..(Len(InFlight) - 1)
          /\ \A k \in 1..(Len(InFlight) - 1) : InFlight'[k] = InFlight[k + 1]
      BY <2>2, <2>7, Zenon
    <3>2. \A k \in DOMAIN InFlight' : /\ k \in Int /\ k + 1 \in DOMAIN InFlight
                                      /\ InFlight'[k] = InFlight[k + 1]
      BY <2>6, <3>1
    <3>3. \A k \in DOMAIN InFlight' : InFlight'[k] \in 1..Len(event)
      BY <2>1, <3>2 DEF Ordered
    <3>4. ASSUME NEW j \in DOMAIN InFlight', NEW k \in DOMAIN InFlight', j < k
          PROVE  InFlight'[j] < InFlight'[k]
      <4>1. j + 1 < k + 1
        BY <3>2, <3>4
      <4>2. QED
        BY <2>1, <3>2, <4>1 DEF Ordered
    <3>5. QED
      BY <3>3, <3>4 DEF Ordered
  <2>9. running[i] \in 1..Len(event)
    BY <2>1, <2>6 DEF Ordered
  <2>10. QED
    BY <1>2, <2>2, <2>4, <2>5, <2>6, <2>8, <2>9 DEF CallsInv
<1>3. CASE ~binding.isQueue
  <2>1. /\ promise' = [promise EXCEPT ![running[i]] = "resolved"]
        /\ running' = RemoveAt(running, i)
        /\ UNCHANGED <<queue, pendingPromise>>
    BY <1>3 DEF Return
  <2>2. \A k \in DOMAIN running : running[k] \in 1..Len(event)
    BY <1>3 DEF CallsInv
  <2>3. running' \in Seq(Calls)
    BY <1>1, <2>1, RemoveAtType
  <2>4. TypeOK'
    BY <2>1, <2>3 DEF TypeOK, Outcomes
  <2>5. \A d \in Calls : promise'[d] # "rejected"
    BY <2>1 DEF TypeOK, CallsInv
  <2>6. \A k \in DOMAIN running' : running'[k] \in 1..Len(event')
    <3> DEFINE Made == 1..Len(event)
    <3>1. \A k \in DOMAIN running : running[k] \in Made
      BY <2>2
    <3> HIDE DEF Made
    <3>2. running \in Seq(Made)
      <4>1. /\ Len(running) \in Nat
            /\ running = [k \in 1..Len(running) |-> running[k]]
            /\ DOMAIN running = 1..Len(running)
        BY <1>1, LenProperties
      <4>2. running \in [1..Len(running) -> Made]
        BY <3>1, <4>1
      <4>3. QED
        BY <4>1, <4>2, SeqDef
    <3>3. RemoveAt(running, i) \in Seq(Made)
      BY <3>2, RemoveAtType
    <3>4. \A k \in DOMAIN RemoveAt(running, i) : RemoveAt(running, i)[k] \in Made
      BY <3>3, ElementOfSeq, LenProperties
    <3>5. QED
      BY <2>1, <3>4 DEF Made
  <2>7. QED
    BY <1>3, <2>2, <2>4, <2>5, <2>6 DEF CallsInv
<1>4. QED
  BY <1>2, <1>3

\* A callback ends, with its effect or without.
LEMMA EndsInv ==
  ASSUME BindingInv, NEW i \in DOMAIN running, Return(i),
         UNCHANGED <<binding, clusterVars, stream, up, event, giveUps>>,
         errors' \in 0..MaxErrors,
         \/ applied' = applied
         \/ LET e == event[running[i]]
            IN applied' = [applied EXCEPT ![e.object] = Applied(e)]
  PROVE  /\ BindingInv'
         /\ binding.isQueue => \A o \in Objects : applied'[o].version >= applied[o].version
<1> DEFINE c == running[i]
           e == event[c]
<1>1. TypeOK /\ BindingTypes /\ ExistsInv /\ CallsInv /\ HistoryInv /\ AppliedInv
  BY DEF BindingInv
<1>2. UNCHANGED <<binding, version, exists, stream, up, event, giveUps>>
  BY DEF clusterVars
<1>3. /\ TypeOK' /\ CallsInv'
      /\ c \in 1..Len(event)
      /\ binding.isQueue => /\ InFlight # <<>>
                            /\ InFlight[1] = c
                            /\ InFlight' = Tail(InFlight)
  BY <1>1, <1>2, ReturnPops
<1> HIDE DEF c
<1>4. /\ History' = History
      /\ DOMAIN History = 1..(Len(event) + Len(stream))
      /\ Len(event) \in Nat /\ Len(stream) \in Nat /\ MaxVersion \in Nat
      /\ c \in DOMAIN History
      /\ History[c] = e
      /\ \A k \in DOMAIN History : History[k] \in Events
  BY <1>1, <1>2, <1>3, HistoryElements DEF History
<1>5. /\ e \in Events
      /\ e.object \in Objects /\ e.version \in 1..MaxVersion /\ e.phase \in Phases
  BY <1>4 DEF Events
<1>6. applied' = applied \/ applied' = [applied EXCEPT ![e.object] = Applied(e)]
  BY DEF c
<1> HIDE DEF e
<1>7. /\ applied' \in [Objects -> [phase : Phases \cup {"NONE"}, version : 0..MaxVersion]]
      /\ \A o \in Objects : o # e.object => applied'[o] = applied[o]
      /\ applied'[e.object].version \in {applied[e.object].version, e.version}
  <2>1. Applied(e) \in [phase : Phases \cup {"NONE"}, version : 0..MaxVersion]
        /\ Applied(e).version = e.version
    BY <1>4, <1>5 DEF Applied
  <2>2. QED
    BY <1>1, <1>5, <1>6, <2>1 DEF BindingTypes
<1>8. BindingTypes' /\ ExistsInv' /\ HistoryInv'
  BY <1>1, <1>2, <1>4, <1>7 DEF BindingTypes, ExistsInv, HistoryInv
<1>9. ASSUME binding.isQueue
      PROVE  /\ \A o \in Objects : applied'[o].version >= applied[o].version
             /\ \A o \in Objects : applied'[o].version <= version[o]
             /\ \A k \in DOMAIN History :
                  Outstanding(k)' => applied'[History[k].object].version <= History[k].version
  <2>1. /\ Ordered(InFlight)
        /\ InFlight \in Seq(Calls)
        /\ InFlight # <<>> /\ InFlight[1] = c /\ InFlight' = Tail(InFlight)
    BY <1>1, <1>3, <1>9, ConcatElements DEF CallsInv, TypeOK, InFlight
  <2>2. /\ Len(InFlight) \in Nat \ {0}
        /\ DOMAIN InFlight = 1..Len(InFlight)
        /\ DOMAIN Tail(InFlight) = 1..(Len(InFlight) - 1)
        /\ \A k \in 1..(Len(InFlight) - 1) : Tail(InFlight)[k] = InFlight[k + 1]
    BY <2>1, EmptySeq, HeadTailProperties, LenProperties
  <2>3. Outstanding(c)
    BY <2>1, <2>2 DEF Outstanding
  <2>4. applied[e.object].version <= e.version
    BY <1>1, <1>4, <1>9, <2>3 DEF AppliedInv
  <2>5. /\ \A o \in Objects : applied[o].version \in Nat /\ version[o] \in Nat
        /\ \A o \in Objects : applied[o].version <= version[o]
        /\ e.version <= version[e.object]
    BY <1>1, <1>4, <1>9 DEF AppliedInv, HistoryInv, BindingTypes
  <2>6. ASSUME NEW k \in DOMAIN History, Outstanding(k)'
        PROVE  Outstanding(k) /\ c <= k
    <3>1. CASE k > Len(event)
      BY <1>3, <1>4, <3>1 DEF Outstanding
    <3>2. CASE \E j \in DOMAIN InFlight' : InFlight'[j] = k
      <4>1. /\ DOMAIN InFlight' = 1..(Len(InFlight) - 1)
            /\ \A j \in 1..(Len(InFlight) - 1) : InFlight'[j] = InFlight[j + 1]
        BY <2>1, <2>2, Zenon
      <4>2. PICK j \in 1..(Len(InFlight) - 1) : InFlight[j + 1] = k
        BY <3>2, <4>1
      <4>3. j + 1 \in DOMAIN InFlight /\ 1 \in DOMAIN InFlight /\ 1 < j + 1
        BY <2>2, <4>2
      <4>4. Outstanding(k)
        BY <4>2, <4>3 DEF Outstanding
      <4>5. c < k
        BY <2>1, <4>2, <4>3 DEF Ordered
      <4>6. QED
        BY <1>3, <1>4, <4>4, <4>5
    <3>3. QED
      BY <1>2, <2>6, <3>1, <3>2 DEF Outstanding
  <2>7. ASSUME NEW k \in DOMAIN History, Outstanding(k)'
        PROVE  applied'[History[k].object].version <= History[k].version
    <3>1. applied[History[k].object].version <= History[k].version
      BY <1>1, <1>9, <2>6, <2>7 DEF AppliedInv
    <3>2. History[k].object = e.object => e.version <= History[k].version
      BY <1>1, <1>4, <2>6, <2>7 DEF HistoryInv
    <3>3. History[k].object \in Objects
      BY <1>4 DEF Events
    <3>4. QED
      BY <1>7, <3>1, <3>2, <3>3
  <2>8. QED
    BY <1>5, <1>7, <2>4, <2>5, <2>7
<1>10. AppliedInv'
  BY <1>2, <1>4, <1>9 DEF AppliedInv
<1>11. QED
  BY <1>3, <1>8, <1>9, <1>10 DEF BindingInv

LEMMA GiveUpInv ==
  ASSUME BindingInv, GiveUp
  PROVE  BindingInv'
<1>1. TypeOK /\ BindingTypes /\ ExistsInv /\ CallsInv /\ HistoryInv /\ AppliedInv
  BY DEF BindingInv
<1>2. /\ giveUps < MaxGiveUps /\ giveUps' = giveUps + 1
      /\ up' = FALSE /\ stream' = <<>>
      /\ queue' = <<>> /\ running' = <<>> /\ pendingPromise' = FALSE
      /\ promise' = [c \in Calls |-> IF promise[c] = "waiting" THEN "none" ELSE promise[c]]
      /\ UNCHANGED <<binding, version, exists, event, applied, errors>>
  BY DEF GiveUp, clusterVars
<1>3. <<>> \in Seq(Calls) /\ <<>> \in Seq(Events) /\ DOMAIN <<>> = {} /\ Len(<<>>) = 0 /\ 0 <= 1
  OBVIOUS
<1>4. InFlight' = <<>>
  <2>1. <<>> \o <<>> = <<>>
    OBVIOUS
  <2>2. QED
    BY <1>2, <2>1 DEF InFlight
<1>5. TypeOK' /\ CallsInv'
  <2>1. TypeOK'
    BY <1>1, <1>2, <1>3 DEF TypeOK
  <2>2. FlagInv'
    <3>1. Len(running') <= 1
      BY <1>2, <1>3
    <3>2. QED
      BY <1>2, <3>1 DEF FlagInv
  <2>3. Ordered(InFlight)'
    BY <1>3, <1>4 DEF Ordered
  <2>4. \A c \in Calls : promise'[c] # "rejected"
    BY <1>1, <1>2 DEF CallsInv
  <2>5. QED
    BY <1>2, <1>3, <2>1, <2>2, <2>3, <2>4 DEF CallsInv
<1>6. BindingTypes'
  <2>1. giveUps' \in 0..MaxGiveUps
    BY <1>1, <1>2, BindingAssumption DEF BindingTypes
  <2>2. QED
    BY <1>1, <1>2, <1>3, <2>1 DEF BindingTypes
<1>7. /\ DOMAIN History = 1..(Len(event) + Len(stream))
      /\ Len(event) \in Nat /\ Len(stream) \in Nat
      /\ DOMAIN History' = 1..Len(event)
      /\ \A k \in DOMAIN History' : k \in DOMAIN History /\ History'[k] = History[k]
  <2>1. /\ event \in Seq(Events)
        /\ Len(event) \in Nat /\ Len(stream) \in Nat
        /\ DOMAIN event = 1..Len(event)
        /\ DOMAIN History = 1..(Len(event) + Len(stream))
        /\ \A k \in 1..Len(event) : History[k] = event[k]
    BY <1>1, HistoryElements DEF BindingTypes
  <2>2. History' = event
    BY <1>2, <2>1, ConcatEmptySeq DEF History
  <2>3. QED
    BY <2>1, <2>2
<1>8. ExistsInv' /\ HistoryInv'
  BY <1>1, <1>2, <1>7 DEF ExistsInv, HistoryInv
<1>9. AppliedInv'
  <2>1. \A k \in DOMAIN History' : ~Outstanding(k)'
    BY <1>2, <1>3, <1>4, <1>7 DEF Outstanding
  <2>2. QED
    BY <1>1, <1>2, <2>1 DEF AppliedInv
<1>10. QED
  BY <1>5, <1>6, <1>8, <1>9 DEF BindingInv

LEMMA RestartInv ==
  ASSUME BindingInv, Restart
  PROVE  BindingInv'
<1> DEFINE Present == {o \in Objects : exists[o]}
<1>1. TypeOK /\ BindingTypes /\ ExistsInv /\ CallsInv /\ HistoryInv /\ AppliedInv
  BY DEF BindingInv
<1>2. /\ up' = TRUE
      /\ UNCHANGED <<queueVars, binding, version, exists, event, applied, giveUps, errors>>
  BY DEF Restart, clusterVars, counters
<1>3. PICK order \in SetToSeqs(Present) :
        stream' = [k \in DOMAIN order |-> EventOf(order[k], "ADDED", version[order[k]])]
  BY DEF Restart
<1>4. PICK n \in Nat : /\ order \in [1..n -> Present]
                       /\ \A i, j \in 1..n : i # j => order[i] # order[j]
  <2>1. Cardinality(Present) \in Nat
    BY BindingAssumption, FS_Subset, FS_CardinalityType
  <2> HIDE DEF Present
  <2>2. /\ order \in [1..Cardinality(Present) -> Present]
        /\ \A i, j \in 1..Cardinality(Present) : i # j => order[i] # order[j]
    BY <1>3 DEF SetToSeqs
  <2>3. QED
    BY <2>1, <2>2
<1>5. /\ \A k \in 1..n : /\ stream'[k].object = order[k] /\ order[k] \in Objects
                         /\ stream'[k].version = version[order[k]]
                         /\ stream'[k] \in Events
      /\ stream' \in [1..n -> Events]
      /\ MaxVersion \in Nat /\ \A p \in Objects : version[p] \in 0..MaxVersion
  <2>1. MaxVersion \in Nat /\ \A p \in Objects : version[p] \in 0..MaxVersion
    BY <1>1, BindingAssumption DEF BindingTypes
  <2>2. ASSUME NEW k \in 1..n
        PROVE  /\ order[k] \in Objects
               /\ stream'[k] = EventOf(order[k], "ADDED", version[order[k]])
               /\ EventOf(order[k], "ADDED", version[order[k]]) \in Events
               /\ EventOf(order[k], "ADDED", version[order[k]]).object = order[k]
               /\ EventOf(order[k], "ADDED", version[order[k]]).version = version[order[k]]
    <3>1. order[k] \in Objects /\ exists[order[k]] /\ DOMAIN order = 1..n
      BY <1>4
    <3>2. version[order[k]] \in 1..MaxVersion
      BY <1>1, <2>1, <3>1 DEF ExistsInv
    <3>3. QED
      BY <1>3, <3>1, <3>2 DEF EventOf, Events, Phases
  <2>3. stream' \in [1..n -> Events]
    BY <1>3, <1>4, <2>2
  <2>4. QED
    BY <2>1, <2>2, <2>3
<1> HIDE DEF Present
<1>6. stream' \in Seq(Events) /\ Len(stream') = n
  <2>1. stream' \in Seq(Events)
    BY <1>5, SeqDef
  <2>2. 1..n = 1..Len(stream') /\ Len(stream') \in Nat
    BY <1>5, <2>1, LenProperties
  <2>3. QED
    BY <2>1, <2>2
<1>7. TypeOK' /\ CallsInv' /\ InFlight' = InFlight
  BY <1>1, <1>2, CallsKept
<1>8. BindingTypes'
  BY <1>1, <1>2, <1>6 DEF BindingTypes
<1>9. /\ DOMAIN History = 1..(Len(event) + Len(stream))
      /\ Len(event) \in Nat /\ Len(stream) \in Nat
      /\ \A k \in 1..Len(event) : /\ History[k] = event[k]
                                  /\ event[k].object \in Objects
                                  /\ event[k].version \in 1..MaxVersion
  <2>1. /\ DOMAIN History = 1..(Len(event) + Len(stream))
        /\ Len(event) \in Nat /\ Len(stream) \in Nat
        /\ \A k \in 1..Len(event) : History[k] = event[k]
    BY <1>1, HistoryElements
  <2>2. \A k \in 1..Len(event) : event[k] \in Events
    BY <1>1, ElementOfSeq DEF BindingTypes
  <2>3. QED
    BY <2>1, <2>2 DEF Events
<1>10. /\ DOMAIN History' = 1..(Len(event) + n)
       /\ \A k \in 1..Len(event) : History'[k] = event[k]
       /\ \A k \in 1..n : History'[Len(event) + k] = stream'[k]
  <2>1. /\ DOMAIN (event \o stream') = 1..(Len(event) + n)
        /\ DOMAIN event = 1..Len(event) /\ DOMAIN stream' = 1..n
        /\ \A k \in DOMAIN event : (event \o stream')[k] = event[k]
        /\ \A k \in DOMAIN stream' : (event \o stream')[Len(event) + k] = stream'[k]
    <3>1. event \in Seq(Events) /\ stream' \in Seq(Events) /\ n = Len(stream')
      BY <1>1, <1>6 DEF BindingTypes
    <3>2. ASSUME NEW t \in Seq(Events)
          PROVE  /\ DOMAIN (event \o t) = 1..(Len(event) + Len(t))
                 /\ DOMAIN event = 1..Len(event) /\ DOMAIN t = 1..Len(t)
                 /\ \A k \in DOMAIN event : (event \o t)[k] = event[k]
                 /\ \A k \in DOMAIN t : (event \o t)[Len(event) + k] = t[k]
      BY <3>1, ConcatElements
    <3>3. QED
      BY <3>1, <3>2, Zenon
  <2>2. History' = event \o stream'
    BY <1>2 DEF History
  <2>3. QED
    BY <2>1, <2>2, Zenon
<1>11. ASSUME NEW k \in DOMAIN History'
       PROVE  \/ k \in 1..Len(event) /\ History'[k] = History[k]
              \/ \E m \in 1..n : /\ k = Len(event) + m
                                 /\ History'[k].object = order[m]
                                 /\ History'[k].version = version[order[m]]
  <2>1. CASE k <= Len(event)
    BY <1>9, <1>10, <2>1
  <2>2. CASE k > Len(event)
    <3>1. k - Len(event) \in 1..n /\ k = Len(event) + (k - Len(event))
      BY <1>9, <1>10, <2>2
    <3>2. QED
      BY <1>5, <1>10, <3>1
  <2>3. QED
    BY <1>9, <1>10, <2>1, <2>2
<1>12. ExistsInv'
  BY <1>1, <1>2 DEF ExistsInv
<1>13. \A k \in 1..Len(event) : k \in DOMAIN History /\ History[k].version <= version[History[k].object]
  BY <1>1, <1>9 DEF HistoryInv
<1>14. HistoryInv'
  <2>1. \A k \in DOMAIN History' : History'[k].version <= version[History'[k].object]
    BY <1>4, <1>5, <1>11, <1>13
  <2>2. ASSUME NEW j \in DOMAIN History', NEW k \in DOMAIN History',
               j <= k, History'[j].object = History'[k].object
        PROVE  History'[j].version <= History'[k].version
    <3>1. CASE k \in 1..Len(event)
      <4>1. j \in 1..Len(event)
        BY <1>9, <1>10, <2>2, <3>1
      <4>2. History'[j] = History[j] /\ History'[k] = History[k]
        BY <1>9, <1>10, <3>1, <4>1
      <4>3. QED
        BY <1>1, <1>13, <2>2, <3>1, <4>1, <4>2 DEF HistoryInv
    <3>2. CASE k \notin 1..Len(event)
      <4>1. History'[k].version = version[History'[k].object]
        BY <1>11, <3>2
      <4>2. QED
        BY <2>1, <2>2, <4>1
    <3>3. QED
      BY <3>1, <3>2
  <2>3. QED
    BY <1>2, <2>1, <2>2 DEF HistoryInv
<1>15. AppliedInv'
  <2> SUFFICES ASSUME binding.isQueue, NEW k \in DOMAIN History', Outstanding(k)'
               PROVE  applied[History'[k].object].version <= History'[k].version
    BY <1>1, <1>2 DEF AppliedInv
  <2>1. CASE k \in 1..Len(event) /\ History'[k] = History[k]
    <3>1. Outstanding(k)
      BY <1>2, <1>7 DEF Outstanding
    <3>2. QED
      BY <1>1, <1>13, <2>1, <3>1 DEF AppliedInv
  <2>2. CASE \E m \in 1..n : /\ History'[k].object = order[m]
                             /\ History'[k].version = version[order[m]]
    BY <1>1, <1>5, <2>2 DEF AppliedInv
  <2>3. QED
    BY <1>11, <2>1, <2>2
<1>16. QED
  BY <1>7, <1>8, <1>12, <1>14, <1>15 DEF BindingInv

LEMMA StutterBindingInv ==
  ASSUME BindingInv, UNCHANGED vars
  PROVE  BindingInv'
<1>1. UNCHANGED <<queueVars, binding, version, exists, stream, up, event, applied, giveUps, errors>>
  BY DEF vars, clusterVars, counters
<1>2. TypeOK' /\ CallsInv' /\ InFlight' = InFlight
  BY <1>1, CallsKept DEF BindingInv
<1>3. BindingTypes' /\ ExistsInv'
  BY <1>1 DEF BindingInv, BindingTypes, ExistsInv
<1>4. History' = History
  BY <1>1 DEF History
<1>5. HistoryInv' /\ AppliedInv'
  BY <1>1, <1>2, <1>4 DEF BindingInv, HistoryInv, AppliedInv, Outstanding
<1>6. QED
  BY <1>2, <1>3, <1>5 DEF BindingInv

\* Every step keeps the invariant, and under it no effect of an older event
\* overwrites the effect of a newer one.
LEMMA NextBindingInv ==
  ASSUME BindingInv, [NextBinding]_vars
  PROVE  /\ BindingInv'
         /\ binding.isQueue => \A o \in Objects : applied'[o].version >= applied[o].version
<1>1. applied' = applied => \A o \in Objects : applied'[o].version >= applied[o].version
  <2>1. \A o \in Objects : applied[o].version \in Nat
    BY BindingAssumption DEF BindingInv, BindingTypes
  <2>2. QED
    BY <2>1
<1>2. MaxErrors \in Nat /\ errors \in 0..MaxErrors
  BY BindingAssumption DEF BindingInv, BindingTypes
<1>3. ASSUME NEW o \in Objects, NEW phase \in Phases, Change(o, phase)
      PROVE  BindingInv' /\ applied' = applied
  BY <1>3, ChangeInv DEF Change
<1>4. CASE Deliver
  <2>1. BindingInv' /\ applied' = applied
    BY <1>4, DeliverInv DEF Deliver, Take
  <2>2. QED
    BY <1>1, <2>1
<1>5. ASSUME NEW i \in DOMAIN running, Complete(i) \/ Skip(i) \/ Throw(i)
      PROVE  /\ BindingInv'
             /\ binding.isQueue => \A o \in Objects : applied'[o].version >= applied[o].version
  <2>1. /\ Return(i)
        /\ UNCHANGED <<binding, clusterVars, stream, up, event, giveUps>>
    BY <1>5 DEF Complete, Skip, Throw, Threw, counters
  <2>2. errors' \in 0..MaxErrors
    BY <1>2, <1>5 DEF Complete, Skip, Throw, Threw, counters
  <2>3. \/ applied' = applied
        \/ applied' = [applied EXCEPT ![event[running[i]].object] = Applied(event[running[i]])]
    BY <1>5 DEF Complete, Skip, Throw, Threw
  <2>4. QED
    BY <2>1, <2>2, <2>3, EndsInv
<1>6. CASE GiveUp
  <2>1. BindingInv' /\ applied' = applied
    BY <1>6, GiveUpInv DEF GiveUp
  <2>2. QED
    BY <1>1, <2>1
<1>7. CASE Restart
  <2>1. BindingInv' /\ applied' = applied
    BY <1>7, RestartInv DEF Restart
  <2>2. QED
    BY <1>1, <2>1
<1>8. CASE UNCHANGED vars
  <2>1. BindingInv' /\ applied' = applied
    BY <1>8, StutterBindingInv DEF vars
  <2>2. QED
    BY <1>1, <2>1
<1>9. QED
  BY <1>1, <1>3, <1>4, <1>5, <1>6, <1>7, <1>8 DEF NextBinding, Finish

\* In every reachable state what is yet to be handled is in order.
THEOREM BindingInvariant == SpecBinding => []BindingInv
<1>1. BindingInv /\ [NextBinding]_vars => BindingInv'
  BY NextBindingInv
<1>2. QED
  BY <1>1, InitBindingInv, PTL DEF SpecBinding

\* Type correctness of a binding and its queue; no promise is ever rejected.
THEOREM BindingTypeCorrect == SpecBinding => []BindingTypeOK
<1>1. BindingInv => BindingTypeOK
  BY DEF BindingInv, BindingTypes, Events, CallsInv, BindingTypeOK
<1>2. QED
  BY <1>1, BindingInvariant, PTL

\* The effects of a Reconcile binding on an object are in the order of the
\* cluster's changes, for any number of objects, changes, errors and restarts.
THEOREM ReconcileInOrder == SpecBinding => EffectsInOrder
<1>1. BindingInv /\ [NextBinding]_vars =>
        [binding.isQueue => \A o \in Objects : applied'[o].version >= applied[o].version]_vars
  BY NextBindingInv
<1>2. QED
  BY <1>1, BindingInvariant, PTL DEF SpecBinding, EffectsInOrder

\* In the queue of a Reconcile binding, too, calls are reconciled one at a time
\* and none is left lying, with late events, new lists and restarts.
THEOREM BindingSingleFlight == SpecBinding => [](binding.isQueue => SingleFlight /\ NoIdleBacklog)
<1>1. BindingInv => (binding.isQueue => SingleFlight /\ NoIdleBacklog)
  BY DEF BindingInv, CallsInv, FlagInv, SingleFlight, NoIdleBacklog
<1>2. QED
  BY <1>1, BindingInvariant, PTL
=============================================================================
