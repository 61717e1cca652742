---------------------------- MODULE StoreSender -----------------------------
(***************************************************************************)
(* The write side of the peppr Store: #send() of                           *)
(* src/lib/controller/store.ts.  Each sender collects the operations of    *)
(* one capability in its sendCache and an interval timer sends what has    *)
(* collected as one JSON patch to the PepprStore resource that all         *)
(* capabilities of all processes of the module share.                      *)
(*                                                                         *)
(* The API server is external.  It applies a JSON patch atomically: every  *)
(* operation or, if one is malformed or removes a missing key, none, and   *)
(* then it answers 422.  A request can also fail in any other way, before  *)
(* or after it took effect.                                                *)
(***************************************************************************)
EXTENDS Naturals, FiniteSets

CONSTANTS Senders,       \* one per capability and process
          Capabilities,
          CapabilityOf,  \* the capability a sender was made for
          Keys,
          Values,
          Absent,        \* stands for no value under a path
          FreshOnly,     \* callers never repeat an operation on a path
          MaxOps,        \* bound on the operations requested
          MaxInFlight,   \* bound on a sender's unanswered patches
          MaxFailures    \* bound on the patches that fail other than by 422

Paths == Capabilities \X Keys

\* The entries of a sendCache: the operation is also its index in the cache.
Ops == [op : {"add"}, path : Paths, value : Values]
       \cup [op : {"remove"}, path : Paths, value : {Absent}]

ASSUME SenderAssumption ==
  /\ CapabilityOf \in [Senders -> Capabilities]
  /\ Absent \notin Values
  /\ FreshOnly \in BOOLEAN
  /\ {MaxOps, MaxInFlight, MaxFailures} \subseteq Nat

VARIABLES data,       \* the data of the PepprStore resource
          sendCache,  \* the cache of each sender
          inFlight,   \* patches sent and not answered
          last,       \* last value requested under each path (history)
          asked,      \* requests: capability that asked, path, value (history)
          ops, failures

senderVars == <<data, sendCache, inFlight, last, asked, ops, failures>>

(***************************************************************************)
(* A cache is a JavaScript object, of which the payload takes the values   *)
(* in insertion order.  Operations on different paths commute, so all that *)
(* matters of the order is which of two operations on one path is earlier. *)
(* "lost" are the indexes that hold undefined instead of an operation.     *)
(***************************************************************************)
EmptyCache == [ops |-> {}, before |-> {}, lost |-> {}]

Caches == [ops : SUBSET Ops, before : SUBSET (Ops \X Ops), lost : SUBSET Ops]

\* The pairs that make each of "new" later than those of "old" on its path.
Later(old, new) == {pair \in old \X new : pair[1].path = pair[2].path}

\* fillCache: an operation that is in the cache already keeps its place.
FillCache(cache, new) ==
  [ops    |-> cache.ops \cup new,
   before |-> cache.before \cup Later(cache.ops, new \ cache.ops),
   lost   |-> cache.lost \ new]

\* The catch of flushCache: every index of the failed payload is set again,
\* to payload[Number(idx)], and Number() of such an index is NaN.
ReAdd(cache, payload) ==
  LET new == payload.ops \ cache.ops
  IN [ops    |-> cache.ops \cup payload.ops,
      before |-> cache.before \cup Later(cache.ops, new) \cup (payload.before \cap (new \X new)),
      lost   |-> cache.lost \cup payload.ops]

(***************************************************************************)
(* The API server's reading of a payload.                                  *)
(***************************************************************************)
OnPath(payload, p) == {o \in payload.ops : o.path = p}

\* No undefined entry, and nothing is removed that is not there by then.
Applicable(payload) ==
  /\ payload.lost = {}
  /\ \A o \in payload.ops :
       o.op = "remove" => \/ data[o.path] # Absent
                          \/ \E a \in payload.ops : a.op = "add" /\ <<a, o>> \in payload.before

IsLastOn(payload, o) == \A later \in OnPath(payload, o.path) : <<o, later>> \notin payload.before

Patched(payload) ==
  [p \in Paths |->
     IF \E o \in OnPath(payload, p) : IsLastOn(payload, o)
     THEN (CHOOSE o \in OnPath(payload, p) : IsLastOn(payload, o)).value
     ELSE data[p]]

-----------------------------------------------------------------------------
InitSender ==
  /\ data = [p \in Paths |-> Absent]
  /\ sendCache = [s \in Senders |-> EmptyCache]
  /\ inFlight = {}
  /\ last = [p \in Paths |-> Absent]
  /\ asked = {}
  /\ ops = 0
  /\ failures = 0

\* Mutant: all senders close over one capability name.
AddOpOther(s, k, v) ==
  [op |-> "add", path |-> <<CHOOSE c \in Capabilities : TRUE, k>>, value |-> v]

AddOp(s, k, v) == [op |-> "add", path |-> <<CapabilityOf[s], k>>, value |-> v]
RemoveOp(p) == [op |-> "remove", path |-> p, value |-> Absent]

\* A caller requests "value" for some paths through the sender's store.
Request(s, paths, value) ==
  /\ FreshOnly => \A p \in paths : <<CapabilityOf[s], p, value>> \notin asked
  /\ ops < MaxOps
  /\ ops' = ops + 1
  /\ asked' = asked \cup ({CapabilityOf[s]} \X paths \X {value})
  /\ last' = [p \in Paths |-> IF p \in paths THEN value ELSE last[p]]

\* The sender function does no more than fillCache.
Send(s, new) == sendCache' = [sendCache EXCEPT ![s] = FillCache(@, new)]

\* Storage.setItem
SetItem(s, k, v) ==
  /\ Request(s, {<<CapabilityOf[s], k>>}, v)
  /\ Send(s, {AddOp(s, k, v)})
  /\ UNCHANGED <<data, inFlight, failures>>

\* The "remove" of #dispatchUpdate, whose keys removeItem and clear() choose.
RemovePaths(s, paths) ==
  /\ Request(s, paths, Absent)
  /\ Send(s, {RemoveOp(p) : p \in paths})
  /\ UNCHANGED <<data, inFlight, failures>>

\* Storage.removeItem
RemoveItem(s, k) == RemovePaths(s, {<<CapabilityOf[s], k>>})

Slots == 1..MaxInFlight

FreeSlots(s) == {n \in Slots : \A f \in inFlight : f.sender = s => f.slot # n}

\* The interval timer: flushCache takes everything out and sends it.  The
\* next tick does not wait for the answer.
FlushCache(s) ==
  /\ sendCache[s].ops # {}
  /\ FreeSlots(s) # {}
  /\ LET slot == CHOOSE n \in FreeSlots(s) : TRUE
     IN inFlight' = inFlight \cup
          {[sender |-> s, slot |-> slot, payload |-> sendCache[s], status |-> "sent"]}
  /\ sendCache' = [sendCache EXCEPT ![s] = EmptyCache]
  /\ UNCHANGED <<data, last, asked, ops, failures>>

Answered(f, status) == inFlight' = (inFlight \ {f}) \cup {[f EXCEPT !.status = status]}

\* The server applies the patch (external).
PatchApplied(f) ==
  /\ f.status = "sent"
  /\ Applicable(f.payload)
  /\ data' = Patched(f.payload)
  /\ Answered(f, "ok")
  /\ UNCHANGED <<sendCache, last, asked, ops, failures>>

\* The server refuses the patch as unprocessable (external).
PatchRefused(f) ==
  /\ f.status = "sent"
  /\ ~Applicable(f.payload)
  /\ Answered(f, "422")
  /\ UNCHANGED <<data, sendCache, last, asked, ops, failures>>

\* The request fails in another way: the server never sees it, or it did
\* and its answer is lost (external).
PatchFailed(f) ==
  /\ f.status # "error"
  /\ failures < MaxFailures
  /\ failures' = failures + 1
  /\ Answered(f, "error")
  /\ UNCHANGED <<data, sendCache, last, asked, ops>>

Replied(f, cache) ==
  /\ f.status # "sent"
  /\ inFlight' = inFlight \ {f}
  /\ sendCache' = [sendCache EXCEPT ![f.sender] = cache]
  /\ UNCHANGED <<data, last, asked, ops, failures>>

\* Mutant: a refused patch is put back like a failed one.
ReplyRetriesRefused(f) ==
  Replied(f, IF f.status = "ok" THEN sendCache[f.sender] ELSE ReAdd(sendCache[f.sender], f.payload))

\* flushCache after its await: on 422 the whole cache goes, with what was
\* filled in since; on another error the payload's indexes come back.
Reply(f) ==
  Replied(f, CASE f.status = "ok"    -> sendCache[f.sender]
               [] f.status = "422"   -> EmptyCache
               [] f.status = "error" -> ReAdd(sendCache[f.sender], f.payload))

Patch(f) == PatchApplied(f) \/ PatchRefused(f)

NextSender ==
  \/ \E s \in Senders, k \in Keys : RemoveItem(s, k) \/ \E v \in Values : SetItem(s, k, v)
  \/ \E s \in Senders : FlushCache(s)
  \/ \E f \in inFlight : Patch(f) \/ PatchFailed(f) \/ Reply(f)

\* Weak fairness of the timers, the API server and the event loop.
FairSender ==
  /\ \A s \in Senders : WF_senderVars(FlushCache(s))
  /\ WF_senderVars(\E f \in inFlight : Patch(f))
  /\ WF_senderVars(\E f \in inFlight : Reply(f))

SpecSender == InitSender /\ [][NextSender]_senderVars /\ FairSender

-----------------------------------------------------------------------------
(* Properties                                                              *)

Patches == [sender : Senders, slot : Slots, payload : Caches,
            status : {"sent", "ok", "422", "error"}]

\* Type invariant of the senders and the resource.
SenderTypeOK ==
  /\ data \in [Paths -> Values \cup {Absent}]
  /\ sendCache \in [Senders -> Caches]
  /\ inFlight \subseteq Patches
  /\ last \in [Paths -> Values \cup {Absent}]
  /\ asked \subseteq Capabilities \X Paths \X (Values \cup {Absent})
  /\ ops \in 0..MaxOps
  /\ failures \in 0..MaxFailures

\* Whatever fails and is tried again, the resource changes under a path only
\* to what was requested for that key through a store of that capability:
\* no capability's sender writes another's keys.
OnlyRequested ==
  [][\A p \in Paths : data'[p] # data[p] => <<p[1], p, data'[p]>> \in asked]_senderVars

\* No request waits for ever: once the callers stop, every cache runs empty
\* and every patch is answered, however the patches fared, because a cache
\* poisoned by a failed patch is thrown away by the 422 that it provokes.
Idle == inFlight = {} /\ \A s \in Senders : sendCache[s].ops = {}
Drains == <>[]Idle

\* "Sets the value of the pair identified by key to value" (storage.ts:41):
\* when nothing is cached or in flight the resource holds under each path
\* what was last requested for it.
LastRequestStored == Idle => data = last
=============================================================================
