---------------------------- MODULE StoreProofs -----------------------------
(***************************************************************************)
(* Proofs about the Store: first about its write side alone (StoreSender), *)
(* then about the whole (StoreSync), for any senders, capabilities, keys   *)
(* and values, any bounds and any mixture of refused and failed patches,   *)
(* crashes, restarts and waiting calls.                                    *)
(*                                                                         *)
(* The argument for the write side: an operation enters a cache only when  *)
(* it is requested, and from then on it only moves: from the cache into a  *)
(* patch, by the catch of flushCache back, and when the process ends       *)
(* maybe on to the server.  So whatever the server applies was requested   *)
(* for that very path, although failed operations come back damaged.       *)
(*                                                                         *)
(* For the whole: the versions on their way to a store are in order, from  *)
(* its copy over the armed timer to the events of its watch, so that its   *)
(* copy only moves forward in the history of the resource.                 *)
(***************************************************************************)
EXTENDS StoreSync, SequenceTheorems, TLAPS

\* Every operation of a set of them was requested by some capability.
Requested(set) == \A o \in set : \E c \in Capabilities : <<c, o.path, o.value>> \in asked

\* Operations that are cached or on their way were requested.
RequestedInv ==
  /\ \A s \in Senders : Requested(sendCache[s].ops)
  /\ \A f \in inFlight : Requested(f.payload.ops)

\* The inductive invariant.
SenderInv == SenderTypeOK /\ RequestedInv

-----------------------------------------------------------------------------
(* Lemmas about caches and payloads.                                       *)

\* An empty object is a cache.
LEMMA EmptyCacheType == EmptyCache \in Caches
  BY DEF EmptyCache, Caches

\* fillCache yields a cache with exactly the new operations added.
LEMMA FillCacheType ==
  ASSUME NEW cache \in Caches, NEW new \in SUBSET Ops
  PROVE  /\ FillCache(cache, new) \in Caches
         /\ FillCache(cache, new).ops = cache.ops \cup new
<1>1. Later(cache.ops, new \ cache.ops) \subseteq Ops \X Ops
  BY DEF Later, Caches
<1>2. QED
  BY <1>1 DEF FillCache, Caches

\* Adding a failed payload's indexes again yields a cache with exactly
\* these indexes added.
LEMMA ReAddType ==
  ASSUME NEW cache \in Caches, NEW payload \in Caches
  PROVE  /\ ReAdd(cache, payload) \in Caches
         /\ ReAdd(cache, payload).ops = cache.ops \cup payload.ops
<1>1. Later(cache.ops, payload.ops \ cache.ops) \subseteq Ops \X Ops
  BY DEF Later, Caches
<1>2. payload.before \cap ((payload.ops \ cache.ops) \X (payload.ops \ cache.ops)) \subseteq Ops \X Ops
  BY DEF Caches
<1>3. QED
  BY <1>1, <1>2 DEF ReAdd, Caches

\* An operation's path and value are of their types.
LEMMA OpType ==
  ASSUME NEW o \in Ops
  PROVE  o.path \in Paths /\ o.value \in Values \cup {Absent}
  BY DEF Ops

\* A patch leaves a path as it is or gives it the value of one of its
\* operations on that path.
LEMMA PatchedFrom ==
  ASSUME NEW payload, NEW p \in Paths
  PROVE  \/ Patched(payload)[p] = data[p]
         \/ \E o \in payload.ops : o.path = p /\ Patched(payload)[p] = o.value
<1>1. CASE \E o \in OnPath(payload, p) : IsLastOn(payload, o)
  <2>. DEFINE o == CHOOSE x \in OnPath(payload, p) : IsLastOn(payload, x)
  <2>1. o \in OnPath(payload, p)
    BY <1>1
  <2>2. Patched(payload)[p] = o.value
    BY <1>1 DEF Patched
  <2>3. QED
    BY <2>1, <2>2 DEF OnPath
<1>2. CASE ~\E o \in OnPath(payload, p) : IsLastOn(payload, o)
  BY <1>2 DEF Patched
<1>3. QED
  BY <1>1, <1>2

\* What a patch makes of well-typed data is well typed.
LEMMA PatchedType ==
  ASSUME NEW payload \in Caches, data \in [Paths -> Values \cup {Absent}]
  PROVE  Patched(payload) \in [Paths -> Values \cup {Absent}]
<1>1. ASSUME NEW p \in Paths PROVE Patched(payload)[p] \in Values \cup {Absent}
  BY PatchedFrom, OpType DEF Caches
<1>2. QED
  BY <1>1 DEF Patched

-----------------------------------------------------------------------------
(* The invariant.                                                          *)

LEMMA InitSenderInv == InitSender => SenderInv
<1> SUFFICES ASSUME InitSender PROVE SenderInv
  OBVIOUS
<1>1. SenderTypeOK
  BY EmptyCacheType, SenderAssumption DEF InitSender, SenderTypeOK
<1>2. RequestedInv
  BY DEF InitSender, RequestedInv, Requested, EmptyCache
<1>3. QED
  BY <1>1, <1>2 DEF SenderInv

\* A request of well-typed operations that are recorded as requested keeps
\* the invariant.
LEMMA SendInv ==
  ASSUME SenderInv, NEW s \in Senders, NEW paths \in SUBSET Paths,
         NEW value \in Values \cup {Absent}, NEW new \in SUBSET Ops,
         \A o \in new : o.path \in paths /\ o.value = value,
         Request(s, paths, value), Send(s, new),
         UNCHANGED <<data, inFlight, failures>>
  PROVE  SenderInv'
<1>1. SenderTypeOK /\ RequestedInv
  BY DEF SenderInv
<1>2. FillCache(sendCache[s], new) \in Caches
      /\ FillCache(sendCache[s], new).ops = sendCache[s].ops \cup new
  BY <1>1, FillCacheType DEF SenderTypeOK
<1>3. sendCache' = [sendCache EXCEPT ![s] = FillCache(sendCache[s], new)]
  BY DEF Send
<1>4. CapabilityOf[s] \in Capabilities
  BY SenderAssumption
<1>5. /\ ops' \in 0..MaxOps
      /\ asked' = asked \cup ({CapabilityOf[s]} \X paths \X {value})
      /\ last' \in [Paths -> Values \cup {Absent}]
  BY <1>1, SenderAssumption DEF Request, SenderTypeOK
<1>6. asked' \subseteq Capabilities \X Paths \X (Values \cup {Absent})
  BY <1>1, <1>4, <1>5 DEF SenderTypeOK
<1>7. SenderTypeOK'
  BY <1>1, <1>2, <1>3, <1>5, <1>6 DEF SenderTypeOK, Patches
<1>8. Requested(new)'
  BY <1>4, <1>5 DEF Requested
<1>9. ASSUME NEW t \in Senders PROVE Requested(sendCache[t].ops)'
  <2>1. CASE t = s
    BY <1>1, <1>2, <1>3, <1>5, <1>8, <2>1 DEF SenderTypeOK, RequestedInv, Requested
  <2>2. CASE t # s
    BY <1>1, <1>3, <1>5, <2>2 DEF SenderTypeOK, RequestedInv, Requested
  <2>3. QED
    BY <2>1, <2>2
<1>10. ASSUME NEW f \in inFlight' PROVE Requested(f.payload.ops)'
  BY <1>1, <1>5 DEF RequestedInv, Requested
<1>11. QED
  BY <1>7, <1>9, <1>10 DEF SenderInv, RequestedInv

LEMMA SetItemInv ==
  ASSUME SenderInv, NEW s \in Senders, NEW k \in Keys, NEW v \in Values, SetItem(s, k, v)
  PROVE  SenderInv'
<1>1. AddOp(s, k, v) \in Ops
  BY SenderAssumption DEF AddOp, Ops, Paths
<1>2. AddOp(s, k, v).path = <<CapabilityOf[s], k>> /\ AddOp(s, k, v).value = v
  BY DEF AddOp
<1>3. {<<CapabilityOf[s], k>>} \in SUBSET Paths
  BY SenderAssumption DEF Paths
<1>4. QED
  BY <1>1, <1>2, <1>3, SendInv DEF SetItem

LEMMA RemovePathsInv ==
  ASSUME SenderInv, NEW s \in Senders, NEW paths \in SUBSET Paths, RemovePaths(s, paths)
  PROVE  SenderInv'
<1>1. {RemoveOp(p) : p \in paths} \in SUBSET Ops
  BY DEF RemoveOp, Ops
<1>2. \A o \in {RemoveOp(p) : p \in paths} : o.path \in paths /\ o.value = Absent
  BY DEF RemoveOp
<1>3. QED
  BY <1>1, <1>2, SendInv DEF RemovePaths

\* removeItem() removes one path.
LEMMA ItemPath ==
  ASSUME NEW s \in Senders, NEW k \in Keys
  PROVE  {<<CapabilityOf[s], k>>} \in SUBSET Paths
  BY SenderAssumption DEF Paths

LEMMA FlushCacheInv ==
  ASSUME SenderInv, NEW s \in Senders, FlushCache(s)
  PROVE  SenderInv'
<1>1. SenderTypeOK /\ RequestedInv
  BY DEF SenderInv
<1>2. PICK slot \in Slots :
        inFlight' = inFlight \cup
          {[sender |-> s, slot |-> slot, payload |-> sendCache[s], status |-> "sent"]}
  BY DEF FlushCache, FreeSlots
<1>3. sendCache' = [sendCache EXCEPT ![s] = EmptyCache] /\ UNCHANGED <<data, last, asked, ops, failures>>
  BY DEF FlushCache
<1>4. SenderTypeOK'
  <2>1. [sender |-> s, slot |-> slot, payload |-> sendCache[s], status |-> "sent"] \in Patches
    BY <1>1 DEF SenderTypeOK, Patches
  <2>2. inFlight' \subseteq Patches
    BY <1>1, <1>2, <2>1 DEF SenderTypeOK
  <2>3. sendCache' \in [Senders -> Caches]
    BY <1>1, <1>3, EmptyCacheType DEF SenderTypeOK
  <2>4. QED
    BY <1>1, <1>3, <2>2, <2>3 DEF SenderTypeOK, Patches
<1>5. ASSUME NEW t \in Senders PROVE Requested(sendCache[t].ops)'
  BY <1>1, <1>3 DEF SenderTypeOK, RequestedInv, Requested, EmptyCache
<1>6. ASSUME NEW f \in inFlight' PROVE Requested(f.payload.ops)'
  <2>1. CASE f \in inFlight
    BY <1>1, <1>3, <2>1 DEF RequestedInv, Requested
  <2>2. CASE f.payload = sendCache[s]
    BY <1>1, <1>3, <2>2 DEF RequestedInv, Requested
  <2>3. QED
    BY <1>2, <2>1, <2>2
<1>7. QED
  BY <1>4, <1>5, <1>6 DEF SenderInv, RequestedInv

\* Answering a patch changes nothing but its status.
LEMMA AnsweredInv ==
  ASSUME SenderInv, NEW f \in inFlight, NEW status \in {"ok", "422", "error"},
         Answered(f, status), UNCHANGED <<sendCache, last, asked, ops>>,
         data' \in [Paths -> Values \cup {Absent}], failures' \in 0..MaxFailures
  PROVE  SenderInv'
<1>1. SenderTypeOK /\ RequestedInv
  BY DEF SenderInv
<1>2. f \in Patches
  BY <1>1 DEF SenderTypeOK
<1>3. PICK g \in Patches : g.payload = f.payload /\ inFlight' = (inFlight \ {f}) \cup {g}
  BY <1>2 DEF Answered, Patches
<1>4. SenderTypeOK'
  BY <1>1, <1>3 DEF SenderTypeOK, Patches
<1>5. RequestedInv'
  BY <1>1, <1>3 DEF RequestedInv, Requested
<1>6. QED
  BY <1>4, <1>5 DEF SenderInv

LEMMA ReplyInv ==
  ASSUME SenderInv, NEW f \in inFlight, Reply(f)
  PROVE  SenderInv'
<1>1. SenderTypeOK /\ RequestedInv
  BY DEF SenderInv
<1>2. f \in Patches /\ f.sender \in Senders /\ f.payload \in Caches
      /\ f.status \in {"ok", "422", "error"}
  BY <1>1 DEF SenderTypeOK, Patches, Reply, Replied
<1>3. inFlight' = inFlight \ {f} /\ UNCHANGED <<data, last, asked, ops, failures>>
  BY DEF Reply, Replied
<1>4. PICK cache \in Caches :
        /\ sendCache' = [sendCache EXCEPT ![f.sender] = cache]
        /\ cache.ops \subseteq sendCache[f.sender].ops \cup f.payload.ops
  <2>1. sendCache[f.sender] \in Caches
    BY <1>1, <1>2 DEF SenderTypeOK
  <2>2. CASE f.status = "ok"
    BY <2>1, <2>2 DEF Reply, Replied
  <2>3. CASE f.status = "422"
    BY <2>3, EmptyCacheType DEF Reply, Replied, EmptyCache
  <2>4. CASE f.status = "error"
    BY <1>2, <2>1, <2>4, ReAddType DEF Reply, Replied
  <2>5. QED
    BY <1>2, <2>2, <2>3, <2>4
<1>5. SenderTypeOK'
  BY <1>1, <1>2, <1>3, <1>4 DEF SenderTypeOK, Patches
<1>6. ASSUME NEW t \in Senders PROVE Requested(sendCache[t].ops)'
  BY <1>1, <1>2, <1>3, <1>4 DEF SenderTypeOK, RequestedInv, Requested
<1>7. QED
  BY <1>1, <1>3, <1>5, <1>6 DEF SenderInv, RequestedInv, Requested

LEMMA NextSenderInv == SenderInv /\ [NextSender]_senderVars => SenderInv'
<1> SUFFICES ASSUME SenderInv, [NextSender]_senderVars PROVE SenderInv'
  OBVIOUS
<1>1. ASSUME NEW s \in Senders, NEW k \in Keys, RemoveItem(s, k) PROVE SenderInv'
  BY <1>1, ItemPath, RemovePathsInv DEF RemoveItem
<1>2. ASSUME NEW s \in Senders, NEW k \in Keys, NEW v \in Values, SetItem(s, k, v) PROVE SenderInv'
  BY <1>2, SetItemInv
<1>3. ASSUME NEW s \in Senders, FlushCache(s) PROVE SenderInv'
  BY <1>3, FlushCacheInv
<1>4. ASSUME NEW f \in inFlight, PatchApplied(f) PROVE SenderInv'
  <2>1. f.payload \in Caches
    BY DEF SenderInv, SenderTypeOK, Patches
  <2>2. data' \in [Paths -> Values \cup {Absent}]
    BY <1>4, <2>1, PatchedType DEF PatchApplied, SenderInv, SenderTypeOK
  <2>3. QED
    BY <1>4, <2>2, AnsweredInv DEF PatchApplied, SenderInv, SenderTypeOK
<1>5. ASSUME NEW f \in inFlight, PatchRefused(f) PROVE SenderInv'
  BY <1>5, AnsweredInv DEF PatchRefused, SenderInv, SenderTypeOK
<1>6. ASSUME NEW f \in inFlight, PatchFailed(f) PROVE SenderInv'
  <2>1. failures' \in 0..MaxFailures
    BY <1>6, SenderAssumption DEF PatchFailed, SenderInv, SenderTypeOK
  <2>2. QED
    BY <1>6, <2>1, AnsweredInv DEF PatchFailed, SenderInv, SenderTypeOK
<1>7. ASSUME NEW f \in inFlight, Reply(f) PROVE SenderInv'
  BY <1>7, ReplyInv
<1>8. CASE UNCHANGED senderVars
  BY <1>8 DEF SenderInv, SenderTypeOK, Patches, RequestedInv, Requested, senderVars
<1>9. QED
  BY <1>1, <1>2, <1>3, <1>4, <1>5, <1>6, <1>7, <1>8 DEF NextSender, Patch

-----------------------------------------------------------------------------
(* The theorems.                                                           *)

\* Every reachable state of the write side satisfies the invariant.
THEOREM SenderInvariant == SpecSender => []SenderInv
  BY InitSenderInv, NextSenderInv, PTL DEF SpecSender

\* Type correctness of the caches, the patches in flight and the resource.
THEOREM SenderTypeCorrect == SpecSender => []SenderTypeOK
<1>1. SenderInv => SenderTypeOK
  BY DEF SenderInv
<1>2. QED
  BY <1>1, SenderInvariant, PTL

\* What a request adds to the history of requests.
LEMMA RequestAsks ==
  ASSUME NEW s, NEW paths, NEW value, Request(s, paths, value), NEW r \in asked', r \notin asked
  PROVE  r[1] = CapabilityOf[s] /\ r[2] \in paths /\ r[3] = value
  BY DEF Request

\* Where only setItem and removeItem are called, a capability asks for its own
\* keys only.
OwnRequests == \A r \in asked : r[2][1] = r[1]

LEMMA SetItemAsks ==
  ASSUME NEW s \in Senders, NEW k \in Keys, NEW v \in Values, SetItem(s, k, v),
         NEW r \in asked', r \notin asked
  PROVE  r[1] = CapabilityOf[s] /\ r[2][1] = r[1]
  BY RequestAsks DEF SetItem

LEMMA RemoveItemAsks ==
  ASSUME NEW s \in Senders, NEW k \in Keys, RemoveItem(s, k), NEW r \in asked', r \notin asked
  PROVE  r[1] = CapabilityOf[s] /\ r[2][1] = r[1]
  BY RequestAsks DEF RemoveItem, RemovePaths

LEMMA NextOwnRequests == OwnRequests /\ [NextSender]_senderVars => OwnRequests'
<1> SUFFICES ASSUME OwnRequests, [NextSender]_senderVars, NEW r \in asked', r \notin asked
             PROVE  r[2][1] = r[1]
  BY DEF OwnRequests
<1>1. PICK s \in Senders, k \in Keys : RemoveItem(s, k) \/ \E v \in Values : SetItem(s, k, v)
  BY DEF NextSender, FlushCache, Patch, PatchApplied, PatchRefused, PatchFailed, Reply, Replied, senderVars
<1>2. QED
  BY <1>1, SetItemAsks, RemoveItemAsks

\* The resource changes under a path only to what was requested for that
\* key through a store of that capability, whatever is refused, fails or
\* is re-added.
THEOREM OnlyRequestedStored == SpecSender => OnlyRequested
<1>1. InitSender => OwnRequests
  BY DEF InitSender, OwnRequests
<1>2. SenderInv /\ OwnRequests /\ [NextSender]_senderVars =>
        [\A p \in Paths : data'[p] # data[p] => <<p[1], p, data'[p]>> \in asked]_senderVars
  <2> SUFFICES ASSUME SenderInv, OwnRequests, NextSender, NEW p \in Paths, data'[p] # data[p]
               PROVE  <<p[1], p, data'[p]>> \in asked
    OBVIOUS
  <2>1. PICK f \in inFlight : PatchApplied(f)
    BY DEF NextSender, RemoveItem, RemovePaths, SetItem, FlushCache, Patch, PatchRefused, Replied,
           PatchFailed, Reply
  <2>2. data' = Patched(f.payload)
    BY <2>1 DEF PatchApplied
  <2>3. PICK o \in f.payload.ops : o.path = p /\ data'[p] = o.value
    BY <2>2, PatchedFrom
  <2>4. PICK c \in Capabilities : <<c, p, data'[p]>> \in asked
    BY <2>3 DEF SenderInv, RequestedInv, Requested
  <2>5. p[1] = c
    BY <2>4 DEF OwnRequests
  <2>6. QED
    BY <2>4, <2>5
<1>3. QED
  BY <1>1, <1>2, SenderInvariant, NextOwnRequests, PTL DEF SpecSender, OnlyRequested

-----------------------------------------------------------------------------
(* The whole Store: what its state is made of.                             *)

Contents == [Paths -> Values \cup {Absent}]

\* The records of the ...AndWait calls that have been made.
WaitRecords ==
  [status : {"waiting", "resolved", "rejected", "gone"}, sender : Senders,
   key : Keys, value : Values \cup {Absent}]

SyncTypeOK ==
  /\ SenderTypeOK
  /\ versions \in Seq(Contents)
  /\ stream \in [Senders -> Seq(Nat)]
  /\ debounced \in [Senders -> SUBSET Nat]
  /\ view \in [Senders -> Nat]
  /\ wait \in [Waits -> {NoWait} \cup WaitRecords]
  /\ alive \in [Senders -> BOOLEAN]
  /\ orphans \subseteq Caches
  /\ crashes \in 0..MaxMishaps
  /\ clears \in 0..MaxMishaps

\* What is cached, in flight or left behind by an ended process was requested.
AllRequested == RequestedInv /\ \A payload \in orphans : Requested(payload.ops)

\* The history ends with the resource as it is.
HistoryInv == versions # <<>> /\ versions[Len(versions)] = data

\* What is under way to a store is in order: its copy, then the version the
\* armed timer holds, then the events that have not arrived.
InOrder(s) ==
  /\ view[s] \in 0..Len(versions)
  /\ \A v \in debounced[s] : v \in 1..Len(versions) /\ view[s] <= v
  /\ \A v, u \in debounced[s] : v = u
  /\ \A i \in 1..Len(stream[s]) :
       /\ stream[s][i] \in 1..Len(versions)
       /\ view[s] <= stream[s][i]
       /\ \A v \in debounced[s] : v <= stream[s][i]
       /\ \A j \in i..Len(stream[s]) : stream[s][i] <= stream[s][j]

\* The newest of it is the resource as it is, so that nothing is lost.
UpToDate(s) ==
  IF stream[s] # <<>> THEN stream[s][Len(stream[s])] = Len(versions)
  ELSE IF debounced[s] # {} THEN Len(versions) \in debounced[s]
  ELSE view[s] = Len(versions)

\* An ended process has no cache, no patch that could be answered, no copy
\* and no promise.
Ended(s) ==
  /\ sendCache[s] = EmptyCache
  /\ \A f \in inFlight : f.sender # s
  /\ stream[s] = <<>>
  /\ debounced[s] = {}
  /\ view[s] = 0
  /\ \A w \in Waits : ~Listening(w, s)

ReadInv == \A s \in Senders : InOrder(s) /\ (IF alive[s] THEN UpToDate(s) ELSE Ended(s))

\* The inductive invariant of the whole Store.
SyncInv == SyncTypeOK /\ AllRequested /\ HistoryInv /\ ReadInv

-----------------------------------------------------------------------------
(* The whole Store: lemmas about its steps.                                *)

LEMMA InitSyncInv == InitSync => SyncInv
<1> SUFFICES ASSUME InitSync PROVE SyncInv
  OBVIOUS
<1>1. SenderInv /\ data \in Contents
  BY InitSenderInv DEF InitSync, SenderInv, SenderTypeOK, Contents
<1>2. versions = <<data>> /\ versions \in Seq(Contents) /\ Len(versions) = 1
  BY <1>1 DEF InitSync
<1>3. SyncTypeOK
  BY <1>1, <1>2, SyncAssumption DEF InitSync, SyncTypeOK, SenderInv
<1>4. AllRequested /\ HistoryInv
  BY <1>1, <1>2 DEF InitSync, AllRequested, HistoryInv, SenderInv
<1>5. ASSUME NEW s \in Senders PROVE InOrder(s) /\ UpToDate(s) /\ alive[s]
  <2>1. stream[s] = <<1>> /\ debounced[s] = {} /\ view[s] = 0 /\ alive[s]
    BY DEF InitSync
  <2>2. QED
    BY <2>1, <1>2 DEF InOrder, UpToDate
<1>6. QED
  BY <1>3, <1>4, <1>5 DEF SyncInv, ReadInv

\* What was requested stays requested.
LEMMA StillRequested ==
  ASSUME NEW set, Requested(set), asked \subseteq asked'
  PROVE  Requested(set)'
  BY DEF Requested

\* A step that leaves a store's side of the watch and the history alone
\* leaves its order alone.
LEMMA SameOrder ==
  ASSUME NEW s \in Senders, InOrder(s), UNCHANGED <<versions, stream, debounced, view>>
  PROVE  InOrder(s)'
  BY DEF InOrder

LEMMA SameUpToDate ==
  ASSUME NEW s \in Senders, UpToDate(s), UNCHANGED <<versions, stream, debounced, view>>
  PROVE  UpToDate(s)'
  BY DEF UpToDate

\* A step of the write side that changes nothing at the server, nor gives an
\* ended process anything, keeps the invariant.
LEMMA WriteStepInv ==
  ASSUME SyncInv, SenderInv',
         UNCHANGED <<data, versions, stream, debounced, view, alive, orphans, crashes>>,
         asked \subseteq asked', clears' \in 0..MaxMishaps,
         wait' \in [Waits -> {NoWait} \cup WaitRecords],
         \A s \in Senders : ~alive[s] =>
           /\ sendCache'[s] = EmptyCache
           /\ \A f \in inFlight' : f.sender # s
           /\ \A w \in Waits : ~Listening(w, s)'
  PROVE  SyncInv'
<1>1. SyncTypeOK'
  BY DEF SyncInv, SyncTypeOK, SenderInv, Contents, WaitRecords
<1>2. AllRequested'
  BY StillRequested DEF SyncInv, AllRequested, SenderInv
<1>3. HistoryInv'
  BY DEF SyncInv, HistoryInv
<1>4. ASSUME NEW s \in Senders PROVE InOrder(s)' /\ (IF alive[s] THEN UpToDate(s) ELSE Ended(s))'
  <2>1. InOrder(s)'
    BY SameOrder DEF SyncInv, ReadInv
  <2>2. CASE alive[s]
    BY <2>1, <2>2, SameUpToDate DEF SyncInv, ReadInv
  <2>3. CASE ~alive[s]
    <3>1. Ended(s)
      BY <2>3 DEF SyncInv, ReadInv
    <3>2. Ended(s)'
      BY <2>3, <3>1 DEF Ended
    <3>3. QED
      BY <2>1, <2>3, <3>2
  <2>4. QED
    BY <2>2, <2>3
<1>5. QED
  BY <1>1, <1>2, <1>3, <1>4 DEF SyncInv, ReadInv

\* The facts about a history that grows by one.
LEMMA Grown ==
  ASSUME versions \in Seq(Contents), data' \in Contents, versions' = Append(versions, data')
  PROVE  /\ versions' \in Seq(Contents)
         /\ Len(versions') = Len(versions) + 1
         /\ versions'[Len(versions')] = data'
         /\ versions' # <<>>
<1>1. /\ Append(versions, data') \in Seq(Contents)
      /\ Len(Append(versions, data')) = Len(versions) + 1
      /\ Append(versions, data')[Len(versions) + 1] = data'
  BY AppendProperties
<1>2. Append(versions, data') # <<>>
  BY AppendProperties
<1>3. QED
  BY <1>1, <1>2

\* An order stays one when the newest version is added at its end.
LEMMA OrderGrows ==
  ASSUME NEW s \in Senders, InOrder(s), stream[s] \in Seq(Nat), debounced[s] \in SUBSET Nat,
         view[s] \in Nat, Len(versions) \in Nat, Len(versions') = Len(versions) + 1,
         stream'[s] = Append(stream[s], Len(versions')), UNCHANGED <<debounced, view>>
  PROVE  InOrder(s)' /\ UpToDate(s)'
<1>. DEFINE new == Append(stream[s], Len(versions'))
            m == Len(stream[s])
<1>1. /\ m \in Nat
      /\ Len(new) = m + 1
      /\ new[m + 1] = Len(versions) + 1
      /\ \A i \in 1..m : new[i] = stream[s][i] /\ stream[s][i] \in Nat
  <2>1. Len(versions') \in Nat
    OBVIOUS
  <2>2. QED
    BY <2>1, AppendProperties
<1>2. new # <<>>
  <2>1. Len(versions') \in Nat
    OBVIOUS
  <2>2. QED
    BY <2>1, AppendProperties
<1>. HIDE DEF new
<1>3. stream'[s] = new
  BY DEF new
<1>4. ASSUME NEW i \in 1..Len(new)
      PROVE  /\ new[i] \in 1..Len(versions')
             /\ view[s] <= new[i]
             /\ \A v \in debounced[s] : v <= new[i]
             /\ \A j \in i..Len(new) : new[i] <= new[j]
  <2>1. CASE i \in 1..m
    <3>1. ASSUME NEW j \in i..Len(new) PROVE new[i] <= new[j]
      <4>1. CASE j \in i..m
        BY <1>1, <2>1, <4>1 DEF InOrder
      <4>2. CASE j = m + 1
        BY <1>1, <2>1, <4>2 DEF InOrder
      <4>3. QED
        BY <1>1, <2>1, <4>1, <4>2
    <3>2. QED
      BY <1>1, <2>1, <3>1 DEF InOrder
  <2>2. CASE i = m + 1
    BY <1>1, <2>2 DEF InOrder
  <2>3. QED
    BY <1>1, <2>1, <2>2
<1>5. InOrder(s)'
  <2>1. view'[s] \in 0..Len(versions') /\ view'[s] = view[s] /\ debounced'[s] = debounced[s]
    BY DEF InOrder
  <2>2. \A v \in debounced[s] : v \in 1..Len(versions') /\ view[s] <= v
    BY DEF InOrder
  <2>3. \A v, u \in debounced[s] : v = u
    BY DEF InOrder
  <2>4. QED
    BY <1>3, <1>4, <2>1, <2>2, <2>3 DEF InOrder
<1>6. UpToDate(s)'
  BY <1>1, <1>2, <1>3 DEF UpToDate
<1>7. QED
  BY <1>5, <1>6

\* A change at the server that every running watch is told keeps the invariant.
LEMMA PublishedInv ==
  ASSUME SyncInv, SenderInv', Published, UNCHANGED <<debounced, view, wait, alive, asked, crashes, clears, sendCache>>,
         orphans' \subseteq orphans,
         \A f \in inFlight' : \E g \in inFlight : g.sender = f.sender
  PROVE  SyncInv'
<1>1. data' \in Contents
  BY DEF SenderInv, SenderTypeOK, Contents
<1>2. versions \in Seq(Contents) /\ Len(versions) \in Nat /\ HistoryInv
  BY DEF SyncInv, SyncTypeOK
<1>3. /\ versions' \in Seq(Contents)
      /\ HistoryInv'
  <2>1. CASE data' = data
    BY <1>2, <2>1 DEF Published, HistoryInv
  <2>2. CASE data' # data
    BY <1>1, <1>2, <2>2, Grown DEF Published, HistoryInv
  <2>3. QED
    BY <2>1, <2>2
<1>4. stream' \in [Senders -> Seq(Nat)]
  <2>1. CASE data' = data
    BY <2>1 DEF Published, SyncInv, SyncTypeOK
  <2>2. CASE data' # data
    <3>1. Len(versions') \in Nat
      BY <1>1, <1>2, <2>2, Grown DEF Published
    <3>2. \A s \in Senders : Append(stream[s], Len(versions')) \in Seq(Nat)
      BY <3>1, AppendProperties DEF SyncInv, SyncTypeOK
    <3>3. QED
      BY <2>2, <3>2 DEF Published, SyncInv, SyncTypeOK
  <2>3. QED
    BY <2>1, <2>2
<1>5. SyncTypeOK'
  BY <1>3, <1>4 DEF SyncInv, SyncTypeOK, SenderInv, Contents, WaitRecords
<1>6. AllRequested'
  BY StillRequested DEF SyncInv, AllRequested, SenderInv
<1>7. ASSUME NEW s \in Senders, ~alive[s] PROVE Ended(s)' /\ InOrder(s)'
  <2>1. Ended(s)
    BY <1>7 DEF SyncInv, ReadInv
  <2>2. stream'[s] = stream[s]
    BY <1>7 DEF Published
  <2>3. Ended(s)'
    BY <2>1, <2>2 DEF Ended, Listening
  <2>4. InOrder(s)'
    BY <1>3, <2>3 DEF Ended, InOrder
  <2>5. QED
    BY <2>3, <2>4
<1>8. ASSUME NEW s \in Senders, alive[s] PROVE InOrder(s)' /\ UpToDate(s)'
  <2>1. InOrder(s) /\ UpToDate(s)
    BY <1>8 DEF SyncInv, ReadInv
  <2>2. CASE data' = data
    BY <2>1, <2>2, SameOrder, SameUpToDate DEF Published
  <2>3. CASE data' # data
    <3>1. Len(versions') = Len(versions) + 1
      BY <1>1, <1>2, <2>3, Grown DEF Published
    <3>2. stream'[s] = Append(stream[s], Len(versions'))
      BY <1>8, <2>3 DEF Published
    <3>3. stream[s] \in Seq(Nat) /\ debounced[s] \in SUBSET Nat /\ view[s] \in Nat
      BY DEF SyncInv, SyncTypeOK
    <3>4. QED
      BY <1>2, <2>1, <3>1, <3>2, <3>3, OrderGrows
  <2>4. QED
    BY <2>2, <2>3
<1>9. QED
  BY <1>3, <1>5, <1>6, <1>7, <1>8 DEF SyncInv, ReadInv

\* The facts about a sequence that loses its head.
LEMMA Shrunk ==
  ASSUME NEW seq \in Seq(Nat), seq # <<>>
  PROVE  /\ Head(seq) = seq[1] /\ Head(seq) \in Nat
         /\ Tail(seq) \in Seq(Nat)
         /\ Len(seq) \in Nat \ {0}
         /\ Len(Tail(seq)) = Len(seq) - 1
         /\ \A i \in 1..(Len(seq) - 1) : Tail(seq)[i] = seq[i + 1]
         /\ Tail(seq) # <<>> <=> Len(seq) # 1
<1>1. Len(seq) \in Nat \ {0}
  BY EmptySeq, LenProperties
<1>2. Head(seq) = seq[1] /\ Head(seq) \in Nat /\ Tail(seq) \in Seq(Nat)
  BY HeadTailProperties
<1>3. Len(Tail(seq)) = Len(seq) - 1 /\ \A i \in 1..(Len(seq) - 1) : Tail(seq)[i] = seq[i + 1]
  BY HeadTailProperties
<1>4. Tail(seq) # <<>> <=> Len(seq) # 1
  BY <1>1, <1>2, <1>3, EmptySeq
<1>5. QED
  BY <1>1, <1>2, <1>3, <1>4

\* A watch event moves from the watch to the timer, in place of what that held.
LEMMA WatchEventInv ==
  ASSUME SyncInv, NEW s \in Senders, WatchEvent(s)
  PROVE  SyncInv'
<1>. DEFINE old == stream[s]
            new == Tail(stream[s])
<1>1. /\ alive[s] /\ old # <<>> /\ old \in Seq(Nat)
      /\ InOrder(s) /\ UpToDate(s)
  BY DEF WatchEvent, Arms, SyncInv, SyncTypeOK, ReadInv
<1>2. /\ stream' = [stream EXCEPT ![s] = new]
      /\ debounced' = [debounced EXCEPT ![s] = {Head(old)}]
      /\ UNCHANGED <<senderVars, versions, view, wait, alive, orphans, crashes, clears>>
  BY DEF WatchEvent, Arms
<1>3. UNCHANGED <<data, sendCache, inFlight, last, asked, ops, failures>>
  BY <1>2 DEF senderVars
<1>4. /\ Head(old) = old[1] /\ Head(old) \in Nat /\ new \in Seq(Nat)
      /\ Len(old) \in Nat \ {0} /\ Len(new) = Len(old) - 1
      /\ \A i \in 1..(Len(old) - 1) : new[i] = old[i + 1]
      /\ new # <<>> <=> Len(old) # 1
  BY <1>1, Shrunk
<1>5. Len(versions) \in Nat /\ view[s] \in Nat
  BY DEF SyncInv, SyncTypeOK
<1>6. SyncTypeOK'
  <2>1. stream' \in [Senders -> Seq(Nat)] /\ debounced' \in [Senders -> SUBSET Nat]
    BY <1>2, <1>4 DEF SyncInv, SyncTypeOK
  <2>2. SenderTypeOK'
    BY <1>3 DEF SyncInv, SyncTypeOK, SenderTypeOK, Patches
  <2>3. QED
    BY <1>2, <2>1, <2>2 DEF SyncInv, SyncTypeOK, Contents, WaitRecords
<1>7. AllRequested' /\ HistoryInv'
  BY <1>2, <1>3 DEF SyncInv, AllRequested, RequestedInv, Requested, HistoryInv
<1>8. InOrder(s)' /\ UpToDate(s)'
  <2>1. stream'[s] = new /\ debounced'[s] = {Head(old)} /\ view'[s] = view[s] /\ versions' = versions
    BY <1>2 DEF SyncInv, SyncTypeOK
  <2>. HIDE DEF new, old
  <2>2. \A i \in 1..Len(old) :
          /\ old[i] \in 1..Len(versions)
          /\ view[s] <= old[i]
          /\ \A j \in i..Len(old) : old[i] <= old[j]
    BY <1>1 DEF InOrder, old
  <2>3. view[s] \in 0..Len(versions)
    BY <1>1 DEF InOrder
  <2>4. old[1] \in 1..Len(versions) /\ view[s] <= old[1]
    BY <1>4, <2>2
  <2>5. ASSUME NEW i \in 1..Len(new)
        PROVE  /\ new[i] \in 1..Len(versions)
               /\ view[s] <= new[i]
               /\ old[1] <= new[i]
               /\ \A j \in i..Len(new) : new[i] <= new[j]
    <3>1. i + 1 \in 1..Len(old) /\ i \in 1..(Len(old) - 1) /\ new[i] = old[i + 1]
      BY <1>4
    <3>2. old[1] <= old[i + 1]
      BY <1>4, <2>2, <3>1
    <3>3. ASSUME NEW j \in i..Len(new) PROVE new[i] <= new[j]
      <4>1. j + 1 \in (i + 1)..Len(old) /\ new[j] = old[j + 1]
        BY <1>4
      <4>2. QED
        BY <2>2, <3>1, <4>1
    <3>4. QED
      BY <2>2, <3>1, <3>2, <3>3
  <2>6. InOrder(s)'
    BY <1>4, <2>1, <2>3, <2>4, <2>5 DEF InOrder
  <2>7. old[Len(old)] = Len(versions)
    BY <1>1 DEF UpToDate, old
  <2>8. UpToDate(s)'
    <3>1. CASE Len(old) = 1
      BY <1>4, <2>1, <2>7, <3>1 DEF UpToDate
    <3>2. CASE Len(old) # 1
      <4>1. new[Len(new)] = old[Len(old)]
        BY <1>4, <3>2
      <4>2. QED
        BY <1>4, <2>1, <2>7, <3>2, <4>1 DEF UpToDate
    <3>3. QED
      BY <3>1, <3>2
  <2>9. QED
    BY <2>6, <2>8
<1>9. ASSUME NEW t \in Senders, t # s
      PROVE  InOrder(t)' /\ (IF alive[t] THEN UpToDate(t) ELSE Ended(t))'
  BY <1>2, <1>3, <1>9 DEF SyncInv, SyncTypeOK, ReadInv, InOrder, UpToDate, Ended, Listening
<1>10. QED
  BY <1>1, <1>2, <1>6, <1>7, <1>8, <1>9 DEF SyncInv, ReadInv

\* The copy of a store becomes what the timer held.
LEMMA ReceiveInv ==
  ASSUME SyncInv, NEW s \in Senders, NEW v \in debounced[s], Receive(s, v)
  PROVE  SyncInv'
<1>1. alive[s] /\ InOrder(s) /\ UpToDate(s) /\ v \in Nat
  BY DEF Receive, SyncInv, SyncTypeOK, ReadInv
<1>2. /\ debounced' = [debounced EXCEPT ![s] = debounced[s] \ {v}]
      /\ view' = [view EXCEPT ![s] = v]
      /\ UNCHANGED <<senderVars, versions, stream, alive, orphans, crashes, clears>>
  BY DEF Receive
<1>3. UNCHANGED <<data, sendCache, inFlight, last, asked, ops, failures>>
  BY <1>2 DEF senderVars
<1>4. ASSUME NEW w \in Waits
      PROVE  /\ wait'[w] \in {NoWait} \cup WaitRecords
             /\ wait'[w].status = "waiting" => wait'[w] = wait[w]
  <2>1. CASE Listening(w, s) /\ Satisfied(versions, v, wait[w])
    <3>1. wait[w] \in WaitRecords
      BY <2>1 DEF SyncInv, SyncTypeOK, Listening, NoWait
    <3>2. wait'[w] = [wait[w] EXCEPT !.status = "resolved"]
      BY <2>1 DEF Receive
    <3>3. QED
      BY <3>1, <3>2 DEF WaitRecords
  <2>2. CASE ~(Listening(w, s) /\ Satisfied(versions, v, wait[w]))
    BY <2>2 DEF Receive, SyncInv, SyncTypeOK
  <2>3. QED
    BY <2>1, <2>2
<1>5. SyncTypeOK'
  <2>1. debounced' \in [Senders -> SUBSET Nat] /\ view' \in [Senders -> Nat]
    BY <1>1, <1>2 DEF SyncInv, SyncTypeOK
  <2>2. wait' \in [Waits -> {NoWait} \cup WaitRecords]
    BY <1>4 DEF Receive
  <2>3. SenderTypeOK'
    BY <1>3 DEF SyncInv, SyncTypeOK, SenderTypeOK, Patches
  <2>4. QED
    BY <1>2, <2>1, <2>2, <2>3 DEF SyncInv, SyncTypeOK, Contents, WaitRecords
<1>6. AllRequested' /\ HistoryInv'
  BY <1>2, <1>3 DEF SyncInv, AllRequested, RequestedInv, Requested, HistoryInv
<1>7. InOrder(s)' /\ UpToDate(s)'
  <2>1. debounced[s] = {v}
    BY <1>1 DEF InOrder
  <2>2. debounced'[s] = {} /\ view'[s] = v /\ stream' = stream /\ versions' = versions
    BY <1>2, <2>1 DEF SyncInv, SyncTypeOK
  <2>3. InOrder(s)'
    BY <1>1, <2>1, <2>2 DEF InOrder
  <2>4. UpToDate(s)'
    BY <1>1, <2>1, <2>2 DEF UpToDate
  <2>5. QED
    BY <2>3, <2>4
<1>8. ASSUME NEW t \in Senders, t # s
      PROVE  InOrder(t)' /\ (IF alive[t] THEN UpToDate(t) ELSE Ended(t))'
  <2>1. InOrder(t) /\ (IF alive[t] THEN UpToDate(t) ELSE Ended(t))
    BY DEF SyncInv, ReadInv
  <2>2. UNCHANGED <<versions, alive, stream[t], debounced[t], view[t]>>
    BY <1>2, <1>8 DEF SyncInv, SyncTypeOK
  <2>3. InOrder(t)' /\ (alive[t] => UpToDate(t)')
    BY <2>1, <2>2 DEF InOrder, UpToDate
  <2>4. ~alive[t] => Ended(t)'
    BY <1>2, <1>3, <1>4, <2>1, <2>2 DEF Ended, Listening
  <2>5. QED
    BY <2>2, <2>3, <2>4
<1>9. QED
  BY <1>1, <1>2, <1>5, <1>6, <1>7, <1>8 DEF SyncInv, ReadInv

\* A process ends, at the cost of a crash or of a clear().
LEMMA DieInv ==
  ASSUME SyncInv, NEW s \in Senders, Die(s),
         crashes' \in 0..MaxMishaps, clears' \in 0..MaxMishaps
  PROVE  SyncInv'
<1>1. /\ alive' = [alive EXCEPT ![s] = FALSE]
      /\ sendCache' = [sendCache EXCEPT ![s] = EmptyCache]
      /\ inFlight' = {f \in inFlight : f.sender # s}
      /\ orphans' = orphans \cup {f.payload : f \in {g \in inFlight : g.sender = s /\ g.status = "sent"}}
      /\ stream' = [stream EXCEPT ![s] = <<>>]
      /\ debounced' = [debounced EXCEPT ![s] = {}]
      /\ view' = [view EXCEPT ![s] = 0]
      /\ UNCHANGED <<data, last, asked, ops, failures, versions>>
  BY DEF Die
<1>2. ASSUME NEW w \in Waits
      PROVE  /\ wait'[w] \in {NoWait} \cup WaitRecords
             /\ wait'[w].status = "waiting" => wait'[w] = wait[w] /\ ~Listening(w, s)
  <2>1. CASE Listening(w, s)
    <3>1. wait[w] \in WaitRecords
      BY <2>1 DEF SyncInv, SyncTypeOK, Listening, NoWait
    <3>2. wait'[w] = [wait[w] EXCEPT !.status = "gone"]
      BY <2>1 DEF Die
    <3>3. QED
      BY <3>1, <3>2 DEF WaitRecords
  <2>2. CASE ~Listening(w, s)
    BY <2>2 DEF Die, SyncInv, SyncTypeOK
  <2>3. QED
    BY <2>1, <2>2
<1>3. SyncTypeOK'
  <2>1. SenderTypeOK'
    BY <1>1, EmptyCacheType DEF SyncInv, SyncTypeOK, SenderTypeOK, Patches
  <2>2. orphans' \subseteq Caches
    BY <1>1 DEF SyncInv, SyncTypeOK, SenderTypeOK, Patches
  <2>3. wait' \in [Waits -> {NoWait} \cup WaitRecords]
    BY <1>2 DEF Die
  <2>4. stream' \in [Senders -> Seq(Nat)] /\ debounced' \in [Senders -> SUBSET Nat]
    BY <1>1, EmptySeq DEF SyncInv, SyncTypeOK
  <2>5. view' \in [Senders -> Nat] /\ alive' \in [Senders -> BOOLEAN]
    BY <1>1 DEF SyncInv, SyncTypeOK
  <2>6. QED
    BY <1>1, <2>1, <2>2, <2>3, <2>4, <2>5 DEF SyncInv, SyncTypeOK, Contents, WaitRecords
<1>4. AllRequested' /\ HistoryInv'
  <2>1. ASSUME NEW t \in Senders PROVE Requested(sendCache[t].ops)'
    BY <1>1 DEF SyncInv, SyncTypeOK, SenderTypeOK, AllRequested, RequestedInv, Requested, EmptyCache
  <2>2. ASSUME NEW f \in inFlight' PROVE Requested(f.payload.ops)'
    BY <1>1 DEF SyncInv, AllRequested, RequestedInv, Requested
  <2>3. ASSUME NEW payload \in orphans' PROVE Requested(payload.ops)'
    BY <1>1 DEF SyncInv, AllRequested, RequestedInv, Requested
  <2>4. QED
    BY <1>1, <2>1, <2>2, <2>3 DEF SyncInv, AllRequested, RequestedInv, HistoryInv
<1>5. ~alive'[s] /\ Ended(s)' /\ InOrder(s)'
  <2>1. /\ ~alive'[s] /\ sendCache'[s] = EmptyCache /\ stream'[s] = <<>> /\ debounced'[s] = {}
        /\ view'[s] = 0 /\ versions' = versions
    BY <1>1 DEF SyncInv, SyncTypeOK, SenderTypeOK
  <2>2. Ended(s)'
    BY <1>1, <1>2, <2>1 DEF Ended, Listening
  <2>3. Len(versions) \in Nat
    BY DEF SyncInv, SyncTypeOK
  <2>4. InOrder(s)'
    BY <2>1, <2>3 DEF InOrder
  <2>5. QED
    BY <2>1, <2>2, <2>4
<1>6. ASSUME NEW t \in Senders, t # s
      PROVE  InOrder(t)' /\ (IF alive[t] THEN UpToDate(t) ELSE Ended(t))'
  <2>1. InOrder(t) /\ (IF alive[t] THEN UpToDate(t) ELSE Ended(t))
    BY DEF SyncInv, ReadInv
  <2>2. UNCHANGED <<versions, alive[t], stream[t], debounced[t], view[t], sendCache[t]>>
    BY <1>1, <1>6 DEF SyncInv, SyncTypeOK, SenderTypeOK
  <2>3. InOrder(t)' /\ (alive[t] => UpToDate(t)')
    BY <2>1, <2>2 DEF InOrder, UpToDate
  <2>4. ~alive[t] => Ended(t)'
    BY <1>1, <1>2, <2>1, <2>2 DEF Ended, Listening
  <2>5. QED
    BY <2>2, <2>3, <2>4
<1>7. QED
  BY <1>3, <1>4, <1>5, <1>6 DEF SyncInv, ReadInv

\* A new process starts with the state of the resource.
LEMMA RestartInv ==
  ASSUME SyncInv, NEW s \in Senders, Restart(s)
  PROVE  SyncInv'
<1>1. /\ ~alive[s] /\ Ended(s)
      /\ Len(versions) \in Nat /\ versions # <<>> /\ versions \in Seq(Contents)
  BY DEF Restart, SyncInv, SyncTypeOK, ReadInv, HistoryInv
<1>2. Len(versions) # 0
  BY <1>1, EmptySeq
<1>3. /\ alive' = [alive EXCEPT ![s] = TRUE]
      /\ stream' = [stream EXCEPT ![s] = <<Len(versions)>>]
      /\ UNCHANGED <<senderVars, versions, debounced, view, wait, orphans, crashes, clears>>
  BY DEF Restart
<1>4. UNCHANGED <<data, sendCache, inFlight, last, asked, ops, failures>>
  BY <1>3 DEF senderVars
<1>5. SyncTypeOK'
  <2>1. stream' \in [Senders -> Seq(Nat)] /\ alive' \in [Senders -> BOOLEAN]
    BY <1>1, <1>3 DEF SyncInv, SyncTypeOK
  <2>2. SenderTypeOK'
    BY <1>4 DEF SyncInv, SyncTypeOK, SenderTypeOK, Patches
  <2>3. QED
    BY <1>3, <2>1, <2>2 DEF SyncInv, SyncTypeOK, Contents, WaitRecords
<1>6. AllRequested' /\ HistoryInv'
  BY <1>3, <1>4 DEF SyncInv, AllRequested, RequestedInv, Requested, HistoryInv
<1>7. alive'[s] /\ InOrder(s)' /\ UpToDate(s)'
  <2>1. /\ alive'[s] /\ stream'[s] = <<Len(versions)>> /\ debounced'[s] = {} /\ view'[s] = 0
        /\ versions' = versions
    BY <1>1, <1>3 DEF SyncInv, SyncTypeOK, Ended
  <2>2. QED
    BY <1>1, <1>2, <2>1 DEF InOrder, UpToDate
<1>8. ASSUME NEW t \in Senders, t # s
      PROVE  InOrder(t)' /\ (IF alive[t] THEN UpToDate(t) ELSE Ended(t))'
  <2>1. InOrder(t) /\ (IF alive[t] THEN UpToDate(t) ELSE Ended(t))
    BY DEF SyncInv, ReadInv
  <2>2. UNCHANGED <<versions, alive[t], stream[t], debounced, view, sendCache, inFlight, wait>>
    BY <1>3, <1>4, <1>8 DEF SyncInv, SyncTypeOK
  <2>3. InOrder(t)' /\ (alive[t] => UpToDate(t)')
    BY <2>1, <2>2 DEF InOrder, UpToDate
  <2>4. ~alive[t] => Ended(t)'
    BY <2>1, <2>2 DEF Ended, Listening
  <2>5. QED
    BY <2>2, <2>3, <2>4
<1>9. QED
  BY <1>5, <1>6, <1>7, <1>8 DEF SyncInv, ReadInv

-----------------------------------------------------------------------------
(* The whole Store: its steps.                                             *)

\* A step of a living process gives nothing to one that has ended.
LEMMA EndedStay ==
  ASSUME SyncInv, NEW s \in Senders, alive[s],
         \A t \in Senders : t # s => sendCache'[t] = sendCache[t],
         \A f \in inFlight' : f.sender = s \/ \E g \in inFlight : g.sender = f.sender,
         \A w \in Waits : wait'[w] = wait[w] \/ wait'[w].sender = s
  PROVE  \A t \in Senders : ~alive[t] =>
           /\ sendCache'[t] = EmptyCache
           /\ \A f \in inFlight' : f.sender # t
           /\ \A w \in Waits : ~Listening(w, t)'
<1> SUFFICES ASSUME NEW t \in Senders, ~alive[t]
             PROVE  /\ sendCache'[t] = EmptyCache
                    /\ \A f \in inFlight' : f.sender # t
                    /\ \A w \in Waits : ~Listening(w, t)'
  OBVIOUS
<1>1. t # s /\ Ended(t)
  BY DEF SyncInv, ReadInv
<1>2. QED
  BY <1>1 DEF Ended, Listening

\* A request of a living process, whether or not its caller waits.
LEMMA RequestInv ==
  ASSUME SyncInv, NEW s \in Senders, alive[s], NEW paths, NEW value, NEW new,
         Request(s, paths, value), Send(s, new), SenderInv',
         UNCHANGED <<data, inFlight, versions, stream, debounced, view, alive, orphans, crashes>>,
         clears' \in 0..MaxMishaps,
         wait' \in [Waits -> {NoWait} \cup WaitRecords],
         \A w \in Waits : wait'[w] = wait[w] \/ wait'[w].sender = s
  PROVE  SyncInv'
<1>1. asked \subseteq asked'
  BY DEF Request
<1>2. \A t \in Senders : t # s => sendCache'[t] = sendCache[t]
  BY DEF Send, SyncInv, SyncTypeOK, SenderTypeOK
<1>3. \A f \in inFlight' : f.sender = s \/ \E g \in inFlight : g.sender = f.sender
  OBVIOUS
<1>4. QED
  BY <1>1, <1>2, <1>3, EndedStay, WriteStepInv

LEMMA SetItemSyncInv ==
  ASSUME SyncInv, NEW s \in Senders, NEW k \in Keys, NEW v \in Values, alive[s], SetItem(s, k, v),
         UNCHANGED <<versions, stream, debounced, view, alive, orphans, crashes, clears>>,
         wait' \in [Waits -> {NoWait} \cup WaitRecords],
         \A w \in Waits : wait'[w] = wait[w] \/ wait'[w].sender = s
  PROVE  SyncInv'
<1>1. SenderInv
  BY DEF SyncInv, SyncTypeOK, AllRequested, SenderInv
<1>2. SenderInv'
  BY <1>1, SetItemInv
<1>3. /\ Request(s, {<<CapabilityOf[s], k>>}, v) /\ Send(s, {AddOp(s, k, v)})
      /\ UNCHANGED <<data, inFlight>>
      /\ clears' \in 0..MaxMishaps
  BY DEF SetItem, SyncInv, SyncTypeOK
<1>4. QED
  BY <1>2, <1>3, RequestInv

LEMMA RemovePathsSyncInv ==
  ASSUME SyncInv, NEW s \in Senders, NEW paths \in SUBSET Paths, alive[s], RemovePaths(s, paths),
         UNCHANGED <<versions, stream, debounced, view, alive, orphans, crashes>>,
         clears' \in 0..MaxMishaps,
         wait' \in [Waits -> {NoWait} \cup WaitRecords],
         \A w \in Waits : wait'[w] = wait[w] \/ wait'[w].sender = s
  PROVE  SyncInv'
<1>1. SenderInv
  BY DEF SyncInv, SyncTypeOK, AllRequested, SenderInv
<1>2. SenderInv'
  BY <1>1, RemovePathsInv
<1>3. /\ Request(s, paths, Absent) /\ Send(s, {RemoveOp(p) : p \in paths})
      /\ UNCHANGED <<data, inFlight>>
  BY DEF RemovePaths
<1>4. QED
  BY <1>2, <1>3, RequestInv

\* What an ...AndWait call records.
LEMMA StartWaitType ==
  ASSUME SyncInv, NEW w \in Waits, NEW s \in Senders, NEW k \in Keys,
         NEW value \in Values \cup {Absent}, StartWait(w, s, k, value)
  PROVE  /\ wait' \in [Waits -> {NoWait} \cup WaitRecords]
         /\ \A u \in Waits : wait'[u] = wait[u] \/ wait'[u].sender = s
         /\ wait'[w].status = "waiting"
         /\ UNCHANGED <<versions, stream, debounced, view, alive, orphans, crashes, clears>>
<1>. DEFINE record == [status |-> "waiting", sender |-> s, key |-> k, value |-> value]
<1>1. record \in WaitRecords /\ record.sender = s /\ record.status = "waiting"
  BY DEF WaitRecords
<1>2. /\ wait' = [wait EXCEPT ![w] = record]
      /\ UNCHANGED <<versions, stream, debounced, view, alive, orphans, crashes, clears>>
  BY DEF StartWait, Waiting
<1>. HIDE DEF record
<1>3. QED
  BY <1>1, <1>2 DEF SyncInv, SyncTypeOK

\* A step of the senders on behalf of a living process, with no call.
LEMMA SenderStepInv ==
  ASSUME SyncInv, NEW s \in Senders, alive[s], SenderInv', UNCHANGED syncVars,
         UNCHANGED <<data, asked>>,
         \A t \in Senders : t # s => sendCache'[t] = sendCache[t],
         \A f \in inFlight' : f.sender = s \/ \E g \in inFlight : g.sender = f.sender
  PROVE  SyncInv'
<1>1. UNCHANGED <<versions, stream, debounced, view, wait, alive, orphans, crashes, clears>>
  BY DEF syncVars
<1>2. /\ wait' \in [Waits -> {NoWait} \cup WaitRecords]
      /\ clears' \in 0..MaxMishaps
      /\ \A w \in Waits : wait'[w] = wait[w] \/ wait'[w].sender = s
  BY <1>1 DEF SyncInv, SyncTypeOK
<1>3. QED
  BY <1>1, <1>2, EndedStay, WriteStepInv

LEMMA TickInv ==
  ASSUME SyncInv, NEW s \in Senders, Tick(s)
  PROVE  SyncInv'
<1>1. SenderInv /\ alive[s] /\ FlushCache(s) /\ UNCHANGED syncVars
  BY DEF SyncInv, SyncTypeOK, AllRequested, SenderInv, Tick
<1>2. SenderInv'
  BY <1>1, FlushCacheInv
<1>3. PICK slot \in Slots :
        inFlight' = inFlight \cup
          {[sender |-> s, slot |-> slot, payload |-> sendCache[s], status |-> "sent"]}
  BY <1>1 DEF FlushCache, FreeSlots
<1>4. \A t \in Senders : t # s => sendCache'[t] = sendCache[t]
  BY <1>1 DEF FlushCache, SenderInv, SenderTypeOK
<1>5. UNCHANGED <<data, asked>>
  BY <1>1 DEF FlushCache
<1>6. QED
  BY <1>1, <1>2, <1>3, <1>4, <1>5, SenderStepInv

\* The process of a patch in flight lives.
LEMMA SenderLives ==
  ASSUME SyncInv, NEW f \in inFlight
  PROVE  /\ f \in Patches /\ f.sender \in Senders /\ f.payload \in Caches
         /\ alive[f.sender]
         /\ Requested(f.payload.ops)
<1>1. f \in Patches /\ f.sender \in Senders /\ f.payload \in Caches
  BY DEF SyncInv, SyncTypeOK, SenderTypeOK, Patches
<1>2. alive[f.sender]
  BY <1>1 DEF SyncInv, ReadInv, Ended
<1>3. QED
  BY <1>1, <1>2 DEF SyncInv, AllRequested, RequestedInv

\* An answer to a patch changes neither who is in flight.
LEMMA AnsweredSenders ==
  ASSUME NEW f \in inFlight, f \in Patches, NEW status, Answered(f, status)
  PROVE  \A h \in inFlight' : \E g \in inFlight : g.sender = h.sender
  BY DEF Answered, Patches

LEMMA NetworkFailureInv ==
  ASSUME SyncInv, NEW f \in inFlight, NetworkFailure(f)
  PROVE  SyncInv'
<1>1. SenderInv /\ PatchFailed(f) /\ UNCHANGED syncVars
  BY DEF SyncInv, SyncTypeOK, AllRequested, SenderInv, NetworkFailure
<1>2. failures' \in 0..MaxFailures
  BY <1>1, SenderAssumption DEF PatchFailed, SenderInv, SenderTypeOK
<1>3. SenderInv'
  BY <1>1, <1>2, AnsweredInv DEF PatchFailed, SenderInv, SenderTypeOK
<1>4. \A h \in inFlight' : \E g \in inFlight : g.sender = h.sender
  BY <1>1, SenderLives, AnsweredSenders DEF PatchFailed
<1>5. UNCHANGED <<data, asked, sendCache>>
  BY <1>1 DEF PatchFailed
<1>6. QED
  BY <1>1, <1>3, <1>4, <1>5, SenderLives, SenderStepInv

LEMMA AnswerArrivesInv ==
  ASSUME SyncInv, NEW f \in inFlight, AnswerArrives(f)
  PROVE  SyncInv'
<1>1. SenderInv /\ Reply(f) /\ UNCHANGED syncVars
  BY DEF SyncInv, SyncTypeOK, AllRequested, SenderInv, AnswerArrives
<1>2. SenderInv'
  BY <1>1, ReplyInv
<1>3. inFlight' = inFlight \ {f} /\ UNCHANGED <<data, asked>>
  BY <1>1 DEF Reply, Replied
<1>4. \A t \in Senders : t # f.sender => sendCache'[t] = sendCache[t]
  BY <1>1 DEF Reply, Replied, SenderInv, SenderTypeOK
<1>5. QED
  BY <1>1, <1>2, <1>3, <1>4, SenderLives, SenderStepInv

LEMMA ServerPatchInv ==
  ASSUME SyncInv, NEW f \in inFlight, ServerPatch(f)
  PROVE  SyncInv'
<1>1. /\ SenderInv /\ Patch(f) /\ Published
      /\ UNCHANGED <<debounced, view, wait, alive, orphans, crashes, clears>>
  BY DEF SyncInv, SyncTypeOK, AllRequested, SenderInv, ServerPatch
<1>2. UNCHANGED <<sendCache, asked>>
  BY <1>1 DEF Patch, PatchApplied, PatchRefused
<1>3. SenderInv' /\ \A h \in inFlight' : \E g \in inFlight : g.sender = h.sender
  <2>1. CASE PatchApplied(f)
    <3>1. data' \in [Paths -> Values \cup {Absent}]
      BY <1>1, <2>1, SenderLives, PatchedType DEF PatchApplied, SenderInv, SenderTypeOK
    <3>2. SenderInv'
      BY <1>1, <2>1, <3>1, AnsweredInv DEF PatchApplied, SenderInv, SenderTypeOK
    <3>3. QED
      BY <2>1, <3>2, SenderLives, AnsweredSenders DEF PatchApplied
  <2>2. CASE PatchRefused(f)
    <3>1. SenderInv'
      BY <1>1, <2>2, AnsweredInv DEF PatchRefused, SenderInv, SenderTypeOK
    <3>2. QED
      BY <2>2, <3>1, SenderLives, AnsweredSenders DEF PatchRefused
  <2>3. QED
    BY <1>1, <2>1, <2>2 DEF Patch
<1>4. QED
  BY <1>1, <1>2, <1>3, PublishedInv

LEMMA OrphanPatchInv ==
  ASSUME SyncInv, NEW payload \in orphans, OrphanPatch(payload)
  PROVE  SyncInv'
<1>1. /\ SenderInv /\ Published /\ orphans' \subseteq orphans
      /\ UNCHANGED <<sendCache, inFlight, last, asked, ops, failures,
                     debounced, view, wait, alive, crashes, clears>>
  BY DEF SyncInv, SyncTypeOK, AllRequested, SenderInv, OrphanPatch
<1>2. data' \in [Paths -> Values \cup {Absent}]
  <2>1. payload \in Caches /\ data \in [Paths -> Values \cup {Absent}]
    BY DEF SyncInv, SyncTypeOK, SenderTypeOK
  <2>2. QED
    BY <2>1, PatchedType DEF OrphanPatch
<1>3. SenderInv'
  BY <1>1, <1>2 DEF SenderInv, SenderTypeOK, Patches, RequestedInv, Requested
<1>4. QED
  BY <1>1, <1>3, PublishedInv

LEMMA WaitTimeoutInv ==
  ASSUME SyncInv, NEW w \in Waits, WaitTimeout(w)
  PROVE  SyncInv'
<1>1. /\ wait[w].status = "waiting"
      /\ wait' = [wait EXCEPT ![w].status = "rejected"]
      /\ UNCHANGED <<senderVars, versions, stream, debounced, view, alive, orphans, crashes, clears>>
  BY DEF WaitTimeout
<1>2. UNCHANGED <<data, sendCache, inFlight, last, asked, ops, failures>>
  BY <1>1 DEF senderVars
<1>3. wait[w] \in WaitRecords
  BY <1>1 DEF SyncInv, SyncTypeOK, NoWait
<1>4. wait' \in [Waits -> {NoWait} \cup WaitRecords]
  BY <1>1, <1>3 DEF SyncInv, SyncTypeOK, WaitRecords
<1>5. SenderInv' /\ clears' \in 0..MaxMishaps
  BY <1>1, <1>2 DEF SyncInv, SyncTypeOK, AllRequested, SenderInv, SenderTypeOK, Patches,
                    RequestedInv, Requested
<1>6. ASSUME NEW s \in Senders, ~alive[s]
      PROVE  /\ sendCache'[s] = EmptyCache
             /\ \A f \in inFlight' : f.sender # s
             /\ \A u \in Waits : ~Listening(u, s)'
  <2>1. Ended(s)
    BY <1>6 DEF SyncInv, ReadInv
  <2>2. ASSUME NEW u \in Waits PROVE ~Listening(u, s)'
    BY <1>1, <1>3, <2>1 DEF Ended, Listening, SyncInv, SyncTypeOK, WaitRecords
  <2>3. QED
    BY <1>2, <2>1, <2>2 DEF Ended
<1>7. QED
  BY <1>1, <1>2, <1>4, <1>5, <1>6, WriteStepInv

LEMMA NextSyncInv == SyncInv /\ [NextSync]_vars => SyncInv'
<1> SUFFICES ASSUME SyncInv, [NextSync]_vars PROVE SyncInv'
  OBVIOUS
<1>1. Writers \subseteq Senders /\ Absent \in Values \cup {Absent} /\ Values \subseteq Values \cup {Absent}
  BY SyncAssumption
<1>2. /\ wait \in [Waits -> {NoWait} \cup WaitRecords]
      /\ crashes \in 0..MaxMishaps /\ clears \in 0..MaxMishaps
      /\ MaxMishaps \in Nat /\ failures \in Nat
  BY SyncAssumption, SenderAssumption DEF SyncInv, SyncTypeOK, SenderTypeOK
<1>3. ASSUME NEW s \in Writers, NEW k \in Keys, CallRemoveItem(s, k) PROVE SyncInv'
  <2>1. UNCHANGED <<versions, stream, debounced, view, wait, alive, orphans, crashes, clears>>
    BY <1>3 DEF CallRemoveItem, syncVars
  <2>2. QED
    BY <1>1, <1>2, <1>3, <2>1, ItemPath, RemovePathsSyncInv DEF CallRemoveItem, RemoveItem
<1>4. ASSUME NEW s \in Writers, NEW k \in Keys, NEW v \in Values, CallSetItem(s, k, v) PROVE SyncInv'
  <2>1. UNCHANGED <<versions, stream, debounced, view, wait, alive, orphans, crashes, clears>>
    BY <1>4 DEF CallSetItem, syncVars
  <2>2. QED
    BY <1>1, <1>2, <1>4, <2>1, SetItemSyncInv DEF CallSetItem
<1>5. ASSUME NEW s \in Writers, NEW k \in Keys, NEW w \in Waits, RemoveItemAndWait(w, s, k) PROVE SyncInv'
  <2>1. /\ wait' \in [Waits -> {NoWait} \cup WaitRecords]
        /\ \A u \in Waits : wait'[u] = wait[u] \/ wait'[u].sender = s
        /\ UNCHANGED <<versions, stream, debounced, view, alive, orphans, crashes, clears>>
    BY <1>1, <1>5, StartWaitType DEF RemoveItemAndWait
  <2>2. QED
    BY <1>1, <1>2, <1>5, <2>1, ItemPath, RemovePathsSyncInv DEF RemoveItemAndWait, RemoveItem
<1>6. ASSUME NEW s \in Writers, NEW k \in Keys, NEW w \in Waits, NEW v \in Values, SetItemAndWait(w, s, k, v)
      PROVE  SyncInv'
  <2>1. /\ wait' \in [Waits -> {NoWait} \cup WaitRecords]
        /\ \A u \in Waits : wait'[u] = wait[u] \/ wait'[u].sender = s
        /\ UNCHANGED <<versions, stream, debounced, view, alive, orphans, crashes, clears>>
    BY <1>1, <1>6, StartWaitType DEF SetItemAndWait
  <2>2. QED
    BY <1>1, <1>6, <2>1, SetItemSyncInv DEF SetItemAndWait
<1>7. ASSUME NEW s \in Writers, Clear(s) PROVE SyncInv'
  <2>1. /\ Held(s) \in SUBSET Paths
        /\ clears' \in 0..MaxMishaps
        /\ alive[s] /\ RemovePaths(s, Held(s))
        /\ UNCHANGED <<versions, stream, debounced, view, wait, alive, orphans, crashes>>
    BY <1>2, <1>7 DEF Clear, Held, Spare
  <2>2. QED
    BY <1>1, <1>2, <2>1, RemovePathsSyncInv
<1>8. ASSUME NEW s \in Writers, ClearEmpty(s) PROVE SyncInv'
  <2>1. Die(s) /\ crashes' \in 0..MaxMishaps /\ clears' \in 0..MaxMishaps
    BY <1>2, <1>8 DEF ClearEmpty, Spare
  <2>2. QED
    BY <1>1, <2>1, DieInv
<1>9. ASSUME NEW s \in Senders, Tick(s) \/ WatchEvent(s) \/ Restart(s) PROVE SyncInv'
  BY <1>9, TickInv, WatchEventInv, RestartInv
<1>10. ASSUME NEW s \in Senders, Crash(s) PROVE SyncInv'
  <2>1. Die(s) /\ crashes' \in 0..MaxMishaps /\ clears' \in 0..MaxMishaps
    BY <1>2, <1>10 DEF Crash, Spare
  <2>2. QED
    BY <2>1, DieInv
<1>11. ASSUME NEW s \in Senders, NEW v \in debounced[s], Receive(s, v) PROVE SyncInv'
  BY <1>11, ReceiveInv
<1>12. ASSUME NEW f \in inFlight, ServerPatch(f) \/ NetworkFailure(f) \/ AnswerArrives(f) PROVE SyncInv'
  BY <1>12, ServerPatchInv, NetworkFailureInv, AnswerArrivesInv
<1>13. ASSUME NEW payload \in orphans, OrphanPatch(payload) PROVE SyncInv'
  BY <1>13, OrphanPatchInv
<1>14. ASSUME NEW w \in Waits, WaitTimeout(w) PROVE SyncInv'
  BY <1>14, WaitTimeoutInv
<1>15. CASE UNCHANGED vars
  <2>1. UNCHANGED <<data, sendCache, inFlight, last, asked, ops, failures>>
        /\ UNCHANGED <<versions, stream, debounced, view, wait, alive, orphans, crashes, clears>>
    BY <1>15 DEF vars, senderVars, syncVars
  <2>2. SyncTypeOK' /\ AllRequested' /\ HistoryInv'
    BY <2>1 DEF SyncInv, SyncTypeOK, SenderTypeOK, Patches, Contents, WaitRecords, AllRequested,
                RequestedInv, Requested, HistoryInv
  <2>3. ReadInv'
    BY <2>1 DEF SyncInv, ReadInv, InOrder, UpToDate, Ended, Listening
  <2>4. QED
    BY <2>2, <2>3 DEF SyncInv
<1>16. QED
  BY <1>3, <1>4, <1>5, <1>6, <1>7, <1>8, <1>9, <1>10, <1>11, <1>12, <1>13, <1>14, <1>15 DEF NextSync

-----------------------------------------------------------------------------
(* The theorems about the whole Store.                                     *)

\* Every reachable state of the Store satisfies the invariant.
THEOREM SyncInvariant == SpecSync => []SyncInv
  BY InitSyncInv, NextSyncInv, PTL DEF SpecSync

\* Type correctness of the resource's history, the watches, the timers, the
\* local copies and the promises of the ...AndWait calls.
THEOREM SyncTypeCorrect == SpecSync => []SyncTypeOK
<1>1. SyncInv => SyncTypeOK
  BY DEF SyncInv
<1>2. QED
  BY <1>1, SyncInvariant, PTL

\* A capability asks for a key of its own, or for the removal of one that its
\* Storage holds.
HeldRequests ==
  \A r \in asked : r[1] = r[2][1] \/ (r[2][1] \in Claims[r[1]] /\ r[3] = Absent)

LEMMA NextHeldRequests == HeldRequests /\ [NextSync]_vars => HeldRequests'
<1> SUFFICES ASSUME HeldRequests, [NextSync]_vars, NEW r \in asked', r \notin asked
             PROVE  r[1] = r[2][1] \/ (r[2][1] \in Claims[r[1]] /\ r[3] = Absent)
  BY DEF HeldRequests
<1>1. \/ \E s \in Writers, k \in Keys : RemoveItem(s, k) \/ \E v \in Values : SetItem(s, k, v)
      \/ \E s \in Writers : Clear(s)
  BY DEF NextSync, CallRemoveItem, CallSetItem, RemoveItemAndWait, SetItemAndWait, ClearEmpty, Tick,
         FlushCache, WatchEvent, Arms, Crash, Restart, Receive, Die, ServerPatch, Patch, PatchApplied,
         PatchRefused, Replied, NetworkFailure, PatchFailed, AnswerArrives, Reply, OrphanPatch,
         WaitTimeout, vars, senderVars
<1>2. CASE \E s \in Writers, k \in Keys : RemoveItem(s, k) \/ \E v \in Values : SetItem(s, k, v)
  BY <1>2, SyncAssumption, SetItemAsks, RemoveItemAsks
<1>3. CASE \E s \in Writers : Clear(s)
  <2>1. PICK s \in Writers : RemovePaths(s, Held(s))
    BY <1>3 DEF Clear
  <2>2. r[1] = CapabilityOf[s] /\ r[2] \in Held(s) /\ r[3] = Absent
    BY <2>1, RequestAsks DEF RemovePaths
  <2>3. QED
    BY <2>2 DEF Held
<1>4. QED
  BY <1>1, <1>2, <1>3

\* The resource changes under a path only to what a store of that capability
\* asked for, also by the patches of processes that have ended; only clear()
\* goes further, and removes the keys of other capabilities that it holds.
THEOREM OnlyRequestedOrClearedByAll == SpecSync => OnlyRequestedOrCleared
<1>1. InitSync => HeldRequests
  BY DEF InitSync, InitSender, HeldRequests
<1>2. SyncInv /\ HeldRequests /\ [NextSync]_vars =>
        [\A p \in Paths : data'[p] # data[p] =>
           \/ <<p[1], p, data'[p]>> \in asked
           \/ \E c \in Capabilities \ {p[1]} :
                p[1] \in Claims[c] /\ data'[p] = Absent /\ <<c, p, Absent>> \in asked]_vars
  <2> SUFFICES ASSUME SyncInv, HeldRequests, [NextSync]_vars, NEW p \in Paths, data'[p] # data[p]
               PROVE  \/ <<p[1], p, data'[p]>> \in asked
                      \/ \E c \in Capabilities \ {p[1]} :
                           p[1] \in Claims[c] /\ data'[p] = Absent /\ <<c, p, Absent>> \in asked
    OBVIOUS
  <2>1. \/ \E f \in inFlight : PatchApplied(f)
        \/ \E payload \in orphans : data' = Patched(payload)
    BY DEF NextSync, CallRemoveItem, CallSetItem, RemoveItemAndWait, SetItemAndWait, Clear, ClearEmpty,
           RemoveItem, RemovePaths, SetItem, Tick, FlushCache, WatchEvent, Arms, Crash, Restart, Receive,
           Die, ServerPatch, Patch, PatchRefused, Replied, NetworkFailure, PatchFailed, AnswerArrives,
           Reply, OrphanPatch, WaitTimeout, vars, senderVars
  <2>2. PICK payload : data' = Patched(payload) /\ Requested(payload.ops)
    BY <2>1 DEF PatchApplied, SyncInv, AllRequested, RequestedInv
  <2>3. PICK o \in payload.ops : o.path = p /\ data'[p] = o.value
    BY <2>2, PatchedFrom
  <2>4. PICK c \in Capabilities : <<c, p, data'[p]>> \in asked
    BY <2>2, <2>3 DEF Requested
  <2>5. c = p[1] \/ (p[1] \in Claims[c] /\ data'[p] = Absent)
    BY <2>4 DEF HeldRequests
  <2>6. QED
    BY <2>4, <2>5
<1>3. QED
  BY <1>1, <1>2, SyncInvariant, NextHeldRequests, PTL DEF SpecSync, OnlyRequestedOrCleared

\* No capability's name begins another's, as two words of it: no Storage holds
\* the keys of another capability.
Separate == \A c \in Capabilities : Claims[c] = {c}

\* Of capabilities with such names none writes another's keys, with clear()
\* either, in whatever process they run and whatever fails.
THEOREM OnlyRequestedStoredByAll ==
  ASSUME Separate
  PROVE  SpecSync => OnlyRequested
<1>1. [\A p \in Paths : data'[p] # data[p] =>
          \/ <<p[1], p, data'[p]>> \in asked
          \/ \E c \in Capabilities \ {p[1]} :
               p[1] \in Claims[c] /\ data'[p] = Absent /\ <<c, p, Absent>> \in asked]_vars
      => [\A p \in Paths : data'[p] # data[p] => <<p[1], p, data'[p]>> \in asked]_senderVars
  <2> SUFFICES ASSUME UNCHANGED vars \/
                        \A q \in Paths : data'[q] # data[q] =>
                          \/ <<q[1], q, data'[q]>> \in asked
                          \/ \E c \in Capabilities \ {q[1]} :
                               q[1] \in Claims[c] /\ data'[q] = Absent /\ <<c, q, Absent>> \in asked,
                      NEW p \in Paths, data'[p] # data[p]
               PROVE  <<p[1], p, data'[p]>> \in asked
    OBVIOUS
  <2>1. ~UNCHANGED vars
    BY DEF vars, senderVars
  <2>2. \A c \in Capabilities \ {p[1]} : p[1] \notin Claims[c]
    BY DEF Separate
  <2>3. QED
    BY <2>1, <2>2
<1>2. QED
  BY <1>1, OnlyRequestedOrClearedByAll, PTL DEF OnlyRequested, OnlyRequestedOrCleared

\* The debounce loses nothing: a running store to which nothing is on its way
\* any more has the resource as it is.
NothingLost ==
  \A s \in Senders :
    alive[s] /\ stream[s] = <<>> /\ debounced[s] = {} => view[s] # 0 /\ versions[view[s]] = data

\* No copy of a running store ever stays behind with nothing on its way to it.
THEOREM DebounceLosesNothing == SpecSync => []NothingLost
<1>1. SyncInv => NothingLost
  <2> SUFFICES ASSUME SyncInv, NEW s \in Senders, alive[s], stream[s] = <<>>, debounced[s] = {}
               PROVE  view[s] # 0 /\ versions[view[s]] = data
    BY DEF NothingLost
  <2>1. view[s] = Len(versions) /\ versions \in Seq(Contents) /\ versions # <<>>
    BY DEF SyncInv, SyncTypeOK, HistoryInv, ReadInv, UpToDate
  <2>2. QED
    BY <2>1, EmptySeq DEF SyncInv, HistoryInv
<1>2. QED
  BY <1>1, SyncInvariant, PTL

\* Initially the Store is as SharedStore begins.
LEMMA InitShared == InitSync => Shared!Init
  BY DEF InitSync, Shared!Init, NoWait

\* A change told to the watches is a commit, and anything else changes nothing
\* a reader can see.
LEMMA PublishedCommits ==
  ASSUME SyncInv, data' \in Contents, Published, UNCHANGED <<view, wait>>
  PROVE  [Shared!Next]_<<versions, view, wait>>
<1>1. CASE data' = data
  BY <1>1 DEF Published
<1>2. CASE data' # data
  <2>1. versions' = Append(versions, data') /\ data' = versions'[Len(versions')]
    BY <1>2, Grown DEF Published, SyncInv, SyncTypeOK
  <2>2. Shared!Commit
    BY <2>1 DEF Shared!Commit
  <2>3. QED
    BY <2>2 DEF Shared!Next
<1>3. QED
  BY <1>1, <1>2

LEMMA ReceiveCatchesUp ==
  ASSUME SyncInv, NEW s \in Senders, NEW v \in debounced[s], Receive(s, v)
  PROVE  Shared!CatchUp(s)
<1>1. v \in Nat /\ v \in 1..Len(versions) /\ view[s] <= v /\ view[s] \in Nat /\ Len(versions) \in Nat
  BY DEF SyncInv, SyncTypeOK, ReadInv, InOrder
<1>2. v \in view[s]..Len(versions) /\ v # 0
  BY <1>1
<1>3. QED
  BY <1>2 DEF Receive, Listening, Shared!CatchUp

\* A call that starts to wait.
LEMMA StartWaitBegins ==
  ASSUME SyncInv, NEW w \in Waits, NEW s \in Senders, NEW k \in Keys,
         NEW value \in Values \cup {Absent}, StartWait(w, s, k, value)
  PROVE  Shared!Begin(w)
<1>. DEFINE record == [status |-> "waiting", sender |-> s, key |-> k, value |-> value]
<1>1. /\ wait[w].status = "none"
      /\ wait' = [wait EXCEPT ![w] = record]
      /\ UNCHANGED <<versions, view>>
      /\ record.status = "waiting"
  BY DEF StartWait, Waiting
<1>. HIDE DEF record
<1>2. wait'[w] = record
  BY <1>1 DEF SyncInv, SyncTypeOK
<1>3. QED
  BY <1>1, <1>2 DEF Shared!Begin

\* The end of a process.
LEMMA DieForgets ==
  ASSUME NEW s \in Senders, Die(s)
  PROVE  Shared!Forget(s)
  BY DEF Die, Listening, Shared!Forget

\* Every step of the Store is one of SharedStore or changes nothing of it.
LEMMA NextShared ==
  SyncInv /\ SyncInv' /\ [NextSync]_vars => [Shared!Next]_<<versions, view, wait>>
<1> SUFFICES ASSUME SyncInv, SyncInv', [NextSync]_vars
             PROVE  [Shared!Next]_<<versions, view, wait>>
  OBVIOUS
<1>1. Writers \subseteq Senders /\ Absent \in Values \cup {Absent} /\ Values \subseteq Values \cup {Absent}
  BY SyncAssumption
<1>2. data' \in Contents
  BY DEF SyncInv, SyncTypeOK, SenderTypeOK, Contents
<1>3. ASSUME NEW s \in Writers, NEW k \in Keys, NEW w \in Waits, RemoveItemAndWait(w, s, k)
      PROVE  Shared!Next
  BY <1>1, <1>3, StartWaitBegins DEF RemoveItemAndWait, Shared!Next
<1>4. ASSUME NEW s \in Writers, NEW k \in Keys, NEW w \in Waits, NEW v \in Values,
             SetItemAndWait(w, s, k, v)
      PROVE  Shared!Next
  BY <1>1, <1>4, StartWaitBegins DEF SetItemAndWait, Shared!Next
<1>5. ASSUME NEW s \in Senders, Die(s) PROVE Shared!Next
  BY <1>5, DieForgets DEF Shared!Next
<1>6. ASSUME NEW s \in Senders, NEW v \in debounced[s], Receive(s, v) PROVE Shared!Next
  BY <1>6, ReceiveCatchesUp DEF Shared!Next
<1>7. ASSUME NEW f \in inFlight, ServerPatch(f) PROVE [Shared!Next]_<<versions, view, wait>>
  BY <1>2, <1>7, PublishedCommits DEF ServerPatch
<1>8. ASSUME NEW payload \in orphans, OrphanPatch(payload) PROVE [Shared!Next]_<<versions, view, wait>>
  BY <1>2, <1>8, PublishedCommits DEF OrphanPatch
<1>9. ASSUME NEW w \in Waits, WaitTimeout(w) PROVE Shared!Next
  <2>1. Shared!Expire(w)
    BY <1>9 DEF WaitTimeout, Shared!Expire
  <2>2. QED
    BY <2>1 DEF Shared!Next
<1>10. ASSUME NEW s \in Senders, NEW k \in Keys,
              CallRemoveItem(s, k) \/ \E v \in Values : CallSetItem(s, k, v)
       PROVE  UNCHANGED <<versions, view, wait>>
  BY <1>10 DEF CallRemoveItem, CallSetItem, syncVars
<1>11. ASSUME NEW s \in Senders, Clear(s) \/ Tick(s) \/ WatchEvent(s) \/ Restart(s)
       PROVE  UNCHANGED <<versions, view, wait>>
  BY <1>11 DEF Clear, Tick, WatchEvent, Arms, Restart, syncVars
<1>12. ASSUME NEW f \in inFlight, NetworkFailure(f) \/ AnswerArrives(f)
       PROVE  UNCHANGED <<versions, view, wait>>
  BY <1>12 DEF NetworkFailure, AnswerArrives, syncVars
<1>13. CASE UNCHANGED vars
  BY <1>13 DEF vars, syncVars
<1>14. QED
  BY <1>1, <1>3, <1>4, <1>5, <1>6, <1>7, <1>8, <1>9, <1>10, <1>11, <1>12, <1>13
     DEF NextSync, ClearEmpty, Crash

\* The Store implements SharedStore: while its process lives a store's copy
\* only moves forward in the one history of the resource, and a waiting call
\* is resolved exactly when its store sees what it asked for, under any mix of
\* concurrent senders, debounced and dropped events, failures and crashes.
THEOREM StoreImplementsSharedStore == SpecSync => ImplementsSharedStore
<1>1. SpecSync => Shared!Init
  BY InitShared DEF SpecSync
<1>2. SyncInv /\ SyncInv' /\ [NextSync]_vars => [Shared!Next]_(Shared!vars)
  BY NextShared DEF Shared!vars
<1>3. QED
  BY <1>1, <1>2, SyncInvariant, PTL DEF SpecSync, ImplementsSharedStore, Shared!SafeSpec
=============================================================================
