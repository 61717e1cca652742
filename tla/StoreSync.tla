----------------------------- MODULE StoreSync ------------------------------
(***************************************************************************)
(* The peppr Store end to end: the write side of StoreSender, the watch on *)
(* the PepprStore resource, the debounced #receive() of                    *)
(* src/lib/controller/store.ts and the Storage objects of                  *)
(* src/lib/storage.ts with their ...AndWait promises, in several processes *)
(* that share the resource.  One sender stands for one Storage: the store  *)
(* of one capability in one process.                                       *)
(*                                                                         *)
(* The watch is external: it tells every change of the resource in order,  *)
(* after a first event with the resource as it is when the watch starts.   *)
(***************************************************************************)
EXTENDS StoreSender, Sequences

CONSTANTS Writers,     \* the senders whose capabilities request anything
          Claims,      \* the capabilities whose keys one's Storage holds
          Waits,       \* the calls of setItemAndWait and removeItemAndWait
          MaxMishaps   \* bound on failed patches, crashes and clear()s together

(***************************************************************************)
(* #receive hands a capability every key that starts with its name, without*)
(* looking for the hyphen: foo is handed the keys of foo-bar, shortened to *)
(* "bar-" and the rest, under which foo-bar's sender writes them too.      *)
(* (Of foobar's keys the wrong letters are cut off; such names are left    *)
(* out here.)                                                              *)
(***************************************************************************)
ASSUME SyncAssumption ==
  /\ Writers \subseteq Senders
  /\ Claims \in [Capabilities -> SUBSET Capabilities]
  /\ \A c \in Capabilities : c \in Claims[c]
  /\ MaxMishaps \in Nat

VARIABLES versions,   \* the contents the resource has had, in order (history)
          stream,     \* versions whose watch event has not arrived yet
          debounced,  \* versions an armed #sendDebounce timer holds
          view,       \* the version in Storage.#store, 0 before the first
          wait,       \* the promises of the ...AndWait calls
          alive,      \* whether the process runs
          orphans,    \* patches sent by a process that has ended since
          crashes, clears

syncVars == <<versions, stream, debounced, view, wait, alive, orphans, crashes, clears>>
vars == <<senderVars, syncVars>>

NoWait == [status |-> "none"]

\* There may be one more failed patch, crash or clear().
Spare == failures + crashes + clears < MaxMishaps

InitSync ==
  /\ InitSender
  /\ versions = <<data>>
  /\ stream = [s \in Senders |-> <<1>>]
  /\ debounced = [s \in Senders |-> {}]
  /\ view = [s \in Senders |-> 0]
  /\ wait = [w \in Waits |-> NoWait]
  /\ alive = [s \in Senders |-> TRUE]
  /\ orphans = {}
  /\ crashes = 0
  /\ clears = 0

-----------------------------------------------------------------------------
(* The write side.                                                         *)

CallSetItem(s, k, v) == alive[s] /\ SetItem(s, k, v) /\ UNCHANGED syncVars

CallRemoveItem(s, k) == alive[s] /\ RemoveItem(s, k) /\ UNCHANGED syncVars

Tick(s) == alive[s] /\ FlushCache(s) /\ UNCHANGED syncVars

\* A change of the resource is told to every running watch.
Published ==
  IF data' = data
  THEN UNCHANGED <<versions, stream>>
  ELSE /\ versions' = Append(versions, data')
       /\ stream' = [s \in Senders |-> IF alive[s] THEN Append(stream[s], Len(versions'))
                                                   ELSE stream[s]]

ServerPatch(f) ==
  /\ Patch(f)
  /\ Published
  /\ UNCHANGED <<debounced, view, wait, alive, orphans, crashes, clears>>

NetworkFailure(f) == Spare /\ PatchFailed(f) /\ UNCHANGED syncVars

AnswerArrives(f) == Reply(f) /\ UNCHANGED syncVars

\* A patch reaches the server after its sender has ended, or never does.
OrphanPatch(payload) ==
  /\ orphans' = orphans \ {payload}
  /\ \/ Applicable(payload) /\ data' = Patched(payload)
     \/ data' = data
  /\ Published
  /\ UNCHANGED <<sendCache, inFlight, last, asked, ops, failures,
                 debounced, view, wait, alive, crashes, clears>>

-----------------------------------------------------------------------------
(* The read side.                                                          *)

Arms(s, timers) ==
  /\ alive[s]
  /\ stream[s] # <<>>
  /\ stream' = [stream EXCEPT ![s] = Tail(@)]
  /\ debounced' = [debounced EXCEPT ![s] = timers]
  /\ UNCHANGED <<senderVars, versions, view, wait, alive, orphans, crashes, clears>>

\* Mutant: the timer of the previous event is not cleared.
WatchEventNoClear(s) == Arms(s, debounced[s] \cup {Head(stream[s])})

\* Mutant: an event that finds the timer armed is dropped.
WatchEventThrottled(s) ==
  Arms(s, IF debounced[s] = {} THEN {Head(stream[s])} ELSE debounced[s])

\* #receive: the timer of the previous event is cleared, a new one holds
\* this event's version.
WatchEvent(s) == Arms(s, {Head(stream[s])})

\* The listener of an ...AndWait call looks for its value, or for no value.
Satisfied(vs, v, w) == vs[v][<<CapabilityOf[w.sender], w.key>>] = w.value

Listening(w, s) == wait[w].status = "waiting" /\ wait[w].sender = s

\* The timer fires: Storage.receive replaces #store and calls the listeners.
Receive(s, v) ==
  /\ alive[s]
  /\ v \in debounced[s]
  /\ debounced' = [debounced EXCEPT ![s] = @ \ {v}]
  /\ view' = [view EXCEPT ![s] = v]
  /\ wait' = [w \in Waits |-> IF Listening(w, s) /\ Satisfied(versions, v, wait[w])
                              THEN [wait[w] EXCEPT !.status = "resolved"]
                              ELSE wait[w]]
  /\ UNCHANGED <<senderVars, versions, stream, alive, orphans, crashes, clears>>

Waiting(w, record) ==
  /\ wait[w].status = "none"
  /\ wait' = [wait EXCEPT ![w] = record]
  /\ UNCHANGED <<versions, stream, debounced, view, alive, orphans, crashes, clears>>

StartWait(w, s, k, value) ==
  Waiting(w, [status |-> "waiting", sender |-> s, key |-> k, value |-> value])

SetItemAndWait(w, s, k, v) == alive[s] /\ SetItem(s, k, v) /\ StartWait(w, s, k, v)

RemoveItemAndWait(w, s, k) == alive[s] /\ RemoveItem(s, k) /\ StartWait(w, s, k, Absent)

\* Mutant: the timeout unsubscribes and forgets to reject.
WaitTimeoutSilent(w) ==
  /\ wait[w].status = "waiting"
  /\ UNCHANGED vars

\* MAX_WAIT_TIME is over: the promise is rejected if it is not settled yet.
WaitTimeout(w) ==
  /\ wait[w].status = "waiting"
  /\ wait' = [wait EXCEPT ![w].status = "rejected"]
  /\ UNCHANGED <<senderVars, versions, stream, debounced, view, alive, orphans, crashes, clears>>

-----------------------------------------------------------------------------
(* clear(), and the end and restart of a process.                          *)

\* What is in the local copy, with the prefix that the sender puts before it.
Held(s) ==
  {p \in Paths : view[s] # 0 /\ p[1] \in Claims[CapabilityOf[s]] /\ versions[view[s]][p] # Absent}

\* Storage.clear()
Clear(s) ==
  /\ alive[s]
  /\ Spare
  /\ clears' = clears + 1
  /\ Held(s) # {}
  /\ RemovePaths(s, Held(s))
  /\ UNCHANGED <<versions, stream, debounced, view, wait, alive, orphans, crashes>>

\* All that the process held is gone; a patch it sent may still arrive.
Die(s) ==
  /\ alive' = [alive EXCEPT ![s] = FALSE]
  /\ sendCache' = [sendCache EXCEPT ![s] = EmptyCache]
  /\ inFlight' = {f \in inFlight : f.sender # s}
  /\ orphans' = orphans \cup {f.payload : f \in {g \in inFlight : g.sender = s /\ g.status = "sent"}}
  /\ stream' = [stream EXCEPT ![s] = <<>>]
  /\ debounced' = [debounced EXCEPT ![s] = {}]
  /\ view' = [view EXCEPT ![s] = 0]
  /\ wait' = [w \in Waits |-> IF Listening(w, s) THEN [wait[w] EXCEPT !.status = "gone"]
                              ELSE wait[w]]
  /\ UNCHANGED <<data, last, asked, ops, failures, versions>>

\* clear() of a store that is empty: the sender is called without keys and
\* throws; it is async and nobody awaits it, so Node ends the process.
ClearEmpty(s) ==
  /\ alive[s]
  /\ Spare
  /\ clears' = clears + 1
  /\ Held(s) = {}
  /\ Die(s)
  /\ UNCHANGED crashes

Crash(s) ==
  /\ alive[s]
  /\ Spare
  /\ crashes' = crashes + 1
  /\ Die(s)
  /\ UNCHANGED clears

\* A new process watches the resource: the first event is its state.
Restart(s) ==
  /\ ~alive[s]
  /\ alive' = [alive EXCEPT ![s] = TRUE]
  /\ stream' = [stream EXCEPT ![s] = <<Len(versions)>>]
  /\ UNCHANGED <<senderVars, versions, debounced, view, wait, orphans, crashes, clears>>

NextSync ==
  \/ \E s \in Writers, k \in Keys :
       \/ CallRemoveItem(s, k)
       \/ \E v \in Values : CallSetItem(s, k, v)
       \/ \E w \in Waits : RemoveItemAndWait(w, s, k)
       \/ \E w \in Waits, v \in Values : SetItemAndWait(w, s, k, v)
  \/ \E s \in Writers : Clear(s) \/ ClearEmpty(s)
  \/ \E s \in Senders : Tick(s) \/ WatchEvent(s) \/ Crash(s) \/ Restart(s)
  \/ \E s \in Senders : \E v \in debounced[s] : Receive(s, v)
  \/ \E f \in inFlight : ServerPatch(f) \/ NetworkFailure(f) \/ AnswerArrives(f)
  \/ \E payload \in orphans : OrphanPatch(payload)
  \/ \E w \in Waits : WaitTimeout(w)

\* Weak fairness of timers, watch, API server, event loop and Deployment.
FairSync ==
  /\ \A s \in Senders :
       /\ WF_vars(Tick(s)) /\ WF_vars(WatchEvent(s)) /\ WF_vars(Restart(s))
       /\ WF_vars(\E v \in debounced[s] : Receive(s, v))
  /\ WF_vars(\E f \in inFlight : ServerPatch(f))
  /\ WF_vars(\E f \in inFlight : AnswerArrives(f))
  /\ WF_vars(\E payload \in orphans : OrphanPatch(payload))
  /\ \A w \in Waits : WF_vars(WaitTimeout(w))

SpecSync == InitSync /\ [][NextSync]_vars /\ FairSync

-----------------------------------------------------------------------------
(* Properties                                                              *)

\* The whole Store implements SharedStore: a store's copy only ever moves
\* forward in the one history of the resource while its process lives, and a
\* waiting call is resolved exactly when its store sees what it asked for.
Shared == INSTANCE SharedStore
ImplementsSharedStore == Shared!SafeSpec

\* Every ...AndWait promise is settled or its process ends (storage.ts:144,
\* "If promise has not resolved before MAX_WAIT_TIME reject").
WaitsSettle == \A w \in Waits : wait[w].status = "waiting" ~> wait[w].status # "waiting"

\* Once the changes stop, whatever has failed before, every running process's
\* copy is the resource: the debounce drops no event for good (store.ts:196-198).
ViewsConverge == <>[](\A s \in Senders : alive[s] => view[s] = Len(versions))

\* Every operation on path p in the payloads has value v.
AllSet(payloads, p, v) == \A c \in payloads : \A o \in OnPath(c, p) : o.value = v

\* v was requested last for p, it is in the resource or will be sent, and no
\* other value for p is on its way from anywhere.
Pending(p, v) ==
  LET cached == {sendCache[s] : s \in Senders}
      sent   == {f.payload : f \in {g \in inFlight : g.status = "sent"}}
  IN  /\ last[p] = v
      /\ data[p] = v \/ \E c \in cached \cup sent : OnPath(c, p) # {}
      /\ AllSet(cached \cup sent \cup orphans, p, v)

Visible(p, v) == \A s \in Senders : view[s] # 0 /\ versions[view[s]][p] = v

\* A patch fails or is refused, or a process has ended.
Disturbed ==
  \/ \E f \in inFlight : f.status \in {"422", "error"}
  \/ \E s \in Senders : ~alive[s]

\* What is in the resource becomes visible.  And a request that meets no other
\* one for its key on the way (store.ts:274 sends without waiting for the last
\* answer, and processes do not know of each other) is seen by all stores of the
\* capability in all processes, unless it is replaced, a patch fails or a process ends.
WritesBecomeVisible ==
  /\ ViewsConverge
  /\ \A p \in Paths : \A v \in Values \cup {Absent} :
       Pending(p, v) ~> last[p] # v \/ Visible(p, v) \/ Disturbed

\* Whatever crashes, fails and is sent twice: the resource changes under a path
\* only to what a store of that capability asked for, or loses the key because
\* a store that holds it under its own name was cleared (storage.ts:109-114).
OnlyRequestedOrCleared ==
  [][\A p \in Paths : data'[p] # data[p] =>
       \/ <<p[1], p, data'[p]>> \in asked
       \/ \E c \in Capabilities \ {p[1]} :
            p[1] \in Claims[c] /\ data'[p] = Absent /\ <<c, p, Absent>> \in asked]_vars
=============================================================================
