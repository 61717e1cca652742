----------------------------- MODULE StoreBoot ------------------------------
(***************************************************************************)
(* How the processes of a module come up on a PepprStore resource:         *)
(* pepprControllerStore of src/lib/controller/store.ts gets the resource,  *)
(* moves data of older versions to v2 keys in one patch or creates the     *)
(* resource, watches it, and hands each capability's Storage what begins   *)
(* with the capability's name.  The first time it does so the controller   *)
(* binds its endpoints and sets up the watches.                            *)
(*                                                                         *)
(* A key of the resource is name-key (version 1) or name-v2-key.  Names    *)
(* and keys are sequences of pieces, of which a hyphen is one: foo and     *)
(* foobar have the first piece in common, and no hyphen after it.          *)
(*                                                                         *)
(* The API server is external: a patch is atomic and refused if it removes *)
(* a missing key; applying the resource keeps data that others have put    *)
(* there.  Kubernetes restarts a process that ends or does not answer its  *)
(* health checks.  Batches and late events are in StoreSync; here a write  *)
(* takes effect at once and the copies follow.                             *)
(***************************************************************************)
EXTENDS Naturals, Sequences, SequencesExt

CONSTANTS Processes,
          Words,        \* the pieces that names and keys are made of
          Names,        \* the capabilities' names, in order of registration
          Keys,         \* keys that capabilities use
          Values,
          Absent,       \* stands for no value
          InitialData,  \* what the resource may hold at first
          MaxWrites,    \* bound on the writes of capabilities
          MaxFailures,  \* bound on requests and watches that fail
          MaxCrashes    \* bound on the ends of a process

ASSUME BootAssumption ==
  /\ {"-", "v2", "__peppr_do_not_delete__"} \subseteq Words
  /\ Names \in Seq(Seq(Words))
  /\ Keys \subseteq Seq(Words)
  /\ Absent \notin Values
  /\ \A d \in InitialData :
       DOMAIN d \subseteq Seq(Words) /\ d \in [DOMAIN d -> Values \cup {"k-thx-bye"}]
  /\ {MaxWrites, MaxFailures, MaxCrashes} \subseteq Nat

VARIABLES exists,  \* whether the resource exists
          data,    \* its data
          stage,   \* how far each process has come
          got,     \* the data each process got and is about to migrate
          view,    \* #store of each capability's Storage in each process
          owed,    \* value last stored under each capability's key (history)
          writes, failures, crashes

counters == <<writes, failures, crashes>>
vars == <<exists, data, stage, got, view, owed, counters>>

NameSet == {Names[i] : i \in DOMAIN Names}

V1Key(name, key) == (name \o <<"-">>) \o key

\* v2StoreKey
V2(key) == <<"v2", "-">> \o key

V2Key(name, key) == V1Key(name, V2(key))

Nothing == <<>>

\* "JSON Patch will die if the data is empty" (store.ts:292)
Placeholder == [q \in {<<"__peppr_do_not_delete__">>} |-> "k-thx-bye"]

\* What the resource has for a capability's key, in either version.
Stored(name, key) ==
  IF V2Key(name, key) \in DOMAIN data THEN data[V2Key(name, key)]
  ELSE IF V1Key(name, key) \in DOMAIN data THEN data[V1Key(name, key)]
  ELSE Absent

Init ==
  /\ exists \in BOOLEAN
  /\ data \in IF exists THEN InitialData ELSE {Nothing}
  /\ stage = [p \in Processes |-> "down"]
  /\ got = [p \in Processes |-> Nothing]
  /\ view = [p \in Processes |-> [n \in NameSet |-> Nothing]]
  /\ owed = [slot \in NameSet \X Keys |-> Stored(slot[1], slot[2])]
  /\ writes = 0
  /\ failures = 0
  /\ crashes = 0

Reaches(p, s) == stage' = [stage EXCEPT ![p] = s]

Fails == failures < MaxFailures /\ failures' = failures + 1 /\ UNCHANGED <<writes, crashes>>

-----------------------------------------------------------------------------
(* Migration.                                                              *)

\* startsWith(name, key): whether or not a hyphen comes next.
Claims(name, q) == IsPrefix(name, q)

\* key.slice(offset): the piece after the name goes, a hyphen or not.
Stripped(name, q) == SubSeq(q, Len(name) + 2, Len(q))

\* The keys that are moved for the i-th capability.
Old(i, d) == {q \in DOMAIN d : Claims(Names[i], q) /\ ~Claims(Names[i] \o <<"-", "v2">>, q)}

\* The paths to remove for it, which are put together again with a hyphen.
OldPaths(i, d) == {V1Key(Names[i], Stripped(Names[i], q)) : q \in Old(i, d)}

\* Their removals, except those whose index is in the cache already.
Removes(i, d) == OldPaths(i, d) \ UNION {OldPaths(j, d) : j \in 1..(i - 1)}

\* A moved key's path and value; except the adds whose index is in the cache.
Moves(i, d) == {<<V2Key(Names[i], Stripped(Names[i], o)), d[o]>> : o \in Old(i, d)}
Adds(i, d) == Moves(i, d) \ UNION {Moves(j, d) : j \in 1..(i - 1)}

\* The capabilities for which something is added under a path.
Adding(q, d) == {i \in DOMAIN Names : \E add \in Adds(i, d) : add[1] = q}

Added(d) == UNION {{add[1] : add \in Adds(i, d)} : i \in DOMAIN Names}

\* What is removed for a capability and not added again for a later one.
Removed(d) ==
  UNION {{q \in Removes(i, d) : \A j \in Adding(q, d) : j < i} : i \in DOMAIN Names}

\* The value that is added last under a path.
LastAdded(q, d) ==
  LET last == CHOOSE i \in Adding(q, d) : \A j \in Adding(q, d) : j <= i
  IN (CHOOSE add \in Adds(last, d) : add[1] = q)[2]

\* The resource after the patch.
Migrated(d) ==
  [q \in (DOMAIN data \cup Added(d)) \ Removed(d) |->
     IF q \in Added(d) THEN LastAdded(q, d) ELSE data[q]]

\* There is something to move, and all that is removed is there by then.
Applicable(d) ==
  /\ \E i \in DOMAIN Names : Old(i, d) # {}
  /\ \A i \in DOMAIN Names : \A q \in Removes(i, d) :
       q \in DOMAIN data \/ \E j \in Adding(q, d) : j < i

-----------------------------------------------------------------------------
(* A process comes up.                                                     *)

\* The constructors: stores registered, Get after a random delay.
Start(p) ==
  /\ stage[p] = "down"
  /\ Reaches(p, "getting")
  /\ UNCHANGED <<exists, data, got, view, owed, counters>>

GetSucceeds(p) ==
  /\ stage[p] = "getting"
  /\ exists
  /\ got' = [got EXCEPT ![p] = data]
  /\ Reaches(p, "migrating")
  /\ UNCHANGED <<exists, data, view, owed, counters>>

\* Any failure, not only 404, leads to the creation of the resource.
GetFails(p) ==
  /\ stage[p] = "getting"
  /\ IF exists THEN Fails ELSE UNCHANGED counters
  /\ Reaches(p, "creating")
  /\ UNCHANGED <<exists, data, got, view, owed>>

\* flushCache catches whatever happens to the patch, then #setupWatch().
Watches(p) ==
  /\ stage[p] = "migrating"
  /\ got' = [got EXCEPT ![p] = Nothing]
  /\ Reaches(p, "watching")
  /\ UNCHANGED <<exists, view, owed>>

\* Mutant: a key to remove may be missing.
MigrateForced(p) == Watches(p) /\ data' = Migrated(got[p]) /\ UNCHANGED counters

\* The patch is applied or refused.
Migrate(p) ==
  /\ Watches(p)
  /\ data' = IF Applicable(got[p]) THEN Migrated(got[p]) ELSE data
  /\ UNCHANGED counters

\* It fails in another way, before or after its effect, and is not retried.
MigrateFails(p) ==
  /\ Watches(p)
  /\ \/ data' = data
     \/ Applicable(got[p]) /\ data' = Migrated(got[p])
  /\ Fails

\* createStoreResource: the data of a resource that does exist is kept.
Create(p) ==
  /\ stage[p] = "creating"
  /\ exists' = TRUE
  /\ data' = IF exists THEN data ELSE Placeholder
  /\ Reaches(p, "watching")
  /\ UNCHANGED <<got, view, owed, counters>>

\* The error is logged, and nothing more happens in this process.
CreateFails(p) ==
  /\ stage[p] = "creating"
  /\ Fails
  /\ Reaches(p, "stuck")
  /\ UNCHANGED <<exists, data, got, view, owed>>

\* Mutant: a capability is handed all keys.
FilteredNot(name) == [k \in DOMAIN data |-> data[k]]

\* What #receive hands to a capability: the keys that begin with its name,
\* shortened; of two that become the same one is left.
Filtered(name) ==
  LET own == {q \in DOMAIN data : Claims(name, q)}
  IN [k \in {Stripped(name, q) : q \in own} |-> data[CHOOSE q \in own : Stripped(name, q) = k]]

Contents == [n \in NameSet |-> Filtered(n)]

\* Mutant: only the first event is received.
ReceiveOnce(p) ==
  /\ stage[p] = "watching"
  /\ view' = [view EXCEPT ![p] = Contents]
  /\ Reaches(p, "ready")
  /\ UNCHANGED <<exists, data, got, owed, counters>>

\* The stores receive; the first time #onReady() binds the endpoints, /healthz
\* among them, and sets up the watches.
Receive(p) ==
  /\ stage[p] \in {"watching", "ready"}
  /\ stage[p] = "ready" => view[p] # Contents
  /\ view' = [view EXCEPT ![p] = Contents]
  /\ Reaches(p, "ready")
  /\ UNCHANGED <<exists, data, got, owed, counters>>

\* The watch of the store gives up: nobody listens for that.  A process that
\* is ready keeps answering, deaf to the store.
WatchGivesUp(p) ==
  /\ stage[p] \in {"watching", "ready"}
  /\ Fails
  /\ Reaches(p, IF stage[p] = "ready" THEN "deaf" ELSE "stuck")
  /\ UNCHANGED <<exists, data, got, view, owed>>

Ends(p) ==
  /\ Reaches(p, "down")
  /\ got' = [got EXCEPT ![p] = Nothing]
  /\ view' = [view EXCEPT ![p] = [n \in NameSet |-> Nothing]]
  /\ UNCHANGED <<exists, data, owed, writes, failures>>

Crash(p) ==
  /\ stage[p] # "down"
  /\ crashes < MaxCrashes
  /\ crashes' = crashes + 1
  /\ Ends(p)

\* Mutant: /healthz answers from the start.
ProbeBlind(p) == FALSE

\* No endpoint answers the liveness probe.
ProbeFails(p) == stage[p] = "stuck" /\ Ends(p) /\ UNCHANGED crashes

-----------------------------------------------------------------------------
(* Capabilities use their stores.                                          *)

GetItem(p, name, key) ==
  IF V2(key) \in DOMAIN view[p][name] THEN view[p][name][V2(key)] ELSE Absent

Writes(p, name, key, value) ==
  /\ stage[p] \in {"ready", "deaf"}
  /\ writes < MaxWrites
  /\ writes' = writes + 1
  /\ owed' = [owed EXCEPT ![<<name, key>>] = value]
  /\ UNCHANGED <<exists, stage, got, view, failures, crashes>>

SetItem(p, name, key, value) ==
  /\ Writes(p, name, key, value)
  /\ data' = [q \in DOMAIN data \cup {V2Key(name, key)} |->
                IF q = V2Key(name, key) THEN value ELSE data[q]]

\* Of an item that is there.
RemoveItem(p, name, key) ==
  /\ GetItem(p, name, key) # Absent
  /\ V2Key(name, key) \in DOMAIN data
  /\ Writes(p, name, key, Absent)
  /\ data' = [q \in DOMAIN data \ {V2Key(name, key)} |-> data[q]]

ComingUp(p) ==
  \/ Start(p)
  \/ GetSucceeds(p) \/ GetFails(p)
  \/ Migrate(p)
  \/ Create(p)
  \/ Receive(p)
  \/ ProbeFails(p)

Next ==
  \E p \in Processes :
    \/ ComingUp(p)
    \/ MigrateFails(p) \/ CreateFails(p) \/ WatchGivesUp(p)
    \/ Crash(p)
    \/ \E n \in NameSet, k \in Keys :
         RemoveItem(p, n, k) \/ \E v \in Values : SetItem(p, n, k, v)

\* Weak fairness of each process's start: timers, API server, watch, kubelet.
Spec == Init /\ [][Next]_vars /\ \A p \in Processes : WF_vars(ComingUp(p))

-----------------------------------------------------------------------------
(* Properties                                                              *)

\* "Each capability has its own store, and the data is persisted in
\* Kubernetes" (capability.ts:73): the resource has for each capability's
\* key what was last stored there, whatever starts and restarts.
Preserved == \A n \in NameSet, k \in Keys : Stored(n, k) = owed[<<n, k>>]

\* It is so as long as no request fails: the migrations of processes that
\* start together, from data some of them got long ago, neither lose what
\* was there nor overwrite what has been written since.
PreservedUnlessFailed == failures = 0 => Preserved

\* A capability is handed its own data and nothing else.
OwnDataOnly ==
  \A p \in Processes, n \in NameSet :
    \A q \in DOMAIN view[p][n] : \E k \in Keys : q \in {k, V2(k)}

Serves(p) == stage[p] \in {"ready", "deaf"}

\* Whatever fails on the way, every process is up in the end: one that is
\* stuck has no health endpoint and is restarted.
ComesUp == <>[](\A p \in Processes : Serves(p))

\* And unless something fails, capabilities then read what was stored, in
\* every process, data of older versions included.
ReadsBack ==
  <>[](failures = 0 =>
         \A p \in Processes, n \in NameSet, k \in Keys : GetItem(p, n, k) = owed[<<n, k>>])
=============================================================================
