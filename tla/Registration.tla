---------------------------- MODULE Registration ----------------------------
(***************************************************************************)
(* What the author of a module registers, and in which processes it counts:*)
(* the chains of calls that begin with When() and the schedules and ready  *)
(* handlers of src/lib/capability.ts, the constructor of                   *)
(* src/lib/module.ts, and the stores that wake the handlers up.            *)
(*                                                                         *)
(* The same code is loaded in a process in build mode, whose export        *)
(* decides what is deployed, and in each process that runs: admission,     *)
(* watch, or dev.  So a call made while the code is loaded is made in all  *)
(* of them.  One process that runs is followed further: "mode".  The code  *)
(* of callbacks can make calls there later on.                             *)
(*                                                                         *)
(* Labels and annotations are kept alike: "labels" stands for either.      *)
(***************************************************************************)
EXTENDS Naturals, Sequences, FiniteSets

CONSTANTS Capabilities,
          Modules,     \* what pepprModule may be handed: a list of them, and
                       \* the names they have
          Selectors,   \* calls of When()
          Events,      \* those of BindEvents that the author uses
          Namespaces, ObjectNames, Labels,  \* arguments of filters
          MaxCalls,    \* bound on the author's calls
          MaxPushed,   \* bound on the actions among them
          MaxWaiting   \* bound on schedules and ready handlers

Modes == {"build", "admission", "watch", "dev"}
RunningModes == Modes \ {"build"}

ASSUME RegistrationAssumption ==
  /\ \A m \in Modules : m.list \in Seq(Capabilities) /\ DOMAIN m.naming = Capabilities
  /\ Events \subseteq {"IsCreatedOrUpdated", "IsCreated", "IsUpdated", "IsDeleted"}
  /\ "" \notin ObjectNames
  /\ {MaxCalls, MaxPushed, MaxWaiting} \subseteq Nat

VARIABLES list,         \* the capabilities handed to pepprModule
          naming,       \* their names
          mode,         \* of the process that is followed
          binding,      \* the record that each When() works on
          offered,      \* the methods of all objects When() and its chain returned
          latest,       \* those of the object returned last
          pushed,       \* the actions, in order: what was pushed to #bindings
          bindings,     \* which of them each process pushed
          asked,        \* event and filters at the time of each (history)
          single,       \* whether each When() was used in one chain (history)
          hasSchedule,  \* the capabilities with a schedule, in each process
          exported,     \* what the process in build mode sent, and how many handlers there were
          stage,        \* how far the followed process has come
          watched,      \* the actions it set up watches for
          stores,       \* its #stores: the Storage objects that receive data
          handlers,     \* #readyHandlers of each Storage, numbered by "waiting"
          noop,         \* the Storage objects whose #onReady is a no-op
          called,       \* how often each handler was called
          inTime,       \* handlers registered before their store's data came (history)
          calls,        \* number of calls in chains
          waiting       \* number of schedules and ready handlers

chains == <<binding, offered, latest, pushed, bindings, asked, single>>
readiness == <<stores, handlers, noop, called, inTime>>
setting == <<list, naming, mode>>
vars == <<setting, chains, hasSchedule, exported, stage, watched, readiness, calls, waiting>>

Storages == Capabilities \X {"store", "schedule"}

NoFilters == [namespaces |-> {}, name |-> "", labels |-> {}]
NoExport == [actions |-> {}, schedules |-> {}, waiting |-> 0]

Init ==
  /\ \E m \in Modules : list = m.list /\ naming = m.naming
  /\ mode \in RunningModes
  /\ binding = [s \in Selectors |-> [capability |-> "none", event |-> "*", filters |-> NoFilters]]
  /\ offered = [s \in Selectors |-> {}]
  /\ latest = [s \in Selectors |-> {}]
  /\ pushed = <<>>
  /\ bindings = [m \in Modes |-> {}]
  /\ asked = <<>>
  /\ single = TRUE
  /\ hasSchedule = [m \in Modes |-> {}]
  /\ exported = NoExport
  /\ stage = "loading"
  /\ watched = {}
  /\ stores = {}
  /\ handlers = [st \in Storages |-> {}]
  /\ noop = {}
  /\ called = [h \in 1..MaxWaiting |-> 0]
  /\ inTime = {}
  /\ calls = 0
  /\ waiting = 0

-----------------------------------------------------------------------------
(* Modes.                                                                  *)

\* Mutant: admission actions are registered in every process.
RegisterAdmissionAlways(m) == TRUE

RegisterAdmission(m) == m = "build" \/ m # "watch"

RegisterWatch(m) == m \in {"build", "watch", "dev"}

Registers(m, role) ==
  IF role \in {"Mutate", "Validate"} THEN RegisterAdmission(m) ELSE RegisterWatch(m)

-----------------------------------------------------------------------------
(* Chains of calls.                                                        *)

BindEvents == [IsCreatedOrUpdated |-> "CREATEORUPDATE", IsCreated |-> "CREATE",
               IsUpdated |-> "UPDATE", IsDeleted |-> "DELETE"]
Actions == {"Mutate", "Validate", "Watch", "Reconcile"}
CommonChain == Actions \cup {"WithLabel"}

\* Mutant: filters can be added after an action.
AfterCommon(method) ==
  CASE method = "InNamespace" -> CommonChain \cup {"WithName"}
    [] method \in {"WithName", "WithLabel", "Mutate"} -> CommonChain
    [] method = "Validate" -> {"Watch", "Reconcile"}
    [] method \in {"Watch", "Reconcile"} -> {}
    [] OTHER -> CommonChain \cup {"InNamespace", "WithName"}

\* The methods of the object that a method returns.
After(method) ==
  CASE method = "InNamespace" -> CommonChain \cup {"WithName"}
    [] method \in {"WithName", "WithLabel"} -> CommonChain
    [] method = "Mutate" -> {"Watch", "Validate", "Reconcile"}
    [] method = "Validate" -> {"Watch", "Reconcile"}
    [] method \in {"Watch", "Reconcile"} -> {}
    [] OTHER -> CommonChain \cup {"InNamespace", "WithName"}

Loading ==
  /\ stage = "loading"
  /\ calls + waiting < MaxCalls
  /\ calls' = calls + 1
  /\ UNCHANGED <<setting, hasSchedule, exported, stage, watched, readiness, waiting>>

When(s, c) ==
  /\ Loading
  /\ offered[s] = {}
  /\ binding' = [binding EXCEPT ![s].capability = c]
  /\ offered' = [offered EXCEPT ![s] = DOMAIN BindEvents]
  /\ latest' = [latest EXCEPT ![s] = DOMAIN BindEvents]
  /\ UNCHANGED <<pushed, bindings, asked, single>>

\* A method of an object that the chain returned, the last one or one the
\* author has kept.
Calls(s, method) ==
  /\ Loading
  /\ method \in offered[s]
  /\ single' = (single /\ method \in latest[s])
  /\ offered' = [offered EXCEPT ![s] = @ \cup After(method)]
  /\ latest' = [latest EXCEPT ![s] = After(method)]

\* bindEvent() sets the event of the selector's record.
BindEvent(s, method) ==
  /\ Calls(s, method)
  /\ binding' = [binding EXCEPT ![s].event = BindEvents[method]]
  /\ UNCHANGED <<pushed, bindings, asked>>

Filter(s, method, filters) ==
  /\ Calls(s, method)
  /\ binding' = [binding EXCEPT ![s].filters = filters]
  /\ UNCHANGED <<pushed, bindings, asked>>

InNamespace(s, ns) ==
  Filter(s, "InNamespace", [binding[s].filters EXCEPT !.namespaces = @ \cup {ns}])

WithName(s, name) ==
  Filter(s, "WithName", [binding[s].filters EXCEPT !.name = name])

WithLabel(s, label) ==
  Filter(s, "WithLabel", [binding[s].filters EXCEPT !.labels = @ \cup {label}])

\* Mutate(), Validate(), Watch(), Reconcile(): where the process registers
\* such actions, a copy of the record is pushed.  The copy has its own event
\* and shares the filters with the record.
Action(s, role) ==
  /\ Calls(s, role)
  /\ Len(pushed) < MaxPushed
  /\ pushed' = Append(pushed, [selector |-> s, event |-> binding[s].event, role |-> role])
  /\ bindings' = [m \in Modes |->
                    IF Registers(m, role) THEN bindings[m] \cup {Len(pushed) + 1} ELSE bindings[m]]
  /\ asked' = Append(asked, [event |-> binding[s].event, role |-> role, filters |-> binding[s].filters])
  /\ UNCHANGED binding

\* What processes see of an action.
Seen(k) == [event |-> pushed[k].event, role |-> pushed[k].role,
            filters |-> binding[pushed[k].selector].filters]

IsWatch(k) == pushed[k].role \in {"Watch", "Reconcile"}

-----------------------------------------------------------------------------
(* Schedules and ready handlers, while the code is loaded or later.        *)

AuthorCalls ==
  /\ stage # "dead"
  /\ waiting < MaxWaiting /\ calls + waiting < MaxCalls
  /\ waiting' = waiting + 1
  /\ UNCHANGED <<setting, chains, exported, stage, watched, calls>>

\* onReady() of a Storage only pushes the handler, whatever was received.
Push(st) ==
  /\ handlers' = [handlers EXCEPT ![st] = @ \cup {waiting'}]
  /\ inTime' = IF stage \in {"loading", "constructed"} \/ st \in stores \ noop
               THEN inTime \cup {waiting'} ELSE inTime
  /\ UNCHANGED <<stores, noop, called>>

StoreOnReady(c) == AuthorCalls /\ Push(<<c, "store">>) /\ UNCHANGED hasSchedule

\* Processes that run the author's call.
Callers == IF stage = "loading" THEN Modes ELSE {mode}

Scheduled(c, callers) ==
  hasSchedule' = [m \in Modes |-> IF m \in callers THEN hasSchedule[m] \cup {c} ELSE hasSchedule[m]]

\* Mutant: hasSchedule is only set where schedules run.
OnScheduleQuiet(c) ==
  /\ AuthorCalls
  /\ Scheduled(c, Callers \cap {"watch", "dev"})
  /\ IF mode \in {"watch", "dev"} THEN Push(<<c, "schedule">>) ELSE UNCHANGED readiness

\* The handler that starts the schedule waits for the schedule store.
OnSchedule(c) ==
  /\ AuthorCalls
  /\ Scheduled(c, Callers)
  /\ IF mode \in {"watch", "dev"} THEN Push(<<c, "schedule">>) ELSE UNCHANGED readiness

-----------------------------------------------------------------------------
(* The constructor of pepprModule, and what follows in the process.        *)

\* #stores is filled in the order of the list and has one entry for a name.
Registered(eligible, kind) ==
  {<<list[i], kind>> : i \in {j \in DOMAIN list :
     /\ list[j] \in eligible
     /\ \A k \in DOMAIN list : k > j /\ list[k] \in eligible => naming[list[k]] # naming[list[j]]}}

\* "Store already registered": a capability is listed twice.
RegisteredTwice == \E i, j \in DOMAIN list : i # j /\ list[i] = list[j]

Listed == {list[i] : i \in DOMAIN list}
ListedActions(m) == {k \in bindings[m] : binding[pushed[k].selector].capability \in Listed}

\* In build mode the capabilities are sent to the parent, as they are now.
\* Elsewhere the Controller registers the stores.
Construct ==
  /\ stage = "loading"
  /\ exported' = [actions |-> {Seen(k) : k \in ListedActions("build")},
                  schedules |-> hasSchedule["build"] \cap Listed,
                  waiting |-> waiting]
  /\ IF RegisteredTwice
     THEN stage' = "dead" /\ UNCHANGED stores
     ELSE stage' = "constructed" /\ stores' = Registered(Capabilities, "store")
  /\ UNCHANGED <<setting, chains, hasSchedule, watched, handlers, noop, called, inTime, calls, waiting>>

\* Mutant: the handlers are called with all data that comes.
ReceiveAll(sts) ==
  /\ called' = [h \in 1..MaxWaiting |->
       IF \E st \in sts : h \in handlers[st] THEN called[h] + 1 ELSE called[h]]
  /\ noop' = noop \cup sts

\* receive() of each Storage: its ready handlers are called the first time.
Receive(sts) ==
  /\ called' = [h \in 1..MaxWaiting |->
       IF \E st \in sts \ noop : h \in handlers[st] THEN called[h] + 1 ELSE called[h]]
  /\ noop' = noop \cup sts

OfKind(kind) == {st \in stores : st[2] = kind}

\* Mutant: the schedule stores are those of the first capability.
ReadyFirstOnly ==
  /\ stage = "constructed"
  /\ Receive(OfKind("store"))
  /\ stage' = "serving"
  /\ watched' = IF mode \in {"watch", "dev"}
                THEN {k \in ListedActions(mode) : IsWatch(k)} ELSE {}
  /\ stores' = stores \cup (Registered(hasSchedule[mode], "schedule") \cap {<<list[1], "schedule">>})
  /\ UNCHANGED <<setting, chains, hasSchedule, exported, handlers, inTime, calls, waiting>>

\* The first data of the store: handlers, endpoints, watches, and then the
\* second store for the capabilities that have a schedule by now.
Ready ==
  /\ stage = "constructed"
  /\ Receive(OfKind("store"))
  /\ stage' = "serving"
  /\ watched' = IF mode \in {"watch", "dev"}
                THEN {k \in ListedActions(mode) : IsWatch(k)} ELSE {}
  /\ stores' = stores \cup Registered(hasSchedule[mode], "schedule")
  /\ UNCHANGED <<setting, chains, hasSchedule, exported, handlers, inTime, calls, waiting>>

\* Data comes, the first time for the schedule stores, again for the others.
Data(kind) ==
  /\ stage = "serving"
  /\ Receive(OfKind(kind))
  /\ UNCHANGED <<setting, chains, hasSchedule, exported, stage, watched, stores, handlers, inTime, calls, waiting>>

Next ==
  \/ \E s \in Selectors :
       \/ \E c \in Capabilities : When(s, c)
       \/ \E method \in Events : BindEvent(s, method)
       \/ \E ns \in Namespaces : InNamespace(s, ns)
       \/ \E name \in ObjectNames : WithName(s, name)
       \/ \E label \in Labels : WithLabel(s, label)
       \/ \E role \in Actions : Action(s, role)
  \/ \E c \in Capabilities : StoreOnReady(c) \/ OnSchedule(c)
  \/ Construct \/ Ready
  \/ \E kind \in {"store", "schedule"} : Data(kind)

\* Weak fairness of what waits for nobody's call: the end of the author's
\* code, and the stores, whose start StoreBoot models.
Spec ==
  /\ Init /\ [][Next]_vars
  /\ WF_vars(Construct) /\ WF_vars(Ready) /\ WF_vars(Data("schedule"))

-----------------------------------------------------------------------------
(* Properties                                                              *)

Numbers(n) == 1..n

EventNames == {"*", "CREATE", "UPDATE", "DELETE", "CREATEORUPDATE"}
Methods == DOMAIN BindEvents \cup CommonChain \cup {"InNamespace", "WithName"}
FilterSets == [namespaces : SUBSET Namespaces, name : ObjectNames \cup {""}, labels : SUBSET Labels]

ChainsTypeOK ==
  /\ binding \in [Selectors -> [capability : Capabilities \cup {"none"}, event : EventNames, filters : FilterSets]]
  /\ offered \in [Selectors -> SUBSET Methods]
  /\ latest \in [Selectors -> SUBSET Methods]
  /\ single \in BOOLEAN
  /\ pushed \in Seq([selector : Selectors, event : EventNames, role : Actions])
  /\ bindings \in [Modes -> SUBSET Numbers(Len(pushed))]
  /\ asked \in Seq([event : EventNames, role : Actions, filters : FilterSets])
  /\ Len(asked) = Len(pushed)

ReadinessTypeOK ==
  /\ stores \subseteq Storages
  /\ handlers \in [Storages -> SUBSET Numbers(waiting)]
  /\ noop \subseteq Storages
  /\ called \in [Numbers(MaxWaiting) -> Nat]
  /\ inTime \subseteq Numbers(waiting)

RegistrationTypeOK ==
  /\ \E m \in Modules : list = m.list /\ naming = m.naming
  /\ mode \in RunningModes
  /\ ChainsTypeOK
  /\ hasSchedule \in [Modes -> SUBSET Capabilities]
  /\ exported.schedules \subseteq Capabilities /\ exported.waiting \in 0..waiting
  /\ stage \in {"loading", "constructed", "serving", "dead"}
  /\ watched \subseteq Numbers(Len(pushed))
  /\ ReadinessTypeOK
  /\ calls \in 0..MaxCalls
  /\ waiting \in 0..MaxWaiting

\* Each action runs in exactly one kind of deployed process, admission or
\* watch, and in the one process of "peppr dev"; and the build knows it.
HostedOnce ==
  \A k \in Numbers(Len(pushed)) :
    /\ k \in bindings["build"] /\ k \in bindings["dev"]
    /\ k \in bindings["watch"] <=> k \notin bindings["admission"]
    /\ k \in bindings["watch"] <=> IsWatch(k)

\* A chain that was not branched keeps for each of its actions the event and
\* the filters it had there: no later call of any chain changes them.
FiltersKept ==
  single => \A k \in Numbers(Len(pushed)) : Seen(k) = asked[k]

\* watcher() of the deployment: what the export says.
WatcherDeployed ==
  exported.schedules # {} \/ \E a \in exported.actions : a.role \in {"Watch", "Reconcile"}

\* What a process has in scope is in the export with the same filters, and
\* where it watches, or waits to run a schedule its code registered while it
\* was loaded, the export makes watcher() of pods.ts deploy a watch process.
Announced ==
  stage \in {"constructed", "serving"} =>
    /\ \A k \in ListedActions(mode) : Seen(k) \in exported.actions
    /\ watched # {} => WatcherDeployed
    /\ \A c \in Listed, h \in Numbers(exported.waiting) :
         h \in handlers[<<c, "schedule">>] => WatcherDeployed

\* No ready handler is called twice: no schedule is started twice in one
\* process, whatever data comes and when it was registered.
CalledOnce == \A h \in Numbers(MaxWaiting) : called[h] <= 1

\* No other capability of the module has its name.
HasOwnName(c) == c \in Listed /\ \A d \in Listed \ {c} : naming[d] # naming[c]

\* A handler that is registered before the data of its store comes is called,
\* and with it a schedule starts.
ReadyRuns ==
  \A c \in Capabilities, kind \in {"store", "schedule"}, h \in Numbers(MaxWaiting) :
    ~RegisteredTwice /\ HasOwnName(c) /\ h \in inTime \cap handlers[<<c, kind>>] ~> called[h] = 1
=============================================================================
