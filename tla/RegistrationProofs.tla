------------------------- MODULE RegistrationProofs -------------------------
(***************************************************************************)
(* What TLAPS proves of Registration, for any modules, chains of calls and *)
(* handlers: the types, where actions run, that they keep their filters,   *)
(* that the export announces what processes do, and that no ready handler  *)
(* is called twice.                                                        *)
(*                                                                         *)
(* Chains change only while the code is loaded, and handlers are only      *)
(* added and called; so each part of the invariant concerns one of the two.*)
(***************************************************************************)
EXTENDS Registration, TLAPS

\* #bindings of each process: the actions whose role it registers.
Hosted == \A m \in Modes : bindings[m] = {k \in Numbers(Len(pushed)) : Registers(m, pushed[k].role)}

\* A chain with an action has begun; if it was never branched, then what it
\* returned last offers no filters.
Closed ==
  \A k \in Numbers(Len(pushed)) :
    /\ offered[pushed[k].selector] # {}
    /\ single => latest[pushed[k].selector] \subseteq Actions

Kept ==
  \A k \in Numbers(Len(pushed)) :
    /\ pushed[k].event = asked[k].event /\ pushed[k].role = asked[k].role
    /\ single => binding[pushed[k].selector].filters = asked[k].filters

ChainsInv == ChainsTypeOK /\ Hosted /\ Closed /\ Kept

\* A handler waits for one store; it was called at most once, and then the
\* #onReady of its store is a no-op.
HandledOnce ==
  /\ \A s, t \in Storages : \A h \in handlers[s] \cap handlers[t] : s = t
  /\ \A h \in Numbers(MaxWaiting) :
       /\ called[h] <= 1
       /\ called[h] # 0 => \E st \in noop : h \in handlers[st]

\* While the code is loaded each process, also that in build mode, sets
\* hasSchedule, and none watches.
Recorded ==
  /\ stage = "loading" =>
       \A c \in Capabilities : handlers[<<c, "schedule">>] # {} => c \in hasSchedule["build"]
  /\ stage # "serving" => watched = {}

RegistrationInv == RegistrationTypeOK /\ ChainsInv /\ HandledOnce /\ Recorded /\ Announced

-----------------------------------------------------------------------------
(* Types.                                                                  *)

LEMMA Bounds == MaxCalls \in Nat /\ MaxPushed \in Nat /\ MaxWaiting \in Nat
BY RegistrationAssumption

LEMMA PushedTypes ==
  ASSUME ChainsTypeOK, NEW k \in Numbers(Len(pushed))
  PROVE  /\ k \in 1..Len(pushed) /\ Len(pushed) \in Nat
         /\ pushed[k] \in [selector : Selectors, event : EventNames, role : Actions]
         /\ pushed[k].selector \in Selectors /\ pushed[k].role \in Actions
<1> DEFINE Records == [selector : Selectors, event : EventNames, role : Actions]
<1>4. pushed \in Seq(Records)
  BY DEF ChainsTypeOK
<1>5. k \in 1..Len(pushed)
  BY DEF Numbers
<1> HIDE DEF Records
<1>6. Len(pushed) \in Nat
  BY <1>4
<1>1. pushed \in Seq(Records) /\ k \in 1..Len(pushed) /\ Len(pushed) \in Nat
  BY <1>4, <1>5, <1>6
<1>2. pushed[k] \in Records
  BY <1>1
<1>3. QED
  BY <1>1, <1>2 DEF Records

LEMMA ListedAreCapabilities ==
  ASSUME RegistrationTypeOK
  PROVE  Listed \subseteq Capabilities
<1>1. PICK m \in Modules : list = m.list
  BY DEF RegistrationTypeOK
<1>2. list \in Seq(Capabilities)
  BY <1>1, RegistrationAssumption
<1>3. \A i \in DOMAIN list : list[i] \in Capabilities
  BY <1>2
<1>4. QED
  BY <1>3 DEF Listed

-----------------------------------------------------------------------------
(* The initial states.                                                     *)

LEMMA InitInv == Init => RegistrationInv
<1> SUFFICES ASSUME Init PROVE RegistrationInv
  OBVIOUS
<1> USE DEF Init
<1>1. ChainsTypeOK
  <2>1. NoFilters \in FilterSets
    BY DEF NoFilters, FilterSets
  <2>2. pushed = <<>> /\ asked = <<>> /\ Len(pushed) = 0 /\ Len(asked) = 0
    OBVIOUS
  <2>3. QED
    BY <2>1, <2>2 DEF ChainsTypeOK, EventNames
<1>2. ReadinessTypeOK
  BY DEF ReadinessTypeOK, Numbers
<1>3. RegistrationTypeOK
  <2>1. 0 \in 0..MaxCalls /\ 0 \in 0..MaxWaiting /\ exported.waiting \in 0..waiting
    BY Bounds DEF NoExport
  <2>2. exported.schedules \subseteq Capabilities
    BY DEF NoExport
  <2>3. QED
    BY <1>1, <1>2, <2>1, <2>2 DEF RegistrationTypeOK
<1>4. Numbers(Len(pushed)) = {}
  BY DEF Numbers
<1>5. ChainsInv
  BY <1>1, <1>4 DEF ChainsInv, Hosted, Closed, Kept
<1>6. HandledOnce /\ Recorded /\ Announced
  <2>1. \A c \in Capabilities : handlers[<<c, "schedule">>] = {}
    BY DEF Storages
  <2>2. HandledOnce
    BY DEF HandledOnce, Numbers
  <2>3. QED
    BY <2>1, <2>2 DEF Recorded, Announced
<1>7. QED
  BY <1>3, <1>5, <1>6 DEF RegistrationInv

-----------------------------------------------------------------------------
(* Chains of calls.                                                        *)

\* A step of a chain leaves the rest of the invariant alone.
LEMMA LoadingStep ==
  ASSUME RegistrationInv, Loading, ChainsInv', Len(pushed') \in Nat, Len(pushed) \in Nat, Len(pushed) <= Len(pushed')
  PROVE  RegistrationInv'
<1> USE DEF RegistrationInv, Loading
<1>1. calls' \in 0..MaxCalls
  <2>1. MaxCalls \in Nat /\ calls \in Nat /\ waiting \in Nat
    <3>1. calls \in 0..MaxCalls /\ waiting \in 0..MaxWaiting
      BY DEF RegistrationTypeOK
    <3>2. QED
      BY <3>1, Bounds
  <2>2. QED
    BY <2>1
<1>2. ReadinessTypeOK'
  BY DEF RegistrationTypeOK, ReadinessTypeOK, readiness
<1>3. watched' \subseteq Numbers(Len(pushed'))
  BY DEF RegistrationTypeOK, Numbers
<1>4. RegistrationTypeOK'
  BY <1>1, <1>2, <1>3 DEF RegistrationTypeOK, ChainsInv, setting
<1>5. HandledOnce'
  BY DEF HandledOnce, readiness
<1>6. Recorded' /\ Announced'
  BY DEF Recorded, Announced, readiness
<1>7. QED
  BY <1>4, <1>5, <1>6

\* Methods that add a filter or set the event are not actions.
LEMMA MethodKinds ==
  /\ DOMAIN BindEvents = {"IsCreatedOrUpdated", "IsCreated", "IsUpdated", "IsDeleted"}
  /\ \A e \in DOMAIN BindEvents : BindEvents[e] \in EventNames
  /\ Events \subseteq DOMAIN BindEvents
  /\ Events \cap Actions = {} /\ {"InNamespace", "WithName", "WithLabel"} \cap Actions = {}
  /\ \A method \in Methods : After(method) \subseteq Methods
  /\ \A role \in Actions : After(role) \subseteq Actions
<1>1. DOMAIN BindEvents = {"IsCreatedOrUpdated", "IsCreated", "IsUpdated", "IsDeleted"}
  BY DEF BindEvents
<1>2. \A e \in DOMAIN BindEvents : BindEvents[e] \in EventNames
  BY <1>1 DEF BindEvents, EventNames
<1>3. Events \cap Actions = {} /\ {"InNamespace", "WithName", "WithLabel"} \cap Actions = {}
  BY RegistrationAssumption DEF Actions
<1>4. \A method \in Methods : After(method) \subseteq Methods
  BY DEF Methods, After, CommonChain, Actions
<1>5. \A role \in Actions : After(role) \subseteq Actions
  BY DEF After, Actions
<1>6. QED
  BY <1>1, <1>2, <1>3, <1>4, <1>5, RegistrationAssumption

\* What a call on an object does to the objects that a chain returned.
LEMMA CallsStep ==
  ASSUME ChainsInv, NEW s \in Selectors, NEW method \in Methods, Calls(s, method)
  PROVE  /\ offered' \in [Selectors -> SUBSET Methods] /\ latest' \in [Selectors -> SUBSET Methods]
         /\ single' \in BOOLEAN
         /\ method \in offered[s] /\ offered'[s] # {} /\ latest'[s] = After(method)
         /\ single' => single /\ method \in latest[s]
         /\ \A t \in Selectors : t # s => offered'[t] = offered[t] /\ latest'[t] = latest[t]
BY MethodKinds DEF Calls, ChainsInv, ChainsTypeOK

LEMMA WhenStep ==
  ASSUME RegistrationInv, NEW s \in Selectors, NEW c \in Capabilities, When(s, c)
  PROVE  RegistrationInv'
<1> USE DEF When
<1>1. /\ binding' \in [Selectors -> [capability : Capabilities \cup {"none"}, event : EventNames, filters : FilterSets]]
      /\ \A t \in Selectors : t # s => binding'[t] = binding[t]
      /\ offered' \in [Selectors -> SUBSET Methods] /\ latest' \in [Selectors -> SUBSET Methods]
      /\ \A t \in Selectors : t # s => offered'[t] = offered[t] /\ latest'[t] = latest[t]
  <2>1. DOMAIN BindEvents \subseteq Methods
    BY DEF Methods
  <2>2. QED
    BY <2>1 DEF RegistrationInv, ChainsInv, ChainsTypeOK
<1>2. ChainsTypeOK'
  BY <1>1 DEF RegistrationInv, ChainsInv, ChainsTypeOK
<1>3. \A k \in Numbers(Len(pushed)) : pushed[k].selector \in Selectors /\ pushed[k].selector # s
  BY PushedTypes DEF RegistrationInv, ChainsInv, Closed
<1>4. Hosted' /\ Closed' /\ Kept'
  <2>1. Hosted'
    BY DEF RegistrationInv, ChainsInv, Hosted
  <2>2. Closed'
    BY <1>1, <1>3 DEF RegistrationInv, ChainsInv, Closed
  <2>3. Kept'
    BY <1>1, <1>3 DEF RegistrationInv, ChainsInv, Kept
  <2>4. QED
    BY <2>1, <2>2, <2>3
<1>5. QED
  BY <1>2, <1>4, LoadingStep DEF RegistrationInv, ChainsInv, ChainsTypeOK

\* Setting the event, or a filter, of the record of a selector.
LEMMA SetStep ==
  ASSUME RegistrationInv, NEW s \in Selectors, NEW method \in Methods \ Actions, Calls(s, method),
         binding' \in [Selectors -> [capability : Capabilities \cup {"none"}, event : EventNames, filters : FilterSets]],
         \A t \in Selectors : t # s => binding'[t] = binding[t],
         UNCHANGED <<pushed, bindings, asked>>
  PROVE  RegistrationInv'
<1> USE DEF RegistrationInv, ChainsInv
<1>1. ChainsTypeOK'
  BY CallsStep DEF ChainsTypeOK
<1>2. \A k \in Numbers(Len(pushed)) : pushed[k].selector \in Selectors
  BY PushedTypes
<1>3. \A k \in Numbers(Len(pushed)) : single' => pushed[k].selector # s
  BY <1>2, CallsStep DEF Closed
<1>4. Hosted'
  BY DEF Hosted
<1>5. Closed'
  BY <1>2, <1>3, CallsStep DEF Closed
<1>6. Kept'
  BY <1>2, <1>3, CallsStep DEF Kept
<1>7. QED
  BY <1>1, <1>4, <1>5, <1>6, LoadingStep DEF ChainsTypeOK, Calls

LEMMA BindEventStep ==
  ASSUME RegistrationInv, NEW s \in Selectors, NEW method \in Events, BindEvent(s, method)
  PROVE  RegistrationInv'
<1>1. method \in Methods \ Actions /\ BindEvents[method] \in EventNames
  BY MethodKinds DEF Methods
<1>2. /\ binding' \in [Selectors -> [capability : Capabilities \cup {"none"}, event : EventNames, filters : FilterSets]]
      /\ \A t \in Selectors : t # s => binding'[t] = binding[t]
  BY <1>1 DEF BindEvent, RegistrationInv, ChainsInv, ChainsTypeOK
<1>3. QED
  BY <1>1, <1>2, SetStep DEF BindEvent

LEMMA FilterStep ==
  ASSUME RegistrationInv, NEW s \in Selectors, NEW method \in {"InNamespace", "WithName", "WithLabel"},
         NEW filters \in FilterSets, Filter(s, method, filters)
  PROVE  RegistrationInv'
<1>1. method \in Methods \ Actions
  BY MethodKinds DEF Methods, CommonChain
<1>2. /\ binding' \in [Selectors -> [capability : Capabilities \cup {"none"}, event : EventNames, filters : FilterSets]]
      /\ \A t \in Selectors : t # s => binding'[t] = binding[t]
  BY <1>1 DEF Filter, RegistrationInv, ChainsInv, ChainsTypeOK
<1>3. QED
  BY <1>1, <1>2, SetStep DEF Filter

LEMMA FiltersStep ==
  ASSUME RegistrationInv, NEW s \in Selectors,
         \/ \E ns \in Namespaces : InNamespace(s, ns)
         \/ \E name \in ObjectNames : WithName(s, name)
         \/ \E label \in Labels : WithLabel(s, label)
  PROVE  RegistrationInv'
<1>1. binding[s].filters \in FilterSets
  BY DEF RegistrationInv, ChainsInv, ChainsTypeOK
<1>2. ASSUME NEW ns \in Namespaces PROVE [binding[s].filters EXCEPT !.namespaces = @ \cup {ns}] \in FilterSets
  BY <1>1 DEF FilterSets
<1>3. ASSUME NEW name \in ObjectNames PROVE [binding[s].filters EXCEPT !.name = name] \in FilterSets
  BY <1>1 DEF FilterSets
<1>4. ASSUME NEW label \in Labels PROVE [binding[s].filters EXCEPT !.labels = @ \cup {label}] \in FilterSets
  BY <1>1 DEF FilterSets
<1>5. CASE \E ns \in Namespaces : InNamespace(s, ns)
  BY <1>2, <1>5, FilterStep DEF InNamespace
<1>6. CASE \E name \in ObjectNames : WithName(s, name)
  BY <1>3, <1>6, FilterStep DEF WithName
<1>7. CASE \E label \in Labels : WithLabel(s, label)
  BY <1>4, <1>7, FilterStep DEF WithLabel
<1>8. QED
  BY <1>5, <1>6, <1>7

LEMMA ActionStep ==
  ASSUME RegistrationInv, NEW s \in Selectors, NEW role \in Actions, Action(s, role)
  PROVE  RegistrationInv'
<1> DEFINE n == Len(pushed)
           new == [selector |-> s, event |-> binding[s].event, role |-> role]
           seen == [event |-> binding[s].event, role |-> role, filters |-> binding[s].filters]
           Pushes == [selector : Selectors, event : EventNames, role : Actions]
           Asks == [event : EventNames, role : Actions, filters : FilterSets]
<1> USE DEF RegistrationInv, ChainsInv
<1>1. /\ pushed' = Append(pushed, new) /\ asked' = Append(asked, seen) /\ binding' = binding
      /\ bindings' = [m \in Modes |-> IF Registers(m, role) THEN bindings[m] \cup {n + 1} ELSE bindings[m]]
      /\ Calls(s, role)
  BY DEF Action
<1>2. new \in Pushes /\ seen \in Asks /\ pushed \in Seq(Pushes) /\ asked \in Seq(Asks) /\ Len(asked) = n
  BY DEF ChainsTypeOK
<1>3. role \in Methods
  BY DEF Methods, CommonChain
<1>4. n \in Nat
  <2> HIDE DEF Pushes
  <2>1. QED
    BY <1>2
<1>5. /\ pushed' \in Seq(Pushes) /\ asked' \in Seq(Asks) /\ Len(pushed') = n + 1 /\ Len(asked') = n + 1
      /\ \A k \in 1..n : pushed'[k] = pushed[k] /\ asked'[k] = asked[k]
      /\ pushed'[n + 1] = new /\ asked'[n + 1] = seen
  <2> HIDE DEF Pushes, Asks, new, seen
  <2>1. QED
    BY <1>1, <1>2
<1>6. Numbers(Len(pushed')) = Numbers(n) \cup {n + 1} /\ Numbers(n) = 1..n /\ n + 1 \notin Numbers(n)
  BY <1>4, <1>5 DEF Numbers
<1>7. ChainsTypeOK'
  <2>1. bindings' \in [Modes -> SUBSET Numbers(Len(pushed'))]
    BY <1>1, <1>6 DEF ChainsTypeOK
  <2>2. QED
    BY <1>1, <1>3, <1>5, <2>1, CallsStep DEF ChainsTypeOK
<1>8. Hosted'
  <2> SUFFICES ASSUME NEW m \in Modes, NEW k
               PROVE  k \in bindings'[m] <=> k \in Numbers(Len(pushed')) /\ Registers(m, pushed'[k].role)
    BY <1>7 DEF Hosted, ChainsTypeOK
  <2>1. k \in bindings[m] <=> k \in Numbers(n) /\ Registers(m, pushed[k].role)
    BY DEF Hosted
  <2>2. bindings'[m] = IF Registers(m, role) THEN bindings[m] \cup {n + 1} ELSE bindings[m]
    BY <1>1
  <2>3. CASE k = n + 1
    <3>1. pushed'[k].role = role
      BY <1>5, <2>3
    <3>2. QED
      BY <1>6, <2>1, <2>2, <2>3, <3>1
  <2>4. CASE k # n + 1
    <3>1. k \in Numbers(n) => pushed'[k] = pushed[k]
      BY <1>5, <1>6
    <3>2. QED
      BY <1>6, <2>1, <2>2, <2>4, <3>1
  <2>5. QED
    BY <2>3, <2>4
<1>9. Closed'
  <2> SUFFICES ASSUME NEW k \in Numbers(Len(pushed'))
               PROVE  /\ offered'[pushed'[k].selector] # {}
                      /\ single' => latest'[pushed'[k].selector] \subseteq Actions
    BY DEF Closed
  <2>1. offered'[s] # {} /\ latest'[s] \subseteq Actions
    BY <1>1, <1>3, CallsStep, MethodKinds
  <2>2. CASE k = n + 1
    BY <1>5, <2>1, <2>2
  <2>3. CASE k \in Numbers(n)
    <3>1. pushed'[k] = pushed[k] /\ pushed[k].selector \in Selectors
      BY <1>5, <1>6, <2>3, PushedTypes
    <3>2. offered[pushed[k].selector] # {} /\ (single => latest[pushed[k].selector] \subseteq Actions)
      BY <2>3 DEF Closed
    <3>3. QED
      BY <1>1, <1>3, <2>1, <3>1, <3>2, CallsStep
  <2>4. QED
    BY <1>6, <2>2, <2>3
<1>10. Kept'
  <2> SUFFICES ASSUME NEW k \in Numbers(Len(pushed'))
               PROVE  /\ pushed'[k].event = asked'[k].event /\ pushed'[k].role = asked'[k].role
                      /\ single' => binding'[pushed'[k].selector].filters = asked'[k].filters
    BY DEF Kept
  <2>1. CASE k = n + 1
    BY <1>1, <1>5, <2>1
  <2>2. CASE k \in Numbers(n)
    <3>1. pushed'[k] = pushed[k] /\ asked'[k] = asked[k] /\ binding' = binding /\ (single' => single)
      BY <1>1, <1>3, <1>5, <1>6, <2>2, CallsStep
    <3>2. QED
      BY <2>2, <3>1 DEF Kept
  <2>3. QED
    BY <1>6, <2>1, <2>2
<1>11. QED
  BY <1>1, <1>4, <1>5, <1>7, <1>8, <1>9, <1>10, LoadingStep DEF Calls

-----------------------------------------------------------------------------
(* Schedules and ready handlers.                                           *)

\* As long as chains and stage are as they were.
LEMMA ChainsKept ==
  ASSUME ChainsInv, UNCHANGED chains
  PROVE  ChainsInv'
BY DEF ChainsInv, ChainsTypeOK, Hosted, Closed, Kept, chains

LEMMA CapabilityStores == \A c \in Capabilities : <<c, "store">> \in Storages /\ <<c, "schedule">> \in Storages
BY DEF Storages

\* A handler is pushed, with a number of its own.
LEMMA PushStep ==
  ASSUME RegistrationInv, waiting < MaxWaiting, waiting' = waiting + 1, NEW st \in Storages, Push(st)
  PROVE  /\ ReadinessTypeOK' /\ HandledOnce' /\ waiting' \in 0..MaxWaiting
         /\ handlers'[st] = handlers[st] \cup {waiting'}
         /\ \A t \in Storages : t # st => handlers'[t] = handlers[t]
<1> USE DEF RegistrationInv
<1>1. waiting \in Nat /\ waiting' \in 0..MaxWaiting
  <2>1. waiting \in 0..MaxWaiting
    BY DEF RegistrationTypeOK
  <2>2. QED
    BY <2>1, Bounds
<1>2. Numbers(waiting') = Numbers(waiting) \cup {waiting'} /\ waiting' \notin Numbers(waiting)
  BY <1>1 DEF Numbers
<1>3. /\ handlers \in [Storages -> SUBSET Numbers(waiting)] /\ called \in [Numbers(MaxWaiting) -> Nat]
      /\ stores \subseteq Storages /\ noop \subseteq Storages /\ inTime \subseteq Numbers(waiting)
  BY DEF RegistrationTypeOK, ReadinessTypeOK
<1>4. /\ handlers'[st] = handlers[st] \cup {waiting'}
      /\ \A t \in Storages : t # st => handlers'[t] = handlers[t]
      /\ handlers' \in [Storages -> SUBSET Numbers(waiting')]
      /\ UNCHANGED <<stores, noop, called>>
  BY <1>2, <1>3 DEF Push
<1>5. inTime' \subseteq Numbers(waiting')
  BY <1>2, <1>3 DEF Push
<1>6. ReadinessTypeOK'
  BY <1>3, <1>4, <1>5 DEF ReadinessTypeOK
<1>7. HandledOnce'
  <2>1. \A s, t \in Storages : \A h \in handlers'[s] \cap handlers'[t] : s = t
    <3> SUFFICES ASSUME NEW s \in Storages, NEW t \in Storages, NEW h \in handlers'[s] \cap handlers'[t]
                 PROVE  s = t
      OBVIOUS
    <3>1. CASE h = waiting'
      BY <1>2, <1>3, <1>4, <3>1
    <3>2. CASE h # waiting'
      BY <1>4, <3>2 DEF HandledOnce
    <3>3. QED
      BY <3>1, <3>2
  <2>2. \A h \in Numbers(MaxWaiting) : called'[h] # 0 => \E t \in noop' : h \in handlers'[t]
    BY <1>3, <1>4 DEF HandledOnce
  <2>3. QED
    BY <1>4, <2>1, <2>2 DEF HandledOnce
<1>8. QED
  BY <1>1, <1>4, <1>6, <1>7

\* Nothing is pushed, though a call was made.
LEMMA NoPushStep ==
  ASSUME RegistrationInv, waiting < MaxWaiting, waiting' = waiting + 1, UNCHANGED readiness
  PROVE  ReadinessTypeOK' /\ HandledOnce' /\ waiting' \in 0..MaxWaiting
<1> USE DEF RegistrationInv
<1>1. waiting \in Nat /\ waiting' \in 0..MaxWaiting
  <2>1. waiting \in 0..MaxWaiting
    BY DEF RegistrationTypeOK
  <2>2. QED
    BY <2>1, Bounds
<1>2. Numbers(waiting) \subseteq Numbers(waiting')
  BY <1>1 DEF Numbers
<1>3. ReadinessTypeOK'
  BY <1>2 DEF RegistrationTypeOK, ReadinessTypeOK, readiness
<1>4. HandledOnce'
  BY DEF HandledOnce, readiness
<1>5. QED
  BY <1>1, <1>3, <1>4

\* What a call of the author's leaves alone.  A handler that is pushed after
\* the export has a greater number than those that are announced.
LEMMA AuthorStep ==
  ASSUME RegistrationInv, AuthorCalls, ReadinessTypeOK', HandledOnce', waiting' \in 0..MaxWaiting,
         hasSchedule' \in [Modes -> SUBSET Capabilities],
         hasSchedule["build"] \subseteq hasSchedule'["build"],
         \A c \in Capabilities :
           handlers'[<<c, "schedule">>] \subseteq handlers[<<c, "schedule">>] \cup {waiting'},
         \A c \in Capabilities : stage = "loading" /\ handlers'[<<c, "schedule">>] # {} =>
           handlers[<<c, "schedule">>] # {} \/ c \in hasSchedule'["build"]
  PROVE  RegistrationInv'
<1> USE DEF RegistrationInv, AuthorCalls
<1>1. UNCHANGED <<list, naming, mode, binding, offered, latest, pushed, bindings, asked, single,
                  exported, stage, watched, calls>>
  BY DEF setting, chains
<1>2. waiting \in Nat /\ waiting' = waiting + 1 /\ exported.waiting \in Nat /\ exported.waiting <= waiting
  <2>1. waiting \in 0..MaxWaiting /\ exported.waiting \in 0..waiting
    BY DEF RegistrationTypeOK
  <2>2. QED
    BY <2>1, Bounds
<1>3. ChainsInv'
  BY ChainsKept
<1>4. RegistrationTypeOK'
  BY <1>1, <1>2, <1>3 DEF RegistrationTypeOK, ChainsInv
<1>5. Recorded'
  BY <1>1 DEF Recorded
<1>6. Announced'
  <2> SUFFICES ASSUME stage \in {"constructed", "serving"} PROVE Announced'
    BY <1>1 DEF Announced
  <2>1. (\A k \in ListedActions(mode) : Seen(k) \in exported.actions)' /\ (watched # {} => WatcherDeployed)'
    BY <1>1 DEF Announced, ListedActions, Listed, Seen, WatcherDeployed
  <2>2. ASSUME NEW c \in Listed', NEW h \in Numbers(exported'.waiting), h \in handlers'[<<c, "schedule">>]
        PROVE  WatcherDeployed'
    <3>1. h \in Numbers(exported.waiting) /\ h # waiting' /\ c \in Listed
      BY <1>1, <1>2, <2>2 DEF Numbers, Listed
    <3>2. c \in Capabilities
      BY <3>1, ListedAreCapabilities
    <3>3. h \in handlers[<<c, "schedule">>]
      BY <2>2, <3>1, <3>2
    <3>4. WatcherDeployed
      BY <3>1, <3>3 DEF Announced
    <3>5. QED
      BY <1>1, <3>4 DEF WatcherDeployed
  <2>3. QED
    BY <2>1, <2>2 DEF Announced
<1>7. QED
  BY <1>3, <1>4, <1>5, <1>6

LEMMA StoreOnReadyStep ==
  ASSUME RegistrationInv, NEW c \in Capabilities, StoreOnReady(c)
  PROVE  RegistrationInv'
<1> DEFINE st == <<c, "store">>
<1>1. /\ st \in Storages /\ AuthorCalls /\ Push(st) /\ hasSchedule' = hasSchedule
      /\ waiting < MaxWaiting /\ waiting' = waiting + 1
  BY CapabilityStores DEF StoreOnReady, AuthorCalls
<1>2. ReadinessTypeOK' /\ HandledOnce' /\ waiting' \in 0..MaxWaiting
  BY <1>1, PushStep
<1>3. \A d \in Capabilities : handlers'[<<d, "schedule">>] = handlers[<<d, "schedule">>]
  <2> SUFFICES ASSUME NEW d \in Capabilities PROVE handlers'[<<d, "schedule">>] = handlers[<<d, "schedule">>]
    OBVIOUS
  <2>1. <<d, "schedule">> # st /\ <<d, "schedule">> \in Storages
    BY CapabilityStores
  <2>2. QED
    BY <1>1, <2>1, PushStep
<1>4. hasSchedule' \in [Modes -> SUBSET Capabilities]
  BY <1>1 DEF RegistrationInv, RegistrationTypeOK
<1>5. QED
  BY <1>1, <1>2, <1>3, <1>4, AuthorStep

LEMMA OnScheduleStep ==
  ASSUME RegistrationInv, NEW c \in Capabilities, OnSchedule(c)
  PROVE  RegistrationInv'
<1> DEFINE st == <<c, "schedule">>
<1>1. st \in Storages /\ AuthorCalls /\ waiting < MaxWaiting /\ waiting' = waiting + 1
  BY CapabilityStores DEF OnSchedule, AuthorCalls
<1>2. /\ hasSchedule' \in [Modes -> SUBSET Capabilities]
      /\ hasSchedule["build"] \subseteq hasSchedule'["build"]
      /\ stage = "loading" => c \in hasSchedule'["build"]
  <2>1. "build" \in Modes /\ hasSchedule \in [Modes -> SUBSET Capabilities]
    BY DEF Modes, RegistrationInv, RegistrationTypeOK
  <2>2. \A m \in Modes : hasSchedule'[m] = IF m \in Callers THEN hasSchedule[m] \cup {c} ELSE hasSchedule[m]
    BY DEF OnSchedule, Scheduled
  <2>3. stage = "loading" => "build" \in Callers
    BY <2>1 DEF Callers
  <2>4. hasSchedule' \in [Modes -> SUBSET Capabilities]
    BY <2>1 DEF OnSchedule, Scheduled
  <2>5. QED
    BY <2>1, <2>2, <2>3, <2>4
<1>3. CASE Push(st)
  <2>1. /\ ReadinessTypeOK' /\ HandledOnce' /\ waiting' \in 0..MaxWaiting
        /\ handlers'[st] = handlers[st] \cup {waiting'}
        /\ \A t \in Storages : t # st => handlers'[t] = handlers[t]
    BY <1>1, <1>3, PushStep
  <2>2. \A d \in Capabilities : d # c => handlers'[<<d, "schedule">>] = handlers[<<d, "schedule">>]
    <3> SUFFICES ASSUME NEW d \in Capabilities, d # c
                 PROVE  handlers'[<<d, "schedule">>] = handlers[<<d, "schedule">>]
      OBVIOUS
    <3>1. <<d, "schedule">> # st /\ <<d, "schedule">> \in Storages
      BY CapabilityStores
    <3>2. QED
      BY <2>1, <3>1
  <2>3. \A d \in Capabilities :
          handlers'[<<d, "schedule">>] \subseteq handlers[<<d, "schedule">>] \cup {waiting'}
    BY <2>1, <2>2
  <2>4. \A d \in Capabilities : stage = "loading" /\ handlers'[<<d, "schedule">>] # {} =>
          handlers[<<d, "schedule">>] # {} \/ d \in hasSchedule'["build"]
    BY <1>2, <2>2
  <2>5. QED
    BY <1>1, <1>2, <2>1, <2>3, <2>4, AuthorStep
<1>4. CASE UNCHANGED readiness
  <2>1. ReadinessTypeOK' /\ HandledOnce' /\ waiting' \in 0..MaxWaiting /\ handlers' = handlers
    BY <1>1, <1>4, NoPushStep DEF readiness
  <2>2. QED
    BY <1>1, <1>2, <2>1, AuthorStep
<1>5. QED
  BY <1>3, <1>4 DEF OnSchedule

-----------------------------------------------------------------------------
(* The constructor and what follows.                                       *)

LEMMA RegisteredAreStorages ==
  ASSUME RegistrationTypeOK, NEW eligible, NEW kind \in {"store", "schedule"}
  PROVE  Registered(eligible, kind) \subseteq Storages
<1>1. PICK m \in Modules : list = m.list
  BY DEF RegistrationTypeOK
<1>2. list \in Seq(Capabilities)
  BY <1>1, RegistrationAssumption
<1>3. \A i \in DOMAIN list : list[i] \in Capabilities
  BY <1>2
<1>4. QED
  BY <1>3 DEF Registered, Storages

\* Where an action is registered, build mode knows it.
LEMMA BuildHasAll ==
  ASSUME ChainsInv, NEW m \in Modes, NEW k \in bindings[m]
  PROVE  k \in bindings["build"] /\ k \in Numbers(Len(pushed))
<1>1. k \in Numbers(Len(pushed))
  BY DEF ChainsInv, Hosted
<1>2. "build" \in Modes /\ Registers("build", pushed[k].role)
  BY DEF Modes, Registers, RegisterAdmission, RegisterWatch
<1>3. QED
  BY <1>1, <1>2 DEF ChainsInv, Hosted

LEMMA ConstructStep == RegistrationInv /\ Construct => RegistrationInv'
<1> SUFFICES ASSUME RegistrationInv, Construct PROVE RegistrationInv'
  OBVIOUS
<1> USE DEF RegistrationInv, Construct
<1>1. UNCHANGED <<list, naming, mode, binding, offered, latest, pushed, bindings, asked, single,
                  hasSchedule, watched, handlers, noop, called, inTime, calls, waiting>>
  BY DEF setting, chains
<1>2. /\ exported'.actions = {Seen(k) : k \in ListedActions("build")}
      /\ exported'.schedules = hasSchedule["build"] \cap Listed
      /\ exported'.waiting = waiting
  OBVIOUS
<1>3. ChainsInv'
  BY ChainsKept
<1>4. stores' \subseteq Storages
  BY RegisteredAreStorages DEF RegistrationTypeOK, ReadinessTypeOK
<1>5. ReadinessTypeOK'
  BY <1>1, <1>4 DEF RegistrationTypeOK, ReadinessTypeOK
<1>6. waiting \in 0..waiting /\ stage' \in {"constructed", "dead"}
  <2>1. waiting \in 0..MaxWaiting
    BY DEF RegistrationTypeOK
  <2>2. QED
    BY <2>1, Bounds
<1>7. exported'.schedules \subseteq Capabilities
  BY <1>2, ListedAreCapabilities
<1>8. RegistrationTypeOK'
  BY <1>1, <1>2, <1>3, <1>5, <1>6, <1>7 DEF RegistrationTypeOK, ChainsInv
<1>9. HandledOnce'
  BY <1>1 DEF HandledOnce
<1>10. Recorded' /\ watched' = {}
  BY <1>1, <1>6 DEF Recorded
<1>11. Announced'
  <2>1. \A k \in ListedActions(mode)' : Seen(k)' \in exported'.actions
    <3> SUFFICES ASSUME NEW k \in ListedActions(mode)' PROVE Seen(k)' \in exported'.actions
      OBVIOUS
    <3>1. k \in ListedActions(mode) /\ Seen(k)' = Seen(k)
      BY <1>1 DEF ListedActions, Listed, Seen
    <3>2. mode \in Modes
      BY DEF RegistrationTypeOK, RunningModes
    <3>3. k \in ListedActions("build")
      BY <3>1, <3>2, BuildHasAll DEF ListedActions
    <3>4. QED
      BY <1>2, <3>1, <3>3
  <2>2. ASSUME NEW c \in Listed', NEW h \in handlers'[<<c, "schedule">>]
        PROVE  WatcherDeployed'
    <3>1. c \in Listed /\ c \in Capabilities
      BY <1>1, ListedAreCapabilities DEF Listed
    <3>2. c \in hasSchedule["build"]
      BY <1>1, <2>2, <3>1 DEF Recorded
    <3>3. QED
      BY <1>2, <3>1, <3>2 DEF WatcherDeployed
  <2>3. QED
    BY <1>10, <2>1, <2>2 DEF Announced
<1>12. QED
  BY <1>3, <1>8, <1>9, <1>10, <1>11

\* Data of a set of stores: each handler of theirs is called if it was not.
LEMMA ReceiveStep ==
  ASSUME RegistrationInv, NEW sts \in SUBSET Storages, Receive(sts), UNCHANGED handlers
  PROVE  /\ called' \in [Numbers(MaxWaiting) -> Nat] /\ noop' \subseteq Storages
         /\ HandledOnce'
<1> USE DEF RegistrationInv
<1>1. /\ called \in [Numbers(MaxWaiting) -> Nat] /\ noop \subseteq Storages
      /\ handlers \in [Storages -> SUBSET Numbers(waiting)]
  BY DEF RegistrationTypeOK, ReadinessTypeOK
<1>2. /\ called' = [h \in Numbers(MaxWaiting) |->
                     IF \E st \in sts \ noop : h \in handlers[st] THEN called[h] + 1 ELSE called[h]]
      /\ noop' = noop \cup sts
  BY DEF Receive, Numbers
<1>3. called' \in [Numbers(MaxWaiting) -> Nat] /\ noop' \subseteq Storages
  BY <1>1, <1>2
<1>4. ASSUME NEW h \in Numbers(MaxWaiting)
      PROVE  called'[h] <= 1 /\ (called'[h] # 0 => \E st \in noop' : h \in handlers[st])
  <2>1. called[h] \in Nat /\ called[h] <= 1 /\ (called[h] # 0 => \E st \in noop : h \in handlers[st])
    BY <1>1 DEF HandledOnce
  <2>2. CASE \E st \in sts \ noop : h \in handlers[st]
    <3>1. PICK st \in sts \ noop : h \in handlers[st]
      BY <2>2
    <3>2. \A t \in noop : h \notin handlers[t]
      BY <1>1, <3>1 DEF HandledOnce
    <3>3. called[h] = 0 /\ called'[h] = 1
      BY <1>2, <2>1, <2>2, <3>2
    <3>4. QED
      BY <1>2, <3>1, <3>3
  <2>3. CASE ~\E st \in sts \ noop : h \in handlers[st]
    BY <1>2, <2>1, <2>3
  <2>4. QED
    BY <2>2, <2>3
<1>5. HandledOnce'
  BY <1>4 DEF HandledOnce
<1>6. QED
  BY <1>3, <1>5

LEMMA ReadyStep == RegistrationInv /\ Ready => RegistrationInv'
<1> SUFFICES ASSUME RegistrationInv, Ready PROVE RegistrationInv'
  OBVIOUS
<1> USE DEF RegistrationInv, Ready
<1>1. UNCHANGED <<list, naming, mode, binding, offered, latest, pushed, bindings, asked, single,
                  hasSchedule, exported, handlers, inTime, calls, waiting>>
  BY DEF setting, chains
<1>2. OfKind("store") \in SUBSET Storages
  BY DEF OfKind, RegistrationTypeOK, ReadinessTypeOK
<1>3. called' \in [Numbers(MaxWaiting) -> Nat] /\ noop' \subseteq Storages /\ HandledOnce'
  BY <1>1, <1>2, ReceiveStep
<1>4. stores' \subseteq Storages
  BY RegisteredAreStorages DEF RegistrationTypeOK, ReadinessTypeOK
<1>5. ReadinessTypeOK'
  BY <1>1, <1>3, <1>4 DEF RegistrationTypeOK, ReadinessTypeOK
<1>6. ChainsInv'
  BY ChainsKept
<1>7. mode \in Modes /\ watched' \subseteq {k \in ListedActions(mode) : IsWatch(k)}
  BY DEF RegistrationTypeOK, RunningModes
<1>8. watched' \subseteq Numbers(Len(pushed'))
  BY <1>1, <1>7, BuildHasAll DEF ListedActions
<1>9. RegistrationTypeOK'
  BY <1>1, <1>5, <1>6, <1>8 DEF RegistrationTypeOK, ChainsInv
<1>10. Recorded'
  BY DEF Recorded
<1>11. Announced'
  <2>1. Announced /\ stage = "constructed"
    OBVIOUS
  <2>2. \A k \in ListedActions(mode) : Seen(k) \in exported.actions
    BY <2>1 DEF Announced
  <2>3. watched' # {} => WatcherDeployed
    <3> SUFFICES ASSUME NEW k \in watched' PROVE WatcherDeployed
      OBVIOUS
    <3>1. Seen(k) \in exported.actions /\ pushed[k].role \in {"Watch", "Reconcile"}
      BY <1>7, <2>2 DEF IsWatch
    <3>2. Seen(k).role = pushed[k].role
      BY DEF Seen
    <3>3. QED
      BY <3>1, <3>2 DEF WatcherDeployed
  <2>4. QED
    BY <1>1, <2>1, <2>3 DEF Announced, ListedActions, Listed, Seen, WatcherDeployed
<1>12. QED
  BY <1>3, <1>6, <1>9, <1>10, <1>11

LEMMA DataStep ==
  ASSUME RegistrationInv, NEW kind \in {"store", "schedule"}, Data(kind)
  PROVE  RegistrationInv'
<1> USE DEF RegistrationInv, Data
<1>1. UNCHANGED <<list, naming, mode, binding, offered, latest, pushed, bindings, asked, single,
                  hasSchedule, exported, stage, watched, stores, handlers, inTime, calls, waiting>>
  BY DEF setting, chains
<1>2. OfKind(kind) \in SUBSET Storages
  BY DEF OfKind, RegistrationTypeOK, ReadinessTypeOK
<1>3. called' \in [Numbers(MaxWaiting) -> Nat] /\ noop' \subseteq Storages /\ HandledOnce'
  BY <1>1, <1>2, ReceiveStep
<1>4. ReadinessTypeOK'
  BY <1>1, <1>3 DEF RegistrationTypeOK, ReadinessTypeOK
<1>5. ChainsInv'
  BY ChainsKept
<1>6. RegistrationTypeOK'
  BY <1>1, <1>4, <1>5 DEF RegistrationTypeOK, ChainsInv
<1>7. Recorded' /\ Announced'
  BY <1>1 DEF Recorded, Announced, ListedActions, Listed, Seen, WatcherDeployed
<1>8. QED
  BY <1>3, <1>5, <1>6, <1>7

LEMMA NextInv == RegistrationInv /\ [Next]_vars => RegistrationInv'
<1> SUFFICES ASSUME RegistrationInv, [Next]_vars PROVE RegistrationInv'
  OBVIOUS
<1>1. CASE Next
  <2>1. ASSUME NEW s \in Selectors,
               \/ \E c \in Capabilities : When(s, c)
               \/ \E method \in Events : BindEvent(s, method)
               \/ \E ns \in Namespaces : InNamespace(s, ns)
               \/ \E name \in ObjectNames : WithName(s, name)
               \/ \E label \in Labels : WithLabel(s, label)
               \/ \E role \in Actions : Action(s, role)
        PROVE  RegistrationInv'
    BY <2>1, WhenStep, BindEventStep, FiltersStep, ActionStep
  <2>2. ASSUME NEW c \in Capabilities, StoreOnReady(c) \/ OnSchedule(c) PROVE RegistrationInv'
    BY <2>2, StoreOnReadyStep, OnScheduleStep
  <2>3. CASE Construct \/ Ready
    BY <2>3, ConstructStep, ReadyStep
  <2>4. CASE \E kind \in {"store", "schedule"} : Data(kind)
    BY <2>4, DataStep
  <2>5. QED
    BY <1>1, <2>1, <2>2, <2>3, <2>4 DEF Next
<1>2. CASE UNCHANGED vars
  <2>1. UNCHANGED <<list, naming, mode, chains, hasSchedule, exported, stage, watched, stores, handlers, noop,
                    called, inTime, calls, waiting>>
    BY <1>2 DEF vars, setting, readiness
  <2>2. UNCHANGED <<binding, offered, latest, pushed, bindings, asked, single>>
    BY <2>1 DEF chains
  <2>3. ChainsInv'
    BY <2>1, ChainsKept DEF RegistrationInv
  <2>4. ReadinessTypeOK' /\ HandledOnce'
    BY <2>1 DEF RegistrationInv, RegistrationTypeOK, ReadinessTypeOK, HandledOnce
  <2>5. RegistrationTypeOK'
    BY <2>1, <2>2, <2>3, <2>4 DEF RegistrationInv, RegistrationTypeOK, ChainsInv
  <2>6. Recorded' /\ Announced'
    BY <2>1, <2>2 DEF RegistrationInv, Recorded, Announced, ListedActions, Listed, Seen, WatcherDeployed
  <2>7. QED
    BY <2>3, <2>4, <2>5, <2>6 DEF RegistrationInv
<1>3. QED
  BY <1>1, <1>2

LEMMA InvAlways == Spec => []RegistrationInv
BY InitInv, NextInv, PTL DEF Spec

-----------------------------------------------------------------------------
(* Theorems.                                                               *)

LEMMA HostedIsOnce == RegistrationInv => HostedOnce
<1> SUFFICES ASSUME RegistrationInv, NEW k \in Numbers(Len(pushed))
             PROVE  /\ k \in bindings["build"] /\ k \in bindings["dev"]
                    /\ k \in bindings["watch"] <=> k \notin bindings["admission"]
                    /\ k \in bindings["watch"] <=> IsWatch(k)
  BY DEF HostedOnce
<1>1. pushed[k].role \in Actions
  BY PushedTypes DEF RegistrationInv, RegistrationTypeOK
<1>2. \A m \in Modes : k \in bindings[m] <=> Registers(m, pushed[k].role)
  BY DEF RegistrationInv, ChainsInv, Hosted
<1>3. QED
  BY <1>1, <1>2 DEF Modes, Actions, Registers, RegisterAdmission, RegisterWatch, IsWatch

LEMMA KeptAreFilters == RegistrationInv => FiltersKept
<1> SUFFICES ASSUME RegistrationInv, single, NEW k \in Numbers(Len(pushed)) PROVE Seen(k) = asked[k]
  BY DEF FiltersKept
<1>1. /\ pushed[k].event = asked[k].event /\ pushed[k].role = asked[k].role
      /\ binding[pushed[k].selector].filters = asked[k].filters
  BY DEF RegistrationInv, ChainsInv, Kept
<1>2. asked[k] \in [event : EventNames, role : Actions, filters : FilterSets]
  <2> DEFINE Asks == [event : EventNames, role : Actions, filters : FilterSets]
  <2>1. asked \in Seq(Asks) /\ k \in 1..Len(asked)
    BY DEF RegistrationInv, ChainsInv, ChainsTypeOK, Numbers
  <2> HIDE DEF Asks
  <2>2. asked[k] \in Asks
    BY <2>1
  <2>3. QED
    BY <2>2 DEF Asks
<1>3. QED
  BY <1>1, <1>2 DEF Seen

\* The records of chains, the actions they registered and the ready handlers
\* are always of their types (src/lib/capability.ts, src/lib/storage.ts).
THEOREM RegistrationTypeCorrect == Spec => []RegistrationTypeOK
BY InvAlways, PTL DEF RegistrationInv

\* Each action is run by exactly one of admission and watch processes, by that
\* of "peppr dev", and is known to the build (src/lib/capability.ts:26-27,
\* where registerAdmission and registerWatch are computed).
THEOREM HostedOnceAlways == Spec => []HostedOnce
BY InvAlways, HostedIsOnce, PTL

\* An action keeps event and filters that its chain had when it was registered,
\* unless the author branched a chain: what chains return offers no filter
\* after an action (src/lib/types.ts), though records share their filters.
THEOREM FiltersKeptAlways == Spec => []FiltersKept
BY InvAlways, KeptAreFilters, PTL

\* What a process has in scope the export has, with the same filters; and one
\* that watches or waits to run a schedule is deployed (src/lib/module.ts:81-102).
THEOREM AnnouncedAlways == Spec => []Announced
BY InvAlways, PTL DEF RegistrationInv

\* No ready handler is called twice, whenever and wherever it was registered
\* and whatever data comes (receive() of src/lib/storage.ts).
THEOREM CalledOnceAlways == Spec => []CalledOnce
<1>1. RegistrationInv => CalledOnce
  BY DEF RegistrationInv, HandledOnce, CalledOnce
<1>2. QED
  BY <1>1, InvAlways, PTL

=============================================================================
