# TLA+ models and proofs for peppr

peppr turns a TypeScript module of *capabilities* into an admission webhook and a watch controller for
Kubernetes. This directory holds TLA+ modules of the parts of it in which order, concurrency and failure
decide what happens, TLC configurations that check them on small instances, and TLAPS proofs of what
matters most for instances of any size. Sources are named relative to the repository (`src/lib/queue.ts`).

1. [The system](#1-the-system)
2. [What is modelled, and how it corresponds to the code](#2-modules-and-the-code)
3. [What the runs check](#3-runs)
4. [Fairness](#4-fairness)
5. [What is proved](#5-proofs)
6. [Findings](#6-findings)
7. [What is not modelled, and the plan](#7-not-modelled-and-the-plan)

## 1. The system

A deployed module runs as several processes from one program: replicas of the *admission controller* and one
*watch controller* (`peppr_WATCH_MODE`). They share nothing in memory. They talk to
the API server, and share the `PepprStore` custom resources through it. Within a process JavaScript runs one
piece of code at a time and switches only where a function awaits, a timer fires or a request comes in; so an
action of a model is the code between two such points.

| Component | State it keeps | Operations | Talks to |
|---|---|---|---|
| Reconcile queue (`queue.ts`) | `#queue`, `#pendingPromise`, the promise of each element | `enqueue`, `#dequeue` | watch processor |
| Watch processor (`watch-processor.ts`, filters in `helpers.ts`) | one watcher and perhaps one queue for each binding | `setupWatch`, `runBinding`, `watchCallback`, give-up | API server (watch), module author's callbacks |
| Store, write side (`controller/store.ts` `#send`) | `sendCache` of each capability | `fillCache`, `flushCache`, interval | API server (JSON patch) |
| Store, read side (`controller/store.ts` `#receive`, `storage.ts`) | `#sendDebounce`, `#store`, subscribers, `...AndWait` promises | watch event, debounce timer, `receive`, `setItemAndWait`, `removeItemAndWait`, `clear` | API server (watch), capabilities |
| Store, start (`controller/store.ts`) | `#stores`, `#onReady`, migration cache | jittered Get, migration, creation, first receive | API server, controller |
| Admission (`controller/index.ts`, `mutate-processor.ts`, `validate-processor.ts`, request wrappers, `utils.ts`) | per request: the wrapped object, the undecoded keys, the response | both webhook handlers | API server, callbacks |
| Filters, rules (`filter.ts`, `helpers.ts`, `assets/webhooks.ts`) | none | pure functions | admission, watch processor, deployment |
| Schedules (`schedule.ts`) | completions, last timestamp, interval; saved in a store | `setupInterval`, `start`, `run`, `stop` | store |
| Capability registration (`capability.ts`, `module.ts`) | bindings of each `When()`, `hasSchedule`, ready handlers | chains of calls, `OnSchedule`, `onReady`, constructor and export | all of the above |
| Controller (`controller/index.ts`) | `#running`, token, bound endpoints | start, listen, EADDRINUSE retry, SIGTERM | store, watch processor |
| Metrics (`metrics.ts`) | cache-miss windows, counters | rolling window | watch processor, controller |
| Build (`cli/build.ts`, `assets/index.ts`, `assets/yaml.ts`, `assets/helm.ts`) | the bundle and the files on disk | bundle, load, validate, write manifest and chart | `peppr dev` in the same directory, the installed chart |
| Deploy, assets (`assets/`, `cli/deploy.ts`) | cluster resources | ordered Apply and Delete | API server |
| Development server (`cli/dev.ts`) | the forked module process | rebuild, restart, clean up | API server |

How the parts interact. The store has to be ready before the controller binds the webhook endpoints and sets
up the watches. A watch event goes from the watcher to the binding's callback, directly or through its queue.
A callback, an admission action or a schedule writes to its capability's `Storage`, which hands the operation
to the sender; the interval sends a batch as one patch; the API server applies it and tells every process's
watch; after the debounce each process replaces its copy and calls the listeners that `...AndWait` calls and
`subscribe()` left there.

What is hard, and what makes each part correct:

- *Queue*: an enqueue may come while a reconcile is awaited, just before it ends or in the same turn. Correct:
  no overlap, nothing stranded, lost or repeated, promises settle in the order of arrival, also after errors.
- *Watch processor*: errors, a watch that gives up (the process exits and is restarted), callbacks that overlap
  or never return. Correct: only selected events reach the callback; with the queue the effects of an object's
  events never go back; after give-ups the binding catches up.
- *Store, write side*: patches overlap, are refused as a whole, fail before or after they took effect, and are
  retried. Correct: no path ever takes a value nobody requested for it; caches drain; what was requested last
  is what is stored (the code breaks this one in several ways, see the findings).
- *Store, read side*: each event restarts the debounce; waiting calls race a timeout; processes crash and come
  back. Correct: copies only move forward and converge; a waiting call settles once, and resolves exactly when
  its own store shows what it asked for.
- *Admission*: several actions with one failing, two webhooks that see different objects, `failurePolicy` while
  a slow handler still works, Secrets that are decoded for the callbacks. Correct: with `onError: reject`
  nothing slips through; otherwise peppr's own trouble blocks nothing; no action runs where it should not;
  what the callbacks did is persisted, Secrets encoded exactly once.
- *Registration*: the same code is loaded by the build, which decides what is deployed, and by each process that runs;
  chains can be branched and share their filters; handlers are registered before and after the data they wait for.
  Correct: each action runs in one place, with the filters it was given; what a process does has been announced to
  the build; a handler runs once, and does run if its store can become ready.
- *Build*: the code is bundled, run and read twice, files are written one after another over those of earlier builds,
  any step can end the command. Correct: nothing of a refused module is written, files belong together, and a chart
  starts.
- *Filters*: admission and watch have separate filter code. Correct: they agree with each other, with the rules
  of the webhooks, and with what the author of a module is told.

`PROJECT.json` lists every hazard with its line, the properties that guard it or the reason why none does.

## 2. Modules and the code

| Module | Models | Builds on |
|---|---|---|
| `OrderedReconcile` | abstract: a line of calls, the head of which is reconciled | |
| `ReconcileQueue` | `src/lib/queue.ts` | |
| `WatchBinding` | one binding of `src/lib/watch-processor.ts`, with its queue | `ReconcileQueue` |
| `ReconcileProofs` | theorems about the queue and the binding | `WatchBinding` |
| `StoreSender` | `#send` of `src/lib/controller/store.ts` | |
| `SharedStore` | abstract: one history of the data, of which each store sees some moment | |
| `StoreSync` | `#receive`, `src/lib/storage.ts`, crashes and restarts of processes | `StoreSender` |
| `StoreProofs` | theorems about the senders and the whole store | `StoreSync` |
| `StoreBoot` | start, migration and key prefixes of `src/lib/controller/store.ts`, and what waits for it | |
| `StoreBootProofs` | theorems about the start of stores | `StoreBoot` |
| `Schedule` | `src/lib/schedule.ts` with the record it keeps in a store | |
| `ScheduleProofs` | theorems about schedules | `Schedule` |
| `Registration` | `src/lib/capability.ts`, the constructor of `src/lib/module.ts`, ready handlers of `src/lib/storage.ts` | |
| `RegistrationProofs` | theorems about registration | `Registration` |
| `DevSession` | a session of `peppr dev`: `src/cli/dev.ts`, the deployment of webhooks, the processes it starts | |
| `Deploy` | `peppr deploy`: `src/lib/assets/deploy.ts`, the wait in `helpers.ts`, `src/runtime/controller.ts`, and the pods | |
| `DeployProofs` | theorems about deployments | `Deploy` |
| `Build` | `peppr build`: `src/cli/build.ts`, `src/lib/assets/index.ts`, `yaml.ts`, `helm.ts`, `loader.ts`, and the chart that is installed | |
| `BuildProofs` | theorems about builds | `Build` |
| `Filters` | `filter.ts`, the watch filter and namespace rules of `helpers.ts`, `assets/webhooks.ts` | |
| `Admission` | one request through both webhooks | `Filters` |
| `AdmissionProofs` | theorems about admission and filters | `Admission` |
| `MC...` | constants for TLC | |

`PROJECT.json` maps each definition to the lines it translates. Definitions named in a comment as *Mutant* are
plausible mistakes, used to see that a property fails when the code is wrong.

**ReconcileQueue.** `queue`, `pendingPromise` are the fields of the class; `running` are the elements whose
reconcile is awaited (the await in `#dequeue`), a sequence so that a mistake could put two into it; `promise`
is what `enqueue()` returned for each call. `Enqueue` is `enqueue()` with its call of `#dequeue` up to the
await or the early return. `Settle` is everything after the await: resolve or reject, the `finally` that lowers
the flag, and the recursive `#dequeue`, all in one turn. `Hanging` are calls whose reconcile never settles.

**WatchBinding.** `Change` is the cluster, `Deliver` the watcher that calls `watchCallback` (through the queue
for a Reconcile binding); `Complete`, `Skip` and `Throw` are the ways in which `watchCallback` returns. It
catches what the author's callback throws. `GiveUp` is `process.exit(1)`: queue, promises and undelivered events
go. `Restart` is the new process, whose watcher lists the existing objects as ADDED, in any order. `applied` is
the last event of an object that was handled to the end, which stands for the callback's effect.
External: events of an object arrive in order, and the watcher does not wait for earlier callbacks.

**StoreSender.** One sender is the closure `#send(name)` made for one capability in one process. The cache is a
JavaScript object whose values are sent in insertion order; operations on different paths commute, so the model
keeps only the order of operations on one path (`before`), and the indexes that hold `undefined` (`lost`).
`SetItem` and `RemovePaths` (of which `RemoveItem` and `clear()` are cases) are the calls of `Storage` down to `fillCache`; `FlushCache` is the interval up to the
await; `Reply` is the rest of `flushCache`. Between them the API server applies, refuses or fails the patch.
External: a JSON patch is atomic; a remove of a missing path or a malformed operation is answered with 422; any
other failure may come before or after the effect. `last` and `asked` are history: what was requested last, and which capability ever requested what.

**StoreSync.** Adds to the senders the watch (`stream`), the debounce timer (`debounced`, the versions that armed
timers hold: never more than one as the code is written), `Storage.#store` as an index into the history of the
resource (`view`) and the `...AndWait` promises. A timer has no clock: it fires at any time. `Crash` ends a
process with all it holds; its patches may still arrive (`OrphanPatch`). `ClearEmpty` is `clear()` on an empty
store, which ends the process. A restarted process sees the resource as it is by then. `Claims` says of which capabilities a Storage holds the keys:
`#receive` compares prefixes without the hyphen, so foo's Storage holds foo-bar's keys too, and `clear()` of foo removes what is `Held`.
(Of foobar's keys it holds mutilated ones; such names are left out of this module, and are in `StoreBoot`.)

**Filters, Admission.** An action is a binding with its capability's name and namespaces. Labels and annotations
are filtered by the same code, so `labels` stands for either; group, version, kind and plural are one value. `Sent` is what the API server sends to a webhook:
the rules, and `Selected`, the selectors that exempt namespaces (`Ignored` by name, `Exempt` by their label) and objects labelled `peppr.dev=ignore`. `Call`
evaluates the rules that `generateWebhookRules` makes and decodes a Secret as the handler does. `SkipAction`, `MutateSucceeds`,
`MutateThrows`, `MutateRejects`, `ValidateResponds`, `ValidateThrows` are one turn of the loops over capabilities
and bindings; `MutateAnswers` and `ValidateAnswers` build the response, and the API server acts on it. `CallFails` stands
for whatever leaves the API server without answer: no endpoint (the store is not ready), a 500, a lost pod, or
a slow handler; then `failurePolicy` decides and what the handler still does has no effect. Requests share nothing in
the module, so one request suffices. Data of a Secret is a text with the number of times it is encoded; the text
is ASCII, binary, or new (written by a callback). External: the API server calls the mutating webhook
first, applies its patch, then calls the validating one. `Init` takes modules that pass
`namespaceComplianceValidator`, as `peppr build` enforces; `peppr deploy` and `peppr dev` do not run it (a listed hazard).

**StoreBoot.** `stage` is how far a process has come: `getting` (the jittered Get), `migrating` (the patch that
`#migrateAndSetupWatch` awaits), `creating` (the Apply of `#createStoreResource`), `watching`, `ready`. `stuck` is
a process that got no further and whose `/healthz` is therefore never bound; `ProbeFails` is the restart that
follows. `deaf` is a process that was ready when its store watch gave up. Names and keys are sequences of pieces, of which
a hyphen is one, since the code's mistakes are about prefixes of them: `Claims` is `startsWith(name, key)`, which does not look for the
hyphen, so that foo, foo-bar and foobar (two pieces, without a hyphen) can be told apart as in the code; `Stripped` is `key.slice(offset)`. `Old`, `Removes` and `Adds` are the operations that
the migration collects for each capability in the order of registration; one whose index is in the cache already stays in its place.
`Removed`, `LastAdded` and `Applicable` say what the whole patch does to a key: the last operation on a path decides, and a
removal needs the key to be there. (Executing the operations one by one gives the same; the closed form can be reasoned about.)
`owed` is history: what a
capability stored last. Batches, debounce and late events are in StoreSync, so here a write takes effect at once.

**Schedule.** `phase` follows `setStore()`: `loading` until the schedule store is ready, `delayed` while
`setTimeout` runs, `interval`, `stopped`. `timer` counts down to the next firing. `saved` and `cached` are the
record in the resource and the operation in the sender's cache, `poisoned` says that a failed patch left
`undefined` there. The age of a record stands for its `lastTimestamp`. Time passes in units, of which `Every` make the
interval; nothing that is due waits for the next unit, and what is cached is flushed within one, because the flush
interval of five seconds is at most half of the shortest schedule. `sinceRun` and `runs` are history over all processes.

**DevSession.** Each build has a number, which the call of `runFork()` it leads to and the process that makes share.
`step` follows one of them: `waiting` for the `exit` event of the program (`program.once("exit", runFork)`), then `loading`
the capabilities in a process in build mode, `mutating` and `validating` (the two Applies of a deployment with a host), `forking`; then its
process: `running`, `ready`, `exited`, `closed`. What the author made of the module is `kind`: sound; `silent`, which throws, so that
`loadCapabilities()` never hears of it (`hung`) and a process made from it ends; or `misnamed`, which `validateCapabilityNames()` refuses
after the webhooks are deployed (`NamesRefused`, `process.exit(1)`). `Build` is the reloader, which esbuild awaits before it builds again;
`awaiting` says which call it awaits. `Close` is the handler that sends the four deletions at once; each
of them takes effect later, in any order (`Delete`). `Exits` runs the `exit` handlers: none for a program that
ended before the build that registered one, so that build waits for ever. `Interrupt` is CTRL+C, which the terminal sends to all processes. `calm` and
`tidy` are history: whether every build found the session settled and no deletion came late, and whether
nothing was being deployed when the session was interrupted.

**Deploy.** `at` is the next step of `peppr deploy`, in the `Order` of `deploy()`, `setupController()` and `setupWatcher()`;
then the names are validated and the readiness is polled. `cluster` tells which deployment applied a resource; its content
follows from that (`code`, and the certificate, token and time stamp that each `Assets` makes anew). `Fails` is any failing request, an
oversized module, or CTRL+C. Pods are the environment: `Create` and `Retire` are a rolling update with one pod
more than replicas (25% of two, rounded) and, for the watcher, `Recreate`. A container's process comes up in three steps, between which
deployments go on: `LoadModule` is `runModule()`, which finds the hash of its command line in the module's secret or lets the container end; the process
it forks reads the certificate (`LoadCertificate`) and then the token and listens (`LoadToken`). `overtaken` is history: the module's secret was
replaced between the first and the second. External, and an idealisation: a container is not made before its secrets exist, and a mount shows what a secret holds at that moment; the kubelet
may in fact show it later, so that a process can meet older secrets than the model says.

**Registration.** `binding` is the record that `When()` closes over; each method copies the author's argument into it,
and `Action` pushes what JavaScript's spread makes of it: a copy of the event and a reference to the filters, so
`Seen` reads them from the record. `offered` are the methods of all objects a chain has returned, `latest` those of
the last one: `After` is what the interfaces and the returned object literals allow. `bindings` has a set for each
kind of process, since the same calls are made in all of them while the code is loaded; `mode` is the one process
that is followed through `Construct` (the end of the constructor of `pepprModule`: it sends the export in build mode, or
starts the Controller, which registers the stores), `Ready` (the store's `onReady`: endpoints, watches, and the second store for
schedules) and `Data` (`receive()`). `StoreOnReady` and `OnSchedule` may also come later, from callbacks. `asked`, `single` and `inTime` are
history. In a build no data comes, so the process in build mode only exports.

**Build.** `at` is the next step of the command, in `Order`; a file on disk is the number of the build that wrote it, and
stands for its certificate, token and time stamp. `bundle` is the file that both `peppr build` and `peppr dev` write,
and which is run (`Load`) and then read twice (`ReadCode`, `ReadAgain`). `Ends` is a return, an `exit` or an exception: `refused` by a check,
`failed` at a step or by CTRL+C, `silent` when the module ends without an answer, `library` without `--embed`. `CheckOptions` has the order of the code: the check of
images, the return without `--embed`, then the check of the pull secret.
`WatcherPod`, `AdmissionPod`, `ModuleSecret`, `Runs`, `Reaches` say what an installed chart makes of the files: the hash
in the command line, the code and its name in the secret, the certificate and token the webhook trusts.

## 3. Runs

Every `CHECK_DEADLOCK FALSE` is there because the environment's bounds end the behaviour: no more calls, writes or requests.

| Run | Question | Bounds, and why they suffice |
|---|---|---|
| `reconcile_queue` | Does the queue keep one reconcile at a time and lose, repeat, strand or reorder nothing? Does it implement `OrderedReconcile`? | Four calls: one running, one next, and two behind it, each ending well or badly. A defect needs a call that arrives at one of three moments; the theorems cover any number |
| `watch_binding` | Which events are handled, in which order, and what does the last state of an object come to? | Two objects, one filtered out; two versions; bindings for one and two phases, with and without queue; one give-up, one error, one hanging call. Two events of one object are what overlapping needs, a second object is what a give-up with two objects to list needs |
| `sender_shared` | Do overlapping batches of one capability in two processes and of another one ever write what nobody asked for, and does every cache drain? | Three senders, one key, two values, three operations, two patches of a sender in flight, one failure: the second patch of a sender overlaps the first, and a refusal meets a cache that has been refilled |
| `sync_shared` | What does a capability see of what it and other processes wrote? Does the store implement `SharedStore`? | Two processes that both write one key, one value and its removal, two requests, two patches of a sender in flight, one waiting call, and one failure, crash or `clear()`. Setting and removing one key are requests that conflict, so two of them, from one process in two patches or from two processes, have every order in which the resource can take them; the mishap can fall anywhere between |
| `admission` | With several actions and any of them failing: what is persisted, refused, run, kept and encoded? | 100 modules of two or three actions of two capabilities, three `onError` modes, all operations, two kinds, four namespaces of which one is ignored and one has the exempting label, objects with and without that label, Secrets with ASCII and binary data. Actions interact pairwise (an earlier one changes what a later one sees), a third one is the validating counterpart |
| `store_boot` | Do processes come up on any kind of data, together, with failures, and is nothing lost? | Two processes, two capabilities with two keys, resource absent, empty, old, and current; two writes, one failure, one crash. The races are between two migrations and a write. Names that begin one another are left to `Separate`: with them the properties fail |
| `schedule` | Does a schedule run on time, not too often and, in the end, often enough? | Completions two, three or unlimited, `startTime` now, soon and after more than an interval; two crashes, one failed patch; an interval of two units, so that a crash can come within it. `MaxRuns` only stops the count of an unlimited schedule |
| `dev_session` | Does the last build run in the end, in one process, with its own webhooks, and is everything gone after the session? | Three builds, one of which may throw or have an invalid name: one running, one waiting for its exit, one more during that; one failed deployment, one process that ends by itself, CTRL+C at any time |
| `deploy` | Do pods ever serve webhooks made from other code, does a successful deployment serve, and does waiting end? | Five plans, one of three deployments and four of two, of modules with watcher, without, and with a bad name before or after a good one; one failure anywhere, one container that ends anywhere, also while it starts. Old code meets new secrets with two deployments and one restart; a watcher that comes, is left and comes again needs three |
| `registration` | Does each action run in one place, with its filters; does the build know what processes do; do handlers run once? | Five calls, of which two actions and two handlers, one selector; modules of two capabilities, two with one name, one listed twice; each kind of process. Branching takes two actions and a filter; a handler can be late or early for each of two stores |
| `build` | Is anything of a refused build written, do the files belong together, does what a successful build wrote start? | Three builds in five plans of modules of five kinds, with and without `--embed` and bad options, one failure or interruption anywhere, one rewrite of the bundle anywhere: a stale file needs two builds, its repair a third |
| `sender_absent` | Violation of `LastRequestStored` by a removal of an absent key | one sender, two keys |

Two type invariants are also checked in a run (`BindingTypeOK`, `AdmissionTypeOK`); every type invariant is proved.
What the passing runs show, by property, is stated with each property in its module. The ones to read first:

- `SingleFlight`, `ImplementsOrder`, `EachCallOnce`: reconciles never overlap, and the queue is a line, in which each call is reconciled once, in order.
- `Converges`, `EffectsInOrder`: a Reconcile binding ends up with the latest version of every object, and never goes
  back on the way, errors of the callback aside, whatever the watch does. Its price: one callback that never
  returns stops the binding.
- `ImplementsSharedStore`, `WritesBecomeVisible`: what the store promises while nothing fails,
  and the conditions that the promise needs: only present keys removed, and no other request for the same key on its way, from this process or another.
- `Guarded`, `RefusedForCause`: `onError` means what it says in both directions. `OnlyGoverned`, `MutationsKept`, `SecretsIntact`, `FiltersAgree`: no
  action runs where it should not, what callbacks did is persisted, Secrets encoded once, and rules and filters agree.
- `PreservedUnlessFailed`, `ComesUp`, `ReadsBack`: any number of processes migrate the same data at the same time.
- `CatchesUp`, `Serves`: builds may come as fast as they like; webhooks stay right only if they do not.
- `HostedOnce`, `CalledOnce`: an action has one kind of process, a handler one call. `FiltersKept`, `Announced`: branching aside, nothing that is registered later changes an action, and no process does what the build has not announced.
- `OnlyValidated`, `OneBuild`, `SuccessIsWhole`: the files of builds over files of builds, and when they make a chart that starts.
- `SameCode`, `ServesInTheEnd`: both depend on the order in which `deploy()` applies things. The order does not protect a process that a
  deployment overtakes while it starts; `SameCode` names that exception, and `ServesInTheEnd` shows that it does not last.
- `CompletionsHold`, `OnTime`, `RunsOut`: a schedule over crashes, with the exact number of surplus runs.

## 4. Fairness

| Assumed weakly fair | Because |
|---|---|
| `Settle` of calls outside `Hanging`; `Complete`, `Skip` | the author's callbacks return, except those declared to hang; the runtime runs the continuation of a settled promise |
| `Deliver`, `WatchEvent` | kubernetes-fluent-client delivers what the watch has received as long as it has not given up |
| `FlushCache`, `Tick`, `Receive`, `WaitTimeout`, `DelayOver`, `Run`, `Stop` | `setInterval` and `setTimeout` fire, in a program that never blocks the event loop |
| `Patch`, `Reply`, `ServerPatch`, `AnswerArrives`, `Migrate`, `GetSucceeds`, `Create` | a request is answered, with success or failure: the client's socket times out |
| `Restart`, `ProbeFails`, `Start` | the Deployment restarts a container that ended, the kubelet one whose liveness probe fails |
| `TimePasses` | time does |
| `Load`, `ApplyMutate`, `ApplyValidate`, `NamesRefused`, `Fork`, `Ready`, `Exit`, `Close`, `Listen`, `Delete` (`DevSession`) | requests are answered, a killed process ends, Node calls its handlers, the retry of `listen` has a timer |
| `Apply`, `Validate`, `Poll`; `Create`, `Retire`, `LoadModule`, `LoadCertificate`, `LoadToken` (`Deploy`) | requests are answered and the poll has a timer; controllers and kubelets keep trying |
| `Construct`, `Ready`, `Data("schedule")` (`Registration`) | the author's code comes to its end, and the stores become ready, which is `ComesUp` of `StoreBoot` |

Nothing is assumed of failures, crashes, give-ups, writes, clears, requests, builds, interrupts and new deployments: they may happen or not. Weak
fairness suffices everywhere, since none of these steps is taken away again by a rival that could do so for ever.
`Admission` and `Build` have safety properties only.

## 5. Proofs

TLAPS checks the theorems for all values of the constants that satisfy the named assumptions of the modules
(`HangingAssumption`, `BindingAssumption`, `SenderAssumption`, `SyncAssumption`, `BootAssumption`, `AdmissionAssumption`,
`ScheduleAssumption`, `DeployAssumption`, `BuildAssumption`, `RegistrationAssumption`; TLC evaluates them for the instances). They say
what the constants are: bounds are natural numbers, sets of calls are finite, requests have the fields of requests. Six theorems
need more and say so in their statements (`ValuedLabels`, `Separate`, `OneVersion`, `Owned`, below).
The instances that TLC checks satisfy these too, and each of the inductive invariants was first checked by TLC on such an instance.

**Queue** (`ReconcileProofs`). `EachCallOnce` alone is not inductive: a state in which the flag is down
and an element runs would let a second one start. `FlagInv` closes that: the flag is up exactly while one element
runs, and nothing waits while it is down. `IInv`, the conjunction with the types, is inductive (`QueueInvariant`), and gives `TypeCorrect`,
`OneAtATime`, `NeverStranded` and `ExactlyOnce`. `RefinesOrder` shows that `Enqueue` appends to `running \o queue` and
`Settle` takes its head away, so every step is a step of the abstract line or a stutter.

**Bindings** (`ReconcileProofs`). `EffectsInOrder` relates what was handled to what is handled next, but between the two lie the watch,
the queue and restarts. `HistoryInv` puts them into one line: the events that were delivered and then those that the watch still holds are a
sequence in which the versions of an object never go down, nor past the object's version; what a
restart loses leaves no gap that matters, since the new list has each object as it is by then. A call is the number of its event,
and `CallsInv` says that the queue's line is in that order (`FlagInv` of the queue is part of it). `AppliedInv` concludes: whatever is outstanding of an object
is at least as new as what was handled last. For a Watch binding, without queue, none of this holds,
and `ReconcileInOrder` says nothing about it. The types need finite sets of calls, and `Take` is limited to them: `NextCall \in Calls` is
the bound on deliveries.

**Senders** (`StoreProofs`). `SenderInv` adds to the types that every operation in a cache and in a patch
that may still be applied sits under a path of its sender's capability and has been requested. Then
`SenderTypeCorrect`, and `OnlyRequestedStored`: a patch changes a path only to what one of its operations says
(`PatchedFrom`). It needs nothing of the order of patches, their answers or their number.

**Store** (`StoreProofs`). Processes that crash leave patches behind that may still be applied; `AllRequested` covers these, and says
of each operation that somebody asked for it: a capability for its own key, or one whose Storage holds that key, with a removal. This gives
`OnlyRequestedOrClearedByAll` for any names: a key changes to what its capability asked for, or goes with a `clear()` of another one that holds it. If no Storage
holds another's keys (`Separate`), it is `OnlyRequestedStoredByAll`; with foo and foo-bar that is false, and no theorem. `ImplementsSharedStore` is a refinement: a change told to the watches is a commit, the debounce
timer's end is a refresh, everything else is a stutter or concerns a waiting call. The difficulty is to see that a refresh goes forward. `ReadInv`
orders what is under way to a store: its copy is no newer than the version that the armed timer holds, that one no newer than
the events that have not arrived, and these are in order (`InOrder`); the newest of it is the resource as it is (`UpToDate`), and a
process that ended has nothing (`Ended`). `InOrder` needs the `clearTimeout` in `#receive`: with two armed timers the older one
could fire last. `UpToDate` also gives `DebounceLosesNothing`: although events are dropped, the last one never is.

**Start** (`StoreBootProofs`). Several processes migrate the same data without knowing of each other. `PristineInv` says why that is safe: while there is
a key to move, nobody has come past the migration, so nobody has written, and everyone who is about to migrate got the data
as it is. The first patch that is applied therefore moves exactly what is there, and every other one is refused since a key that
it removes is missing; the patch is atomic. What is moved is one operation per key, from `MovesIs`, `MovedValue` and the lemmas on prefixes, which
need `Separate`: no name begins another or the placeholder, as strings, so neither foo and foo-bar nor foo and foobar; and no key begins with `v2`. `Owned` says that what
begins with a name is one of its keys: without it `key.slice(offset)` makes keys that are none. `OneVersion` is needed of the initial
data, and is kept: with a key in both versions the migration puts the older value over the newer one. `BootTypeCorrect` and `OwnKeysHanded` need the first two,
`NothingLostAtStart` all three. Without these the code is wrong, as section 6 says of `Separate` and `OneVersion`.

**Admission** (`AdmissionProofs`). A request goes through two loops, and each property speaks of the end. The invariant says what the loops are
through with: `PassedInv`, with `reject`, that all actions before `next` that were not skipped let the request pass, and all of a role
when its webhook is behind; `RanInv`, that nothing ran that is skipped; `KeptInv`, that the object that the handler holds, and after the patch the
persisted one, has the traces of what ran; `SecretInv`, which values are plain within the handler and which keys were never decoded; `RefusedForCause` is
inductive with these. Then three lemmas about the filters: an action that is not skipped governs the request (`FilterSound`, which takes
a compliant module), one that governs it is not skipped (`FilterComplete`), and the rules cover every request that is not skipped (`RulesCover`). `FilterComplete` needs
`ValuedLabels`: labels and annotations of requests and callbacks have values (section 6). So `NothingUnguarded` is about the whole
way, from the rule and the selectors in the cluster to the persisted object, for modules of any length.

**Schedules** (`ScheduleProofs`). `CompletionsHold` counts over all processes, so the invariant relates three
counts that can differ: the runs, what the process has left, and what a new process would start from. `Budget`
says by how much: one run more while its record is only in the cache, one less while the remains of a failed
patch are there, since these take the next record with them. `Shape` says when the cache can hold what: a record only right
after a run, a removal only when stopped, nothing before the store is read. A crash then costs the one record in the cache, a failed patch that one and
the next. `Punctual` (the timer and the time since the last run make a whole interval) gives `AlwaysOnTime`, for
any interval and any number of crashes.

**Deployments** (`DeployProofs`). `SameCode` speaks of pods and webhooks, which different deployments may have left. It
follows from the order in which one deployment applies things: webhooks before the module's secret, the secret before
the certificate (`InOrder`). A process loads its module before its certificate. So, if no deployment overtook it,
there is a deployment with the pod's code, and the certificate is of that one or of an earlier one (`Found`); while the webhooks have the certificate
of deployment d, no later deployment has come to the module's secret. So both are of d's code. For a process that is overtaken `Found` says nothing,
and its old code may hold the new certificate and token: `SameCodeAlways` is false without that exception.

**Builds** (`BuildProofs`). `Passed` says what a build has been through when it is at a step: beyond the check of namespaces its
capabilities are loaded and compliant, beyond that of names they are valid, and before the manifest no file is of this
build. This gives `OnlyValidatedAlways`, whatever `peppr dev` writes over the bundle. For `OneBuildAlways` the files before the current step are
of this build (`Done`) and the rest of one earlier build, unless one was interrupted (`Uniform`); at the end of a build the first covers all files.
`SuccessIsWholeAlways` needs more of what a build leaves behind it at each step (`WholeInv`): what it has come past and its capabilities need is
written (`Complete`), what it read is the source as it was while nothing rewrote the bundle (`Faithful`), and before the first rewrite no file is
there that its own build did not need (`Needed`).

**Registration** (`RegistrationProofs`). Chains only change while the code is loaded, and handlers are only added and called, so the
invariant has parts for each. `Hosted` says which actions each process pushed. `Closed` says why filters stay: after an action a chain
that was not branched offers no filter (`FiltersKept` alone is not inductive: it does not exclude the next filter). `HandledOnce` says
that a handler waits at one store only, and that the store of a called one has a no-op `#onReady`. `Recorded` relates the handlers
that were registered while loading to what the export will say; `Announced` is inductive with it.

Only model-checked: liveness (`EveryPromiseSettles`, `Converges`, `Drains`, `WaitsSettle`, `WritesBecomeVisible`, `ComesUp`,
`ReadsBack`, `RunsOut`, `CatchesUp`, `Serves`, `EndsClean`, `ServesInTheEnd`, `WaitEnds`, `ReadyRuns`), which is out of the prover's reach;
the fairness half of `ImplementsOrder`; and everything about `DevSession`, all properties of which are liveness. `LastRequestStored` does not hold (section 6).
That the closed form of the migration's patch equals the execution of its operations one by one is an induction over the
operations; TLC compared the two for all data over six sets of names, prefixes of each other among them.

## 6. Findings

One has a run that ends in the counterexample.

- `sender_absent`: one removal of an absent key makes the server refuse the batch; the 422 branch
  (`store.ts:254`) drops the whole batch, and what has been queued meanwhile.

Seen while modelling, and in the models, but without a run of their own:

- After a failed patch `flushCache` puts `undefined` under each index instead of the operation (`payload[Number(idx)]`,
  `store.ts:258`), although it says that it re-adds them. The operations are lost, and the next patch is refused with all it carries (`lost`).
- `stop()` removes the record that says that a schedule has had its completions (`schedule.ts:173`): after a
  restart it has all of them again. `CompletionsHold` is stated for the time before `stop()`.
- Two builds of a `peppr dev` session before the old process has gone start two processes, of which only one is ever killed again; a
  program that ended by itself is never started again (`once("exit")` comes too late); webhooks can be older than
  the code, when a build comes between loading the capabilities and forking, and late deletions can
  take the webhooks of the new process. A deployment that fails in the exit handler ends the session and leaves
  webhooks behind, and one that is under way at CTRL+C goes on: `Serves` and `EndsClean` say when all is well.
- A `peppr dev` session whose module gets an invalid capability name ends in `process.exit(1)` after the webhooks were deployed (`dev.ts:64`), and leaves them, against
  `docs/030_user-guide/010_peppr-cli.md:27` (they "are removed once the `peppr dev` session ends"). If the first module of a session throws before it
  sends its capabilities (`loader.ts:25`), the reloader waits for ever and no later build is started.
- A process reads its module (`runtime/controller.ts:37`), and the process that it forks reads certificate and token (`controller/index.ts:82`). If a deployment
  replaces the secrets in between, a pod with the old code answers the new webhooks until it is retired (`overtaken`); with one more pod than replicas that takes
  until the new pods are ready.
- A mutate action that labels a new object `peppr.dev=ignore` takes it out of the validating webhook's object selector (`webhooks.ts:138`): it is persisted without
  validation. `Guarded` counts what a selector leaves out as not governed.
- `peppr deploy` counts ready pods of the old template (`helpers.ts:265`), so a second deployment reports success at once. Capability names are
  validated after everything is applied (`cli/deploy.ts:96`). A watcher that is not needed any more is left running
  and, once its container restarts, keeps every later deployment waiting (`assets/deploy.ts:141`).

- Setting `a`, removing `a` and setting `a` again to the same value within five seconds sends the add before the remove
  (`store.ts:213` keeps the first place of an index): the last request is lost. In the same way a patch can overtake an earlier one of
  its sender, or one of another process (`store.ts:274` does not wait, and nothing orders the processes): the older of two requests can be what stays.
  `WritesBecomeVisible` is stated for a request that meets no other one for its key on its way (`Pending`).
- `clear()` of an empty store ends the process (`ClearEmpty`): `fillCache` throws in an async function that nobody awaits.
- `clear()` of foo removes the keys of foo-bar as well, since `#receive` hands them to foo (`store.ts:179`, `storage.ts:109`). With foobar instead, foo's copy
  has keys with a letter cut off; `clear()` asks for the removal of keys that do not exist, and the server refuses the batch with all that is in it.
- After a failed migration patch a capability may write a v2 key while the old key is still there; the migration of the next
  start puts the old value over it. With `MaxFailures = 1` `Preserved` fails in `store_boot`; hence `PreservedUnlessFailed`.
- A store watch that gives up leaves a ready process running with copies that never change (`deaf`).
- A schedule's first run comes an interval after `startTime`, not at it, and after a restart the wait for what is left of the
  interval is followed by a whole one: `start()` only sets the interval. `OnTime` holds, runs come late.
- Admission takes an empty label or annotation value for a missing one (`filter.ts:79`), against `types.ts:105`; the watch filter
  (`helpers.ts:49`) does not. `Guarded` is stated for requests whose labels have values.
- Prefixes are compared without the hyphen (`store.ts:149`), so the migration can hand the data of `foo-bar` to `foo`, and that of `foobar` under mutilated keys. `PreservedUnlessFailed`
  is checked and proved for names of which none begins another as a string (`Separate`).
- A handler passed to `onReady()` after the first data of its store is stored and never called, though `docs/030_user-guide/050_store.md:45` says
  "Executes a callback when the store is ready" and `capability.ts:77` asks to use the store only from within an action; the same holds for a
  schedule registered then. `ReadyRuns` is about handlers that come in time.
- Branching a chain (calling a filter on a kept object after an action) changes the filters of registered actions (`capability.ts:191`), since copies of
  the record share them: `FiltersKept` is about chains that were not branched. Types allow branching.
- Two capabilities of one name share one entry of `#stores`: the handlers of the first are never called (`HasOwnName`). One that is listed
  twice is only noticed at run time (`capability.ts:162`), not by the build.
- A `uuid` that contains "schedule" makes the controller take the store for the one of schedules (`store.ts:28`).
- `peppr build` ends with success and no files if the module ends without sending its capabilities (`loader.ts:25`): nothing is left to wait for.
- The chart ignores `--rbac-mode scoped` (`assets/index.ts:128` passes "rbac") and `--withPullSecret`, has no admission deployment without webhooks while
  the manifest always has one, and keeps files of earlier builds that are not needed any more; a stale webhook there carries another certificate
  and token. `SuccessIsWhole` excludes the last case by its condition on earlier builds.
- The chart's webhook timeout is put in by replacing every occurrence of its digits, also within the certificate (`assets/index.ts:144`).
- `peppr build` reads the code for the chart a second time but keeps the old hash: a bundle that `peppr dev` rewrites in between makes a chart whose pods
  refuse to start (`disturbed`).
- `docs/030_user-guide/030_actions/README.md:62` shows `When(a.ConfigMap).Watch(...)`, but `When` returns only event methods.
- `namespaceComplianceValidator` is not run by `peppr deploy` and `peppr dev` (`assets/index.ts:55`); without it
  `OnlyGoverned` fails.

## 7. Not modelled, and the plan

Left out of the modules above: logging and metrics calls; hooks and the token check of the controller; group, version and guessed plural
of rules (`webhooks.ts:54` guesses kind + s; taken to be right), subresources, and objects that have a label `kubernetes.io/metadata.name`; Namespace objects in the filters; plain `subscribe()` listeners (they run in the turn of `receive()`);
conversions of `getItem`; in `Registration` the kinds and the custom-kind check of `When()`, and hooks; in `Build` everything that is the same in each build, Zarf's
contents, RBAC and the custom controller image. Left out for good: the wording of manifests, TLS
certificates, the interactive CLI and the SDK helpers, which keep no state that several actors share.

`Metrics` (`metrics.ts`) is a single counter map without concurrency. One thing there is worth knowing: a cache miss in a window that has rolled off
recreates its gauge series (`incCacheMiss` does not look at the map of windows), and nothing removes it again, so more
series can be emitted than the "Maximum number windows to emit" of `docs/030_user-guide/100_metrics.md:18`; and starting a window that exists evicts another.

Planned, in this order:

1. The safety that `Serves` and `EndsClean` of `DevSession` rest on, as an invariant of its own.
2. `Lifecycle` (`controller/index.ts`, `runtime/controller.ts`): SIGTERM while requests are under way, the port that is in use, the forked process and its parent.
3. A composition of `StoreBoot`, `Registration` and `Schedule`: schedules that wait for their store in several processes.
