----------------------------- MODULE DevSession -----------------------------
(***************************************************************************)
(* A session of "peppr dev" (src/cli/dev.ts): every build of the module    *)
(* kills the module's process; when that has ended the module is deployed  *)
(* again, which for a session means its webhooks, and started again, while *)
(* webhooks and stores of the process that ended are deleted.              *)
(*                                                                         *)
(* Builds are numbered.  A build makes at most one call of runFork(), and  *)
(* that at most one process, so both have the number of the build.  The    *)
(* session's two stores are one resource.                                  *)
(*                                                                         *)
(* External: esbuild builds again only when the reloader of the last build *)
(* has returned; requests to the API server may take effect late, but do.  *)
(***************************************************************************)
EXTENDS Naturals, FiniteSets

CONSTANTS MaxBuilds,    \* bound on the builds
          MaxFlaws,     \* bound on builds of a module that is flawed
          MaxFailures,  \* bound on deployments that fail
          MaxCrashes    \* bound on processes that end by themselves

ASSUME SessionAssumption == {MaxBuilds, MaxFlaws, MaxFailures, MaxCrashes} \subseteq Nat

Builds == 1..MaxBuilds
Webhooks == {"mutate", "validate"}
Resources == Webhooks \cup {"store"}

\* A module may throw before it sends its capabilities, or while it starts; or
\* the name of one of its capabilities may not be valid.
Kinds == {"sound", "silent", "misnamed"}

VARIABLES built,     \* the latest build, as it is on disk
          kind,      \* what the builds are
          session,   \* whether the process of "peppr dev" is alive
          step,      \* how far runFork() of a build and its process are
          program,   \* the process in "program"; 0: undefined
          awaiting,  \* the build whose reloader awaits runFork(); 0: none
          waitsFor,  \* the process on whose exit a runFork() waits
          killed,    \* processes that were sent SIGKILL
          code,      \* the build that a process runs
          caps,      \* the build that webhook.capabilities is from
          port,      \* the process that listens on the port; 0: none
          cluster,   \* resources: the build they are made from, and who needs them
          deletes,   \* deletions on their way, by process and resource
          calm,      \* builds and deletions came one at a time (history)
          tidy,      \* no runFork() was under way at the interrupt (history)
          interrupted, failures, crashes

dev == <<built, kind, session, program, awaiting, waitsFor, killed, caps>>
history == <<calm, tidy>>
counters == <<interrupted, failures, crashes>>
vars == <<dev, step, code, port, cluster, deletes, history, counters>>

Gone == [of |-> 0, by |-> 0]

Init ==
  /\ built = 0
  /\ kind = [b \in Builds |-> "sound"]
  /\ session = TRUE
  /\ step = [b \in Builds |-> "none"]
  /\ program = 0
  /\ awaiting = 0
  /\ waitsFor = [b \in Builds |-> 0]
  /\ killed = {}
  /\ code = [b \in Builds |-> 0]
  /\ caps = 0
  /\ port = 0
  /\ cluster = [r \in Resources |-> Gone]
  /\ deletes = {}
  /\ calm = TRUE
  /\ tidy = FALSE
  /\ interrupted = FALSE
  /\ failures = 0
  /\ crashes = 0

Deploying(b) == step[b] \in {"loading", "mutating", "validating", "forking"}
Running(b) == step[b] \in {"running", "ready"}

Reaches(b, s) == step' = [step EXCEPT ![b] = s]

\* Nothing is under way: the last process serves, or there is none yet.
Settled ==
  /\ deletes = {}
  /\ \A b \in Builds : ~Deploying(b) /\ step[b] \notin {"waiting", "exited", "running"}
  /\ program # 0 => step[program] = "ready" /\ port = program

-----------------------------------------------------------------------------
(* The reloader.                                                           *)

\* The watch of buildModule() builds again when sources change, but not while
\* the end of the last build still awaits the reloader.
MayBuild == session /\ ~interrupted /\ awaiting = 0 /\ built < MaxBuilds

\* What is built next: what the author has made of the module.
Makes ==
  /\ built' = built + 1
  /\ \E k \in Kinds :
       /\ k # "sound" => Cardinality({b \in Builds : kind[b] # "sound"}) < MaxFlaws
       /\ kind' = [kind EXCEPT ![built'] = k]

\* Mutant: the process is killed and nothing waits for its exit.
BuildKills ==
  /\ MayBuild
  /\ Makes
  /\ calm' = (calm /\ Settled)
  /\ IF program = 0
     THEN Reaches(built', "loading") /\ awaiting' = built' /\ UNCHANGED killed
     ELSE killed' = killed \cup {program} /\ UNCHANGED <<step, awaiting>>
  /\ UNCHANGED <<session, program, waitsFor, code, caps, port, cluster, deletes, tidy, counters>>

\* A build without errors ends: runFork() is called, and awaited, unless
\* there is a program, dead or alive; then it is for its exit to call it.
Build ==
  /\ MayBuild
  /\ Makes
  /\ calm' = (calm /\ Settled)
  /\ IF program = 0
     THEN /\ Reaches(built', "loading")
          /\ awaiting' = built'
          /\ UNCHANGED <<waitsFor, killed>>
     ELSE /\ Reaches(built', "waiting")
          /\ waitsFor' = [waitsFor EXCEPT ![built'] = program]
          /\ killed' = killed \cup {program}
          /\ UNCHANGED awaiting
  /\ UNCHANGED <<session, program, code, caps, port, cluster, deletes, tidy, counters>>

-----------------------------------------------------------------------------
(* runFork().                                                              *)

\* Mutant: the capabilities are loaded once.
LoadOnce(b) ==
  /\ session /\ step[b] = "loading"
  /\ IF kind[built] = "silent" THEN Reaches(b, "hung") /\ UNCHANGED caps
     ELSE Reaches(b, "mutating") /\ caps' = IF caps = 0 THEN built ELSE caps
  /\ UNCHANGED <<built, kind, session, program, awaiting, waitsFor, killed, code, port, cluster, deletes, history, counters>>

\* loadCapabilities(): the module runs in build mode and sends them.  If it
\* ends before, nobody is told, and runFork() waits for ever.
Load(b) ==
  /\ session /\ step[b] = "loading"
  /\ IF kind[built] = "silent" THEN Reaches(b, "hung") /\ UNCHANGED caps
     ELSE Reaches(b, "mutating") /\ caps' = built
  /\ UNCHANGED <<built, kind, session, program, awaiting, waitsFor, killed, code, port, cluster, deletes, history, counters>>

Applies(b, r) == cluster' = [cluster EXCEPT ![r] = [of |-> caps, by |-> b]]

\* deploy() with a host: mutating webhook, then validating webhook, and no
\* more.  Whichever the module does not need is not told apart.
ApplyMutate(b) ==
  /\ session /\ step[b] = "mutating"
  /\ Applies(b, "mutate")
  /\ Reaches(b, "validating")
  /\ UNCHANGED <<dev, code, port, deletes, history, counters>>

ApplyValidate(b) ==
  /\ session /\ step[b] = "validating"
  /\ Applies(b, "validate")
  /\ Reaches(b, "forking")
  /\ UNCHANGED <<dev, code, port, deletes, history, counters>>

\* The process of loadCapabilities() cannot be made, or a request fails: the
\* reloader's caller logs it; in an exit handler nobody does, and the session
\* ends.
DeployFails(b) ==
  /\ session /\ step[b] \in {"loading", "mutating", "validating"}
  /\ failures < MaxFailures
  /\ failures' = failures + 1
  /\ Reaches(b, "failed")
  /\ awaiting' = IF awaiting = b THEN 0 ELSE awaiting
  /\ session' = (awaiting = b)
  /\ UNCHANGED <<built, kind, program, waitsFor, killed, caps, code, port, cluster, deletes, history, interrupted, crashes>>

\* validateCapabilityNames() throws when all is deployed: process.exit(1).
NamesRefused(b) ==
  /\ session /\ step[b] = "forking" /\ kind[caps] = "misnamed"
  /\ Reaches(b, "failed")
  /\ session' = FALSE
  /\ UNCHANGED <<built, kind, program, awaiting, waitsFor, killed, caps, code, port, cluster, deletes, history, counters>>

\* The process is made from what is on disk by now.
Fork(b) ==
  /\ session /\ step[b] = "forking" /\ kind[caps] # "misnamed"
  /\ Reaches(b, "running")
  /\ code' = [code EXCEPT ![b] = built]
  /\ program' = b
  /\ awaiting' = IF awaiting = b THEN 0 ELSE awaiting
  /\ UNCHANGED <<built, kind, session, waitsFor, killed, caps, port, cluster, deletes, history, counters>>

-----------------------------------------------------------------------------
(* The module's process: startServer() and the start of the store.         *)

\* A module that throws does not come as far as these.
Starts(b) == kind[code[b]] # "silent"

\* If the port is in use it tries again after two seconds.
Listen(b) ==
  /\ Running(b) /\ Starts(b)
  /\ port = 0
  /\ port' = b
  /\ UNCHANGED <<dev, step, code, cluster, deletes, history, counters>>

\* It has made its stores, or found them; its endpoints are bound.
Ready(b) ==
  /\ step[b] = "running" /\ Starts(b)
  /\ Reaches(b, "ready")
  /\ cluster' = [cluster EXCEPT !["store"] = [of |-> IF @ = Gone THEN code[b] ELSE @.of, by |-> b]]
  /\ UNCHANGED <<dev, code, port, deletes, history, counters>>

\* What the exit of some processes does: runFork() once for each build that
\* waits for one of them.
Exits(ps) ==
  /\ step' = [b \in Builds |->
                IF b \in ps THEN "exited"
                ELSE IF step[b] = "waiting" /\ waitsFor[b] \in ps THEN "loading" ELSE step[b]]
  /\ port' = IF port \in ps THEN 0 ELSE port

Exit(b) ==
  /\ Running(b) /\ (b \in killed \/ ~Starts(b))
  /\ Exits({b})
  /\ UNCHANGED <<dev, code, cluster, deletes, history, counters>>

Crash(b) ==
  /\ Running(b) /\ crashes < MaxCrashes
  /\ crashes' = crashes + 1
  /\ Exits({b})
  /\ UNCHANGED <<dev, code, cluster, deletes, history, interrupted, failures>>

\* Mutant: one of the webhooks is left.
CloseOne(b) ==
  /\ session /\ step[b] = "exited"
  /\ Reaches(b, "closed")
  /\ deletes' = deletes \cup ({b} \X {"mutate", "store"})
  /\ UNCHANGED <<dev, code, port, cluster, history, counters>>

\* The close handler sends all deletions at once.
Close(b) ==
  /\ session /\ step[b] = "exited"
  /\ Reaches(b, "closed")
  /\ deletes' = deletes \cup ({b} \X Resources)
  /\ UNCHANGED <<dev, code, port, cluster, history, counters>>

\* A deletion takes effect, on whatever is there by then.
Delete(b, r) ==
  /\ <<b, r>> \in deletes
  /\ cluster' = [cluster EXCEPT ![r] = Gone]
  /\ deletes' = deletes \ {<<b, r>>}
  /\ calm' = (calm /\ cluster[r].by \in {0, b})
  /\ UNCHANGED <<dev, step, code, port, tidy, counters>>

-----------------------------------------------------------------------------
\* CTRL+C reaches all processes: the module's end, also those that load
\* capabilities, for whose message loadCapabilities() waits in vain.  The
\* handler of "peppr dev", there since the first fork, only logs.
Interrupt ==
  /\ session /\ ~interrupted
  /\ interrupted' = TRUE
  /\ tidy' = (\A b \in Builds : step[b] \notin {"waiting", "mutating", "validating", "forking"})
  /\ session' = (program # 0)
  /\ LET loads == {b \in Builds : step[b] = "loading"}
         ps == {b \in Builds : Running(b)}
     IN /\ step' = [b \in Builds |->
                      IF b \in loads THEN "hung"
                      ELSE IF b \in ps THEN "exited"
                      ELSE IF step[b] = "waiting" /\ waitsFor[b] \in ps THEN "loading" ELSE step[b]]
        /\ port' = IF port \in ps THEN 0 ELSE port
  /\ UNCHANGED <<built, kind, program, awaiting, waitsFor, killed, caps, code, cluster, deletes, calm, failures, crashes>>

Proceeds(b) ==
  \/ Load(b) \/ ApplyMutate(b) \/ ApplyValidate(b) \/ Fork(b) \/ NamesRefused(b)
  \/ Ready(b)
  \/ Exit(b) \/ Close(b)

Next ==
  \/ Build
  \/ \E b \in Builds :
       \/ Proceeds(b) \/ Listen(b)
       \/ DeployFails(b) \/ Crash(b)
       \/ \E r \in Resources : Delete(b, r)
  \/ Interrupt

\* Weak fairness of runFork(), of processes, and of the API server.
Spec ==
  /\ Init /\ [][Next]_vars
  /\ \A b \in Builds :
       /\ WF_vars(Proceeds(b))
       /\ WF_vars(Listen(b))
       /\ \A r \in Resources : WF_vars(Delete(b, r))

-----------------------------------------------------------------------------
(* Properties                                                              *)

Undisturbed == (\A b \in Builds : kind[b] = "sound") /\ failures = 0 /\ crashes = 0 /\ ~interrupted

\* No build is lost, however fast they follow each other: the program is in
\* the end a running process made from the last one.
CatchesUp ==
  <>[](Undisturbed /\ built # 0 => program # 0 /\ Running(program) /\ code[program] = built)

\* If each build finds the session settled and no deletion comes late, the
\* program is in the end the only process, it has the port, the store, and
\* webhooks that are made from the same build as itself.
Serves ==
  <>[](calm /\ Undisturbed /\ built # 0 =>
         /\ port = program
         /\ \A b \in Builds \ {program} : ~Running(b)
         /\ cluster["store"] # Gone
         /\ \A w \in Webhooks : cluster[w].of = code[program])

\* "these resources are removed once the peppr dev session ends"
\* (docs/030_user-guide/010_peppr-cli.md:27), if the session is ended while
\* nothing is being deployed.
EndsClean ==
  <>[](interrupted /\ tidy /\ failures = 0 => \A r \in Resources : cluster[r] = Gone)
=============================================================================
