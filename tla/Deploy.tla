------------------------------- MODULE Deploy -------------------------------
(***************************************************************************)
(* Deployments of a module, one after another, by "peppr deploy": what it  *)
(* applies and in which order (src/lib/assets/deploy.ts), how it decides   *)
(* that the module is up (src/lib/helpers.ts), and what the pods that run  *)
(* meanwhile start from (src/runtime/controller.ts).                       *)
(*                                                                         *)
(* A deployment has its own certificate, token and time stamp, for which   *)
(* its number stands.  What an applied resource holds follows from the     *)
(* deployment that applied it.  Namespace, CRD, RBAC and services are the  *)
(* same in each and are left out.                                          *)
(*                                                                         *)
(* A process reads its secrets one after another: the module's, and, in a  *)
(* process that it forks, certificate and token (src/lib/controller).      *)
(*                                                                         *)
(* External: the deployment controller, which rolls admission pods over    *)
(* one by one and ends the watcher before it makes a new one; the kubelet, *)
(* which makes no container before every secret that it mounts exists,     *)
(* restarts containers, and shows in a mount what the secret then holds.   *)
(***************************************************************************)
EXTENDS Naturals, FiniteSets, Sequences

CONSTANTS Codes,        \* the code of modules; stands for its hash
          Needs,        \* the webhooks and watcher that a code needs
          BadNames,     \* codes with a capability whose name is not valid
          Plans,        \* sequences of codes that are deployed one after another
          MaxDeploys,   \* bound on their lengths
          MaxFailures,  \* bound on deployments that fail or are interrupted
          MaxStops      \* bound on containers that end by themselves

Webhooks == {"mutate", "validate"}
Deployments == {"deployment", "watcher"}
Optional == Webhooks \cup {"watcher"}
Resources == Webhooks \cup Deployments \cup {"module", "tls", "token"}
Deploys == 1..MaxDeploys

ASSUME DeployAssumption ==
  /\ Needs \in [Codes -> SUBSET Optional]
  /\ BadNames \subseteq Codes
  /\ Plans \subseteq UNION {[1..n -> Codes] : n \in 0..MaxDeploys}
  /\ {MaxDeploys, MaxFailures, MaxStops} \subseteq Nat

VARIABLES code,      \* the code that each deployment builds
          run,       \* the last deployment
          at,        \* its next step; 0: it has ended
          result,    \* how deployments ended
          cluster,   \* by which deployment each resource was applied; 0: none
          pods,      \* pods, with what their process has read
          failures, stops

deploying == <<code, run, at, result, cluster, failures>>
vars == <<deploying, pods, stops>>

\* One pod more than replicas can exist while admission pods are replaced.
PodsOf == [deployment |-> 1..3, watcher |-> {4}]
Slots == 1..4
Owner(p) == IF p \in PodsOf["watcher"] THEN "watcher" ELSE "deployment"
Replicas == [deployment |-> 2, watcher |-> 1]

\* A pod of template t, before its process has read anything.  module: by which
\* deployment the module is that a starting process has loaded; tls, token: its
\* credentials; 0: none.  overtaken: a deployment replaced the module's secret
\* after the process had read it and before the process read its certificate.
Made(t) == [template |-> t, module |-> 0, tls |-> 0, token |-> 0,
            ready |-> FALSE, overtaken |-> FALSE]
NoPod == Made(0)
ReadyPods(r) == {p \in PodsOf[r] : pods[p].ready}

Init ==
  /\ code \in Plans
  /\ run = 0
  /\ at = 0
  /\ result = [d \in Deploys |-> "none"]
  /\ cluster = [r \in Resources |-> 0]
  /\ pods = [p \in Slots |-> NoPod]
  /\ failures = 0
  /\ stops = 0

-----------------------------------------------------------------------------
(* peppr deploy                                                            *)

\* Mutant: the module's secret comes after those with certificate and token.
OrderModuleLate == <<"mutate", "validate", "tls", "token", "module", "deployment", "watcher">>

\* Mutant: pods are replaced before the secrets they read.
OrderPodsEarly == <<"mutate", "validate", "module", "deployment", "tls", "token", "watcher">>

Order == <<"mutate", "validate", "module", "tls", "token", "deployment", "watcher">>

Validating == Len(Order) + 1
Polling == Len(Order) + 2

\* The module is built and new Assets are made for it.
Begin ==
  /\ at = 0 /\ run < Len(code)
  /\ run' = run + 1
  /\ at' = 1
  /\ UNCHANGED <<code, result, cluster, failures, pods, stops>>

\* Mutant: the module's secret is only made if there is none.
ApplyModuleOnce ==
  /\ at \in DOMAIN Order
  /\ LET r == Order[at] IN
       cluster' = [cluster EXCEPT ![r] =
         IF r \in Optional \ Needs[code[run]] THEN IF r = "watcher" THEN @ ELSE 0
         ELSE IF r = "module" /\ @ # 0 THEN @ ELSE run]
  /\ at' = at + 1
  /\ UNCHANGED <<code, run, result, failures, pods, stops>>

\* The next resource is applied.  A webhook that the module does not need is
\* removed; a watcher that it does not need any more is left as it is.
Apply ==
  /\ at \in DOMAIN Order
  /\ LET r == Order[at] IN
       cluster' = [cluster EXCEPT ![r] =
         IF r \in Needs[code[run]] \/ r \notin Optional THEN run
         ELSE IF r = "watcher" THEN @ ELSE 0]
  /\ at' = at + 1
  /\ UNCHANGED <<code, run, result, failures, pods, stops>>

Ends(outcome) ==
  /\ at' = 0
  /\ result' = [result EXCEPT ![run] = outcome]

\* validateCapabilityNames(), when all is applied.
Validate ==
  /\ at = Validating
  /\ IF code[run] \in BadNames THEN Ends("failed") ELSE at' = Polling /\ UNCHANGED result
  /\ UNCHANGED <<code, run, cluster, failures, pods, stops>>

\* A step fails, and process.exit(1) leaves the rest undone; or CTRL+C.
Fails ==
  /\ at # 0 /\ failures < MaxFailures
  /\ failures' = failures + 1
  /\ Ends("failed")
  /\ UNCHANGED <<code, run, cluster, pods, stops>>

\* checkDeploymentStatus(): of every deployment in the namespace as many
\* pods are ready as there should be, of whichever template they are.
RolledOut ==
  \A r \in Deployments : cluster[r] # 0 => Cardinality(ReadyPods(r)) = Replicas[r]

\* namespaceDeploymentsReady() asks every second.
Poll ==
  /\ at = Polling /\ RolledOut
  /\ Ends("success")
  /\ UNCHANGED <<code, run, cluster, failures, pods, stops>>

-----------------------------------------------------------------------------
(* Pods                                                                    *)

\* A pod is made of the current template, in the first free slot.
Create(p) ==
  LET r == Owner(p) IN
  /\ pods[p] = NoPod /\ \A q \in PodsOf[r] : q < p => pods[q] # NoPod
  /\ cluster[r] # 0
  /\ Cardinality({q \in PodsOf[r] : pods[q].template = cluster[r]}) < Replicas[r]
  /\ pods' = [pods EXCEPT ![p] = Made(cluster[r])]
  /\ UNCHANGED <<deploying, stops>>

\* A pod of an old template ends: the watcher at once, an admission pod when
\* it is not needed or not ready.
Retire(p) ==
  LET r == Owner(p) IN
  /\ pods[p].template \notin {0, cluster[r]}
  /\ r = "watcher" \/ ~pods[p].ready \/ Cardinality(ReadyPods(r)) > Replicas[r]
  /\ pods' = [pods EXCEPT ![p] = NoPod]
  /\ UNCHANGED <<deploying, stops>>

\* The module's secret has the file that is named after the pod's hash, and
\* no other.
HasModule(p) == cluster["module"] # 0 /\ code[cluster["module"]] = code[pods[p].template]

\* The secrets that the container mounts.
Mounts(p) == {"module", "tls"} \cup IF Owner(p) = "deployment" THEN {"token"} ELSE {}

\* The process of the pod has not started, starts, or listens.
Fresh(p) == pods[p] = Made(pods[p].template)
Loaded(p) == pods[p].module # 0
Certified(p) == pods[p].tls # 0 /\ ~pods[p].ready

\* runModule() of the pod's hash finds the file and forks; otherwise the
\* container ends and is started again.  No webhook leads to the watcher: what
\* it reads as certificate is left out, and it is ready.
LoadModule(p) ==
  /\ pods[p] # NoPod /\ Fresh(p)
  /\ \A r \in Mounts(p) : cluster[r] # 0
  /\ HasModule(p)
  /\ pods' = [pods EXCEPT ![p] = IF Owner(p) = "watcher" THEN [@ EXCEPT !.ready = TRUE]
                                 ELSE [@ EXCEPT !.module = cluster["module"]]]
  /\ UNCHANGED <<deploying, stops>>

\* startServer() reads key and certificate.
LoadCertificate(p) ==
  /\ Loaded(p)
  /\ pods' = [pods EXCEPT ![p] = [@ EXCEPT !.module = 0, !.tls = cluster["tls"],
                                          !.overtaken = pods[p].module # cluster["module"]]]
  /\ UNCHANGED <<deploying, stops>>

\* It reads the token, and listens.
LoadToken(p) ==
  /\ Certified(p)
  /\ pods' = [pods EXCEPT ![p] = [@ EXCEPT !.token = cluster["token"], !.ready = TRUE]]
  /\ UNCHANGED <<deploying, stops>>

\* The container ends, while it starts or later, and has to start again.
Stop(p) ==
  /\ ~Fresh(p) /\ stops < MaxStops
  /\ stops' = stops + 1
  /\ pods' = [pods EXCEPT ![p] = Made(pods[p].template)]
  /\ UNCHANGED deploying

\* #validateToken() lets a request pass, and the API server trusts the pod, if
\* it has the token and the certificate of the webhook.
Reached(p, w) ==
  /\ cluster[w] # 0
  /\ pods[p].ready /\ pods[p].tls = cluster[w] /\ pods[p].token = cluster[w]

Next ==
  \/ Begin \/ Apply \/ Validate \/ Fails \/ Poll
  \/ \E p \in Slots :
       Create(p) \/ Retire(p) \/ LoadModule(p) \/ LoadCertificate(p) \/ LoadToken(p) \/ Stop(p)

\* Weak fairness of a deployment that has begun and of what Kubernetes does.
Spec ==
  /\ Init /\ [][Next]_vars
  /\ WF_vars(Apply) /\ WF_vars(Validate) /\ WF_vars(Poll)
  /\ \A p \in Slots :
       /\ WF_vars(Create(p)) /\ WF_vars(Retire(p))
       /\ WF_vars(LoadModule(p)) /\ WF_vars(LoadCertificate(p)) /\ WF_vars(LoadToken(p))

-----------------------------------------------------------------------------
(* Properties                                                              *)

Pods == [template : 1..run, module : 0..run, tls : 0..run, token : 0..run,
         ready : BOOLEAN, overtaken : BOOLEAN]

\* Type invariant; a deployment has a result if and only if it has ended.
DeployTypeOK ==
  /\ code \in Plans
  /\ run \in 0..MaxDeploys
  /\ at \in 0..Polling
  /\ result \in [Deploys -> {"none", "failed", "success"}]
  /\ \A d \in Deploys : result[d] = "none" <=> d > run \/ (d = run /\ at # 0)
  /\ cluster \in [Resources -> 0..run]
  /\ pods \in [Slots -> {NoPod} \cup Pods]
  /\ failures \in 0..MaxFailures
  /\ stops \in 0..MaxStops

\* A request that reaches a pod finds the code that the webhook's rules were
\* made from, wherever deployments end and containers restart, unless a
\* deployment overtook the process: it replaced the module's secret after the
\* process had read it and before the process read its certificate.
SameCode ==
  \A p \in PodsOf["deployment"], w \in Webhooks :
    Reached(p, w) /\ ~pods[p].overtaken => code[pods[p].template] = code[cluster[w]]

\* The last deployment serves: with all of its pods, and its watcher, and every
\* process that its requests reach, overtaken or not, runs its code.
Serving ==
  /\ \A w \in Webhooks \cap Needs[code[run]] :
       LET reached == {p \in PodsOf["deployment"] : Reached(p, w)} IN
       /\ Cardinality(reached) = Replicas["deployment"]
       /\ \A p \in reached : code[pods[p].template] = code[run]
  /\ "watcher" \in Needs[code[run]] => \E p \in PodsOf["watcher"] : pods[p].ready /\ pods[p].template = run

\* "Wait for the peppr-system resources to be fully up" (src/cli/deploy.ts:97):
\* a deployment that succeeds serves in the end, whatever earlier ones left.
ServesInTheEnd == <>[](run # 0 /\ result[run] = "success" => Serving)

\* Waiting ends, if no watcher is left of a module that needed one.
WaitEnds == at = Polling /\ cluster["watcher"] \in {0, run} ~> at = 0
=============================================================================
