---------------------------- MODULE DeployProofs ----------------------------
(***************************************************************************)
(* What TLAPS proves of Deploy: the types, and that a request meets the    *)
(* code its webhook was made from, for any modules, any number of          *)
(* deployments, failures and restarts.                                     *)
(*                                                                         *)
(* The argument: a deployment applies its webhooks before its module's     *)
(* secret and that before its certificate.  So a process that has loaded   *)
(* its module and that no deployment overtakes reads a certificate of the  *)
(* same deployment d as that module's secret or of an earlier one; while   *)
(* the webhook is of d no later one has come as far as the module's        *)
(* secret.                                                                 *)
(***************************************************************************)
EXTENDS Deploy, SequenceTheorems, TLAPS

\* What the order of a deployment comes to: how old resources are, compared.
InOrder ==
  /\ at # 0 => run # 0
  /\ \A w \in Webhooks : cluster[w] = 0 \/ cluster[w] >= cluster["module"]
  /\ cluster["tls"] <= cluster["module"]
  /\ at > 1 => cluster["mutate"] \in {0, run}
  /\ at > 2 => cluster["validate"] \in {0, run}
  /\ at > 3 => cluster["module"] = run

\* What an admission process has loaded is the code of its pod; and unless it
\* was overtaken, its certificate is not newer than the module it has loaded.
Found(p) ==
  /\ pods[p].module # 0 =>
       /\ pods[p].module <= cluster["module"] /\ code[pods[p].module] = code[pods[p].template]
       /\ pods[p].tls = 0
  /\ pods[p].tls # 0 /\ ~pods[p].overtaken =>
       \E m \in 1..cluster["module"] : code[m] = code[pods[p].template] /\ pods[p].tls <= m

DeployInv == DeployTypeOK /\ InOrder /\ \A p \in PodsOf["deployment"] : Found(p)

-----------------------------------------------------------------------------
(* The order.                                                              *)

LEMMA OrderIs ==
  /\ DOMAIN Order = 1..7 /\ Len(Order) = 7
  /\ Order[1] = "mutate" /\ Order[2] = "validate" /\ Order[3] = "module"
  /\ Order[4] = "tls" /\ Order[5] = "token" /\ Order[6] = "deployment" /\ Order[7] = "watcher"
BY DEF Order

LEMMA Positions ==
  /\ \A i \in DOMAIN Order : Order[i] \in Resources
  /\ Validating = 8 /\ Polling = 9
BY OrderIs DEF Resources, Webhooks, Deployments, Validating, Polling

LEMMA InitInv == Init => DeployInv
<1> SUFFICES ASSUME Init PROVE DeployInv
  OBVIOUS
<1> USE DeployAssumption DEF Init
<1>1. DeployTypeOK
  BY Positions DEF DeployTypeOK, Deploys
<1>2. InOrder
  BY DEF InOrder, Webhooks, Resources, Deployments
<1>3. \A p \in PodsOf["deployment"] : Found(p)
  BY DEF Found, PodsOf, Slots, NoPod, Made
<1>4. QED
  BY <1>1, <1>2, <1>3 DEF DeployInv

-----------------------------------------------------------------------------
(* Steps.                                                                  *)

\* Owners and slots.
LEMMA SlotFacts ==
  /\ PodsOf["deployment"] = 1..3 /\ PodsOf["watcher"] = {4}
  /\ \A p \in Slots : p \in PodsOf["deployment"] <=> p # 4
  /\ \A p \in Slots : Owner(p) \in Deployments /\ Owner(p) \in Resources
BY DEF PodsOf, Slots, Owner, Deployments, Resources

\* Ending a deployment keeps the types.
LEMMA EndsTyped ==
  ASSUME DeployTypeOK, InOrder, at # 0, NEW outcome \in {"failed", "success"}, Ends(outcome),
         UNCHANGED <<code, run, cluster, pods, stops>>, failures' \in 0..MaxFailures
  PROVE  DeployTypeOK' /\ InOrder'
<1> USE Positions, DeployAssumption
<1>1. DeployTypeOK'
  <2>1. \A d \in Deploys : result'[d] = "none" <=> d > run' \/ (d = run' /\ at' # 0)
    BY DEF DeployTypeOK, Ends, Deploys, InOrder
  <2>2. result' \in [Deploys -> {"none", "failed", "success"}] /\ at' \in 0..Polling
    <3> HIDE DeployAssumption
    <3>1. result \in [Deploys -> {"none", "failed", "success"}] /\ outcome \in {"none", "failed", "success"}
      BY DEF DeployTypeOK
    <3>2. result' = [result EXCEPT ![run] = outcome] /\ at' = 0
      BY DEF Ends
    <3>3. result' \in [Deploys -> {"none", "failed", "success"}]
      BY <3>1, <3>2
    <3>4. at' \in 0..Polling
      BY <3>2, Positions
    <3>5. QED
      BY <3>3, <3>4
  <2>3. pods' \in [Slots -> {NoPod} \cup Pods']
    BY DEF DeployTypeOK, Pods
  <2>4. QED
    BY <2>1, <2>2, <2>3 DEF DeployTypeOK
<1>2. InOrder'
  BY DEF DeployTypeOK, InOrder, Ends
<1>3. QED
  BY <1>1, <1>2

\* The length of a finite sequence.
LEMMA LenOf ==
  ASSUME NEW S, NEW n \in Nat, NEW f \in [1..n -> S]
  PROVE  Len(f) = n
BY LenProperties, SeqDef

\* A deployment begins, and what it applied last is of an earlier one.
LEMMA BeginStep == DeployInv /\ Begin => DeployTypeOK' /\ InOrder'
<1> SUFFICES ASSUME DeployInv, Begin PROVE DeployTypeOK' /\ InOrder'
  OBVIOUS
<1> USE Positions, DeployAssumption DEF DeployInv, DeployTypeOK, Begin
<1>1. run \in Nat /\ run' = run + 1 /\ run' \in 0..MaxDeploys /\ at' = 1
  <2>1. PICK n \in 0..MaxDeploys : code \in [1..n -> Codes]
    OBVIOUS
  <2>2. Len(code) = n
    BY <2>1, LenOf
  <2>3. QED
    BY <2>1, <2>2
<1>2. \A d \in Deploys : result'[d] = "none" <=> d > run' \/ (d = run' /\ at' # 0)
  BY <1>1 DEF Deploys
<1>3. cluster' \in [Resources -> 0..run']
  BY <1>1
<1>4. pods' \in [Slots -> {NoPod} \cup Pods']
  <2>1. Pods \subseteq Pods'
    BY <1>1 DEF Pods
  <2>2. QED
    BY <2>1
<1>5. DeployTypeOK'
  BY <1>1, <1>2, <1>3, <1>4
<1>6. InOrder'
  BY <1>1 DEF InOrder
<1>7. QED
  BY <1>5, <1>6

\* A resource is applied: webhooks before the module's secret, that before
\* the certificate.
LEMMA ApplyStep == DeployInv /\ Apply => DeployTypeOK' /\ InOrder' /\ cluster'["module"] >= cluster["module"]
<1> SUFFICES ASSUME DeployInv, Apply
             PROVE  DeployTypeOK' /\ InOrder' /\ cluster'["module"] >= cluster["module"]
  OBVIOUS
<1> USE Positions, OrderIs, DeployAssumption DEF DeployInv, Apply
<1>1. at \in 1..7 /\ run \in 1..MaxDeploys /\ at' = at + 1 /\ run' = run
  BY DEF DeployTypeOK, InOrder
<1>2. PICK v \in 0..run :
        /\ cluster' = [cluster EXCEPT ![Order[at]] = v]
        /\ Order[at] \notin Optional => v = run
        /\ Order[at] \in Webhooks => v \in {0, run}
  <2> DEFINE r == Order[at]
             v0 == IF r \in Needs[code[run]] \/ r \notin Optional THEN run
                   ELSE IF r = "watcher" THEN cluster[r] ELSE 0
  <2>1. cluster[r] \in 0..run
    BY DEF DeployTypeOK
  <2>2. v0 \in 0..run
    BY <1>1, <2>1
  <2>3. cluster' = [cluster EXCEPT ![r] = v0]
    OBVIOUS
  <2>4. (r \notin Optional => v0 = run) /\ (r \in Webhooks => v0 \in {0, run})
    BY DEF Webhooks
  <2>5. QED
    BY <2>2, <2>3, <2>4
<1>3. cluster' \in [Resources -> 0..run]
  BY <1>2 DEF DeployTypeOK
<1>4. DeployTypeOK'
  <2>1. \A d \in Deploys : result'[d] = "none" <=> d > run' \/ (d = run' /\ at' # 0)
    <3>1. at # 0 /\ at' # 0 /\ run' = run /\ result' = result
      BY <1>1
    <3>2. \A d \in Deploys : result[d] = "none" <=> d > run \/ (d = run /\ at # 0)
      BY DEF DeployTypeOK
    <3> HIDE Positions, OrderIs, DeployAssumption DEF DeployInv, Apply
    <3>3. QED
      BY <3>1, <3>2
  <2>2. at' \in 0..Polling
    BY <1>1
  <2>3. UNCHANGED <<code, run, result, failures, pods, stops>>
    OBVIOUS
  <2>4. QED
    BY <1>3, <2>1, <2>2, <2>3 DEF DeployTypeOK, Pods
<1>5. \A r \in Resources : cluster'[r] = IF r = Order[at] THEN cluster'[Order[at]] ELSE cluster[r]
  BY <1>2 DEF DeployTypeOK
<1>6. \A r \in Resources : cluster[r] \in 0..run
  BY DEF DeployTypeOK
<1>7. InOrder' /\ cluster'["module"] >= cluster["module"]
  <2> HIDE DeployAssumption DEF Apply, DeployInv
  <2>1. InOrder
    BY DEF DeployInv
  <2>2. cluster'[Order[at]] = v
    BY <1>1, <1>2, OrderIs, Positions DEF DeployInv, DeployTypeOK
  <2> USE <1>1, <1>2, <1>5, <1>6, <2>1, <2>2 DEF InOrder, Resources, Webhooks, Deployments, Optional
  <2>3. CASE at \in {1, 2}
    BY <2>3
  <2>4. CASE at = 3
    <3>1. cluster'["module"] = run /\ Order[at] = "module"
      BY <2>4
    <3>2. /\ cluster'["mutate"] \in {0, run} /\ cluster'["validate"] \in {0, run}
          /\ cluster'["tls"] <= cluster["module"] /\ cluster["module"] <= run
      BY <2>4, <3>1
    <3>3. QED
      BY <2>4, <3>1, <3>2
  <2>5. CASE at \in {4, 5, 6, 7}
    <3>1. /\ cluster'["module"] = run /\ cluster["module"] = run
          /\ cluster'["mutate"] \in {0, run} /\ cluster'["validate"] \in {0, run}
      BY <2>5
    <3>2. cluster'["tls"] <= run
      BY <2>5
    <3>3. QED
      BY <2>5, <3>1, <3>2
  <2>6. QED
    BY <2>3, <2>4, <2>5
<1>8. QED
  BY <1>4, <1>7

\* What happens to a pod changes neither deployments nor resources.
LEMMA PodTyped ==
  ASSUME DeployTypeOK, InOrder, NEW p \in Slots,
         NEW new \in {NoPod} \cup Pods,
         pods' = [pods EXCEPT ![p] = new], UNCHANGED deploying, stops' \in 0..MaxStops
  PROVE  DeployTypeOK' /\ InOrder'
<1>1. DeployTypeOK'
  BY DEF DeployTypeOK, deploying, Pods
<1>2. InOrder'
  BY DEF InOrder, deploying
<1>3. QED
  BY <1>1, <1>2

\* Pods that are ready, found it when they started; the others need not have.
LEMMA FoundKept ==
  ASSUME NEW p \in Slots, DeployTypeOK, Found(p), pods'[p] = pods[p], code' = code,
         cluster'["module"] \in Nat, cluster'["module"] >= cluster["module"]
  PROVE  Found(p)'
<1>1. cluster["module"] \in Nat
  BY DEF DeployTypeOK, Resources
<1>2. 1..cluster["module"] \subseteq 1..cluster'["module"]
  BY <1>1
<1>3. pods[p].module # 0 => pods[p].module <= cluster'["module"]
  <2>1. pods[p].module \in Nat
    BY DEF DeployTypeOK, Pods, NoPod, Made
  <2>2. QED
    BY <1>1, <2>1 DEF Found
<1>4. QED
  BY <1>2, <1>3 DEF Found

\* A pod whose process has read nothing.
LEMMA MadeTyped ==
  ASSUME NEW t \in 1..run, run \in Nat
  PROVE  Made(t) \in Pods
BY DEF Made, Pods

\* A pod that is made or ends has read nothing; one that starts finds its code.
LEMMA PodStep ==
  ASSUME DeployInv, NEW p \in Slots,
         Create(p) \/ Retire(p) \/ LoadModule(p) \/ LoadCertificate(p) \/ LoadToken(p) \/ Stop(p)
  PROVE  DeployInv'
<1> USE DeployAssumption, SlotFacts DEF DeployInv
<1>1. /\ cluster \in [Resources -> 0..run] /\ run \in Nat /\ stops \in 0..MaxStops
      /\ pods \in [Slots -> {NoPod} \cup Pods]
  BY DEF DeployTypeOK
<1>2. ASSUME NEW new \in {NoPod} \cup Pods,
             pods' = [pods EXCEPT ![p] = new], UNCHANGED deploying, stops' \in 0..MaxStops,
             p \in PodsOf["deployment"] => Found(p)'
      PROVE  DeployInv'
  <2>1. DeployTypeOK' /\ InOrder'
    BY <1>2, PodTyped
  <2>2. \A q \in PodsOf["deployment"] : Found(q)'
    <3> SUFFICES ASSUME NEW q \in PodsOf["deployment"], q # p PROVE Found(q)'
      BY <1>2
    <3>1. q \in Slots /\ pods'[q] = pods[q] /\ Found(q)
      BY <1>1, <1>2 DEF Slots
    <3>2. cluster'["module"] = cluster["module"] /\ cluster["module"] \in Nat /\ code' = code
      BY <1>1, <1>2 DEF deploying, Resources
    <3>3. QED
      BY <3>1, <3>2, FoundKept
  <2>3. QED
    BY <2>1, <2>2 DEF PodsOf
<1>3. /\ cluster["tls"] \in 0..run /\ cluster["token"] \in 0..run /\ cluster["module"] \in 0..run
      /\ pods[p] # NoPod => pods[p] \in Pods
  BY <1>1 DEF Resources
<1>4. CASE Create(p)
  <2>1. cluster[Owner(p)] \in 1..run
    BY <1>1, <1>4 DEF Create
  <2>2. Made(cluster[Owner(p)]) \in Pods
    BY <1>1, <2>1, MadeTyped
  <2>3. pods' = [pods EXCEPT ![p] = Made(cluster[Owner(p)])] /\ UNCHANGED <<deploying, stops>>
    BY <1>4 DEF Create
  <2>4. Found(p)'
    BY <1>1, <2>3 DEF Found, Made
  <2>5. QED
    BY <1>1, <1>2, <2>2, <2>3, <2>4
<1>5. CASE Retire(p)
  <2>1. pods' = [pods EXCEPT ![p] = NoPod] /\ UNCHANGED <<deploying, stops>>
    BY <1>5 DEF Retire
  <2>2. Found(p)'
    BY <1>1, <2>1 DEF Found, NoPod, Made
  <2>3. QED
    BY <1>1, <1>2, <2>1, <2>2
<1>6. CASE LoadModule(p)
  <2> DEFINE new == IF Owner(p) = "watcher" THEN [pods[p] EXCEPT !.ready = TRUE]
                    ELSE [pods[p] EXCEPT !.module = cluster["module"]]
  <2>1. pods[p] \in Pods /\ HasModule(p) /\ Fresh(p)
    BY <1>3, <1>6 DEF LoadModule
  <2>2. new \in Pods
    BY <1>3, <2>1 DEF Pods
  <2>3. pods' = [pods EXCEPT ![p] = new] /\ UNCHANGED <<deploying, stops>>
    BY <1>6 DEF LoadModule
  <2>4. p \in PodsOf["deployment"] => Found(p)'
    <3> SUFFICES ASSUME p \in PodsOf["deployment"] PROVE Found(p)'
      OBVIOUS
    <3>1. Owner(p) = "deployment"
      BY SlotFacts DEF Owner
    <3>2. pods'[p] = [pods[p] EXCEPT !.module = cluster["module"]]
      BY <1>1, <2>3, <3>1
    <3>3. /\ pods'[p].module = cluster["module"] /\ pods'[p].template = pods[p].template
          /\ pods'[p].tls = 0
      BY <2>1, <3>2 DEF Fresh, Made, Pods
    <3>4. UNCHANGED <<cluster, code>>
      BY <2>3 DEF deploying
    <3>5. QED
      BY <1>3, <2>1, <3>3, <3>4 DEF Found, HasModule
  <2>5. QED
    BY <1>1, <1>2, <2>2, <2>3, <2>4
<1>7. CASE LoadCertificate(p)
  <2> DEFINE over == pods[p].module # cluster["module"]
             new == [pods[p] EXCEPT !.module = 0, !.tls = cluster["tls"], !.overtaken = over]
  <2>1. pods[p].module # 0 /\ pods[p] \in Pods
    BY <1>3, <1>7 DEF LoadCertificate, Loaded, NoPod, Made
  <2>2. new \in Pods
    <3>1. over \in BOOLEAN
      OBVIOUS
    <3> HIDE DEF over
    <3>2. 0 \in 0..run
      BY <1>1
    <3>3. QED
      BY <1>3, <2>1, <3>1, <3>2 DEF Pods
  <2>3. pods' = [pods EXCEPT ![p] = new] /\ UNCHANGED <<deploying, stops>>
    BY <1>7 DEF LoadCertificate
  <2>4. p \in PodsOf["deployment"] => Found(p)'
    <3> SUFFICES ASSUME p \in PodsOf["deployment"] PROVE Found(p)'
      OBVIOUS
    <3>1. Found(p) /\ pods[p].module \in 1..cluster["module"]
          /\ code[pods[p].module] = code[pods[p].template]
      BY <1>3, <2>1 DEF Found, Pods
    <3>2. /\ pods'[p].module = 0 /\ pods'[p].tls = cluster["tls"]
          /\ pods'[p].overtaken = (pods[p].module # cluster["module"])
          /\ pods'[p].template = pods[p].template
      BY <1>1, <2>1, <2>3 DEF Pods
    <3>3. UNCHANGED <<cluster, code>>
      BY <2>3 DEF deploying
    <3>4. cluster["tls"] <= cluster["module"]
      BY DEF InOrder
    <3>5. QED
      BY <1>3, <3>1, <3>2, <3>3, <3>4 DEF Found
  <2>5. QED
    BY <1>1, <1>2, <2>2, <2>3, <2>4
<1>8. CASE LoadToken(p)
  <2> DEFINE new == [pods[p] EXCEPT !.token = cluster["token"], !.ready = TRUE]
  <2>1. pods[p].tls # 0 /\ pods[p] \in Pods
    BY <1>3, <1>8 DEF LoadToken, Certified, NoPod, Made
  <2>2. new \in Pods
    <3>1. cluster["token"] \in 0..run /\ TRUE \in BOOLEAN
      BY <1>3
    <3>2. QED
      BY <2>1, <3>1 DEF Pods
  <2>3. pods' = [pods EXCEPT ![p] = new] /\ UNCHANGED <<deploying, stops>>
    BY <1>8 DEF LoadToken
  <2>4. p \in PodsOf["deployment"] => Found(p)'
    <3>1. /\ pods'[p].module = pods[p].module /\ pods'[p].tls = pods[p].tls
          /\ pods'[p].overtaken = pods[p].overtaken /\ pods'[p].template = pods[p].template
      BY <1>1, <2>1, <2>3 DEF Pods
    <3>2. UNCHANGED <<cluster, code>>
      BY <2>3 DEF deploying
    <3>3. QED
      BY <2>1, <3>1, <3>2 DEF Found
  <2>5. QED
    BY <1>1, <1>2, <2>2, <2>3, <2>4
<1>9. CASE Stop(p)
  <2>1. pods[p] \in Pods
    <3>1. Made(NoPod.template) = NoPod
      BY DEF NoPod, Made
    <3>2. QED
      BY <1>3, <1>9, <3>1 DEF Stop, Fresh
  <2>2. Made(pods[p].template) \in Pods
    BY <1>1, <2>1, MadeTyped DEF Pods
  <2>3. pods' = [pods EXCEPT ![p] = Made(pods[p].template)] /\ UNCHANGED deploying
    BY <1>9 DEF Stop
  <2>4. stops' \in 0..MaxStops
    BY <1>1, <1>9 DEF Stop
  <2>5. Found(p)'
    BY <1>1, <2>3 DEF Found, Made
  <2>6. QED
    BY <1>2, <2>2, <2>3, <2>4, <2>5
<1>10. QED
  BY <1>4, <1>5, <1>6, <1>7, <1>8, <1>9

\* A step of the deployment leaves pods as they are.
LEMMA PodsAsTheyWere ==
  ASSUME DeployInv, DeployTypeOK', InOrder', UNCHANGED <<code, pods>>, cluster'["module"] >= cluster["module"]
  PROVE  DeployInv'
<1>1. cluster'["module"] \in Nat
  BY DEF DeployTypeOK, Resources
<1>2. \A p \in PodsOf["deployment"] : Found(p)'
  BY <1>1, FoundKept, SlotFacts DEF DeployInv, Slots
<1>3. QED
  BY <1>2 DEF DeployInv, PodsOf

LEMMA NextInv == DeployInv /\ [Next]_vars => DeployInv'
<1> SUFFICES ASSUME DeployInv, [Next]_vars PROVE DeployInv'
  OBVIOUS
<1>1. /\ DeployTypeOK /\ InOrder /\ cluster["module"] \in Nat
      /\ failures \in 0..MaxFailures /\ MaxFailures \in Nat
  BY DeployAssumption DEF DeployInv, DeployTypeOK, Resources
<1>2. CASE Begin
  <2>1. UNCHANGED <<code, pods, cluster>>
    BY <1>2 DEF Begin
  <2>2. QED
    BY <1>1, <1>2, <2>1, BeginStep, PodsAsTheyWere
<1>3. CASE Apply
  <2>1. UNCHANGED <<code, pods>>
    BY <1>3 DEF Apply
  <2>2. QED
    BY <1>3, <2>1, ApplyStep, PodsAsTheyWere
<1>4. CASE Validate
  <2>1. UNCHANGED <<code, run, cluster, failures, pods, stops>> /\ at # 0
    BY <1>4, Positions DEF Validate
  <2>2. DeployTypeOK' /\ InOrder'
    <3>1. CASE Ends("failed")
      BY <1>1, <2>1, <3>1, EndsTyped
    <3>2. CASE at' = Polling /\ UNCHANGED result
      BY <1>1, <1>4, <2>1, <3>2, Positions DEF DeployTypeOK, InOrder, Validate, Pods
    <3>3. QED
      BY <1>4, <3>1, <3>2 DEF Validate
  <2>3. QED
    BY <1>1, <2>1, <2>2, PodsAsTheyWere
<1>5. CASE Fails
  <2>1. UNCHANGED <<code, run, cluster, pods, stops>> /\ at # 0 /\ Ends("failed")
    BY <1>5 DEF Fails
  <2>2. failures' \in 0..MaxFailures
    BY <1>1, <1>5 DEF Fails
  <2>3. DeployTypeOK' /\ InOrder'
    BY <1>1, <2>1, <2>2, EndsTyped
  <2>4. QED
    BY <1>1, <2>1, <2>3, PodsAsTheyWere
<1>6. CASE Poll
  <2>1. UNCHANGED <<code, run, cluster, failures, pods, stops>> /\ at # 0 /\ Ends("success")
    BY <1>6, Positions DEF Poll
  <2>2. DeployTypeOK' /\ InOrder'
    BY <1>1, <2>1, EndsTyped
  <2>3. QED
    BY <1>1, <2>1, <2>2, PodsAsTheyWere
<1>7. CASE \E p \in Slots :
        Create(p) \/ Retire(p) \/ LoadModule(p) \/ LoadCertificate(p) \/ LoadToken(p) \/ Stop(p)
  BY <1>7, PodStep
<1>8. CASE UNCHANGED vars
  <2>1. UNCHANGED <<code, run, at, result, cluster, pods, failures, stops>>
    BY <1>8 DEF vars, deploying
  <2>2. DeployTypeOK' /\ InOrder'
    BY <1>1, <2>1 DEF DeployTypeOK, InOrder, Pods
  <2>3. QED
    BY <1>1, <2>1, <2>2, PodsAsTheyWere
<1>9. QED
  BY <1>2, <1>3, <1>4, <1>5, <1>6, <1>7, <1>8 DEF Next

-----------------------------------------------------------------------------
(* Theorems.                                                               *)

LEMMA Invariant == Spec => []DeployInv
BY InitInv, NextInv, PTL DEF Spec

\* Types stay right, and a deployment has a result if and only if it has ended
\* (process.exit and the return of "peppr deploy", src/cli/deploy.ts:94-103).
THEOREM DeployTypeCorrect == Spec => []DeployTypeOK
<1>1. DeployInv => DeployTypeOK
  BY DEF DeployInv
<1>2. QED
  BY <1>1, Invariant, PTL

\* A request that reaches a pod finds the code that the rules of its webhook
\* were made from, because of the order of src/lib/assets/deploy.ts:44-149,
\* wherever the reads of the starting process (src/runtime/controller.ts:25-52,
\* src/lib/controller/index.ts:82-96) fall between the steps of deployments,
\* but for a process between whose reads the module's secret was replaced.
THEOREM SameCodeAlways == Spec => []SameCode
<1>1. DeployInv => SameCode
  <2> SUFFICES ASSUME DeployInv, NEW p \in PodsOf["deployment"], NEW w \in Webhooks, Reached(p, w),
                      ~pods[p].overtaken
               PROVE  code[pods[p].template] = code[cluster[w]]
    BY DEF SameCode
  <2>1. PICK m \in 1..cluster["module"] : code[m] = code[pods[p].template] /\ pods[p].tls <= m
    BY DEF DeployInv, Found, Reached
  <2>2. cluster[w] >= cluster["module"] /\ pods[p].tls = cluster[w]
    BY DEF DeployInv, InOrder, Reached
  <2>3. cluster[w] \in Nat /\ cluster["module"] \in Nat
    BY DeployAssumption DEF DeployInv, DeployTypeOK, Resources
  <2>4. m = cluster[w]
    BY <2>1, <2>2, <2>3
  <2>5. QED
    BY <2>1, <2>4
<1>2. QED
  BY <1>1, Invariant, PTL
=============================================================================
