------------------------------ MODULE Filters -------------------------------
(***************************************************************************)
(* Which requests and objects an action is for: the filters of             *)
(* src/lib/filter.ts (admission) and src/lib/helpers.ts (watch), the       *)
(* namespace rules a module is built under, and the webhook rules of       *)
(* src/lib/assets/webhooks.ts by which the API server decides what to send.*)
(*                                                                         *)
(* An action is a binding with its capability's name and namespaces.       *)
(* Labels and annotations are filtered by the same code: "labels" stands   *)
(* for either, a function from some keys to values.  Group, version, kind  *)
(* and plural of a resource are one value: a rule names the plural, which  *)
(* is guessed as kind + s if there is none, and the guess is taken to be   *)
(* right.  Every resource is namespaced, and has no label                  *)
(* kubernetes.io/metadata.name, for which objectSelector looks too.        *)
(***************************************************************************)
EXTENDS FiniteSets, Sequences

CONSTANTS Ignored,  \* kube-system, peppr-system and alwaysIgnore.namespaces
          Exempt,   \* namespaces that have the label peppr.dev=ignore
          Empty     \* the empty string: as a filter it means any value

Operations == {"CREATE", "UPDATE", "DELETE"}

\* The operations whose name occurs in the binding's event, or all for "*".
EventOperations ==
  [CREATE |-> {"CREATE"},
   UPDATE |-> {"UPDATE"},
   DELETE |-> {"DELETE"},
   CREATEORUPDATE |-> {"CREATE", "UPDATE"},
   ANY |-> Operations]

\* The object a request is about: the old one if it is deleted.
Source(req) == IF req.operation = "DELETE" THEN req.oldObject ELSE req.object

-----------------------------------------------------------------------------
(* Admission: shouldSkipRequest().                                         *)

\* Mutant: the filter's and the capability's namespaces are only combined.
WrongNamespaceCombined(a, ns) ==
  a.namespaces \cup a.capNamespaces # {} /\ ns \notin a.namespaces \cup a.capNamespaces

WrongNamespace(a, ns) ==
  \/ a.namespaces \cup a.capNamespaces # {} /\ ns \notin a.namespaces \cup a.capNamespaces
  \/ ns \notin a.namespaces /\ a.capNamespaces # {} /\ a.namespaces # {}

\* The key is there, its value is not "" and the one asked for, if any.
HasLabel(obj, key, value) ==
  /\ key \in DOMAIN obj.labels
  /\ obj.labels[key] # Empty
  /\ value \in {Empty, obj.labels[key]}

ShouldSkipRequest(a, req) ==
  \/ req.operation \notin EventOperations[a.event]
  \/ a.name # Empty /\ a.name # req.name
  \/ a.kind # req.kind
  \/ WrongNamespace(a, req.namespace)
  \/ \E key \in DOMAIN a.labels : ~HasLabel(Source(req), key, a.labels[key])

-----------------------------------------------------------------------------
(* Watch: filterNoMatchReason().                                           *)

CheckOverlap(filters, labels) ==
  \A key \in DOMAIN filters :
    key \in DOMAIN labels /\ filters[key] \in {Empty, labels[key]}

\* It finds no reason to ignore the object.  An object without labels has
\* no such field and is not compared.
WatchMatches(a, obj, ns) ==
  /\ DOMAIN obj.labels # {} => CheckOverlap(a.labels, obj.labels)
  /\ a.capNamespaces # {} => ns \in a.capNamespaces /\ a.namespaces \subseteq a.capNamespaces
  /\ a.namespaces # {} => ns \in a.namespaces

-----------------------------------------------------------------------------
(* Building and deploying a module.                                        *)

\* Mutant: only the ignored namespaces are looked at.
CompliantIgnored(actions) ==
  \A i \in DOMAIN actions : actions[i].namespaces \cap Ignored = {}

\* namespaceComplianceValidator() accepts every capability.
Compliant(actions) ==
  \A i \in DOMAIN actions :
    /\ actions[i].namespaces \cap Ignored = {}
    /\ actions[i].capNamespaces # {} => actions[i].namespaces \subseteq actions[i].capNamespaces

\* Mutant: CreateOrUpdate is sent as it is, which no request matches.
RuleOperationsVerbatim(a) ==
  IF a.event = "CREATEORUPDATE" THEN {} ELSE EventOperations[a.event]

\* The operations of an action's rule: CreateOrUpdate becomes the two.
RuleOperations(a) == EventOperations[a.event]

\* generateWebhookRules(): the rules of the mutating or validating webhook.
WebhookRules(actions, role) ==
  {[operations |-> RuleOperations(actions[i]), kind |-> actions[i].kind] :
     i \in {j \in DOMAIN actions : actions[j].role = role}}

\* pepprIgnoreLabel: "peppr.dev NotIn ignore".
HasIgnoreLabel(obj) == "peppr.dev" \in DOMAIN obj.labels /\ obj.labels["peppr.dev"] = "ignore"

\* The objects in a request, of which a selector has to match one.
Carried(req) ==
  {obj \in {req.object, req.oldObject} :
     \/ req.operation # "DELETE" /\ obj = req.object
     \/ req.operation # "CREATE" /\ obj = req.oldObject}

\* namespaceSelector and objectSelector.
Selected(req) ==
  /\ req.namespace \notin Ignored \cup Exempt
  /\ \E obj \in Carried(req) : ~HasIgnoreLabel(obj)

\* webhookConfig(): the API server calls the webhook for this request.
Sent(actions, role, req) ==
  /\ Selected(req)
  /\ \E rule \in WebhookRules(actions, role) :
       req.operation \in rule.operations /\ req.kind = rule.kind

\* Mutant: every failure is the API server's to reject.
FailurePolicyFail(onError) == "Fail"

FailurePolicy(onError) == IF onError = "reject" THEN "Fail" ELSE "Ignore"
=============================================================================
