---------------------------- MODULE MCAdmission -----------------------------
(* TLC instances of Admission.                                             *)
EXTENDS Admission

CONSTANTS capA, capB, ns1, ns2, nsIgnored, nsExempt, x, y, name1, name2

NoLabels == <<>>
Labelled(v) == [k \in {"team"} |-> v]

IgnoreLabelled == [k \in {"peppr.dev"} |-> "ignore"]

MCLabelings == {NoLabels, Labelled(x), IgnoreLabelled}
MCIgnored == {nsIgnored}
MCExempt == {nsExempt}

Action(cap, capNs, role, kind, event, nss, name, labels) ==
  [capability |-> cap, capNamespaces |-> capNs, role |-> role, kind |-> kind, event |-> event,
   namespaces |-> nss, name |-> name, labels |-> labels]

\* Bindings of two capabilities, one of them confined to ns1.
MCMutates ==
  {Action(capA, {ns1}, "mutate", "Secret", "CREATEORUPDATE", {}, Empty, NoLabels),
   Action(capA, {ns1}, "mutate", "Secret", "CREATE", {ns2}, Empty, NoLabels),
   Action(capA, {ns1, ns2}, "mutate", "Pod", "ANY", {ns2}, Empty, Labelled(x)),
   Action(capB, {}, "mutate", "Secret", "UPDATE", {ns1, ns2}, name1, Labelled(Empty)),
   Action(capB, {}, "mutate", "Secret", "DELETE", {nsIgnored}, Empty, NoLabels)}

MCValidates ==
  {Action(capA, {ns1}, "validate", "Secret", "CREATEORUPDATE", {}, Empty, Labelled(Empty)),
   Action(capB, {}, "validate", "Secret", "ANY", {}, Empty, Labelled(x)),
   Action(capB, {}, "validate", "Pod", "UPDATE", {ns1}, Empty, NoLabels)}

MCModules ==
  {<<a, b>> : a \in MCMutates, b \in MCMutates \cup MCValidates}
  \cup {<<a, b, c>> : a \in MCValidates, b \in MCMutates, c \in MCValidates}

Stored(text) == [text |-> text, layers |-> 1]

MCObject(labels, data) == [labels |-> labels, marks |-> {}, status |-> <<>>, data |-> data]

NoObject == MCObject(NoLabels, <<>>)

SecretData == [k1 |-> Stored("ascii"), k2 |-> NoData]
BinaryData == [k1 |-> Stored("binary"), k2 |-> Stored("ascii")]

MCRequest(op, kind, ns, name, obj) ==
  [operation |-> op, kind |-> kind, namespace |-> ns, name |-> name,
   object |-> IF op = "DELETE" THEN NoObject ELSE obj,
   oldObject |-> IF op = "CREATE" THEN NoObject ELSE obj]

MCRequestLabelings == {NoLabels, Labelled(x), Labelled(y), IgnoreLabelled}

MCRequests ==
  {MCRequest(op, "Secret", ns, name, MCObject(l, d)) :
     op \in Operations, ns \in {ns1, ns2}, name \in {name1, name2}, l \in MCRequestLabelings,
     d \in {SecretData, BinaryData}}
  \cup {MCRequest(op, "Pod", ns, name1, MCObject(l, <<>>)) :
     op \in Operations, ns \in {ns1, ns2}, l \in MCRequestLabelings}
  \cup {MCRequest("CREATE", "Secret", ns, name1, MCObject(l, SecretData)) :
           ns \in {nsIgnored, nsExempt}, l \in MCRequestLabelings}
  \cup {[MCRequest("UPDATE", "Secret", ns1, name1, MCObject(l, SecretData))
           EXCEPT !.oldObject.labels = IgnoreLabelled] : l \in MCRequestLabelings}
=============================================================================
