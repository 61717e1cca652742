-------------------------- MODULE AdmissionProofs ---------------------------
(***************************************************************************)
(* Proofs about Admission, for any compliant modules, any requests, labels *)
(* and ignored namespaces.                                                 *)
(*                                                                         *)
(* The argument: while a handler runs, the actions before "next" are done  *)
(* with, and with onError "reject" each of them that was not skipped has   *)
(* let the request pass.  A handler only answers behind the last action,   *)
(* the rules send it every request that an action governs, and the filter  *)
(* skips no action that governs the request.                               *)
(***************************************************************************)
EXTENDS Admission, TLAPS

\* The labels of requests and callbacks have values.
ValuedLabels == \A l \in Labels : \A key \in DOMAIN l : l[key] # Empty

Roles == {"mutate", "validate"}

\* What can become of an action.
OutcomesOf(role) ==
  IF role = "mutate" THEN {"none", "succeeded", "failed"} ELSE {"none", "allowed", "denied", "failed"}

WellFormed(obj) ==
  /\ DOMAIN obj = ObjectFields
  /\ obj.labels \in Labels
  /\ obj.marks \subseteq DOMAIN actions
  /\ DOMAIN obj.status \subseteq {actions[i].capability : i \in DOMAIN actions}
                                \cup DOMAIN request.object.status \cup DOMAIN request.oldObject.status
  /\ \A k \in DOMAIN obj.data : obj.data[k] \in StoredData

Inputs ==
  /\ actions \in Modules /\ Compliant(actions)
  /\ onError \in Errors
  /\ request \in Requests

\* The types, and where the request is.
ShapeInv ==
  /\ Inputs
  /\ stage \in Roles \cup {"persisted", "refused"}
  /\ next \in 0..(Len(actions) + 1)
  /\ stage \notin Roles => next = 0
  /\ next # 0 => Selected(Current)
  /\ stage = "mutate" => object = request.object
  /\ WellFormed(object) /\ WellFormed(raw)
  /\ skipDecode \subseteq DOMAIN raw.data
  /\ outcome \in [DOMAIN actions -> {"none", "succeeded", "failed", "allowed", "denied"}]
  /\ \A i \in DOMAIN actions : outcome[i] \in OutcomesOf(actions[i].role)
  /\ unanswered \subseteq Roles

\* The action is skipped, or was or would be at its turn, or its webhook is
\* not called for such an object.
Skipped(i) ==
  \/ ~Selected(Seen(actions[i].role))
  \/ ShouldSkipRequest(actions[i], Seen(actions[i].role))

\* Only actions that are not skipped become anything, those of the webhook
\* whose turn it is and of the one before.
RanInv ==
  \A i \in DOMAIN actions :
    /\ outcome[i] # "none" => ~Skipped(i)
    /\ stage = "mutate" /\ (actions[i].role = "validate" \/ next = 0) => outcome[i] = "none"

\* Every action of the role before n that is for the request let it pass.
Passed(role, n, verdicts) ==
  \A i \in DOMAIN actions :
    i < n /\ actions[i].role = role /\ ~Skipped(i) => outcome[i] \in verdicts

\* With onError "reject", what the loops are through with has passed.
PassedInv ==
  onError = "reject" =>
    /\ stage = "mutate" => Passed("mutate", next, {"succeeded"})
    /\ stage = "validate" => Passed("validate", next, {"allowed", "denied"})
    /\ stage \in {"validate", "persisted"} => Passed("mutate", Len(actions) + 1, {"succeeded"})
    /\ stage = "persisted" => Passed("validate", Len(actions) + 1, {"allowed"})

\* The object holds the traces of the mutate actions that ran.
Kept(obj) ==
  \A i \in DOMAIN actions :
    actions[i].role = "mutate" /\ outcome[i] # "none" =>
      /\ outcome[i] = "succeeded" => i \in obj.marks
      /\ actions[i].capability \in DOMAIN obj.status

KeptInv ==
  request.operation # "DELETE" =>
    /\ stage = "mutate" /\ next # 0 => Kept(raw)
    /\ stage \in {"validate", "persisted"} /\ "mutate" \notin unanswered => Kept(object)

\* Each value is encoded once, or text put where the request has binary data.
Intact(data) ==
  \A k \in DOMAIN data :
    \/ data[k] = NoData
    \/ data[k].layers = 1
    \/ data[k].text = "new" /\ k \in NonAscii(request.object.data)

\* In the handler what will be encoded is plain, and the rest is intact.
SecretInv ==
  IsSecret /\ request.operation # "DELETE" =>
    /\ Intact(object.data)
    /\ stage = "mutate" /\ next # 0 =>
         /\ skipDecode \subseteq NonAscii(request.object.data)
         /\ \A k \in DOMAIN raw.data :
              \/ raw.data[k] = NoData
              \/ k \in skipDecode /\ (raw.data[k].layers = 1 \/ raw.data[k].text = "new")
              \/ k \notin skipDecode /\ raw.data[k].layers = 0

\* The inductive invariant.
IInv ==
  /\ ShapeInv
  /\ RanInv
  /\ PassedInv
  /\ KeptInv
  /\ SecretInv
  /\ RefusedForCause

-----------------------------------------------------------------------------
(* Lemmas about the filters and the rules.                                 *)

\* An action that is not skipped governs the request, if the build has
\* checked its namespaces against its capability's.
LEMMA FilterSound ==
  ASSUME NEW a, NEW req,
         a.capNamespaces # {} => a.namespaces \subseteq a.capNamespaces,
         Selected(req), ~ShouldSkipRequest(a, req)
  PROVE  Governs(a, req)
<1>1. \A nss \in {a.namespaces, a.capNamespaces} : nss = {} \/ req.namespace \in nss
  BY DEF ShouldSkipRequest, WrongNamespace
<1>2. ASSUME NEW key \in DOMAIN a.labels
      PROVE  /\ key \in DOMAIN Source(req).labels
             /\ a.labels[key] \in {Empty, Source(req).labels[key]}
  BY DEF ShouldSkipRequest, HasLabel
<1>3. QED
  BY <1>1, <1>2 DEF Governs, ShouldSkipRequest

\* An action that governs a request with valued labels is not skipped.
LEMMA FilterComplete ==
  ASSUME NEW a, NEW req, Governs(a, req),
         \A key \in DOMAIN Source(req).labels : Source(req).labels[key] # Empty
  PROVE  ~ShouldSkipRequest(a, req)
<1>1. ~WrongNamespace(a, req.namespace)
  BY DEF Governs, WrongNamespace
<1>2. \A key \in DOMAIN a.labels : HasLabel(Source(req), key, a.labels[key])
  BY DEF Governs, HasLabel
<1>3. QED
  BY <1>1, <1>2 DEF Governs, ShouldSkipRequest

\* The webhook rules cover every request that some action is not skipped for.
LEMMA RulesCover ==
  ASSUME NEW acts, NEW i \in DOMAIN acts, NEW req,
         Selected(req), ~ShouldSkipRequest(acts[i], req)
  PROVE  Sent(acts, acts[i].role, req)
<1> DEFINE rule == [operations |-> RuleOperations(acts[i]), kind |-> acts[i].kind]
<1>1. rule \in WebhookRules(acts, acts[i].role)
  BY DEF WebhookRules
<1>2. req.operation \in rule.operations /\ req.kind = rule.kind
  BY DEF ShouldSkipRequest, RuleOperations
<1>3. QED
  BY <1>1, <1>2 DEF Sent

\* For an object with labels that have values the admission filter of a
\* compliant action and the watch filter agree.
LEMMA FilterIsWatchFilter ==
  ASSUME NEW a, NEW req,
         a.capNamespaces # {} => a.namespaces \subseteq a.capNamespaces,
         req.operation \in EventOperations[a.event],
         a.name = Empty, a.kind = req.kind,
         DOMAIN Source(req).labels # {},
         \A key \in DOMAIN Source(req).labels : Source(req).labels[key] # Empty
  PROVE  ~ShouldSkipRequest(a, req) <=> WatchMatches(a, Source(req), req.namespace)
<1>1. ~WrongNamespace(a, req.namespace)
      <=> /\ a.capNamespaces # {} => req.namespace \in a.capNamespaces
          /\ a.namespaces # {} => req.namespace \in a.namespaces
  BY DEF WrongNamespace
<1>2. (\A key \in DOMAIN a.labels : HasLabel(Source(req), key, a.labels[key]))
      <=> CheckOverlap(a.labels, Source(req).labels)
  BY DEF HasLabel, CheckOverlap
<1>3. QED
  BY <1>1, <1>2 DEF ShouldSkipRequest, WatchMatches

-----------------------------------------------------------------------------
(* Lemmas about the request and the object.                                *)

\* What the module and the request look like.
LEMMA InputShape ==
  ASSUME Inputs
  PROVE  /\ Len(actions) \in Nat
         /\ DOMAIN actions = 1..Len(actions)
         /\ \A i \in DOMAIN actions : /\ DOMAIN actions[i] = ActionFields
                                      /\ actions[i].role \in Roles
                                      /\ actions[i].event \in DOMAIN EventOperations
         /\ DOMAIN request = RequestFields
         /\ request.operation \in Operations
         /\ ClientObject(request.object) /\ ClientObject(request.oldObject)
<1> DEFINE S == {actions[i] : i \in DOMAIN actions}
<1>1. /\ actions \in Seq(S)
      /\ \A i \in DOMAIN actions : /\ DOMAIN actions[i] = ActionFields
                                   /\ actions[i].role \in {"mutate", "validate"}
                                   /\ actions[i].event \in DOMAIN EventOperations
  BY AdmissionAssumption DEF Inputs
<1> HIDE DEF S
<1>2. Len(actions) \in Nat /\ DOMAIN actions = 1..Len(actions)
  BY <1>1
<1>3. request \in Requests
  BY DEF Inputs
<1>4. QED
  BY <1>1, <1>2, <1>3, AdmissionAssumption DEF Roles

\* The fields of the request as the webhooks see it.
LEMMA CurrentFields ==
  ASSUME Inputs
  PROVE  /\ Current.operation = request.operation
         /\ Current.kind = request.kind
         /\ Current.namespace = request.namespace
         /\ Current.name = request.name
         /\ Current.object = object
         /\ Current.oldObject = request.oldObject
         /\ Source(Current) = IF request.operation = "DELETE" THEN request.oldObject ELSE object
  BY InputShape DEF Current, RequestFields, Source

\* Before any mutation an action sees the request as it was made.
LEMMA SeenAtStart ==
  ASSUME Inputs, object = request.object, NEW a
  PROVE  ShouldSkipRequest(a, Current) <=> ShouldSkipRequest(a, request)
<1>1. Source(Current) = Source(request)
  BY CurrentFields DEF Source
<1>2. QED
  BY <1>1, CurrentFields DEF ShouldSkipRequest

\* The same of the selectors.
LEMMA SelectedAtStart ==
  ASSUME Inputs, object = request.object
  PROVE  Selected(Current) <=> Selected(request)
<1>1. Carried(Current) = Carried(request)
  BY CurrentFields DEF Carried
<1>2. QED
  BY <1>1, CurrentFields DEF Selected

\* What clients send is well formed.
LEMMA ClientWellFormed ==
  ASSUME Inputs
  PROVE  WellFormed(request.object) /\ WellFormed(request.oldObject)
<1>1. ClientData \subseteq StoredData
  BY DEF ClientData, StoredData
<1>2. request.object.labels \in Labels /\ request.oldObject.labels \in Labels
  BY DEF Labels, Inputs
<1>3. QED
  BY <1>1, <1>2, InputShape DEF WellFormed, ClientObject

\* Text that a callback puts under a key of a Secret.
NewText == [text |-> "new", layers |-> 0]

\* A callback keeps the object well formed, marks it, and leaves each value
\* of the data alone or replaces it by a text.
LEMMA EditShape ==
  ASSUME WellFormed(raw), NEW i \in DOMAIN actions, NEW obj \in Edits(i) \cup {raw}
  PROVE  /\ WellFormed(obj)
         /\ raw.marks \subseteq obj.marks
         /\ obj \in Edits(i) => i \in obj.marks
         /\ obj.status = raw.status
         /\ DOMAIN obj.data = DOMAIN raw.data
         /\ \A k \in DOMAIN raw.data : obj.data[k] \in {raw.data[k], NewText}
<1>1. CASE obj = raw
  <2>1. raw \in Edits(i) => i \in raw.marks
    BY DEF Edits, WellFormed, ObjectFields
  <2>2. QED
    BY <1>1, <2>1
<1>2. ASSUME NEW l \in Labelings \cup {raw.labels},
             obj = [raw EXCEPT !.marks = @ \cup {i}, !.labels = l]
      PROVE  /\ DOMAIN obj = ObjectFields
             /\ obj.marks = raw.marks \cup {i}
             /\ obj.labels \in Labels
             /\ obj.status = raw.status /\ obj.data = raw.data
  BY <1>2 DEF WellFormed, ObjectFields, Labels
<1>3. ASSUME NEW k \in DOMAIN raw.data,
             obj = [raw EXCEPT !.marks = @ \cup {i}, !.data[k] = NewText]
      PROVE  /\ DOMAIN obj = ObjectFields
             /\ obj.marks = raw.marks \cup {i}
             /\ obj.labels \in Labels
             /\ obj.status = raw.status
             /\ DOMAIN obj.data = DOMAIN raw.data
             /\ \A m \in DOMAIN raw.data : obj.data[m] \in {raw.data[m], NewText}
  BY <1>3 DEF WellFormed, ObjectFields
<1>4. NewText \in StoredData
  BY DEF NewText, StoredData
<1>5. CASE \E l \in Labelings \cup {raw.labels} :
             obj = [raw EXCEPT !.marks = @ \cup {i}, !.labels = l]
  BY <1>2, <1>5 DEF WellFormed
<1>6. CASE \E k \in DOMAIN raw.data :
             obj = [raw EXCEPT !.marks = @ \cup {i}, !.data[k] = NewText]
  BY <1>3, <1>4, <1>6 DEF WellFormed
<1>7. QED
  BY <1>1, <1>5, <1>6 DEF Edits, NewText

\* updateStatus() only adds to the object's annotations.
LEMMA AnnotatedShape ==
  ASSUME NEW obj, WellFormed(obj), NEW i \in DOMAIN actions, NEW status
  PROVE  /\ WellFormed(Annotated(obj, i, status))
         /\ Annotated(obj, i, status).marks = obj.marks
         /\ Annotated(obj, i, status).data = obj.data
         /\ DOMAIN obj.status \subseteq DOMAIN Annotated(obj, i, status).status
         /\ request.operation # "DELETE" =>
              actions[i].capability \in DOMAIN Annotated(obj, i, status).status
<1> DEFINE new == [c \in DOMAIN obj.status \cup {actions[i].capability} |->
                     IF c = actions[i].capability THEN status ELSE obj.status[c]]
<1>1. CASE request.operation = "DELETE"
  BY <1>1 DEF Annotated
<1>2. CASE request.operation # "DELETE"
  <2>1. Annotated(obj, i, status) = [obj EXCEPT !.status = new]
    BY <1>2 DEF Annotated
  <2>2. DOMAIN new = DOMAIN obj.status \cup {actions[i].capability}
    OBVIOUS
  <2> HIDE DEF new
  <2>3. /\ DOMAIN [obj EXCEPT !.status = new] = ObjectFields
        /\ [obj EXCEPT !.status = new].labels = obj.labels
        /\ [obj EXCEPT !.status = new].marks = obj.marks
        /\ [obj EXCEPT !.status = new].data = obj.data
        /\ [obj EXCEPT !.status = new].status = new
    BY DEF WellFormed, ObjectFields
  <2>4. QED
    BY <1>2, <2>1, <2>2, <2>3 DEF WellFormed
<1>3. QED
  BY <1>1, <1>2

\* Decoding stays within the types, decodes what is text and leaves the rest.
LEMMA DecodedShape ==
  ASSUME NEW data, \A k \in DOMAIN data : data[k] \in StoredData
  PROVE  /\ DOMAIN Decoded(data) = DOMAIN data
         /\ NonAscii(data) \subseteq DOMAIN data
         /\ \A k \in DOMAIN data :
              /\ Decoded(data)[k] \in StoredData
              /\ k \in NonAscii(data) => Decoded(data)[k] = data[k]
              /\ k \notin NonAscii(data) => Decoded(data)[k] = NoData \/ Decoded(data)[k].layers = 0
<1>1. NonAscii(data) \subseteq DOMAIN data
  BY DEF NonAscii
<1>2. DOMAIN Decoded(data) = DOMAIN data
  BY DEF Decoded
<1>3. ASSUME NEW k \in DOMAIN data
      PROVE  /\ Decoded(data)[k] \in StoredData
             /\ k \in NonAscii(data) => Decoded(data)[k] = data[k]
             /\ k \notin NonAscii(data) => Decoded(data)[k] = NoData \/ Decoded(data)[k].layers = 0
  <2>1. CASE data[k] = NoData \/ k \in NonAscii(data)
    <3>1. Decoded(data)[k] = data[k]
      BY <2>1 DEF Decoded
    <3>2. QED
      BY <2>1, <3>1
  <2>2. CASE ~(data[k] = NoData \/ k \in NonAscii(data))
    <3>1. data[k] \in [text : {"ascii", "binary", "new"}, layers : 0..1]
      BY <2>2 DEF StoredData
    <3>2. Decoded(data)[k] = [data[k] EXCEPT !.layers = 0]
      BY <2>2 DEF Decoded
    <3>3. /\ Decoded(data)[k] \in [text : {"ascii", "binary", "new"}, layers : 0..1]
          /\ Decoded(data)[k].layers = 0
      BY <3>1, <3>2
    <3>4. QED
      BY <2>2, <3>3 DEF StoredData
  <2>3. QED
    BY <2>1, <2>2
<1>4. QED
  BY <1>1, <1>2, <1>3

\* What a handler starts with.
LEMMA RawShape ==
  ASSUME NEW obj, WellFormed(obj)
  PROVE  LET start == IF IsSecret THEN [obj EXCEPT !.data = Decoded(@)] ELSE obj
         IN /\ WellFormed(start)
            /\ start.marks = obj.marks /\ start.status = obj.status
            /\ IsSecret => start.data = Decoded(obj.data)
            /\ DOMAIN start.data = DOMAIN obj.data
<1>1. CASE ~IsSecret
  BY <1>1
<1>2. CASE IsSecret
  <2> DEFINE new == Decoded(obj.data)
  <2>1. DOMAIN new = DOMAIN obj.data /\ \A k \in DOMAIN obj.data : new[k] \in StoredData
    BY DecodedShape DEF WellFormed
  <2> HIDE DEF new
  <2>2. /\ DOMAIN [obj EXCEPT !.data = new] = ObjectFields
        /\ [obj EXCEPT !.data = new].labels = obj.labels
        /\ [obj EXCEPT !.data = new].marks = obj.marks
        /\ [obj EXCEPT !.data = new].status = obj.status
        /\ [obj EXCEPT !.data = new].data = new
    BY DEF WellFormed, ObjectFields
  <2>3. WellFormed([obj EXCEPT !.data = new])
    BY <2>1, <2>2 DEF WellFormed
  <2>4. QED
    BY <1>2, <2>1, <2>2, <2>3 DEF new
<1>3. QED
  BY <1>1, <1>2

\* What the patch of a mutating handler makes of the object.
LEMMA TransformedShape ==
  ASSUME ShapeInv, SecretInv, stage = "mutate", next # 0, request.operation # "DELETE"
  PROVE  /\ WellFormed(Transformed)
         /\ Transformed.marks = raw.marks /\ Transformed.status = raw.status
         /\ IsSecret => Intact(Transformed.data)
<1>1. CASE ~IsSecret
  BY <1>1 DEF Transformed, ShapeInv
<1>2. CASE IsSecret
  <2> DEFINE new == Encoded(raw.data, skipDecode)
  <2>1. DOMAIN new = DOMAIN raw.data
    BY DEF Encoded
  <2>2. ASSUME NEW k \in DOMAIN raw.data
        PROVE  /\ new[k] \in StoredData
               /\ \/ new[k] = NoData
                  \/ new[k].layers = 1
                  \/ new[k].text = "new" /\ k \in NonAscii(request.object.data)
    <3>1. /\ raw.data[k] \in StoredData
          /\ \/ raw.data[k] = NoData
             \/ /\ k \in skipDecode
                /\ \/ raw.data[k].layers = 1
                   \/ raw.data[k].text = "new" /\ k \in NonAscii(request.object.data)
             \/ k \notin skipDecode /\ raw.data[k].layers = 0
      BY <1>2 DEF ShapeInv, WellFormed, SecretInv
    <3>2. CASE k \in skipDecode \/ raw.data[k] = NoData
      <4>1. new[k] = raw.data[k]
        BY <3>2 DEF Encoded, Encode
      <4>2. QED
        BY <3>1, <3>2, <4>1
    <3>3. CASE k \notin skipDecode /\ raw.data[k] # NoData
      <4>1. /\ raw.data[k] \in [text : {"ascii", "binary", "new"}, layers : 0..1]
            /\ raw.data[k].layers = 0
        BY <3>1, <3>3 DEF StoredData
      <4>2. new[k] = [raw.data[k] EXCEPT !.layers = raw.data[k].layers + 1]
        BY <3>3 DEF Encoded, Encode
      <4>3. /\ new[k] \in [text : {"ascii", "binary", "new"}, layers : 0..1]
            /\ new[k].layers = 1
        BY <4>1, <4>2
      <4>4. QED
        BY <4>3 DEF StoredData
    <3>4. QED
      BY <3>2, <3>3
  <2>3. WellFormed(raw) /\ Transformed = [raw EXCEPT !.data = new]
    BY <1>2 DEF Transformed, ShapeInv
  <2> HIDE DEF new
  <2>4. /\ DOMAIN Transformed = ObjectFields
        /\ Transformed.labels = raw.labels
        /\ Transformed.marks = raw.marks
        /\ Transformed.status = raw.status
        /\ Transformed.data = new
    BY <2>3 DEF WellFormed, ObjectFields
  <2>5. QED
    BY <2>1, <2>2, <2>3, <2>4 DEF WellFormed, Intact
<1>3. QED
  BY <1>1, <1>2

-----------------------------------------------------------------------------
(* The invariant, action by action.                                        *)

LEMMA InitIInv == Init => IInv
<1> SUFFICES ASSUME Init PROVE IInv
  OBVIOUS
<1>1. Inputs
  BY DEF Init, Inputs
<1>2. ShapeInv
  <2>1. \A i \in DOMAIN actions : outcome[i] \in OutcomesOf(actions[i].role)
    BY DEF Init, OutcomesOf
  <2>2. 0 \in 0..(Len(actions) + 1)
    BY <1>1, InputShape
  <2>3. QED
    BY <1>1, <2>1, <2>2, ClientWellFormed DEF Init, ShapeInv, Roles
<1>3. RanInv
  BY DEF Init, RanInv
<1>4. PassedInv
  <2>1. \A i \in DOMAIN actions : ~(i < 0)
    BY <1>1, InputShape
  <2>2. QED
    BY <2>1 DEF Init, PassedInv, Passed
<1>5. KeptInv
  BY DEF Init, KeptInv
<1>6. SecretInv
  <2>1. \A k \in DOMAIN object.data : object.data[k] = NoData \/ object.data[k].layers = 1
    BY <1>1, InputShape DEF Init, ClientObject, ClientData
  <2>2. QED
    BY <2>1 DEF Init, SecretInv, Intact
<1>7. RefusedForCause
  BY DEF Init, RefusedForCause
<1>8. QED
  BY <1>2, <1>3, <1>4, <1>5, <1>6, <1>7 DEF IInv

\* Neither the input nor the object changes: each action sees what it saw.
LEMMA SkippedKept ==
  ASSUME UNCHANGED <<actions, onError, request, object>>
  PROVE  /\ \A i : Skipped(i)' <=> Skipped(i)
         /\ Selected(Current)' <=> Selected(Current)
<1>1. Current' = Current
  BY DEF Current
<1>2. \A role : Seen(role)' = Seen(role)
  BY <1>1 DEF Seen
<1>3. QED
  BY <1>1, <1>2 DEF Skipped

LEMMA CallIInv ==
  ASSUME IInv, NEW role \in Roles, Call(role)
  PROVE  IInv'
<1> DEFINE obj == Source(Current)
<1>1. /\ stage = role /\ next = 0 /\ next' = 1
      /\ Sent(actions, role, Current)
      /\ skipDecode' = IF IsSecret THEN NonAscii(obj.data) ELSE {}
      /\ raw' = IF IsSecret THEN [obj EXCEPT !.data = Decoded(@)] ELSE obj
      /\ UNCHANGED <<actions, onError, request, object, stage, outcome, unanswered>>
  BY DEF Call, input
<1>2. ShapeInv /\ Inputs
  BY DEF IInv, ShapeInv
<1>3. WellFormed(obj)
  BY <1>2, CurrentFields, ClientWellFormed DEF ShapeInv
<1>4. obj = IF request.operation = "DELETE" THEN request.oldObject ELSE object
  BY <1>2, CurrentFields
<1> HIDE DEF obj
<1>5. /\ WellFormed(raw')
      /\ raw'.marks = obj.marks /\ raw'.status = obj.status
      /\ IsSecret => raw'.data = Decoded(obj.data)
      /\ DOMAIN raw'.data = DOMAIN obj.data
  BY <1>1, <1>3, RawShape
<1>6. ShapeInv'
  <2>1. WellFormed(raw)' /\ WellFormed(object)'
    BY <1>1, <1>2, <1>5 DEF WellFormed, ShapeInv
  <2>2. (skipDecode \subseteq DOMAIN raw.data)'
    BY <1>1, <1>3, <1>5, DecodedShape DEF WellFormed
  <2>3. next' \in 0..(Len(actions') + 1)
    BY <1>1, <1>2, InputShape
  <2>4. Inputs'
    BY <1>1, <1>2 DEF Inputs
  <2>5. Selected(Current)'
    BY <1>1, SkippedKept DEF Sent
  <2>6. QED
    BY <1>1, <1>2, <2>1, <2>2, <2>3, <2>4, <2>5 DEF ShapeInv
<1>7. RanInv'
  BY <1>1, SkippedKept DEF IInv, RanInv
<1>8. PassedInv'
  <2>1. \A i \in DOMAIN actions : ~(i < 1)
    BY <1>2, InputShape
  <2>2. QED
    BY <1>1, <2>1, SkippedKept DEF IInv, PassedInv, Passed, Roles
<1>9. KeptInv'
  BY <1>1 DEF IInv, KeptInv, Kept, RanInv
<1>10. SecretInv'
  <2> SUFFICES ASSUME IsSecret, request.operation # "DELETE"
               PROVE  /\ Intact(object.data)
                      /\ stage = "mutate" => skipDecode' \subseteq NonAscii(request.object.data)
                      /\ \A k \in DOMAIN raw'.data :
                           \/ raw'.data[k] = NoData
                           \/ /\ k \in skipDecode'
                              /\ raw'.data[k].layers = 1 \/ raw'.data[k].text = "new"
                           \/ k \notin skipDecode' /\ raw'.data[k].layers = 0
    BY <1>1 DEF SecretInv, IsSecret, Intact
  <2>1. Intact(object.data) /\ obj = object
    BY <1>4 DEF IInv, SecretInv
  <2>2. raw'.data = Decoded(object.data) /\ skipDecode' = NonAscii(object.data)
    BY <1>1, <1>5, <2>1
  <2>3. \A k \in DOMAIN object.data : object.data[k] \in StoredData
    BY <1>2 DEF ShapeInv, WellFormed
  <2>4. stage = "mutate" => object = request.object
    BY <1>2 DEF ShapeInv
  <2>5. QED
    BY <2>1, <2>2, <2>3, <2>4, DecodedShape DEF Intact
<1>11. RefusedForCause'
  BY <1>1 DEF IInv, RefusedForCause, Roles
<1>12. QED
  BY <1>6, <1>7, <1>8, <1>9, <1>10, <1>11 DEF IInv

\* No rule matches: no action of that webhook is for the request.
LEMMA NotSentSkipped ==
  ASSUME ShapeInv, stage \in Roles, ~Sent(actions, stage, Current),
         NEW i \in DOMAIN actions, actions[i].role = stage
  PROVE  Skipped(i)
<1>1. Inputs /\ (stage = "mutate" => object = request.object)
  BY DEF ShapeInv
<1>2. ~Selected(Current) \/ ShouldSkipRequest(actions[i], Current)
  BY <1>1, RulesCover
<1>3. QED
  BY <1>1, <1>2, SeenAtStart, SelectedAtStart DEF Skipped, Seen

\* The loop passes by the actions of the other webhook, and those that skip
\* the request.
LEMMA SkipsIsSkipped ==
  ASSUME ShapeInv, stage \in Roles, next \in DOMAIN actions, NEW i \in DOMAIN actions
  PROVE  Skips(i) <=> actions[i].role # stage \/ Skipped(i)
<1>1. Inputs /\ (stage = "mutate" => object = request.object) /\ Selected(Current)
  <2>1. Inputs
    BY DEF ShapeInv
  <2>2. next # 0
    BY <2>1, InputShape
  <2>3. QED
    BY <2>1, <2>2 DEF ShapeInv
<1>2. actions[i].role = stage => (ShouldSkipRequest(actions[i], Current) <=> Skipped(i))
  BY <1>1, SeenAtStart, SelectedAtStart DEF Skipped, Seen
<1>3. QED
  BY <1>2 DEF Skips

LEMMA PassIInv ==
  ASSUME IInv, NEW role \in Roles, Pass(role)
  PROVE  IInv'
<1>1. /\ stage = role /\ next = 0 /\ stage' = After(role)
      /\ ~Sent(actions, role, Current)
      /\ UNCHANGED <<actions, onError, request, object, next, raw, skipDecode, outcome, unanswered>>
  BY DEF Pass, input, handler
<1>2. ShapeInv /\ Inputs
  BY DEF IInv, ShapeInv
<1>3. /\ stage' \in {"validate", "persisted"}
      /\ stage' = "validate" => role = "mutate"
      /\ stage' = "persisted" => role = "validate"
  BY <1>1 DEF After, Roles
<1>4. ShapeInv'
  <2>1. WellFormed(raw)' /\ WellFormed(object)'
    BY <1>1, <1>2 DEF WellFormed, ShapeInv
  <2>2. Inputs'
    BY <1>1, <1>2 DEF Inputs
  <2>3. QED
    BY <1>1, <1>2, <1>3, <2>1, <2>2 DEF ShapeInv, Roles
<1>5. RanInv'
  BY <1>1, <1>3, SkippedKept DEF IInv, RanInv
<1>6. PassedInv'
  <2> SUFFICES ASSUME onError = "reject"
               PROVE  /\ stage' = "validate" => Passed("validate", next, {"allowed", "denied"})'
                      /\ Passed("mutate", Len(actions) + 1, {"succeeded"})'
                      /\ stage' = "persisted" => Passed("validate", Len(actions) + 1, {"allowed"})'
    BY <1>1, <1>3 DEF PassedInv
  <2>1. \A i \in DOMAIN actions : ~(i < 0)
    BY <1>2, InputShape
  <2>2. Passed("validate", next, {"allowed", "denied"})'
    BY <1>1, <2>1 DEF Passed
  <2>3. /\ \A i \in DOMAIN actions : actions[i].role = role => Skipped(i)
        /\ role = "validate" => Passed("mutate", Len(actions) + 1, {"succeeded"})
    BY <1>1, <1>2, NotSentSkipped DEF IInv, PassedInv, Roles
  <2>4. QED
    BY <1>1, <1>3, <2>2, <2>3, SkippedKept DEF Passed, Roles
<1>7. KeptInv'
  BY <1>1, <1>3 DEF IInv, KeptInv, Kept, RanInv
<1>8. SecretInv'
  BY <1>1, <1>3 DEF IInv, SecretInv, Intact, IsSecret
<1>9. RefusedForCause'
  BY <1>3 DEF RefusedForCause
<1>10. QED
  BY <1>4, <1>5, <1>6, <1>7, <1>8, <1>9 DEF IInv

LEMMA CallFailsIInv ==
  ASSUME IInv, CallFails
  PROVE  IInv'
<1>1. /\ next # 0 /\ next' = 0
      /\ unanswered' = unanswered \cup {stage}
      /\ stage' = IF FailurePolicy(onError) = "Fail" THEN "refused" ELSE After(stage)
      /\ UNCHANGED <<actions, onError, request, object, raw, skipDecode, outcome>>
  BY DEF CallFails, input
<1>2. ShapeInv /\ Inputs /\ stage \in Roles
  BY <1>1 DEF IInv, ShapeInv
<1>3. \/ stage' = "refused" /\ onError = "reject"
      \/ stage' = "validate" /\ stage = "mutate" /\ onError # "reject"
      \/ stage' = "persisted" /\ stage = "validate" /\ onError # "reject"
  BY <1>1, <1>2 DEF FailurePolicy, After, Roles
<1>4. ShapeInv'
  <2>1. WellFormed(raw)' /\ WellFormed(object)'
    BY <1>1, <1>2 DEF WellFormed, ShapeInv
  <2>2. Inputs'
    BY <1>1, <1>2 DEF Inputs
  <2>3. 0 \in 0..(Len(actions) + 1)
    BY <1>2, InputShape
  <2>4. QED
    BY <1>1, <1>2, <1>3, <2>1, <2>2, <2>3 DEF ShapeInv, Roles
<1>5. RanInv'
  BY <1>1, <1>3, SkippedKept DEF IInv, RanInv
<1>6. PassedInv'
  BY <1>1, <1>3 DEF PassedInv
<1>7. KeptInv'
  BY <1>1, <1>3 DEF IInv, KeptInv, Kept
<1>8. SecretInv'
  BY <1>1, <1>3 DEF IInv, SecretInv, Intact, IsSecret
<1>9. RefusedForCause'
  BY <1>1, <1>3 DEF RefusedForCause
<1>10. QED
  BY <1>4, <1>5, <1>6, <1>7, <1>8, <1>9 DEF IInv

\* The loop goes on to the next action.
LEMMA NextAction ==
  ASSUME Inputs, next \in DOMAIN actions
  PROVE  /\ next \in Nat \ {0}
         /\ next + 1 \in 0..(Len(actions) + 1)
         /\ \A i \in DOMAIN actions : i < next + 1 <=> i < next \/ i = next
<1>1. Len(actions) \in Nat /\ DOMAIN actions = 1..Len(actions)
  BY InputShape
<1>2. QED
  BY <1>1

LEMMA SkipActionIInv ==
  ASSUME IInv, stage \in Roles, next \in DOMAIN actions, SkipAction(next)
  PROVE  IInv'
<1>1. /\ Skips(next) /\ next' = next + 1
      /\ UNCHANGED <<actions, onError, request, object, stage, raw, skipDecode, outcome, unanswered>>
  BY DEF SkipAction, input
<1>2. ShapeInv /\ Inputs
  BY DEF IInv, ShapeInv
<1>3. actions[next].role # stage \/ Skipped(next)
  BY <1>1, <1>2, SkipsIsSkipped
<1>4. ShapeInv'
  <2>1. WellFormed(raw)' /\ WellFormed(object)'
    BY <1>1, <1>2 DEF WellFormed, ShapeInv
  <2>2. Inputs'
    BY <1>1, <1>2 DEF Inputs
  <2>3. Selected(Current)'
    BY <1>1, <1>2, NextAction, SkippedKept DEF ShapeInv
  <2>4. QED
    BY <1>1, <1>2, <2>1, <2>2, <2>3, NextAction DEF ShapeInv
<1>5. next \in Nat \ {0}
  BY <1>2, NextAction
<1>6. RanInv'
  <2>1. \A i : Skipped(i)' <=> Skipped(i)
    BY <1>1, SkippedKept
  <2>2. RanInv
    BY DEF IInv
  <2>3. QED
    BY <1>1, <1>5, <2>1, <2>2 DEF RanInv
<1>7. PassedInv'
  <2>1. \A i : Skipped(i)' <=> Skipped(i)
    BY <1>1, SkippedKept
  <2>2. \A i \in DOMAIN actions : i < next + 1 <=> i < next \/ i = next
    BY <1>2, NextAction
  <2>3. CASE stage = "mutate"
    BY <1>1, <1>3, <2>1, <2>2, <2>3 DEF IInv, PassedInv, Passed
  <2>4. CASE stage = "validate"
    BY <1>1, <1>3, <2>1, <2>2, <2>4 DEF IInv, PassedInv, Passed
  <2>5. QED
    BY <2>3, <2>4 DEF Roles
<1>8. KeptInv'
  BY <1>1, <1>5 DEF IInv, KeptInv, Kept
<1>9. SecretInv'
  BY <1>1, <1>5 DEF IInv, SecretInv, Intact, IsSecret
<1>10. RefusedForCause'
  BY <1>1 DEF IInv, RefusedForCause
<1>11. QED
  BY <1>4, <1>6, <1>7, <1>8, <1>9, <1>10 DEF IInv

\* A mutate action runs to its end, or throws where that is let through.
LEMMA MutatedIInv ==
  ASSUME IInv, stage = "mutate", next \in DOMAIN actions, ~Skips(next),
         NEW obj \in Edits(next) \cup {raw}, NEW status, NEW what,
         \/ what = "succeeded" /\ obj \in Edits(next)
         \/ what = "failed" /\ onError # "reject",
         raw' = Annotated(obj, next, status),
         Became(next, what), next' = next + 1,
         UNCHANGED <<input, object, stage, skipDecode, unanswered>>
  PROVE  IInv'
<1>1. /\ outcome' = [outcome EXCEPT ![next] = what]
      /\ UNCHANGED <<actions, onError, request, object, stage, skipDecode, unanswered>>
  BY DEF Became, input
<1>2. ShapeInv /\ Inputs
  BY DEF IInv, ShapeInv
<1>3. actions[next].role = "mutate" /\ ~Skipped(next)
  BY <1>2, SkipsIsSkipped DEF Roles
<1>4. /\ WellFormed(obj)
      /\ raw.marks \subseteq obj.marks
      /\ obj \in Edits(next) => next \in obj.marks
      /\ obj.status = raw.status
      /\ DOMAIN obj.data = DOMAIN raw.data
      /\ \A k \in DOMAIN raw.data : obj.data[k] \in {raw.data[k], NewText}
  BY <1>2, EditShape DEF ShapeInv
<1>5. /\ WellFormed(raw')
      /\ raw'.marks = obj.marks
      /\ raw'.data = obj.data
      /\ DOMAIN obj.status \subseteq DOMAIN raw'.status
      /\ request.operation # "DELETE" => actions[next].capability \in DOMAIN raw'.status
  BY <1>4, AnnotatedShape
<1>6. /\ DOMAIN outcome' = DOMAIN actions
      /\ outcome'[next] = what
      /\ \A i \in DOMAIN actions : i # next => outcome'[i] = outcome[i]
  BY <1>1, <1>2 DEF ShapeInv
<1>7. next # 0
  BY <1>2, NextAction
<1>8. ShapeInv'
  <2>1. WellFormed(raw)' /\ WellFormed(object)'
    BY <1>1, <1>2, <1>5 DEF WellFormed, ShapeInv
  <2>2. Inputs'
    BY <1>1, <1>2 DEF Inputs
  <2>3. \A i \in DOMAIN actions : outcome'[i] \in OutcomesOf(actions[i].role)
    BY <1>2, <1>3, <1>6 DEF ShapeInv, OutcomesOf
  <2>4. Selected(Current)'
    BY <1>1, <1>2, <1>7, SkippedKept DEF ShapeInv
  <2>5. QED
    BY <1>1, <1>2, <1>4, <1>5, <1>6, <2>1, <2>2, <2>3, <2>4, NextAction DEF ShapeInv
<1>9. RanInv'
  BY <1>1, <1>2, <1>3, <1>6, NextAction, SkippedKept DEF IInv, RanInv
<1>10. PassedInv'
  BY <1>1, <1>2, <1>3, <1>6, NextAction, SkippedKept DEF IInv, PassedInv, Passed
<1>11. KeptInv'
  BY <1>1, <1>3, <1>4, <1>5, <1>6, <1>7 DEF IInv, KeptInv, Kept
<1>12. SecretInv'
  <2>1. NewText.text = "new" /\ NewText.layers = 0
    BY DEF NewText
  <2>2. QED
    BY <1>1, <1>4, <1>5, <1>7, <2>1 DEF IInv, SecretInv, Intact, IsSecret
<1>13. RefusedForCause'
  BY <1>1 DEF RefusedForCause
<1>14. QED
  BY <1>8, <1>9, <1>10, <1>11, <1>12, <1>13 DEF IInv

\* An action throws, and the request is refused at once.
LEMMA ThrowsIInv ==
  ASSUME IInv, stage \in Roles, stage = "validate" \/ onError = "reject",
         next \in DOMAIN actions, ~Skips(next),
         Became(next, "failed"), Answer(FALSE, object)
  PROVE  IInv'
<1>1. /\ outcome' = [outcome EXCEPT ![next] = "failed"]
      /\ stage' = "refused" /\ next' = 0
      /\ UNCHANGED <<actions, onError, request, object, raw, skipDecode, unanswered>>
  BY DEF Became, Answer, input
<1>2. ShapeInv /\ Inputs
  BY DEF IInv, ShapeInv
<1>3. actions[next].role = stage /\ ~Skipped(next)
  BY <1>2, SkipsIsSkipped
<1>4. /\ DOMAIN outcome' = DOMAIN actions
      /\ outcome'[next] = "failed"
      /\ \A i \in DOMAIN actions : i # next => outcome'[i] = outcome[i]
  BY <1>1, <1>2 DEF ShapeInv
<1>5. ShapeInv'
  <2>1. WellFormed(raw)' /\ WellFormed(object)'
    BY <1>1, <1>2 DEF WellFormed, ShapeInv
  <2>2. Inputs'
    BY <1>1, <1>2 DEF Inputs
  <2>3. \A i \in DOMAIN actions : outcome'[i] \in OutcomesOf(actions[i].role)
    BY <1>2, <1>4 DEF ShapeInv, OutcomesOf
  <2>4. 0 \in 0..(Len(actions) + 1)
    BY <1>2, InputShape
  <2>5. QED
    BY <1>1, <1>2, <1>4, <2>1, <2>2, <2>3, <2>4 DEF ShapeInv, Roles
<1>6. RanInv'
  BY <1>1, <1>3, <1>4, SkippedKept DEF IInv, RanInv
<1>7. PassedInv'
  BY <1>1 DEF PassedInv
<1>8. KeptInv'
  BY <1>1 DEF KeptInv
<1>9. SecretInv'
  BY <1>1 DEF IInv, SecretInv, Intact, IsSecret
<1>10. RefusedForCause'
  BY <1>1, <1>3, <1>4 DEF RefusedForCause
<1>11. QED
  BY <1>5, <1>6, <1>7, <1>8, <1>9, <1>10 DEF IInv

LEMMA ValidateRespondsIInv ==
  ASSUME IInv, stage = "validate", next \in DOMAIN actions,
         NEW verdict \in {"allowed", "denied"}, ValidateResponds(next, verdict)
  PROVE  IInv'
<1>1. /\ ~Skips(next) /\ next' = next + 1
      /\ outcome' = [outcome EXCEPT ![next] = verdict]
      /\ UNCHANGED <<actions, onError, request, object, stage, raw, skipDecode, unanswered>>
  BY DEF ValidateResponds, Became, input
<1>2. ShapeInv /\ Inputs
  BY DEF IInv, ShapeInv
<1>3. actions[next].role = "validate" /\ ~Skipped(next)
  BY <1>1, <1>2, SkipsIsSkipped DEF Roles
<1>4. /\ DOMAIN outcome' = DOMAIN actions
      /\ outcome'[next] = verdict
      /\ \A i \in DOMAIN actions : i # next => outcome'[i] = outcome[i]
  BY <1>1, <1>2 DEF ShapeInv
<1>5. ShapeInv'
  <2>1. WellFormed(raw)' /\ WellFormed(object)'
    BY <1>1, <1>2 DEF WellFormed, ShapeInv
  <2>2. Inputs'
    BY <1>1, <1>2 DEF Inputs
  <2>3. \A i \in DOMAIN actions : outcome'[i] \in OutcomesOf(actions[i].role)
    BY <1>2, <1>3, <1>4 DEF ShapeInv, OutcomesOf
  <2>4. Selected(Current)'
    BY <1>1, <1>2, NextAction, SkippedKept DEF ShapeInv
  <2>5. QED
    BY <1>1, <1>2, <1>4, <2>1, <2>2, <2>3, <2>4, NextAction DEF ShapeInv
<1>6. RanInv'
  BY <1>1, <1>3, <1>4, SkippedKept DEF IInv, RanInv
<1>7. PassedInv'
  BY <1>1, <1>2, <1>3, <1>4, NextAction, SkippedKept DEF IInv, PassedInv, Passed
<1>8. KeptInv'
  BY <1>1, <1>3, <1>4 DEF IInv, KeptInv, Kept
<1>9. SecretInv'
  BY <1>1 DEF IInv, SecretInv, Intact, IsSecret
<1>10. RefusedForCause'
  BY <1>1 DEF RefusedForCause
<1>11. QED
  BY <1>5, <1>6, <1>7, <1>8, <1>9, <1>10 DEF IInv

\* The mutating handler is through: the API server applies the patch.
LEMMA MutateAnswersIInv ==
  ASSUME IInv, stage = "mutate", next = Len(actions) + 1, UNCHANGED outcome, MutateAnswers
  PROVE  IInv'
<1>1. /\ stage' = "validate" /\ next' = 0
      /\ object' = IF Matched /\ request.operation # "DELETE" THEN Transformed ELSE object
      /\ UNCHANGED <<actions, onError, request, raw, skipDecode, outcome, unanswered>>
  BY DEF MutateAnswers, Answer, After, input
<1>2. ShapeInv /\ Inputs /\ SecretInv
  BY DEF IInv, ShapeInv
<1>3. next # 0 /\ \A i \in DOMAIN actions : i < next /\ ~(i < 0)
  BY <1>2, InputShape
<1>4. request.operation # "DELETE" =>
        /\ WellFormed(Transformed)
        /\ Transformed.marks = raw.marks /\ Transformed.status = raw.status
        /\ IsSecret => Intact(Transformed.data)
  BY <1>2, <1>3, TransformedShape
<1>5. \A i \in DOMAIN actions : actions[i].role = "mutate" => (Skipped(i)' <=> Skipped(i))
  BY <1>1 DEF Skipped, Seen
<1>6. ShapeInv'
  <2>1. WellFormed(raw)' /\ WellFormed(object)'
    BY <1>1, <1>2, <1>4 DEF WellFormed, ShapeInv
  <2>2. Inputs'
    BY <1>1, <1>2 DEF Inputs
  <2>3. 0 \in 0..(Len(actions) + 1)
    BY <1>2, InputShape
  <2>4. QED
    BY <1>1, <1>2, <2>1, <2>2, <2>3 DEF ShapeInv, Roles
<1>7. RanInv'
  <2>1. \A i \in DOMAIN actions : actions[i].role = "validate" => outcome[i] = "none"
    BY DEF IInv, RanInv
  <2>2. \A i \in DOMAIN actions : actions[i].role \in Roles
    BY <1>2, InputShape
  <2>3. QED
    BY <1>1, <1>5, <2>1, <2>2 DEF IInv, RanInv, Roles
<1>8. PassedInv'
  BY <1>1, <1>3, <1>5 DEF IInv, PassedInv, Passed
<1>9. KeptInv'
  BY <1>1, <1>3, <1>4 DEF IInv, KeptInv, Kept, Matched
<1>10. SecretInv'
  BY <1>1, <1>2, <1>4 DEF SecretInv, Intact, IsSecret
<1>11. RefusedForCause'
  BY <1>1 DEF RefusedForCause
<1>12. QED
  BY <1>6, <1>7, <1>8, <1>9, <1>10, <1>11 DEF IInv

\* The validating handler is through: the request is persisted or refused.
LEMMA ValidateAnswersIInv ==
  ASSUME IInv, stage = "validate", next = Len(actions) + 1, UNCHANGED outcome, ValidateAnswers
  PROVE  IInv'
<1>1. /\ stage' = IF \A i \in DOMAIN actions : outcome[i] # "denied" THEN "persisted" ELSE "refused"
      /\ next' = 0
      /\ UNCHANGED <<actions, onError, request, object, raw, skipDecode, outcome, unanswered>>
  BY DEF ValidateAnswers, Answer, After, input
<1>2. ShapeInv /\ Inputs
  BY DEF IInv, ShapeInv
<1>3. \A i \in DOMAIN actions : i < next
  BY <1>2, InputShape
<1>4. ShapeInv'
  <2>1. WellFormed(raw)' /\ WellFormed(object)'
    BY <1>1, <1>2 DEF WellFormed, ShapeInv
  <2>2. Inputs'
    BY <1>1, <1>2 DEF Inputs
  <2>3. 0 \in 0..(Len(actions) + 1)
    BY <1>2, InputShape
  <2>4. QED
    BY <1>1, <1>2, <2>1, <2>2, <2>3 DEF ShapeInv, Roles
<1>5. RanInv'
  BY <1>1, SkippedKept DEF IInv, RanInv
<1>6. PassedInv'
  <2>1. \A i : Skipped(i)' <=> Skipped(i)
    BY <1>1, SkippedKept
  <2>2. QED
    BY <1>1, <1>3, <2>1 DEF IInv, PassedInv, Passed
<1>7. KeptInv'
  BY <1>1 DEF IInv, KeptInv, Kept
<1>8. SecretInv'
  BY <1>1 DEF IInv, SecretInv, Intact, IsSecret
<1>9. RefusedForCause'
  <2>1. ASSUME NEW i \in DOMAIN actions, outcome[i] = "denied"
        PROVE  actions[i].role = "validate"
    BY <1>2, <2>1, InputShape DEF ShapeInv, OutcomesOf, Roles
  <2>2. QED
    BY <1>1, <2>1 DEF RefusedForCause
<1>10. QED
  BY <1>4, <1>5, <1>6, <1>7, <1>8, <1>9 DEF IInv

LEMMA StutterIInv ==
  ASSUME IInv, UNCHANGED vars
  PROVE  IInv'
<1>1. UNCHANGED <<actions, onError, request, object, stage, next, raw, skipDecode, outcome, unanswered>>
  BY DEF vars, input, handler
<1>2. (\A i : Skipped(i)' <=> Skipped(i)) /\ (Selected(Current)' <=> Selected(Current))
  BY <1>1, SkippedKept
<1>3. ShapeInv'
  BY <1>1, <1>2 DEF IInv, ShapeInv, Inputs, WellFormed
<1>4. RanInv' /\ PassedInv' /\ KeptInv'
  BY <1>1, <1>2 DEF IInv, RanInv, PassedInv, Passed, KeptInv, Kept
<1>5. SecretInv' /\ RefusedForCause'
  BY <1>1 DEF IInv, SecretInv, Intact, IsSecret, RefusedForCause
<1>6. QED
  BY <1>3, <1>4, <1>5 DEF IInv

LEMMA HandleIInv ==
  ASSUME IInv, next \in DOMAIN actions, Handle(next)
  PROVE  IInv'
<1>1. ShapeInv /\ stage \in Roles
  <2>1. ShapeInv
    BY DEF IInv
  <2>2. next # 0
    BY <2>1, NextAction DEF ShapeInv
  <2>3. QED
    BY <2>1, <2>2 DEF ShapeInv
<1>2. CASE SkipAction(next)
  BY <1>1, <1>2, SkipActionIInv
<1>3. CASE stage = "mutate" /\ MutateSucceeds(next)
  <2>1. PICK obj \in Edits(next) : raw' = Annotated(obj, next, "succeeded")
    BY <1>3 DEF MutateSucceeds
  <2>2. QED
    BY <1>3, <2>1, MutatedIInv DEF MutateSucceeds
<1>4. CASE stage = "mutate" /\ MutateThrows(next)
  <2>1. PICK obj \in Edits(next) \cup {raw} : raw' = Annotated(obj, next, "warning")
    BY <1>4 DEF MutateThrows
  <2>2. QED
    BY <1>4, <2>1, MutatedIInv DEF MutateThrows
<1>5. CASE stage = "mutate" /\ MutateRejects(next)
  BY <1>1, <1>5, ThrowsIInv DEF MutateRejects
<1>6. CASE stage = "validate" /\ \E verdict \in {"allowed", "denied"} : ValidateResponds(next, verdict)
  BY <1>6, ValidateRespondsIInv
<1>7. CASE stage = "validate" /\ ValidateThrows(next)
  BY <1>1, <1>7, ThrowsIInv DEF ValidateThrows
<1>8. QED
  BY <1>2, <1>3, <1>4, <1>5, <1>6, <1>7 DEF Handle

LEMMA NextIInv == IInv /\ [Next]_vars => IInv'
<1> SUFFICES ASSUME IInv, [Next]_vars PROVE IInv'
  OBVIOUS
<1>1. CASE \E role \in {"mutate", "validate"} : Call(role) \/ Pass(role)
  BY <1>1, CallIInv, PassIInv DEF Roles
<1>2. CASE next \in DOMAIN actions /\ Handle(next)
  BY <1>2, HandleIInv
<1>3. CASE Respond
  BY <1>3, MutateAnswersIInv, ValidateAnswersIInv DEF Respond
<1>4. CASE CallFails
  BY <1>4, CallFailsIInv
<1>5. CASE UNCHANGED vars
  BY <1>5, StutterIInv
<1>6. QED
  BY <1>1, <1>2, <1>3, <1>4, <1>5 DEF Next

\* In every reachable state what the loops are through with has passed, and
\* what has been made of the object is in it.
THEOREM AdmissionInvariant == Spec => []IInv
  BY InitIInv, NextIInv, PTL DEF Spec

\* Type correctness of the request's way through both webhooks.
THEOREM AdmissionTypeCorrect == Spec => []AdmissionTypeOK
<1>1. IInv => AdmissionTypeOK
  <2> SUFFICES ASSUME IInv PROVE AdmissionTypeOK
    OBVIOUS
  <2>1. ShapeInv /\ Inputs
    BY DEF IInv, ShapeInv
  <2>2. QED
    BY <2>1 DEF ShapeInv, WellFormed, AdmissionTypeOK, Roles
<1>2. QED
  BY <1>1, AdmissionInvariant, PTL

\* No action ever runs on a request that is not for it.
THEOREM OnlyForTheRequest == Spec => []OnlyGoverned
<1>1. IInv => OnlyGoverned
  <2> SUFFICES ASSUME IInv, NEW i \in DOMAIN actions, outcome[i] # "none"
               PROVE  Governs(actions[i], Seen(actions[i].role))
    BY DEF OnlyGoverned
  <2>1. ~Skipped(i)
    BY DEF IInv, RanInv
  <2>2. actions[i].capNamespaces # {} => actions[i].namespaces \subseteq actions[i].capNamespaces
    BY DEF IInv, ShapeInv, Inputs, Compliant
  <2>3. QED
    BY <2>1, <2>2, FilterSound DEF Skipped
<1>2. QED
  BY <1>1, AdmissionInvariant, PTL

\* The labels that an action sees have values.
LEMMA SeenValued ==
  ASSUME ValuedLabels, ShapeInv, NEW role
  PROVE  \A key \in DOMAIN Source(Seen(role)).labels : Source(Seen(role)).labels[key] # Empty
<1>1. Inputs /\ WellFormed(object)
  BY DEF ShapeInv
<1>2. request.object.labels \in Labels /\ request.oldObject.labels \in Labels /\ object.labels \in Labels
  BY <1>1, ClientWellFormed DEF WellFormed
<1>3. Source(Seen(role)).labels \in Labels
  BY <1>1, <1>2, CurrentFields DEF Seen, Source
<1>4. QED
  BY <1>3 DEF ValuedLabels

\* A module that rejects persists nothing that an action for the request
\* has not passed, if the labels have values.
THEOREM NothingUnguarded == ASSUME ValuedLabels PROVE Spec => []Guarded
<1>1. IInv => Guarded
  <2> SUFFICES ASSUME IInv, stage = "persisted", onError = "reject",
                      NEW i \in DOMAIN actions, Governs(actions[i], Seen(actions[i].role))
               PROVE  outcome[i] \in {"succeeded", "allowed"}
    BY DEF Guarded
  <2>1. ShapeInv /\ Inputs /\ PassedInv
    BY DEF IInv, ShapeInv
  <2>2. ~Skipped(i)
    <3>1. Selected(Seen(actions[i].role))
      BY DEF Governs
    <3>2. ~ShouldSkipRequest(actions[i], Seen(actions[i].role))
      BY <2>1, SeenValued, FilterComplete
    <3>3. QED
      BY <3>1, <3>2 DEF Skipped
  <2>3. i < Len(actions) + 1 /\ actions[i].role \in Roles
    BY <2>1, InputShape
  <2>4. QED
    BY <2>1, <2>2, <2>3 DEF PassedInv, Passed, Roles
<1>2. QED
  BY <1>1, AdmissionInvariant, PTL

\* Without "reject" only the verdict of a validate action refuses a request.
THEOREM NeverRefusedForNothing == Spec => []RefusedForCause
<1>1. IInv => RefusedForCause
  BY DEF IInv
<1>2. QED
  BY <1>1, AdmissionInvariant, PTL

\* What the mutate actions made of an object is persisted.
THEOREM NoMutationLost == Spec => []MutationsKept
<1>1. IInv => MutationsKept
  BY DEF IInv, KeptInv, Kept, MutationsKept
<1>2. QED
  BY <1>1, AdmissionInvariant, PTL

\* Data of a Secret is never persisted decoded, nor encoded twice.
THEOREM SecretsEncodedOnce == Spec => []SecretsIntact
<1>1. IInv => SecretsIntact
  BY DEF IInv, SecretInv, Intact, SecretsIntact
<1>2. QED
  BY <1>1, AdmissionInvariant, PTL

\* Admission and watch select the same objects among those with labels that
\* have values.
THEOREM OneFilter == ASSUME ValuedLabels PROVE Spec => []FiltersAgree
<1>1. IInv => FiltersAgree
  <2> SUFFICES ASSUME IInv, NEW i \in DOMAIN actions PROVE
        LET a == [actions[i] EXCEPT !.event = "ANY", !.name = Empty]
        IN a.kind = request.kind /\ DOMAIN Source(Current).labels # {} =>
             (~ShouldSkipRequest(a, Current) <=> WatchMatches(a, Source(Current), request.namespace))
    BY DEF FiltersAgree
  <2> DEFINE a == [actions[i] EXCEPT !.event = "ANY", !.name = Empty]
  <2>1. ShapeInv /\ Inputs
    BY DEF IInv, ShapeInv
  <2>2. /\ a.event = "ANY" /\ a.name = Empty
        /\ a.capNamespaces # {} => a.namespaces \subseteq a.capNamespaces
    BY <2>1, InputShape DEF ActionFields, Inputs, Compliant
  <2> HIDE DEF a
  <2>3. Current.operation \in EventOperations[a.event]
    BY <2>1, <2>2, InputShape, CurrentFields DEF EventOperations
  <2>4. \A key \in DOMAIN Source(Current).labels : Source(Current).labels[key] # Empty
    <3>1. Seen("validate") = Current
      BY DEF Seen
    <3>2. QED
      BY <2>1, <3>1, SeenValued
  <2>5. Current.kind = request.kind /\ Current.namespace = request.namespace
    BY <2>1, CurrentFields
  <2>6. a.kind = request.kind /\ DOMAIN Source(Current).labels # {} =>
          (~ShouldSkipRequest(a, Current) <=> WatchMatches(a, Source(Current), request.namespace))
    BY <2>2, <2>3, <2>4, <2>5, FilterIsWatchFilter
  <2>7. QED
    BY <2>6 DEF a
<1>2. QED
  BY <1>1, AdmissionInvariant, PTL
=============================================================================
