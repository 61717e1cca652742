----------------------------- MODULE Admission ------------------------------
(***************************************************************************)
(* One request on its way through the admission of a peppr module: the     *)
(* API server calls the mutating and then the validating webhook, whose    *)
(* handlers are #admissionReq() of src/lib/controller/index.ts with        *)
(* mutateProcessor() and validateProcessor().                              *)
(*                                                                         *)
(* The API server is external: it calls a webhook if a rule matches,       *)
(* applies the patch of an allowed mutation, refuses what is not allowed,  *)
(* and follows failurePolicy when the call fails: no endpoint yet, a 500,  *)
(* a lost pod, or a handler slower than the timeout.  Requests share       *)
(* nothing in the module, so one of them is enough.                        *)
(***************************************************************************)
EXTENDS Filters, Naturals

CONSTANTS Modules,     \* sequences of actions, in the order of registration
          Requests,    \* the requests clients make
          Labelings,   \* labels that callbacks give to the object
          NoData       \* stands for no data under a key of a Secret

ActionFields ==
  {"capability", "capNamespaces", "role", "kind", "event", "namespaces", "name", "labels"}

RequestFields == {"operation", "kind", "namespace", "name", "object", "oldObject"}

ObjectFields == {"labels", "marks", "status", "data"}

\* Data of a Secret as the API server keeps it: encoded once.
ClientData == {NoData} \cup [text : {"ascii", "binary"}, layers : {1}]

\* An object that no action has touched.
ClientObject(obj) ==
  /\ DOMAIN obj = ObjectFields
  /\ obj.marks = {}
  /\ \A k \in DOMAIN obj.data : obj.data[k] \in ClientData

ASSUME AdmissionAssumption ==
  /\ \A m \in Modules :
       /\ m \in Seq({m[i] : i \in DOMAIN m})
       /\ \A i \in DOMAIN m : /\ DOMAIN m[i] = ActionFields
                              /\ m[i].role \in {"mutate", "validate"}
                              /\ m[i].event \in DOMAIN EventOperations
  /\ \A r \in Requests :
       /\ DOMAIN r = RequestFields
       /\ r.operation \in Operations
       /\ ClientObject(r.object) /\ ClientObject(r.oldObject)

Errors == {"audit", "ignore", "reject"}

VARIABLES actions,     \* the module's actions
          onError,     \* the module's configuration
          request,     \* the client's request, as it was made
          object,      \* the object as the API server has it now
          stage,       \* the webhook whose turn it is, or the end
          next,        \* the action the handler comes to next; 0: no handler
          raw,         \* wrapped.Raw in the handler
          skipDecode,  \* keys of the Secret that were not decoded
          outcome,     \* what became of each action
          unanswered   \* the webhooks whose call failed

input == <<actions, onError, request>>
handler == <<next, raw, skipDecode>>
vars == <<input, object, stage, handler, outcome, unanswered>>

Init ==
  /\ actions \in {m \in Modules : Compliant(m)}
  /\ onError \in Errors
  /\ request \in Requests
  /\ object = request.object
  /\ stage = "mutate"
  /\ next = 0
  /\ raw = request.object
  /\ skipDecode = {}
  /\ outcome = [i \in DOMAIN actions |-> "none"]
  /\ unanswered = {}

After(role) == IF role = "mutate" THEN "validate" ELSE "persisted"

\* The request as the webhooks see it now.
Current == [request EXCEPT !.object = object]

-----------------------------------------------------------------------------
(* Secrets: data that is ASCII text is decoded for the callbacks.  A value *)
(* is a text and the number of times it is base64-encoded.                 *)

IsSecret == request.kind = "Secret"

\* convertFromBase64Map: the keys that it leaves alone...
NonAscii(data) == {k \in DOMAIN data : data[k] # NoData /\ data[k].text = "binary"}

\* ... and the data with the others decoded, to some text in any case.
Decoded(data) ==
  [k \in DOMAIN data |->
     IF data[k] = NoData \/ k \in NonAscii(data) THEN data[k] ELSE [data[k] EXCEPT !.layers = 0]]

Encode(v) == IF v = NoData THEN v ELSE [v EXCEPT !.layers = @ + 1]

\* Mutant: the list of undecoded keys is not used.
EncodedAll(data, skip) == [k \in DOMAIN data |-> Encode(data[k])]

\* Mutant: only the keys that the request had are encoded.
EncodedKnown(data, skip) ==
  [k \in DOMAIN data |->
     IF k \in skip \/ Source(request).data[k] = NoData THEN data[k] ELSE Encode(data[k])]

\* convertToBase64Map
Encoded(data, skip) == [k \in DOMAIN data |-> IF k \in skip THEN data[k] ELSE Encode(data[k])]

-----------------------------------------------------------------------------
(* The API server's calls.                                                 *)

Call(role) ==
  /\ stage = role
  /\ next = 0
  /\ Sent(actions, role, Current)
  /\ next' = 1
  /\ LET obj == Source(Current)
     IN /\ skipDecode' = IF IsSecret THEN NonAscii(obj.data) ELSE {}
        /\ raw' = IF IsSecret THEN [obj EXCEPT !.data = Decoded(@)] ELSE obj
  /\ UNCHANGED <<input, object, stage, outcome, unanswered>>

\* No rule matches.
Pass(role) ==
  /\ stage = role
  /\ next = 0
  /\ ~Sent(actions, role, Current)
  /\ stage' = After(role)
  /\ UNCHANGED <<input, object, handler, outcome, unanswered>>

\* The call fails; whatever the handler still does reaches nobody.
CallFails ==
  /\ next # 0
  /\ unanswered' = unanswered \cup {stage}
  /\ stage' = IF FailurePolicy(onError) = "Fail" THEN "refused" ELSE After(stage)
  /\ next' = 0
  /\ UNCHANGED <<input, object, raw, skipDecode, outcome>>

Answer(allowed, obj) ==
  /\ stage' = IF allowed THEN After(stage) ELSE "refused"
  /\ object' = obj
  /\ next' = 0
  /\ UNCHANGED <<input, raw, skipDecode, unanswered>>

-----------------------------------------------------------------------------
(* The loop over capabilities and their bindings.                          *)

Skips(i) == actions[i].role # stage \/ ShouldSkipRequest(actions[i], Current)

SkipAction(i) ==
  /\ Skips(i)
  /\ next' = i + 1
  /\ UNCHANGED <<input, object, stage, raw, skipDecode, outcome, unanswered>>

Became(i, what) == outcome' = [outcome EXCEPT ![i] = what]

\* What a callback may make of the object: change its labels, set a key of
\* a Secret to plain text; it leaves its mark in any case.
Edits(i) ==
  {[raw EXCEPT !.marks = @ \cup {i}, !.labels = l] : l \in Labelings \cup {raw.labels}}
  \cup {[raw EXCEPT !.marks = @ \cup {i}, !.data[k] = [text |-> "new", layers |-> 0]] :
          k \in IF IsSecret THEN DOMAIN raw.data ELSE {}}

\* updateStatus(); "started" is overwritten before anybody sees it.
Annotated(obj, i, status) ==
  IF request.operation = "DELETE" THEN obj
  ELSE [obj EXCEPT !.status = [c \in DOMAIN @ \cup {actions[i].capability} |->
                                 IF c = actions[i].capability THEN status ELSE @[c]]]

MutateSucceeds(i) ==
  /\ ~Skips(i)
  /\ \E obj \in Edits(i) : raw' = Annotated(obj, i, "succeeded")
  /\ Became(i, "succeeded")
  /\ next' = i + 1
  /\ UNCHANGED <<input, object, stage, skipDecode, unanswered>>

\* The callback throws, before or after it has changed the object.
MutateThrows(i) ==
  /\ ~Skips(i)
  /\ onError # "reject"
  /\ \E obj \in Edits(i) \cup {raw} : raw' = Annotated(obj, i, "warning")
  /\ Became(i, "failed")
  /\ next' = i + 1
  /\ UNCHANGED <<input, object, stage, skipDecode, unanswered>>

\* The same in a module that rejects: the processor returns at once.
MutateRejects(i) ==
  /\ ~Skips(i)
  /\ onError = "reject"
  /\ Became(i, "failed")
  /\ Answer(FALSE, object)

Matched == \E i \in DOMAIN actions : actions[i].role = "mutate" /\ outcome[i] # "none"

\* The object that the patch makes of the request's: wrapped.Raw, encoded.
Transformed == IF IsSecret THEN [raw EXCEPT !.data = Encoded(@, skipDecode)] ELSE raw

\* Mutant: an action that failed leaves the response without a patch.
MutateAnswersUnpatched ==
  Answer(TRUE, IF \E i \in DOMAIN actions : outcome[i] = "failed" THEN object ELSE Transformed)

\* The loop is through: no patch if nothing matched or for a deletion.
MutateAnswers ==
  Answer(TRUE, IF Matched /\ request.operation # "DELETE" THEN Transformed ELSE object)

ValidateResponds(i, verdict) ==
  /\ ~Skips(i)
  /\ Became(i, verdict)
  /\ next' = i + 1
  /\ UNCHANGED <<input, object, stage, raw, skipDecode, unanswered>>

\* The callback throws: validateProcessor returns this response alone.
ValidateThrows(i) ==
  /\ ~Skips(i)
  /\ Became(i, "failed")
  /\ Answer(FALSE, object)

\* The controller allows if no response of the list denies.
ValidateAnswers == Answer(\A i \in DOMAIN actions : outcome[i] # "denied", object)

Handle(i) ==
  \/ SkipAction(i)
  \/ stage = "mutate" /\ (MutateSucceeds(i) \/ MutateThrows(i) \/ MutateRejects(i))
  \/ stage = "validate" /\ (\/ \E verdict \in {"allowed", "denied"} : ValidateResponds(i, verdict)
                            \/ ValidateThrows(i))

Respond ==
  /\ next = Len(actions) + 1
  /\ UNCHANGED outcome
  /\ \/ stage = "mutate" /\ MutateAnswers
     \/ stage = "validate" /\ ValidateAnswers

Next ==
  \/ \E role \in {"mutate", "validate"} : Call(role) \/ Pass(role)
  \/ next \in DOMAIN actions /\ Handle(next)
  \/ Respond
  \/ CallFails

Spec == Init /\ [][Next]_vars

-----------------------------------------------------------------------------
(* Properties                                                              *)

Labels == Labelings \cup {r.object.labels : r \in Requests} \cup {r.oldObject.labels : r \in Requests}

\* Data as the API server may hold it: encoded once, or not at all where a
\* callback wrote to a key that was not decoded.
StoredData == {NoData} \cup [text : {"ascii", "binary", "new"}, layers : 0..1]

\* Type invariant of the request's way through both webhooks.
AdmissionTypeOK ==
  /\ stage \in {"mutate", "validate", "persisted", "refused"}
  /\ next \in 0..(Len(actions) + 1)
  /\ skipDecode \subseteq DOMAIN raw.data
  /\ outcome \in [DOMAIN actions -> {"none", "succeeded", "failed", "allowed", "denied"}]
  /\ unanswered \subseteq {"mutate", "validate"}
  /\ \A obj \in {object, raw} :
       /\ obj.labels \in Labels
       /\ obj.marks \subseteq DOMAIN actions
       /\ DOMAIN obj.status \subseteq {actions[i].capability : i \in DOMAIN actions}
                                     \cup DOMAIN request.object.status \cup DOMAIN request.oldObject.status
       /\ \A k \in DOMAIN obj.data : obj.data[k] \in StoredData

\* What the author of a module is told of an action's conditions
\* (types.ts:60 of a capability's namespaces, and types.ts:105-149): each
\* that is given has to hold, and a label without a value has to exist.
\* Objects and namespaces with the label peppr.dev=ignore are left alone.
Governs(a, req) ==
  /\ Selected(req)
  /\ req.operation \in EventOperations[a.event]
  /\ a.kind = req.kind
  /\ a.name \in {Empty, req.name}
  /\ \A nss \in {a.namespaces, a.capNamespaces} : nss = {} \/ req.namespace \in nss
  /\ \A key \in DOMAIN a.labels :
       /\ key \in DOMAIN Source(req).labels
       /\ a.labels[key] \in {Empty, Source(req).labels[key]}

\* The request as an action of that role sees it: before any mutation, or
\* after all of them.
Seen(role) == IF role = "mutate" THEN request ELSE Current

\* With onError "reject" nothing is persisted unless each mutate action for
\* the request has succeeded and each validate action for what was made of
\* it has allowed it, whatever fails on the way: the webhook rules cover
\* the bindings, the filters agree with them, both processors and
\* failurePolicy fail closed.  It takes requests whose labels have values:
\* one with an empty value counts as missing (filter.ts:79).  An action that
\* labels a new object peppr.dev=ignore takes it out of validation.
Guarded ==
  stage = "persisted" /\ onError = "reject" =>
    \A i \in DOMAIN actions :
      Governs(actions[i], Seen(actions[i].role)) => outcome[i] \in {"succeeded", "allowed"}

\* No action runs on a request that is not for it; that one inside its
\* capability's namespaces is enough takes the check of the build.
OnlyGoverned ==
  \A i \in DOMAIN actions :
    outcome[i] # "none" => Governs(actions[i], Seen(actions[i].role))

\* Without "reject" the module's own trouble never stands in the way: a
\* request is refused only by the verdict of a validate action, or with
\* "reject" also for a failed action or an unanswered call.
RefusedForCause ==
  stage = "refused" =>
    \/ \E i \in DOMAIN actions : actions[i].role = "validate" /\ outcome[i] \in {"denied", "failed"}
    \/ onError = "reject"
       /\ (unanswered # {} \/ \E i \in DOMAIN actions : outcome[i] = "failed")

\* What the mutate actions have made of the object is persisted, also if
\* another action failed before or after, and the object tells for each
\* capability that something of it ran.
MutationsKept ==
  stage = "persisted" /\ request.operation # "DELETE" /\ "mutate" \notin unanswered =>
    \A i \in DOMAIN actions :
      actions[i].role = "mutate" /\ outcome[i] # "none" =>
        /\ outcome[i] = "succeeded" => i \in object.marks
        /\ actions[i].capability \in DOMAIN object.status

\* The data of a Secret is encoded exactly once when it is persisted, what
\* the callbacks wrote and what they left alone alike, except where they
\* put text in the place of data that had not been decoded.
SecretsIntact ==
  stage = "persisted" /\ IsSecret /\ request.operation # "DELETE" =>
    \A k \in DOMAIN object.data :
      \/ object.data[k] = NoData
      \/ object.data[k].layers = 1
      \/ object.data[k].text = "new" /\ k \in NonAscii(request.object.data)

\* The two filters agree: an object with labels passes the admission filter
\* of a binding exactly if it passes the watch filter of the same binding,
\* so that an action moved from Mutate to Watch is for the same objects.
FiltersAgree ==
  \A i \in DOMAIN actions :
    LET a == [actions[i] EXCEPT !.event = "ANY", !.name = Empty]
    IN a.kind = request.kind /\ DOMAIN Source(Current).labels # {} =>
         (~ShouldSkipRequest(a, Current) <=> WatchMatches(a, Source(Current), request.namespace))
=============================================================================
