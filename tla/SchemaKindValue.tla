--------------------------- MODULE SchemaKindValue ---------------------------
(***************************************************************************)
(* One schema-form property whose value may be given as a plain value      *)
(* ('none'), as JSON text, as a Jinja template or as a workspace variable: *)
(* useSyntaskKindValue (schemas/compositions/usePrefectKindValue.ts), the *)
(* mapSchemaValue conversions (schemas/maps/schemaValue.ts) and the kind   *)
(* guards (schemas/types/schemaValues.ts).                                 *)
(*                                                                         *)
(* Data: a plain value is V1 (valid for the property's schema), V2 (not)   *)
(* or undefined, bare or in the wrapper {__synotask_kind: 'none', value};  *)
(* a string is the JSON text of a plain value, Text(v), or Bad, text that  *)
(* is not JSON.  A kind object is a record whose `kind` is its            *)
(* __synotask_kind; a field it lacks reads as Undefined.                   *)
(*                                                                         *)
(* Concurrency: setKind('none') on a JSON value awaits a server validation *)
(* and runs the rest of its body when the answer comes; meanwhile the user *)
(* may edit or call setKind again, the debounced revalidation may send     *)
(* its own request, and answers come back in any order.                    *)
(***************************************************************************)
EXTENDS Naturals, Sequences, SequencesExt

CONSTANTS
    V1, V2,       \* plain values: V1 satisfies the property's schema, V2 does not
    Bad,          \* a string that is not valid JSON
    W,            \* a workspace variable name
    Undefined,
    NoRequest,    \* lastSent before any request
    ServerValid,  \* the values the validation endpoint accepts
    MayReject,    \* whether a validation request may fail (network or server error)
    MayCloneFail, \* whether structuredClone may throw on the value to stash
    MaxInFlight   \* bound on validation requests awaiting an answer

VARIABLES
    value,        \* schemaValue.value
    valueMap,     \* kind -> value stashed for it (Undefined: no entry)
    errors,       \* errors.value is non-empty
    pending,      \* a debounced validatePropertyValue call is scheduled
    inflight,     \* validation requests sent and not yet answered
    lastSent,     \* history: the value of the last request sent
    requested,    \* history: the kind of the last setKind call
    trail         \* history: the values since the last edit, one per
                  \* completed kind switch (the last three)

vars == <<value, valueMap, errors, pending, inflight, lastSent, requested, trail>>

Kinds == {"none", "json", "jinja", "workspace_variable"}

Plain   == {V1, V2, Undefined}
Text(v) == [json |-> v]                     \* JSON.stringify of a plain value
Strings == {Text(V1), Text(V2), Bad}

\* JSON.stringify: undefined has no JSON text and stays undefined.
stringify(v) == IF v = Undefined THEN Undefined ELSE Text(v)
isValidJson(s) == s \in {Text(V1), Text(V2)}
parse(s) == s.json

\* { __synotask_kind: 'none', value }: a plain value in its kind wrapper.
\* Every conversion unwraps it the same way, so one wrapped value suffices.
Wrapped == {[kind |-> "none", value |-> V1]}

Values ==
    Plain \cup Wrapped
    \cup [kind : {"json"}, value : Strings \cup {Undefined}]
    \cup [kind : {"jinja"}, template : Strings \cup {Undefined}]
    \cup [kind : {"workspace_variable"}, variable_name : {W, Undefined}]

\* { __synotask_kind: to } with no other field.
Bare(to) ==
    CASE to = "json"               -> [kind |-> "json", value |-> Undefined]
      [] to = "jinja"              -> [kind |-> "jinja", template |-> Undefined]
      [] to = "workspace_variable" -> [kind |-> "workspace_variable", variable_name |-> Undefined]

\* A record whose __synotask_kind is one of the kinds.
isSyntaskKindValue(v) == v \notin Plain

getSyntaskKindFromValue(v) == IF isSyntaskKindValue(v) THEN v.kind ELSE "none"

isSyntaskKindNull(v) == isSyntaskKindValue(v) /\ v.kind = "none"
isSyntaskKindJson(v) == getSyntaskKindFromValue(v) = "json"
isSyntaskKindJinja(v) == getSyntaskKindFromValue(v) = "jinja" /\ v.template # Undefined
isSyntaskKindWorkspaceVariable(v) == getSyntaskKindFromValue(v) = "workspace_variable"

(***************************************************************************)
(* mapSchemaValue returns Ok(v), or throws InvalidSchemaValueTransformation *)
(* ("invalid") or a plain Error ("error").                                  *)
(***************************************************************************)
Ok(v)    == [tag |-> "ok", value |-> v]
Throw(t) == [tag |-> t, value |-> Undefined]

mapSchemaValueJinja(jinja, to) ==
    CASE to = "jinja"              -> Ok(jinja)
      [] to = "workspace_variable" -> Throw("invalid")
      [] to = "json"               -> Ok([kind |-> "json", value |-> jinja.template])
      [] to = "none"               -> IF isValidJson(jinja.template)
                                      THEN Ok(parse(jinja.template))
                                      ELSE Throw("invalid")

mapSchemaValueJson(json, to) ==
    CASE to = "jinja"              -> Ok([kind |-> "jinja", template |-> json.value])
      [] to = "workspace_variable" -> Throw("invalid")
      [] to = "json"               -> Ok(json)
      [] to = "none"               -> IF json.value # Undefined /\ isValidJson(json.value)
                                      THEN Ok(parse(json.value))
                                      ELSE Throw("invalid")

\* Mutant: the JSON branch stores the plain value instead of its text.
mapSchemaValueNone_noStringify(none, to) ==
    LET unwrapped == IF isSyntaskKindNull(none) THEN none.value ELSE none
    IN  CASE to = "jinja"              -> Ok([kind |-> "jinja", template |-> stringify(unwrapped)])
          [] to = "workspace_variable" -> Ok([kind |-> "workspace_variable", variable_name |-> Undefined])
          [] to = "json"               -> Ok([kind |-> "json", value |-> unwrapped])
          [] to = "none"               -> Ok(none)

mapSchemaValueNone(none, to) ==
    LET unwrapped == IF isSyntaskKindNull(none) THEN none.value ELSE none
    IN  CASE to = "jinja"              -> Ok([kind |-> "jinja", template |-> stringify(unwrapped)])
          [] to = "workspace_variable" -> Ok([kind |-> "workspace_variable", variable_name |-> Undefined])
          [] to = "json"               -> Ok([kind |-> "json", value |-> stringify(unwrapped)])
          [] to = "none"               -> Ok(none)

mapSchemaValue(v, to) ==
    CASE isSyntaskKindJinja(v)                 -> mapSchemaValueJinja(v, to)
      [] isSyntaskKindWorkspaceVariable(v)     -> Throw("invalid")
      [] isSyntaskKindJson(v)                  -> mapSchemaValueJson(v, to)
      [] getSyntaskKindFromValue(v) = "none"   -> mapSchemaValueNone(v, to)
      [] OTHER                                 -> Throw("error")

\* The outcomes of structuredClone(getRawValue(value)): TRUE when it
\* returns, FALSE when it throws on reactivity left in the value.
CloneOutcomes == IF MayCloneFail THEN BOOLEAN ELSE {TRUE}

(***************************************************************************)
(* The body of setKind after the optional validation: stash the current   *)
(* value under its kind (read now, after the await; a clone that throws is *)
(* logged and leaves the stash as it was), then convert it.  On            *)
(* InvalidSchemaValueTransformation a switch to 'none' falls back to the   *)
(* stashed 'none' value and returns; any other kind falls back to its      *)
(* stashed value or a bare kind object, and the error is rethrown.  Any    *)
(* other error leaves the value as it is.                                  *)
(***************************************************************************)
Switch(currentKind, v, vm, to, cloned) ==
    LET stash == IF cloned THEN [vm EXCEPT ![currentKind] = v] ELSE vm
        r     == mapSchemaValue(v, to)
    IN  [valueMap |-> stash,
         value |-> CASE r.tag = "ok"                    -> r.value
                     [] r.tag = "invalid" /\ to = "none" -> stash["none"]
                     [] r.tag = "invalid"               -> IF stash[to] = Undefined
                                                           THEN Bare(to) ELSE stash[to]
                     [] OTHER                           -> v]

\* The deep watch on the value: a change while errors are shown schedules
\* the debounced revalidation.
Watch(old, new, errs) == pending \/ (new # old /\ errs)

Request(v, resume) == [snap |-> v, resume |-> resume]

Keep3(s) == IF Len(s) > 3 THEN Tail(s) ELSE s

\* What the editor of each kind can set.
EditsOf(k) ==
    CASE k = "none"               -> Plain
      [] k = "json"               -> [kind : {"json"}, value : Strings]
      [] k = "jinja"              -> [kind : {"jinja"}, template : Strings]
      [] k = "workspace_variable" -> [kind : {"workspace_variable"}, variable_name : {W}]

TypeOK ==
    /\ value \in Values
    /\ valueMap \in [Kinds -> Values]
    /\ errors \in BOOLEAN /\ pending \in BOOLEAN
    /\ inflight \in Seq([snap : Values, resume : BOOLEAN])
    /\ Len(inflight) <= MaxInFlight
    /\ lastSent \in Values \cup {NoRequest}
    /\ requested \in Kinds \cup {NoRequest}

\* The values the form starts from: each has the shape its kind's guard
\* accepts.
InitValues == {v \in Values : getSyntaskKindFromValue(v) = "jinja" => isSyntaskKindJinja(v)}

Init ==
    /\ value \in InitValues
    /\ valueMap = [k \in Kinds |-> Undefined]
    /\ errors = FALSE
    /\ pending = FALSE
    /\ inflight = <<>>
    /\ lastSent = NoRequest
    /\ requested = NoRequest
    /\ trail = <<value>>

\* The user types into the editor of the current kind.
Edit(v) ==
    /\ v \in EditsOf(getSyntaskKindFromValue(value)) \ {value}
    /\ value' = v
    /\ pending' = Watch(value, v, errors)
    /\ trail' = <<v>>
    /\ UNCHANGED <<valueMap, errors, inflight, lastSent, requested>>

\* setKind(to) from JSON to 'none': the validation request is sent and the
\* call awaits its answer.
SetKindAwait ==
    /\ isSyntaskKindJson(value)
    /\ Len(inflight) < MaxInFlight
    /\ inflight' = Append(inflight, Request(value, TRUE))
    /\ lastSent' = value
    /\ requested' = "none"
    /\ UNCHANGED <<value, valueMap, errors, pending, trail>>

\* Any other setKind(to) runs to completion at once.
SetKind(to) ==
    /\ ~(isSyntaskKindJson(value) /\ to = "none")
    /\ \E cloned \in CloneOutcomes :
       LET s == Switch(getSyntaskKindFromValue(value), value, valueMap, to, cloned)
       IN  /\ value' = s.value
           /\ valueMap' = s.valueMap
           /\ pending' = Watch(value, s.value, errors)
           /\ trail' = Keep3(Append(trail, s.value))
    /\ requested' = to
    /\ UNCHANGED <<errors, inflight, lastSent>>

(***************************************************************************)
(* The answer to request i arrives (answers come in any order):            *)
(* validatePropertyValue sets errors from it; for an awaiting setKind a    *)
(* refusal returns, and a success runs the rest of the body on the value   *)
(* as it is now.                                                           *)
(***************************************************************************)
Response(i) ==
    LET r  == inflight[i]
        ok == r.snap \in ServerValid
    IN  /\ errors' = ~ok
        /\ inflight' = RemoveAt(inflight, i)
        /\ IF r.resume /\ ok
           THEN \E cloned \in CloneOutcomes :
                LET s == Switch(getSyntaskKindFromValue(value), value, valueMap, "none", cloned)
                IN  /\ value' = s.value
                    /\ valueMap' = s.valueMap
                    /\ pending' = Watch(value, s.value, errors')
                    /\ trail' = Keep3(Append(trail, s.value))
           ELSE UNCHANGED <<value, valueMap, pending, trail>>
        /\ UNCHANGED <<lastSent, requested>>

\* The debounce timer fires: the current value is sent for validation.
DebounceFire ==
    /\ pending
    /\ Len(inflight) < MaxInFlight
    /\ inflight' = Append(inflight, Request(value, FALSE))
    /\ pending' = FALSE
    /\ lastSent' = value
    /\ UNCHANGED <<value, valueMap, errors, requested, trail>>

(***************************************************************************)
(* Request i fails.  Nothing catches it: the await in validatePropertyValue *)
(* throws before errors are assigned, an awaiting setKind rejects before   *)
(* its body runs, and the debounced call's rejection is dropped.           *)
(***************************************************************************)
Reject(i) ==
    /\ MayReject
    /\ inflight' = RemoveAt(inflight, i)
    /\ UNCHANGED <<value, valueMap, errors, pending, lastSent, requested, trail>>

Next ==
    \/ \E v \in Values : Edit(v)
    \/ SetKindAwait
    \/ \E to \in Kinds : SetKind(to)
    \/ \E i \in DOMAIN inflight : Response(i)
    \/ \E i \in DOMAIN inflight : Reject(i)
    \/ DebounceFire

Spec == Init /\ [][Next]_vars

\* A request settles: it is answered or it fails.
Settle == \E i \in DOMAIN inflight : Response(i) \/ Reject(i)

\* lodash's timer and the requests are not starved: weak fairness on the
\* timer and on settling a request (answer or failure), none on the user.
FairSpec ==
    /\ Spec
    /\ WF_vars(DebounceFire)
    /\ WF_vars(Settle)

(******************************* properties *******************************)

(***************************************************************************)
(* The comment on the awaited validation says it double-checks the value   *)
(* before the switch to 'none': when a successful answer resumes setKind,  *)
(* the value it converts is the value that was validated.                  *)
(***************************************************************************)
ResumeActsOnValidated ==
    [][\A i \in DOMAIN inflight :
          (Response(i) /\ inflight[i].resume /\ inflight[i].snap \in ServerValid)
             => value = inflight[i].snap]_vars

(***************************************************************************)
(* A validation answer that resumes an earlier setKind('none') call may    *)
(* change the kind of the value only to the kind of the last setKind call: *)
(* the kind the user chose last is the one shown.                          *)
(***************************************************************************)
LastRequestedKindWins ==
    [][\A i \in DOMAIN inflight :
          Response(i) => getSyntaskKindFromValue(value') \in
                             {getSyntaskKindFromValue(value), requested}]_vars

(***************************************************************************)
(* Once every validation has been answered, the errors shown are those of  *)
(* the last value sent for validation.                                     *)
(***************************************************************************)
ErrorsDescribeLastSent ==
    (inflight = <<>> /\ lastSent # NoRequest) => (errors = (lastSent \notin ServerValid))

(***************************************************************************)
(* Every value the property can hold can be converted to every kind or is  *)
(* refused with InvalidSchemaValueTransformation: the "Unhandled synotask  *)
(* kind value" error of mapSchemaValue is never thrown.                    *)
(***************************************************************************)
EveryValueIsMappable ==
    \A to \in Kinds : mapSchemaValue(value, to).tag # "error"

(***************************************************************************)
(* valueMap stores "the current value for the current kind": switching     *)
(* away from a kind and back, with no edit in between, gives back the      *)
(* value held before (a 'none' value counts the same bare or wrapped).     *)
(***************************************************************************)
RoundTripRestores ==
    LET Unwrap(v) == IF isSyntaskKindNull(v) THEN v.value ELSE v
    IN  \A i, j \in DOMAIN trail :
            (i < j /\ getSyntaskKindFromValue(trail[i]) = getSyntaskKindFromValue(trail[j]))
                => Unwrap(trail[i]) = Unwrap(trail[j])

(***************************************************************************)
(* The watch revalidates only while errors are shown, so that errors shown *)
(* for a value the server accepts go away: with the value left as it is,   *)
(* the errors are eventually cleared.                                      *)
(***************************************************************************)
ShownErrorsEventuallyClear ==
    [](errors /\ value \in ServerValid => <>(~errors \/ value \notin ServerValid))

=============================================================================
