----------------------------- MODULE TriggerCodec -----------------------------
(***************************************************************************)
(* The resource-identifier codec and the generic-trigger inspection        *)
(* helpers of automations/maps/utilities.ts, and the AutomationTriggerEvent *)
(* the mappers build (its class is not in the repository's source; its     *)
(* defaults are taken from the spec).                                      *)
(***************************************************************************)
EXTENDS JsStrings

CONSTANT Threshold   \* DEFAULT_EVENT_TRIGGER_THRESHOLD

Synotask == <<"synotask">>

\* AutomationTriggerEventResource: `synotask.${kind}`
Resource(kind) == DotJoin(Synotask, kind)
DeploymentResource == Resource(<<"deployment">>)
WorkPoolResource   == Resource(<<"work-pool">>)
WorkQueueResource  == Resource(<<"work-queue">>)
FlowResource       == Resource(<<"flow">>)
FlowRunResource    == Resource(<<"flow", "-run">>)
TagResource        == Resource(<<"tag">>)

\* AutomationTriggerEventResourceLabel keys of a match object.
IdLabel   == "synotask.resource.id"
RoleLabel == "synotask.resource.role"
NameLabel == "synotask.resource.name"

\* AutomationTriggerEventResourceRole values, as token strings.
Role(t) == <<t>>
FlowRole      == Role("flow")
FlowRunRole   == <<"flow", "-run">>
WorkQueueRole == Role("work-queue")
TagRole       == Role("tag")

toResourceId(resource, values) ==
    IF values = <<>>
    THEN Scalar(DotJoin(resource, Star))
    ELSE List(MapSeq(values, LAMBDA id : DotJoin(resource, id)))

\* Mutant: the wildcard is not read back as "no targets".
fromResourceId_keepsWildcard(resource, value) ==
    IF value = Undefined THEN <<>>
    ELSE MapSeq(SelectSeq(AsArray(value), LAMBDA v : StartsWith(v, resource)),
                LAMBDA v : SplitSecond(v, resource \o Dot))

fromResourceId(resource, value) ==
    IF value = Undefined THEN <<>>
    ELSE IF Contains(AsArray(value), DotJoin(resource, Star)) THEN <<>>
    ELSE MapSeq(SelectSeq(AsArray(value), LAMBDA v : StartsWith(v, resource)),
                LAMBDA v : SplitSecond(v, resource \o Dot))

\* match[key] with a missing key read as undefined.
Get(match, key) == IF key \in DOMAIN match THEN match[key] ELSE Undefined

\* The names a match constrains, when it is declared for this role.
fromResourceName(match, role) ==
    IF Get(match, RoleLabel) # role \/ Get(match, NameLabel) = Undefined THEN <<>>
    ELSE AsArray(Get(match, NameLabel))

\* Flow-run state names as event names; no states is the wildcard.
toStateNameEvents(stateTypes) ==
    IF stateTypes = <<>> THEN <<DotJoin(FlowRunResource, Star)>>
    ELSE MapSeq(stateTypes, LAMBDA t : DotJoin(FlowRunResource, t))

\* Mutant: the wildcard event is not read back as "no states".
fromStateNameEvents_keepsWildcard(events) ==
    MapSeq(SelectSeq(events, LAMBDA e : StartsWith(e, FlowRunResource)),
           LAMBDA e : SplitSecond(e, FlowRunResource \o Dot))

fromStateNameEvents(events) ==
    IF Contains(events, DotJoin(FlowRunResource, Star)) THEN <<>>
    ELSE MapSeq(SelectSeq(events, LAMBDA e : StartsWith(e, FlowRunResource)),
                LAMBDA e : SplitSecond(e, FlowRunResource \o Dot))

\* Returns undefined for an empty list, which `...` spreads to {}.
toMatchRelatedId(role, ids) ==
    IF ids = <<>> THEN Undefined
    ELSE [k \in {RoleLabel, IdLabel} |->
            IF k = RoleLabel THEN role ELSE toResourceId(Resource(role), ids)]

\* { ...x } of a toMatchRelated* result.
Spread(x) == IF x = Undefined THEN EmptyObject ELSE x

(***************************************************************************)
(* new AutomationTriggerEvent({...}): fields not given take the defaults   *)
(* of the class: empty match, matchRelated, forEach, expect and after,     *)
(* within 0 and the UI's fixed threshold.                                  *)
(***************************************************************************)
TriggerDefaults ==
    [posture |-> "Reactive", match |-> EmptyObject, matchRelated |-> EmptyObject,
     forEach |-> <<>>, expect |-> <<>>, after |-> <<>>, within |-> 0,
     threshold |-> Threshold]

NewAutomationTriggerEvent(fields) == [f \in DOMAIN TriggerDefaults |->
    IF f \in DOMAIN fields THEN fields[f] ELSE TriggerDefaults[f]]

\* The values of a match key; `value ? asArray(value) : []`.
getTriggerMatchValue(match, key) ==
    IF Get(match, key) = Undefined THEN <<>> ELSE AsArray(Get(match, key))

(***************************************************************************)
(* The predicates callers pass to the is*Resource helpers are all "every   *)
(* entry starts with a prefix" or "every entry is one of these events".    *)
(***************************************************************************)
EveryStartsWith(prefix) == [prefix |-> prefix]
EveryIn(events) == [events |-> events]

Accepts(predicate, list) ==
    Every(list, LAMBDA v : IF "prefix" \in DOMAIN predicate
                           THEN StartsWith(v, predicate.prefix)
                           ELSE v \in predicate.events)

\* Mutant: no early return for a trigger without match ids.
isMatchResource_noEmptyCheck(trigger, predicate) ==
    Accepts(predicate, getTriggerMatchValue(trigger.match, IdLabel))

isMatchResource(trigger, predicate) ==
    LET ids == getTriggerMatchValue(trigger.match, IdLabel)
    IN  ids # <<>> /\ Accepts(predicate, ids)

\* Labels are compared whole: no label of the model is a prefix of another.
isForEachResource(trigger, label) == Every(trigger.forEach, LAMBDA v : v = label)

isExpectResource(trigger, predicate) == Accepts(predicate, trigger.expect)

isAfterResource(trigger, predicate) == Accepts(predicate, trigger.after)

=============================================================================
