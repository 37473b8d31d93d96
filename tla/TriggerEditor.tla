----------------------------- MODULE TriggerEditor -----------------------------
(***************************************************************************)
(* The life of one automation trigger as spec section 2 describes it: a    *)
(* named trigger edited in the UI is compiled to a generic trigger and     *)
(* persisted (as JSON); a trigger may also be seeded from an observed      *)
(* event or from a flow, or be authored outside this UI; to edit it again  *)
(* the UI classifies the persisted trigger and decodes it with the         *)
(* classified kind's mapper.  Which classifier the caller tries first is   *)
(* not specified, so Load may use any classifier that accepts.             *)
(*                                                                         *)
(* savedFrom is a history variable: where the persisted trigger came from. *)
(***************************************************************************)
EXTENDS TriggerClassifiers, EventTriggers, FlowRunStateTriggers

CONSTANTS
    Ids,          \* entity ids (UUIDs), as token strings
    MaxTargets,   \* longest list of target ids a form holds
    States,       \* flow-run state names
    Times,        \* Proactive windows, in seconds
    Events,       \* workspace events the user may seed from
    FlowIds,      \* flows the user may seed from
    External,     \* triggers authored outside this UI
    NoTrigger, NoLoad

VARIABLES stored, savedFrom, loaded

vars == <<stored, savedFrom, loaded>>

Postures == {"Reactive", "Proactive"}

\* Ordered lists of distinct target ids.
IdLists == {l \in BoundedSeq(Ids, MaxTargets) : Len(l) = Cardinality(ToSet(l))}
StateLists == {l \in BoundedSeq(States, MaxTargets) : Len(l) = Cardinality(ToSet(l))}

NamedTriggers(kind) ==
    CASE kind = "deployment" ->
           [deployments : IdLists, posture : Postures,
            status : DeploymentStatuses, time : Times]
      [] kind = "work-pool" ->
           [workPools : IdLists, posture : Postures,
            status : ToSet(WorkPoolStatuses), time : Times]
      [] kind = "work-queue" ->
           [workPools : IdLists, workQueues : IdLists, posture : Postures,
            status : ToSet(WorkQueueStatuses), time : Times]
      [] kind = "flow-run" ->
           [flowIds : IdLists, tags : {<<>>}, posture : Postures,
            states : StateLists, time : Times]

\* The kinds whose decoder reads a status, and throws without one.
StatusKinds == {"deployment", "work-pool", "work-queue"}

ToGeneric(kind, named) ==
    CASE kind = "deployment" -> mapDeploymentStatusTriggerToAutomationTrigger(named)
      [] kind = "work-pool"  -> mapWorkPoolStatusTriggerToAutomationTrigger(named)
      [] kind = "work-queue" -> mapWorkQueueStatusTriggerToAutomationTrigger(named)
      [] kind = "flow-run"   -> mapFlowRunStateTriggerToAutomationTrigger(named)

FromGeneric(kind, trigger) ==
    CASE kind = "deployment" -> mapAutomationTriggerToDeploymentStatusTrigger(trigger)
      [] kind = "work-pool"  -> mapAutomationTriggerToWorkPoolStatusTrigger(trigger)
      [] kind = "work-queue" -> mapAutomationTriggerToWorkQueueStatusTrigger(trigger)
      [] kind = "flow-run"   -> mapAutomationTriggerToFlowRunStateTrigger(trigger)

\* Persisting sends the trigger as JSON: undefined-valued keys disappear.
Persist(trigger) ==
    [trigger EXCEPT !.match = DropUndefined(@), !.matchRelated = DropUndefined(@)]

TypeOK ==
    /\ stored = NoTrigger \/ DOMAIN stored = DOMAIN TriggerDefaults
    /\ savedFrom.src \in {"none", "form", "event", "flow", "external"}
    /\ loaded = NoLoad \/ loaded.kind \in Kinds \cup {"custom"}
    \* what a status mapper decodes without error is a form the UI can show
    /\ (loaded # NoLoad /\ loaded.kind \in StatusKinds /\ ~loaded.error)
          => loaded.named \in NamedTriggers(loaded.kind)
    /\ (loaded # NoLoad /\ loaded.kind = "flow-run")
          => DOMAIN loaded.named = {"flowIds", "tags", "posture", "states", "time"}

Init ==
    /\ stored = NoTrigger
    /\ savedFrom = [src |-> "none"]
    /\ loaded = NoLoad

\* The form is saved: its named trigger is compiled and persisted.
Save(kind, named) ==
    /\ stored' = Persist(ToGeneric(kind, named))
    /\ savedFrom' = [src |-> "form", kind |-> kind, named |-> named]
    /\ loaded' = NoLoad

\* "Create an automation from this event".
SeedFromEvent(event) ==
    /\ stored' = Persist(mapWorkspaceEventToAutomationTrigger(event))
    /\ savedFrom' = [src |-> "event", event |-> event]
    /\ loaded' = NoLoad

\* "Create an automation for this flow".
SeedFromFlow(flowId) ==
    /\ stored' = Persist(mapFlowToAutomationTrigger(flowId))
    /\ savedFrom' = [src |-> "flow", flowId |-> flowId]
    /\ loaded' = NoLoad

PersistExternal(trigger) ==
    /\ stored' = trigger
    /\ savedFrom' = [src |-> "external"]
    /\ loaded' = NoLoad

\* Editing: a classifier accepts and the kind's mapper decodes; a status
\* decoder throws when no status event is recognised.
Load(kind) ==
    /\ stored # NoTrigger
    /\ Classify(kind, stored)
    /\ loaded' = LET named == FromGeneric(kind, stored)
                 IN  [kind |-> kind, named |-> named,
                      error |-> kind \in StatusKinds /\ named.status = UnknownStatus]
    /\ UNCHANGED <<stored, savedFrom>>

\* No classifier accepts: the trigger is edited as a custom trigger.
LoadCustom ==
    /\ stored # NoTrigger
    /\ \A kind \in Kinds : ~Classify(kind, stored)
    /\ loaded' = [kind |-> "custom", named |-> stored, error |-> FALSE]
    /\ UNCHANGED <<stored, savedFrom>>

Next ==
    \/ \E kind \in Kinds : \E named \in NamedTriggers(kind) : Save(kind, named)
    \/ \E event \in Events : SeedFromEvent(event)
    \/ \E flowId \in FlowIds : SeedFromFlow(flowId)
    \/ \E trigger \in External : PersistExternal(trigger)
    \/ \E kind \in Kinds : Load(kind)
    \/ LoadCustom

Spec == Init /\ [][Next]_vars

(******************************* properties *******************************)

\* The fields a named trigger of this posture carries: a Reactive trigger
\* has no window, so its time is not part of it.
Meaning(named) ==
    IF named.posture = "Reactive" THEN [named EXCEPT !.time = 0] ELSE named

(***************************************************************************)
(* Refinement mapping onto TriggerStore.  A form trigger is its kind and   *)
(* meaning; any other trigger allows every editor except that a trigger    *)
(* seeded from a flow, or from a flow-run event, allows only the flow-run  *)
(* state trigger.  What is shown is the decoded form (its meaning) for a   *)
(* form trigger, and the editor's kind otherwise.                          *)
(***************************************************************************)
ViewKinds == Kinds \cup {"custom"}

OpensAs(from) ==
    IF \/ from.src = "flow"
       \/ from.src = "event" /\ getSyntaskResourceRole(from.event.event) = FlowRunRole
    THEN {"flow-run"}
    ELSE ViewKinds

AbstractTrigger ==
    CASE stored = NoTrigger     -> NoTrigger
      [] savedFrom.src = "form" -> [kind |-> savedFrom.kind, named |-> Meaning(savedFrom.named)]
      [] OTHER                  -> [opensAs |-> OpensAs(savedFrom)]

AbstractShown ==
    CASE loaded = NoLoad        -> NoLoad
      [] savedFrom.src = "form" -> [kind |-> loaded.kind,
                                    named |-> IF loaded.kind \in Kinds
                                              THEN Meaning(loaded.named) ELSE loaded.named]
      [] OTHER                  -> [kind |-> loaded.kind]

StoreForms == UNION {{[kind |-> k, named |-> Meaning(n)] : n \in NamedTriggers(k)} : k \in Kinds}

Store == INSTANCE TriggerStore WITH
    Forms <- StoreForms,
    trigger <- AbstractTrigger,
    shown <- AbstractShown

(***************************************************************************)
(* The editor implements the store's promise: a trigger saved from the     *)
(* form and opened again is classified as the kind it was saved as, by     *)
(* whichever classifier the caller tries, and decodes without error to the *)
(* same targets, posture, status and (Proactive) window; a trigger seeded  *)
(* from a flow or a flow-run event opens as a flow-run state trigger.      *)
(* This needs the status mappers, the classifiers, the JSON round trip and *)
(* the event-role parser to agree.                                         *)
(***************************************************************************)
StoreRefined == Store!Spec

(***************************************************************************)
(* No persisted trigger, whatever its origin, is accepted by two           *)
(* classifiers, so the caller's unspecified precedence order cannot change *)
(* which mapper decodes it (spec section 9, open question).                *)
(***************************************************************************)
ClassifiersExclusive ==
    stored # NoTrigger =>
        \A k1, k2 \in Kinds : (Classify(k1, stored) /\ Classify(k2, stored)) => k1 = k2

(***************************************************************************)
(* The "events like this one" patterns built for the event a trigger was   *)
(* seeded from are exactly a wildcard at each "." of its name, broadest    *)
(* first, then the name itself, and the server's matching accepts the      *)
(* event for each: the loop bounds of getEventWithPrefixes and its         *)
(* split/join agree with the dot boundaries the server matches at.         *)
(***************************************************************************)
DotWildcards(e) ==
    SetToSortSeq({DotJoin(SubSeq(e, 1, k - 1), Star) : k \in {k2 \in DOMAIN e : e[k2] = "."}},
                 LAMBDA a, b : Len(a) < Len(b))
    \o <<e>>

EventPrefixesAreDotWildcards ==
    savedFrom.src = "event" =>
        LET e        == savedFrom.event.event
            patterns == getEventWithPrefixes(e)
        IN  /\ patterns = DotWildcards(e)
            /\ \A i \in DOMAIN patterns : PatternMatches(patterns[i], e)

(***************************************************************************)
(* The flow-run states of a stored trigger survive being opened, saved     *)
(* unchanged and opened again: the states read from its expect list,       *)
(* written back as event names and read again are the same list, no states *)
(* included (written as the wildcard 'synotask.flow-run.*').  The one      *)
(* exception is a trigger written by another client whose expect holds     *)
(* 'synotask.flow-run' itself: fromStateNameEvents reads its state as      *)
(* undefined, the template literal writes 'synotask.flow-run.undefined',   *)
(* and that reads back as the state 'undefined'.                           *)
(***************************************************************************)
StatesSurviveResave ==
    stored # NoTrigger =>
        LET states == fromStateNameEvents(stored.expect)
        IN  \/ fromStateNameEvents(toStateNameEvents(states)) = states
            \/ savedFrom.src = "external" /\ Undefined \in ToSet(states)

(***************************************************************************)
(* A trigger created from a flow, or from a flow-run event, opens in the   *)
(* flow-run editor scoped to that flow and that state: the flows it reads  *)
(* back, written as resource ids, are the flow seeded from (or the event's *)
(* related flows), and the states, written as events, are the event's name *)
(* (none, i.e. any state, for a flow).  The seeding mappers, the JSON round trip, the classifier  *)
(* and fromResourceId/fromStateNameEvents must agree on the prefixes:      *)
(* 'synotask.flow' is a prefix of 'synotask.flow-run'.                     *)
(***************************************************************************)
SeededFlows(from) ==
    IF from.src = "flow" THEN {DotJoin(FlowResource, from.flowId)}
    ELSE {from.event.related[i].id : i \in {i2 \in DOMAIN from.event.related :
                                              from.event.related[i2].role = FlowRole}}

SeededStates(from) == IF from.src = "flow" THEN {} ELSE {from.event.event}

SeededFlowRunOpensAsSeeded ==
    (loaded # NoLoad /\ loaded.kind = "flow-run" /\ savedFrom.src \in {"flow", "event"}) =>
        LET form == loaded.named
        IN  /\ {DotJoin(FlowResource, id) : id \in ToSet(form.flowIds)} = SeededFlows(savedFrom)
            /\ {DotJoin(FlowRunResource, s) : s \in ToSet(form.states)} = SeededStates(savedFrom)

(***************************************************************************)
(* A trigger a classifier accepts can be decoded: the spec (4.3, 7) says a *)
(* generic trigger without a known status event is not an instance of the  *)
(* kind "and should have failed classification first".                     *)
(***************************************************************************)
ClassifiedTriggerDecodes == loaded # NoLoad => ~loaded.error

(***************************************************************************)
(* Spec 4.3/4.4: a flow-run state trigger may be scoped by a related flow  *)
(* or tag, and decoding recovers the same lists.  isFlowRunStateTrigger    *)
(* accepts a tag scope through matchRelated's resource ids; the trigger    *)
(* then opens in the flow-run form with its tags.                          *)
(***************************************************************************)
TagScopeSurvivesLoad ==
    (loaded # NoLoad /\ loaded.kind = "flow-run"
        /\ Get(stored.matchRelated, RoleLabel) = TagRole)
        => loaded.named.tags # <<>>

(***************************************************************************)
(* A trigger seeded from an event ("alert me when an event like this one   *)
(* happens again") matches that event.                                     *)
(***************************************************************************)
SeededTriggerMatchesItsEvent ==
    savedFrom.src = "event" => EventMatches(stored, savedFrom.event)

(***************************************************************************)
(* A Proactive status trigger saved from the form expects the events of    *)
(* every status except the desired one (spec 4.3 and its testable          *)
(* property 5): leaving the desired status for any other status is the     *)
(* transition its window watches for.                                      *)
(***************************************************************************)
StatusTable(kind) ==
    CASE kind = "deployment" -> DeploymentStatusEventToStatus
      [] kind = "work-pool"  -> WorkPoolStatusEventToStatus
      [] kind = "work-queue" -> WorkQueueStatusEventToStatus

ProactiveExpectsEveryOtherStatus ==
    (savedFrom.src = "form" /\ savedFrom.kind \in StatusKinds
       /\ savedFrom.named.posture = "Proactive") =>
        LET table == StatusTable(savedFrom.kind)
        IN  {table[stored.expect[i]] : i \in DOMAIN stored.expect}
              = {table[e] : e \in DOMAIN table} \ {savedFrom.named.status}

=============================================================================
