---------------------------- MODULE EventTriggers ----------------------------
(***************************************************************************)
(* Seeding a trigger from an observed workspace event or from a flow:      *)
(* maps/workspaceEvent.ts and automations/maps/event.ts (two copies of the *)
(* same mapper), maps/flow.ts, getSyntaskResourceRole of                   *)
(* utilities/events.ts and WorkspaceEvent.getRelatedByRole.                *)
(*                                                                         *)
(* An event is [event, resource |-> [id], related |-> << [id, role] >>].   *)
(* EventMatches is the server's event matching (not in this repository),   *)
(* as the spec describes it: every match key matches the resource, some    *)
(* related resource matches every matchRelated key, and the event name     *)
(* matches an expect entry; "x.*" matches every value starting "x.".       *)
(***************************************************************************)
EXTENDS TriggerCodec

\* synotaskEventPrefixes, in order, as namespace and role.
EventPrefixes ==
    LET cloud == <<"synotask-cloud">>
    IN  << [ns |-> Synotask, role |-> Role("block-document")],
           [ns |-> Synotask, role |-> Role("deployment")],
           [ns |-> Synotask, role |-> FlowRunRole],
           [ns |-> Synotask, role |-> FlowRole],
           [ns |-> Synotask, role |-> Role("task-run")],
           [ns |-> Synotask, role |-> WorkQueueRole],
           [ns |-> Synotask, role |-> Role("work-pool")],
           [ns |-> Synotask, role |-> Role("tag")],
           [ns |-> Synotask, role |-> Role("concurrency-limit")],
           [ns |-> Synotask, role |-> Role("artifact-collection")],
           [ns |-> Synotask, role |-> Role("automation")],
           [ns |-> Synotask, role |-> Role("creator")],
           [ns |-> cloud, role |-> Role("actor")],
           [ns |-> cloud, role |-> Role("automation")],
           [ns |-> cloud, role |-> Role("workspace")],
           [ns |-> cloud, role |-> Role("webhook")] >>

\* The first alternative of ^(p1|p2|...)\. that matches; null when none.
getSyntaskResourceRole(value) ==
    LET i == SelectInSeq(EventPrefixes,
                 LAMBDA p : StartsWith(value, DotJoin(p.ns, p.role) \o Dot))
    IN  IF i = 0 THEN Undefined ELSE EventPrefixes[i].role

\* Mutant: the loop starts at index 0, offering the empty prefix ".*".
getEventWithPrefixes_fromZero(event) ==
    LET parts == Split(event, Dot)
    IN  <<DotJoin(<<>>, Star)>>
        \o [i \in 1..(Len(parts) - 1) |-> DotJoin(Join(SubSeq(parts, 1, i), Dot), Star)]
        \o <<event>>

\* The wildcard of every leading run of dot-separated parts, then the event.
getEventWithPrefixes(event) ==
    LET parts == Split(event, Dot)
    IN  [i \in 1..(Len(parts) - 1) |-> DotJoin(Join(SubSeq(parts, 1, i), Dot), Star)]
        \o <<event>>

\* related.find(r => r.role === role)?.['synotask.resource.id']
RelatedIdByRole(event, role) ==
    LET i == SelectInSeq(event.related, LAMBDA r : r.role = role)
    IN  IF i = 0 THEN Undefined ELSE event.related[i].id

MatchOf(id) == [k \in {IdLabel} |-> Scalar(id)]

RelatedMatch(role, id) ==
    [k \in {RoleLabel, IdLabel} |->
        IF k = RoleLabel THEN role ELSE IF id = Undefined THEN Undefined ELSE Scalar(id)]

\* Mutant: the related resource is looked up under the event's own role.
mapEventToFlowRunStateChangeTrigger_ownRole(event) ==
    NewAutomationTriggerEvent(
        [posture |-> "Reactive", match |-> MatchOf(event.resource.id),
         matchRelated |-> RelatedMatch(FlowRole, RelatedIdByRole(event, FlowRunRole)),
         forEach |-> <<IdLabel>>, expect |-> <<event.event>>])

mapEventToFlowRunStateChangeTrigger(event) ==
    NewAutomationTriggerEvent(
        [posture |-> "Reactive", match |-> MatchOf(event.resource.id),
         matchRelated |-> RelatedMatch(FlowRole, RelatedIdByRole(event, FlowRole)),
         forEach |-> <<IdLabel>>, expect |-> <<event.event>>])

\* The related role pinned is "flow", while the id is the work-queue's.
mapEventToWorkQueueTrigger(event) ==
    NewAutomationTriggerEvent(
        [posture |-> "Reactive", match |-> MatchOf(event.resource.id),
         matchRelated |-> RelatedMatch(FlowRole, RelatedIdByRole(event, WorkQueueRole)),
         forEach |-> <<IdLabel>>, expect |-> <<event.event>>])

mapEventToCustomAutomationTrigger(event) ==
    NewAutomationTriggerEvent(
        [posture |-> "Reactive", match |-> MatchOf(event.resource.id),
         expect |-> <<event.event>>])

mapWorkspaceEventToAutomationTrigger(event) ==
    LET role == getSyntaskResourceRole(event.event)
    IN  CASE role = FlowRunRole   -> mapEventToFlowRunStateChangeTrigger(event)
          [] role = WorkQueueRole -> mapEventToWorkQueueTrigger(event)
          [] OTHER                -> mapEventToCustomAutomationTrigger(event)

\* Mutant: the related flow is written as a flow-run resource id.
mapFlowToAutomationTrigger_flowRunRelated(flowId) ==
    NewAutomationTriggerEvent(
        [posture |-> "Reactive",
         match |-> MatchOf(DotJoin(FlowRunResource, Star)),
         matchRelated |-> RelatedMatch(FlowRole, DotJoin(FlowRunResource, flowId)),
         forEach |-> <<IdLabel>>])

mapFlowToAutomationTrigger(flowId) ==
    NewAutomationTriggerEvent(
        [posture |-> "Reactive",
         match |-> MatchOf(DotJoin(FlowRunResource, Star)),
         matchRelated |-> RelatedMatch(FlowRole, DotJoin(FlowResource, flowId)),
         forEach |-> <<IdLabel>>])

(************************ server-side matching ****************************)

PatternMatches(p, s) ==
    \/ p = s
    \/ Len(p) > 0 /\ p[Len(p)] = "*" /\ StartsWith(s, Front(p))

\* The label value of a resource record ([id] or [id, role]).
LabelOf(resource, key) ==
    CASE key = IdLabel -> resource.id
      [] key = RoleLabel /\ "role" \in DOMAIN resource -> resource.role
      [] OTHER -> Undefined

FilterMatches(filter, resource) ==
    \A key \in DOMAIN filter :
        LET want == filter[key]
            have == LabelOf(resource, key)
        IN  have # Undefined /\
            IF key = RoleLabel THEN want = have
            ELSE \E i \in DOMAIN AsArray(want) : PatternMatches(AsArray(want)[i], have)

EventMatches(trigger, event) ==
    /\ FilterMatches(trigger.match, event.resource)
    /\ DOMAIN trigger.matchRelated = {}
       \/ \E i \in DOMAIN event.related : FilterMatches(trigger.matchRelated, event.related[i])
    /\ trigger.expect = <<>>
       \/ \E i \in DOMAIN trigger.expect : PatternMatches(trigger.expect[i], event.event)

=============================================================================
