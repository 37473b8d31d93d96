---------------------------- MODULE StatusTriggers ----------------------------
(***************************************************************************)
(* The status <-> event vocabularies and the status-trigger mappers of     *)
(* automations/maps/{deploymentStatusTrigger,workPoolStatusTrigger,        *)
(* workQueueStatusTrigger}.ts.  A decoder that throws `Unknown ... status  *)
(* events` returns the model value UnknownStatus.                          *)
(***************************************************************************)
EXTENDS TriggerCodec

CONSTANT UnknownStatus

DeploymentStatuses == {"ready", "not_ready", "disabled"}
WorkPoolStatuses   == <<"ready", "not_ready", "paused">>   \* workPoolStatus
WorkQueueStatuses  == <<"ready", "not_ready", "paused">>   \* workPoolQueueStatus

StatusEvent(resource, token) == DotJoin(resource, <<token>>)

\* The first recognised event of the list decides; none throws.
FirstStatus(events, Table) ==
    LET i == SelectInSeq(events, LAMBDA e : e \in DOMAIN Table)
    IN  IF i = 0 THEN UnknownStatus ELSE Table[events[i]]

(*************************** deployment status ***************************)

mapDeploymentStatusToEvent(status) ==
    StatusEvent(DeploymentResource,
        CASE status = "ready"     -> "ready"
          [] status = "not_ready" -> "not-ready"
          [] status = "disabled"  -> "disabled")

DeploymentStatusEventToStatus ==
    [e \in {mapDeploymentStatusToEvent(s) : s \in DeploymentStatuses} |->
        CHOOSE s \in DeploymentStatuses : mapDeploymentStatusToEvent(s) = e]

oppositeStatus(status) == IF status = "ready" THEN "not_ready" ELSE "ready"

mapDeploymentStatusTriggerToAutomationTrigger(source) ==
    LET match == [k \in {IdLabel} |-> toResourceId(DeploymentResource, source.deployments)]
    IN  IF source.posture = "Reactive"
        THEN NewAutomationTriggerEvent(
               [posture |-> "Reactive", match |-> match, forEach |-> <<IdLabel>>,
                expect |-> <<mapDeploymentStatusToEvent(source.status)>>])
        ELSE NewAutomationTriggerEvent(
               [posture |-> "Proactive", match |-> match, forEach |-> <<IdLabel>>,
                expect |-> <<mapDeploymentStatusToEvent(oppositeStatus(source.status))>>,
                after |-> <<mapDeploymentStatusToEvent(source.status)>>,
                within |-> source.time])

\* Mutant: the Proactive branch decodes the status from expect, as the
\* Reactive one does.
mapAutomationTriggerToDeploymentStatusTrigger_fromExpect(trigger) ==
    [deployments |-> fromResourceId(DeploymentResource, Get(trigger.match, IdLabel)),
     posture |-> trigger.posture,
     status |-> FirstStatus(trigger.expect, DeploymentStatusEventToStatus),
     time |-> trigger.within]

mapAutomationTriggerToDeploymentStatusTrigger(trigger) ==
    [deployments |-> fromResourceId(DeploymentResource, Get(trigger.match, IdLabel)),
     posture |-> trigger.posture,
     status |-> FirstStatus(IF trigger.posture = "Reactive" THEN trigger.expect
                                                           ELSE trigger.after,
                            DeploymentStatusEventToStatus),
     time |-> trigger.within]

(**************************** work-pool status ****************************)

mapWorkPoolStatusToEvent(status) ==
    CASE status = "ready"     -> <<StatusEvent(WorkPoolResource, "ready")>>
      [] status = "not_ready" -> <<StatusEvent(WorkPoolResource, "not-ready"),
                                   StatusEvent(WorkPoolResource, "not_ready")>>
      [] status = "paused"    -> <<StatusEvent(WorkPoolResource, "paused")>>

\* Both the current and the legacy not_ready event decode to not_ready.
WorkPoolStatusEventToStatus ==
    [e \in {StatusEvent(WorkPoolResource, t) : t \in {"ready", "not-ready", "not_ready", "paused"}} |->
        CHOOSE s \in ToSet(WorkPoolStatuses) : Contains(mapWorkPoolStatusToEvent(s), e)]

workPoolStatusEvent == DOMAIN WorkPoolStatusEventToStatus   \* with isWorkPoolStatusEvent

anyWorkPoolStatusExcept(status) == SelectSeq(WorkPoolStatuses, LAMBDA s : s # status)

mapWorkPoolStatusTriggerToAutomationTrigger(source) ==
    LET match == [k \in {IdLabel} |-> toResourceId(WorkPoolResource, source.workPools)]
    IN  IF source.posture = "Reactive"
        THEN NewAutomationTriggerEvent(
               [posture |-> "Reactive", match |-> match, forEach |-> <<IdLabel>>,
                expect |-> mapWorkPoolStatusToEvent(source.status)])
        ELSE NewAutomationTriggerEvent(
               [posture |-> "Proactive", match |-> match, forEach |-> <<IdLabel>>,
                expect |-> FlatMapSeq(anyWorkPoolStatusExcept(source.status),
                                      mapWorkPoolStatusToEvent),
                after |-> mapWorkPoolStatusToEvent(source.status),
                within |-> source.time])

mapAutomationTriggerToWorkPoolStatusTrigger(trigger) ==
    [workPools |-> fromResourceId(WorkPoolResource, Get(trigger.match, IdLabel)),
     posture |-> trigger.posture,
     status |-> FirstStatus(IF trigger.posture = "Reactive" THEN trigger.expect
                                                           ELSE trigger.after,
                            WorkPoolStatusEventToStatus),
     time |-> trigger.within]

(*************************** work-queue status ****************************)

mapWorkQueueStatusToEvent(status) ==
    StatusEvent(WorkQueueResource, IF status = "not_ready" THEN "not-ready" ELSE status)

WorkQueueStatusEventToStatus ==
    [e \in {mapWorkQueueStatusToEvent(s) : s \in ToSet(WorkQueueStatuses)} |->
        CHOOSE s \in ToSet(WorkQueueStatuses) : mapWorkQueueStatusToEvent(s) = e]

anyWorkQueueStatusExcept(status) == SelectSeq(WorkQueueStatuses, LAMBDA s : s # status)

mapWorkQueueStatusTriggerToAutomationTrigger(source) ==
    LET match == [k \in {IdLabel} |-> toResourceId(WorkQueueResource, source.workQueues)]
        related == Spread(toMatchRelatedId(<<"work-pool">>, source.workPools))
    IN  IF source.posture = "Reactive"
        THEN NewAutomationTriggerEvent(
               [posture |-> "Reactive", match |-> match, matchRelated |-> related,
                forEach |-> <<IdLabel>>,
                expect |-> <<mapWorkQueueStatusToEvent(source.status)>>])
        ELSE NewAutomationTriggerEvent(
               [posture |-> "Proactive", match |-> match, matchRelated |-> related,
                forEach |-> <<IdLabel>>,
                expect |-> MapSeq(anyWorkQueueStatusExcept(source.status),
                                  mapWorkQueueStatusToEvent),
                after |-> <<mapWorkQueueStatusToEvent(source.status)>>,
                within |-> source.time])

\* statusFromAutomationTriggerEvent reads expect or after by posture.
mapAutomationTriggerToWorkQueueStatusTrigger(trigger) ==
    [workPools |-> fromResourceId(WorkPoolResource, Get(trigger.matchRelated, IdLabel)),
     workQueues |-> fromResourceId(WorkQueueResource, Get(trigger.match, IdLabel)),
     status |-> FirstStatus(IF trigger.posture = "Reactive" THEN trigger.expect
                                                           ELSE trigger.after,
                            WorkQueueStatusEventToStatus),
     posture |-> trigger.posture,
     time |-> trigger.within]

=============================================================================
