-------------------------- MODULE TriggerClassifiers --------------------------
(***************************************************************************)
(* The predicates that recover a named trigger kind from a generic         *)
(* trigger.  isWorkPoolStatusTrigger and isFlowRunStateTrigger are         *)
(* automations/types/*.ts; the deployment and work-queue classifiers are   *)
(* not in the repository's source and follow spec section 4.4.             *)
(***************************************************************************)
EXTENDS StatusTriggers

isWorkPoolStatusTrigger(trigger) ==
    /\ isMatchResource(trigger, EveryStartsWith(WorkPoolResource))
    /\ isForEachResource(trigger, IdLabel)
    /\ isAfterResource(trigger, EveryIn(workPoolStatusEvent))
    /\ isExpectResource(trigger, EveryIn(workPoolStatusEvent))
    /\ trigger.threshold = Threshold

isEmptyMatchRelated(trigger) == DOMAIN trigger.matchRelated = {}

isMatchRelatedResource(trigger, resource) ==
    LET ids == getTriggerMatchValue(trigger.matchRelated, IdLabel)
    IN  ids # <<>> /\ Accepts(EveryStartsWith(resource), ids)

isFlowRunStateTrigger(trigger) ==
    /\ isMatchResource(trigger, EveryStartsWith(FlowRunResource))
    /\ isForEachResource(trigger, IdLabel)
    /\ isAfterResource(trigger, EveryStartsWith(FlowRunResource))
    /\ isExpectResource(trigger, EveryStartsWith(FlowRunResource))
    /\ \/ isEmptyMatchRelated(trigger)
       \/ isMatchRelatedResource(trigger, FlowResource)
       \/ isMatchRelatedResource(trigger, TagResource)
    /\ trigger.threshold = Threshold

isDeploymentStatusTrigger(trigger) ==
    /\ isMatchResource(trigger, EveryStartsWith(DeploymentResource))
    /\ isForEachResource(trigger, IdLabel)
    /\ isAfterResource(trigger, EveryIn(DOMAIN DeploymentStatusEventToStatus))
    /\ isExpectResource(trigger, EveryIn(DOMAIN DeploymentStatusEventToStatus))
    /\ trigger.threshold = Threshold

isWorkQueueStatusTrigger(trigger) ==
    /\ isMatchResource(trigger, EveryStartsWith(WorkQueueResource))
    /\ isForEachResource(trigger, IdLabel)
    /\ isAfterResource(trigger, EveryIn(DOMAIN WorkQueueStatusEventToStatus))
    /\ isExpectResource(trigger, EveryIn(DOMAIN WorkQueueStatusEventToStatus))
    /\ isEmptyMatchRelated(trigger) \/ isMatchRelatedResource(trigger, WorkPoolResource)
    /\ trigger.threshold = Threshold

\* The named kinds a classifier exists for.
Kinds == {"deployment", "work-pool", "work-queue", "flow-run"}

Classify(kind, trigger) ==
    CASE kind = "deployment" -> isDeploymentStatusTrigger(trigger)
      [] kind = "work-pool"  -> isWorkPoolStatusTrigger(trigger)
      [] kind = "work-queue" -> isWorkQueueStatusTrigger(trigger)
      [] kind = "flow-run"   -> isFlowRunStateTrigger(trigger)

=============================================================================
