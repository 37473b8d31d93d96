--------------------------- MODULE MC_TriggerEditor ---------------------------
(***************************************************************************)
(* Model-checking instance of TriggerEditor: two entity ids, lists of up   *)
(* to two targets (so order and multi-target encodings occur), one         *)
(* realistic event of each role the event mapper branches on, two flows,   *)
(* and a family of externally authored triggers varying every field the    *)
(* classifiers inspect.                                                    *)
(***************************************************************************)
EXTENDS TriggerEditor

IdA == <<"a">>
IdB == <<"b">>
MC_Ids == {IdA, IdB}

\* A flow run completed; its related resources are its flow and a tag.
FlowRunEvent ==
    [event |-> DotJoin(FlowRunResource, <<"Completed">>),
     resource |-> [id |-> DotJoin(FlowRunResource, IdA)],
     related |-> << [id |-> DotJoin(FlowResource, IdB), role |-> FlowRole],
                    [id |-> DotJoin(TagResource, <<"prod">>), role |-> Role("tag")] >>]

\* A work queue became ready; its related resource is its work pool.
WorkQueueEvent ==
    [event |-> StatusEvent(WorkQueueResource, "ready"),
     resource |-> [id |-> DotJoin(WorkQueueResource, IdA)],
     related |-> << [id |-> DotJoin(WorkPoolResource, IdB), role |-> Role("work-pool")] >>]

WorkPoolEvent ==
    [event |-> StatusEvent(WorkPoolResource, "not-ready"),
     resource |-> [id |-> DotJoin(WorkPoolResource, IdA)],
     related |-> <<>>]

DeploymentEvent ==
    [event |-> StatusEvent(DeploymentResource, "ready"),
     resource |-> [id |-> DotJoin(DeploymentResource, IdA)],
     related |-> << [id |-> DotJoin(FlowResource, IdB), role |-> FlowRole] >>]

MC_Events == {FlowRunEvent, WorkQueueEvent, WorkPoolEvent, DeploymentEvent}

MC_FlowIds == {IdA}

MC_States == {<<"Completed">>, <<"Failed">>}

ExternalMatches ==
    { EmptyObject,
      MatchOf(DotJoin(WorkPoolResource, IdA)),
      MatchOf(DotJoin(WorkQueueResource, Star)),
      MatchOf(DotJoin(DeploymentResource, IdA)),
      MatchOf(DotJoin(FlowRunResource, Star)),
      [k \in {IdLabel} |-> List(<<DotJoin(WorkPoolResource, IdA), DotJoin(FlowRunResource, IdA)>>)] }

ExternalEventLists ==
    { <<>>,
      <<StatusEvent(WorkPoolResource, "not_ready")>>,
      <<StatusEvent(WorkPoolResource, "ready"), StatusEvent(WorkPoolResource, "paused")>>,
      <<StatusEvent(DeploymentResource, "disabled")>>,
      <<StatusEvent(WorkQueueResource, "paused")>>,
      <<DotJoin(FlowRunResource, <<"Failed">>)>> }

(***************************************************************************)
(* Flow-run triggers written by another client: expecting the bare         *)
(* 'synotask.flow-run' event or a state, scoped by a related flow run, by  *)
(* a tag's resource id or by a tag's name.                                 *)
(***************************************************************************)
ExternalFlowRun ==
    { NewAutomationTriggerEvent(
        [match |-> MatchOf(DotJoin(FlowRunResource, Star)), forEach |-> <<IdLabel>>,
         matchRelated |-> r, expect |-> e]) :
      e \in {<<FlowRunResource>>, <<DotJoin(FlowRunResource, <<"Failed">>)>>},
      r \in {[k \in {RoleLabel, IdLabel} |->
                IF k = RoleLabel THEN FlowRole ELSE Scalar(DotJoin(FlowRunResource, IdA))],
             [k \in {RoleLabel, IdLabel} |->
                IF k = RoleLabel THEN TagRole ELSE Scalar(DotJoin(TagResource, <<"prod">>))],
             [k \in {RoleLabel, NameLabel} |->
                IF k = RoleLabel THEN TagRole ELSE List(<<<<"prod">>>>)]} }

MC_External ==
    { NewAutomationTriggerEvent(
        [posture |-> p, match |-> m, forEach |-> f, expect |-> e, after |-> a,
         within |-> 30, threshold |-> th]) :
      p \in Postures, m \in ExternalMatches, f \in {<<>>, <<IdLabel>>},
      e \in ExternalEventLists, a \in {<<>>, <<StatusEvent(WorkPoolResource, "ready")>>},
      th \in {1, 2} }
    \cup ExternalFlowRun

\* The external triggers whose targets are work pools.
MC_WorkPoolExternal ==
    {t \in MC_External : getTriggerMatchValue(t.match, IdLabel) = <<DotJoin(WorkPoolResource, IdA)>>}

=============================================================================
