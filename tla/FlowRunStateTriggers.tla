------------------------- MODULE FlowRunStateTriggers -------------------------
(***************************************************************************)
(* The flow-run state trigger mapper pair.  The form, FlowRunStateTrigger  *)
(* of automations/types/flowRunStateTrigger.ts, is {flowIds, tags,         *)
(* posture, states, time}; its mapper is not in the repository's source    *)
(* and follows spec 4.3, built from the helpers utilities.ts keeps for it: *)
(*   - match is every flow run, forEach the resource id;                   *)
(*   - matchRelated scopes by the related flows (toMatchRelatedId);        *)
(*   - Reactive: expect is the states' events (toStateNameEvents);         *)
(*   - Proactive: after is the states' events, expect any flow-run event   *)
(*     ("every state but the desired one" has no finite list), within the  *)
(*     window;                                                             *)
(*   - decoding reads the flows back with fromResourceId, the tags with    *)
(*     fromResourceName and the states with fromStateNameEvents from       *)
(*     expect (Reactive) or after (Proactive).                             *)
(* Scoping by tags is left out of the encoder: the spec names              *)
(* toMatchRelatedName for it, whose resource.name key the classifier does  *)
(* not read, so how the form writes tags cannot be settled from the code.  *)
(***************************************************************************)
EXTENDS TriggerCodec

mapFlowRunStateTriggerToAutomationTrigger(source) ==
    LET common == [match |-> [k \in {IdLabel} |-> toResourceId(FlowRunResource, <<>>)],
                   matchRelated |-> Spread(toMatchRelatedId(FlowRole, source.flowIds)),
                   forEach |-> <<IdLabel>>]
    IN  NewAutomationTriggerEvent(common @@
          IF source.posture = "Reactive"
          THEN [posture |-> "Reactive", expect |-> toStateNameEvents(source.states)]
          ELSE [posture |-> "Proactive", expect |-> toStateNameEvents(<<>>),
                after |-> toStateNameEvents(source.states), within |-> source.time])

mapAutomationTriggerToFlowRunStateTrigger(trigger) ==
    [flowIds |-> fromResourceId(FlowResource, Get(trigger.matchRelated, IdLabel)),
     tags    |-> fromResourceName(trigger.matchRelated, TagRole),
     posture |-> trigger.posture,
     states  |-> fromStateNameEvents(IF trigger.posture = "Reactive"
                                     THEN trigger.expect ELSE trigger.after),
     time    |-> trigger.within]

=============================================================================
