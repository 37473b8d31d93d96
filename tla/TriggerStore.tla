------------------------------ MODULE TriggerStore ------------------------------
(***************************************************************************)
(* What the automation pages promise of the one trigger they persist, with *)
(* the generic encoding left out (spec sections 2 and 4).  A trigger       *)
(* written from a named-trigger form is opened again as that form: the     *)
(* same kind and the same meaning.  A trigger seeded from an event or a    *)
(* flow, or written by another client, is opened as one of the kinds it    *)
(* allows: a seeded flow-run trigger only as a flow-run state trigger.     *)
(***************************************************************************)
CONSTANTS
    Forms,        \* named triggers as [kind, named]
    ViewKinds,    \* the editors a trigger can be opened in
    NoTrigger, NoLoad

VARIABLES
    trigger,      \* NoTrigger, a form, or [opensAs : SUBSET ViewKinds]
    shown         \* NoLoad, or what the edit page shows

Seeded == [opensAs : SUBSET ViewKinds]

Init ==
    /\ trigger = NoTrigger
    /\ shown = NoLoad

\* A form is saved.
WriteForm ==
    /\ trigger' \in Forms
    /\ shown' = NoLoad

\* A trigger not written by a form: seeded, or written by another client.
WriteSeeded ==
    /\ trigger' \in Seeded
    /\ shown' = NoLoad

\* The edit page is opened.
OpenForm ==
    /\ trigger \in Forms
    /\ shown' = trigger
    /\ UNCHANGED trigger

OpenSeeded ==
    /\ trigger \in Seeded
    /\ \E k \in trigger.opensAs : shown' = [kind |-> k]
    /\ UNCHANGED trigger

Next ==
    \/ WriteForm
    \/ WriteSeeded
    \/ OpenForm
    \/ OpenSeeded

Spec == Init /\ [][Next]_<<trigger, shown>>

=============================================================================
