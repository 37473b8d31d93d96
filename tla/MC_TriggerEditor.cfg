\* Trigger save/seed/load cycle: refinement of the trigger store, classifier exclusivity.
CONSTANTS
    Undefined = Undefined
    UnknownStatus = UnknownStatus
    NoTrigger = NoTrigger
    NoLoad = NoLoad
    Threshold = 1
    MaxTargets = 2
    States <- MC_States
    Times = {0, 30}
    Ids <- MC_Ids
    Events <- MC_Events
    FlowIds <- MC_FlowIds
    External <- MC_External
SPECIFICATION Spec
INVARIANTS
    TypeOK
    ClassifiersExclusive
    EventPrefixesAreDotWildcards
    StatesSurviveResave
    SeededFlowRunOpensAsSeeded
PROPERTY
    StoreRefined
