\* One schema property: kind switches, edits, awaited and debounced validation.
CONSTANTS
    V1 = V1
    V2 = V2
    Bad = Bad
    W = W
    Undefined = Undefined
    NoRequest = NoRequest
    MaxInFlight = 2
    MayReject = TRUE
    MayCloneFail = FALSE
    ServerValid <- MC_ServerValid
SPECIFICATION Spec
INVARIANTS
    TypeOK
VIEW MC_View
