\* A later setKind overridden by the late answer to an earlier one.
CONSTANTS
    V1 = V1
    V2 = V2
    Bad = Bad
    W = W
    Undefined = Undefined
    NoRequest = NoRequest
    MaxInFlight = 2
    MayReject = FALSE
    MayCloneFail = FALSE
    ServerValid <- MC_ServerValid
SPECIFICATION Spec
PROPERTY LastRequestedKindWins
