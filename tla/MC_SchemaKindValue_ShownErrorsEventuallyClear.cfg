\* Errors shown for a value the server accepts are eventually cleared (one request in flight, so answers are never reordered).
CONSTANTS
    V1 = V1
    V2 = V2
    Bad = Bad
    W = W
    Undefined = Undefined
    NoRequest = NoRequest
    MaxInFlight = 1
    MayReject = TRUE
    MayCloneFail = TRUE
    ServerValid <- MC_ServerValid
SPECIFICATION FairSpec
PROPERTY ShownErrorsEventuallyClear
VIEW MC_View
