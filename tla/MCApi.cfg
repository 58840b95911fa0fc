CONSTANTS
    Connections <- MCProxied
    client = "home"
    MaxRequests = 2
    Window = 2
    Ids <- MCIds
    Rows <- MCRows
    AskedLimits <- MCAskedLimits
    DefaultLimit = 2
    MaxLimit = 3
SPECIFICATION Spec
INVARIANTS
    RefusedOnlyWhenFull
    WalkSeesAll
