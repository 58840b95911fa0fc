CONSTANTS
    Connections <- MCDirect
    client = "home"
    MaxRequests = 2
    Window = 2
    Ids <- MCOneId
    Rows <- MCOneRow
    AskedLimits <- MCAskedLimits
    DefaultLimit = 2
    MaxLimit = 3
SPECIFICATION Spec
INVARIANT LimitPerIP
