SPECIFICATION Spec
CONSTANTS
    Ids <- MCIds
    NoRow = NoRow
    Torn = Torn
    Records <- MCPair
    SeedRecords <- MCNone
    Exporters = {}
    MaxRuns = 2
    ViewSeq <- MCOneView
PROPERTIES
    VerifyKeepsVerification
CHECK_DEADLOCK FALSE
