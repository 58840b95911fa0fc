CONSTANTS
    InitializeTimeout = 2
    ToolsListTimeout = 2
    TotalTimeout = 3
    MaxLines = 3
SPECIFICATION FairSpec
INVARIANTS
    NoChildLeft
    PassedMeansHandshake
    OneReader
PROPERTY VerifyEnds
CHECK_DEADLOCK FALSE
