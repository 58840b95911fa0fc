CONSTANTS
    A = A
    B = B
    github = github
    registry = registry
    NoServer = NoServer
    ServerIds <- MCServerIds
    Parts <- MCParts
    Refs <- MCRefs
    Sources <- MCSources
    Candidates <- MCCandidates
    MaxPerSource = 0
    Workers = 1
    AuthLimit = 2
    LLMModels = 2
    Interval = 2
    MaxTime = 2
SPECIFICATION FairSpec
INVARIANTS
    TypeOK
    SnapshotsAreComplete
    StoredIsChecked
    FinishedRunsAddUp
    FetchesAwaited
    CircuitIsExact
    PartsFollowRows
PROPERTY CrawlEnds
CHECK_DEADLOCK FALSE
