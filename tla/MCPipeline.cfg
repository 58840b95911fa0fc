SPECIFICATION MCSpec
CONSTANTS
    Ids <- MCIds
    NoRow = NoRow
    Torn = Torn
    Records <- MCRecords
    SeedRecords <- MCSeeds
    Exporters = {w1}
    MaxRuns = 2
    ViewSeq <- MCOneView
INVARIANTS
    TypeOK
    PersistIsolatesFailures
    IndexAgrees
    StoredComplete
PROPERTIES
    ImplementsRegistry
    RunTerminates
CHECK_DEADLOCK FALSE
