SPECIFICATION FairSpec
CONSTANTS
    s1 = s1
    s2 = s2
    s3 = s3
    r1 = r1
    r2 = r2
    r3 = r3
    r4 = r4
    Sources <- MCSources
    Candidates <- MCCandidates
    Workers = 2
    NoRecord = NoRecord
    TornSlice = TornSlice
INVARIANTS
    TypeOK
    AtMostWorkers
    NoRecordLost
    EntitiesAreWhole
PROPERTIES
    ImplementsGather
    EverythingEnds
