CONSTANTS
    Procs = {p1, p2}
    Ids = {i1, i2}
    Slugs <- MCSlugs
    NoRow = NoRow
    free = free
    crawl = crawl
SPECIFICATION Spec
INVARIANTS
    LogAgrees
PROPERTY LogsASuffix
SYMMETRY Symmetry
