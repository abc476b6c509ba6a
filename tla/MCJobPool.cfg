SPECIFICATION FairSpec
CONSTANTS
    Jobs = {j1}
    Workers = {w1, w2}
    NoJob = NoJob
    Kept = {}
    MaxChildren = 2
CHECK_DEADLOCK FALSE
INVARIANTS
    TypeOK
    CancelReachesChild
    NoOrphanChild
    OwnerTold
PROPERTIES
    KillReadsAsCancelled
    ImplementsPromise
    CancelStopsChild
    ResultSeen
