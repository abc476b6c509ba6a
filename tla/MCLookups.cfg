SPECIFICATION FairSpec
CONSTANTS
    Paths = {p1, p2}
    Panel = p1
    Branches = {x, y}
    NoBranch = NoBranch
    Unread = Unread
    NoPr = NoPr
    Concurrency = 1
    MaxEvents = 2
    MaxRefreshes = 1
CHECK_DEADLOCK FALSE
INVARIANTS
    Inv
    IdleFrameSleeps
PROPERTIES
    RefreshEnds
    RefreshReaches
    BaseCatchesUp
