SPECIFICATION FairSpec
CONSTANTS
    Panes = {p1, p2}
    NoPane = NoPane
    MaxEvents = 2
CHECK_DEADLOCK FALSE
INVARIANTS
    Inv
PROPERTIES
    CatchesUp
    DistrustEnds
