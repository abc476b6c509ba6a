SPECIFICATION Spec
CONSTANTS
    SessionIds = {s1, s2}
    Templates = {t1, t2}
    Cold = Cold
    MaxInputs = 2
SYMMETRY Symmetry
CHECK_DEADLOCK FALSE
INVARIANTS
    Inv
    InputInOrder
    PtyFollowsSession
    NoStrayShell
