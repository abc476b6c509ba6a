SPECIFICATION FairSpec
CONSTANTS
    Scripts = {s1}
    Probes = {p1}
    Nobody = Nobody
    MaxClients = 2
    RunSlices = 2
    SilenceSlices = 2
CHECK_DEADLOCK FALSE
INVARIANTS
    Inv
    AtMostOnce
    NoOrphanWaiter
PROPERTIES
    TeardownEnds
