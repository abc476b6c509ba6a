SPECIFICATION FairProbes
CONSTANTS
    Keys = {k1, k2}
    NoKey = NoKey
    MaxSizes = 2
INVARIANTS
    ProbesInv
    NewestSizeKept
PROPERTIES
    SizeArrives
    ClosedSizesForgotten
