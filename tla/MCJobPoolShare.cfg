SPECIFICATION CallerSpec
CONSTANTS
    Jobs = {j1, j2, j3}
    Workers = {w1, w2}
    NoJob = NoJob
    Kept = {j1, j2, j3}
    MaxChildren = 0
CHECK_DEADLOCK FALSE
INVARIANTS
    SlotAccounting
    NoLostWakeup
PROPERTIES
    NotShutOut
