SPECIFICATION FairSpec
CONSTANTS
    Roots = {r1}
    Clients = {c1}
    Creates = {w1}
    Deletes = {d1}
    NoRoot = NoRoot
    Outcomes = {"ok", "failed", "panicked"}
    MaxVersion = 1
CHECK_DEADLOCK FALSE
PROPERTIES
    CallsAnswered
    ActivityEnds
