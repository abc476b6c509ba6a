SPECIFICATION Spec
CONSTANTS
    Roots = {r1, r2}
    Clients = {}
    Creates = {}
    Deletes = {d1}
    NoRoot = NoRoot
    Outcomes = {"ok"}
    MaxVersion = 1
SYMMETRY Symmetry
CHECK_DEADLOCK FALSE
INVARIANTS
    TaskRefreshesItsProject
