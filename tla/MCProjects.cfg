SPECIFICATION Spec
CONSTANTS
    Roots = {r1, r2}
    Clients = {c1}
    Creates = {}
    Deletes = {}
    NoRoot = NoRoot
    Outcomes = {"ok", "failed"}
    MaxVersion = 2
SYMMETRY Symmetry
CHECK_DEADLOCK FALSE
INVARIANTS
    Inv
    AnsweredFromScan
PROPERTIES
    RowsNeverGoBack
