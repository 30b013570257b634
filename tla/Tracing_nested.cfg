CONSTANTS
    Ops = {"mul"}
    Partial <- MCPartial
    Addresses = {a1, a2}
    NoFn = NoFn
    Programs <- MCNested
SYMMETRY Symmetry
SPECIFICATION Spec
INVARIANT EnteredRecords
CHECK_DEADLOCK FALSE
