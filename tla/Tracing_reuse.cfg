CONSTANTS
    Ops = {"mul"}
    Partial <- MCPartial
    Addresses = {a1}
    NoFn = NoFn
    Programs <- MCReuse
SYMMETRY Symmetry
SPECIFICATION Spec
PROPERTY LeafGradsComplete
CHECK_DEADLOCK FALSE
