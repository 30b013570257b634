CONSTANTS
    Ops = {"mul"}
    Partial <- MCPartial
    Addresses = {a1, a2, a3}
    NoFn = NoFn
    Programs <- MCPrograms
SYMMETRY Symmetry
SPECIFICATION Spec
INVARIANTS TypeOK EdgesFaithful UnnestedRecords
PROPERTIES LeafGradsComplete EagerGraphsIsolated GradTransformRight
CHECK_DEADLOCK FALSE
