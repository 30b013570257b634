CONSTANTS
    Ops = {"mul"}
    Partial <- MCPartial
    BuiltIn = {"mul"}
    Kernels = {"user", "forward only"}
    ForwardOnly = {"forward only"}
    MayThrow = {"user"}
    MaxTensors = 4
    MaxFunctions = 2
    MaxScopes = 2
SPECIFICATION Spec
INVARIANTS TypeOK ReplayIsForward ReplayReturns ScopeRecords
CONSTRAINT Bounded
CHECK_DEADLOCK FALSE
