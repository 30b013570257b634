CONSTANTS
    Ops = {"sub"}
    Partial <- MCPartial
    ForwardOnly = {}
    ReadsOutputs = {}
    MayThrow = {}
    Garbage = {}
    MaxNodes = 3
    MaxCalls = 2
SPECIFICATION Spec
INVARIANT StartsFromLoss
CHECK_DEADLOCK FALSE
