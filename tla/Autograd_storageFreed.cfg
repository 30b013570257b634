CONSTANTS
    Ops = {"sub"}
    Partial <- MCPartial
    ForwardOnly = {}
    ReadsOutputs = {}
    MayThrow = {}
    Garbage = {}
    MaxNodes = 3
    MaxCalls = 1
SPECIFICATION Spec
INVARIANT StorageIsFreed
CHECK_DEADLOCK FALSE
