CONSTANTS
    Ops = {"sub", "softmax", "user", "argmax"}
    Partial <- MCPartial
    ForwardOnly = {"argmax"}
    ReadsOutputs = {"softmax"}
    MayThrow = {"user"}
    Garbage = {}
    MaxNodes = 4
    MaxCalls = 2
SPECIFICATION Spec
INVARIANTS TypeOK OrderIsTopological RefcountsAreRemainingUses KernelReadsLiveCaches
PROPERTIES GradFinal LeavesHoldDerivatives
CONSTRAINT Bounded
CHECK_DEADLOCK FALSE
