CONSTANTS
    P = 11
    Generator = 2
    Params = {"w", "b"}
    NoTensor = NoTensor
    Programs <- MCPrograms
    Uses <- MCUses
    Start = 7
    Rates = {3, 5}
    RateOne = 3
    Momentum = 4
    WeightDecay = 2
    Beta1 = 2
    Beta2 = 6
    Eps = 5
    Root <- MCRoot
    Printed <- MCPrinted
    Gradients <- MCGradients
    Loaded = {2}
    MaxSteps = 3
    MaxEvents = 3
SPECIFICATION Spec
INVARIANTS TypeOK StepsUseOneLoss WeightsFollowGradients
PROPERTIES FrozenDoNotMove
CONSTRAINT Bounded
CHECK_DEADLOCK FALSE
