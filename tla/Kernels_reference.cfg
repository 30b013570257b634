SPECIFICATION Spec
CONSTANTS
  P = 31
  Generator = 3
  MaxExtent = 3
  DeepExtent = 2
  Calls <- MCCalls
INVARIANTS TypeOK ForwardIsRight GradientsAreDerivatives
CHECK_DEADLOCK FALSE
