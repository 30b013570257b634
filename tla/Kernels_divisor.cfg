SPECIFICATION Spec
CONSTANTS
  P = 31
  Generator = 3
  MaxExtent = 3
  DeepExtent = 2
  Calls <- DivCalls
INVARIANTS DivGradientIsDerivative
CHECK_DEADLOCK FALSE
