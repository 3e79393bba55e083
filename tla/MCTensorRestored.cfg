SPECIFICATION Spec
CONSTANTS
  Tensor <- Short
  None = None
  HalfSignificands = 32
  HalfMax = 124
  Infinity = 1000
INVARIANT TensorRestored
CHECK_DEADLOCK FALSE
