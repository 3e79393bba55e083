SPECIFICATION Spec
CONSTANTS
  Tensor <- ShortAndLong
  None = None
  HalfSignificands = 32
  HalfMax = 124
  Infinity = 1000
INVARIANTS ShapeKept QuantisedWithinStep HalvesKept SignsKept
CHECK_DEADLOCK FALSE
