SPECIFICATION Spec
CONSTANTS
  MaxLayers = 3
  MaxNodes = 2
  LayerMemories = {0, 1, 2}
  Capacities = {1, 2}
  Precision = 100
INVARIANT FailureMeansOutOfMemory
CHECK_DEADLOCK FALSE
