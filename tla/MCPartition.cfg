SPECIFICATION Spec
CONSTANTS
  MaxLayers = 4
  MaxNodes = 3
  LayerMemories = {0, 1, 2, 6}
  Capacities = {1, 2, 13}
  Precision = 13
INVARIANTS EveryLayerOnce WithinShare BalancedReachesTheEnd FailureExplained
CHECK_DEADLOCK FALSE
