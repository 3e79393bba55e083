SPECIFICATION FairSpec
CONSTANTS
  Client = {c1, c2}
  Node = {n1, n2}
  MaxUpdates = 3
INVARIANTS TypeOK OpenStays DoneMeansShown SeriesAligned
PROPERTIES NeverBackwards ClosedAreForgotten
CHECK_DEADLOCK FALSE
