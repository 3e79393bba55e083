SPECIFICATION SpecOnline
CONSTANTS
  Node = {n1, n2, n3}
  None = None
  MaxTerm = 2
SYMMETRY Symmetry
CONSTRAINT TwoCandidates
INVARIANT CoordinatorIsLeader
CHECK_DEADLOCK FALSE
