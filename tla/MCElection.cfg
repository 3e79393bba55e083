SPECIFICATION SpecOnline
CONSTANTS
  Node = {n1, n2, n3}
  None = None
  MaxTerm = 2
SYMMETRY Symmetry
CONSTRAINTS TwoCandidates FewMessages
INVARIANTS ElectionSafety HeadExists CapacityFromFollowers AdoptedNeverCampaigns
PROPERTIES TopologyFinal VoteFinal ImplementsChoice
CHECK_DEADLOCK FALSE
