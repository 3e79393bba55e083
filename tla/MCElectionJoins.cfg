SPECIFICATION FairSpec
CONSTANTS
  Node = {n1, n2, n3}
  None = None
  MaxTerm = 1
INVARIANTS IInv NoCampaignBeforeBarrier HeadKnowsFollowers
PROPERTIES WinnerMeansAllJoin
CHECK_DEADLOCK FALSE
