SPECIFICATION FairSpec
CONSTANTS
  n1 = n1
  n2 = n2
  n3 = n3
  Node = {n1, n2, n3}
  None = None
  Term = {1}
  File <- Files
  Layers = 4
INVARIANTS IInv SlicesMeet FailureStartsNobody ReadyMeansDelivered
PROPERTIES SentEndsReady
CHECK_DEADLOCK FALSE
