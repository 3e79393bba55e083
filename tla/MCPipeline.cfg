SPECIFICATION FairSpec
CONSTANTS
  Depth = 3
  NMicro = 2
  AccumSteps <- FilesAgree
  Rows <- EvenThenShort
  Bare = {0, 1, 2}
  MaxFailures = 1
INVARIANTS IInv SameWeights NoStageAhead NeverStuck
PROPERTIES WholeBatchSteps ImplementsSynchronous HeadStepsOnWholeBatch BatchEnds
CHECK_DEADLOCK FALSE
