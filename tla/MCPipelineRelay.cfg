SPECIFICATION Spec
CONSTANTS
  Depth = 3
  NMicro = 2
  AccumSteps <- FilesAgree
  Rows <- OneBatch
  Bare = {1}
  MaxFailures = 0
INVARIANTS BareStageRelays
CHECK_DEADLOCK FALSE
