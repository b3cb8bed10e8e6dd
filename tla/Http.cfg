SPECIFICATION FairSpec
CONSTANTS
  MaxPending = 2
  MaxResponse = 1
  MaxPosts = 3
  Tokens = {"a"}
  CancelsOwn = FALSE
INVARIANTS Ownership SuccessIsComplete
PROPERTIES RefinesSet RequestsComplete
CHECK_DEADLOCK FALSE
