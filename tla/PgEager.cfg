SPECIFICATION FairSpec
CONSTANTS
  Capacity = 2
  MaxRequests = 3
  Kinds = {"position"}
  EagerOwner = TRUE
INVARIANTS IdleIsSettled
PROPERTIES RequestsComplete BecomesIdle
CHECK_DEADLOCK FALSE
