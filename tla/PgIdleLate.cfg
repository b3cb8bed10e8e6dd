SPECIFICATION Spec
CONSTANTS
  Capacity = 2
  MaxRequests = 2
  Kinds = {"position"}
  EagerOwner = FALSE
INVARIANT IdleAfterSyncBoundary
CHECK_DEADLOCK FALSE
