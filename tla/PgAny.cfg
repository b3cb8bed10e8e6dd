SPECIFICATION Spec
CONSTANTS
  Capacity = 2
  MaxRequests = 3
  Kinds = {"position", "exposure"}
  EagerOwner = FALSE
INVARIANTS FifoAligned FailedHasNoEffect NoSpin FailsOnlyWhenLost PgInv
PROPERTIES RefinesFifo
CHECK_DEADLOCK FALSE
