SPECIFICATION FairSpec
CONSTANTS
  MaxPending = 2
  MaxCommands = 3
  MaxConnects = 2
INVARIANTS PendingExact OwnerIsInStep
PROPERTIES RefinesFifo CommandsComplete
CHECK_DEADLOCK FALSE
