SPECIFICATION Spec
CONSTANTS
  MaxPending = 2
  MaxCommands = 1
  MaxConnects = 2
INVARIANT ContextIsLive
CHECK_DEADLOCK FALSE
