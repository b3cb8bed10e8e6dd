SPECIFICATION MatrixSpec
CONSTANTS
  TRIALS = 3
INVARIANTS PublishedIsDecided
CHECK_DEADLOCK FALSE
