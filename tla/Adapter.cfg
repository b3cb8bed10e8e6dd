SPECIFICATION BenchSpec
CONSTANTS
  Capacity = 1
  MaxRequests = 4
  Total = 3
  Kinds = {"position", "exposure"}
  EagerOwner = FALSE
  Concurrency = 3
  Repeat = 4
  TRIALS = 3
INVARIANTS EachReplyMeasuresItsOperation WatchFollowsClient TrialIsTrue PublishedIsFair
PROPERTIES HangsOnlyInServices
CHECK_DEADLOCK FALSE
