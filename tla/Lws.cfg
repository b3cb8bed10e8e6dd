SPECIFICATION RegistryFairSpec
CONSTANTS
  Capacity = 2
  Owners = {"pg", "redis", "http"}
INVARIANTS SlotsAreOwned
PROPERTIES ReadyReachesOwner WritersAreCalled
CHECK_DEADLOCK FALSE
