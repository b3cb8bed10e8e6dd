SPECIFICATION LockoutSpec
CONSTANTS
  Setters = {s1, s2}
  Readers = {}
  Clearers = {}
  Instants <- MCInstants
  Skews <- NoSkew
  Expiries <- None
  Holidays <- MCHolidays
  Users = {}
  MaxTime = 4
  MaxSets = 2
  Ttl = 2
INVARIANTS LockoutHolds
CHECK_DEADLOCK FALSE
