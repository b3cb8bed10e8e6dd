SPECIFICATION Spec
CONSTANTS
  FirstYear = 1890
  LastYear = 2110
  HolidayYears = {1969, 1970}
  Window = 4
  MaxLength = 3
  Candidates <- MCCandidates
  Inputs <- MCInputs
  Positions <- MCPositions
  Capital = 6
  Prices = {0, 2, 3}
  Gaps <- MCGaps
  Bars = 4
  Scale = 10
  CommissionRate = 3
  TaxRate = 2
  SlippageRate = 2
  Ulp = 1
  MaxItems = 2
  Trials = 2
  Setters = {s1}
  Readers = {r1}
  Clearers = {s1}
  Instants <- MCInstants
  Skews <- MCSkews
  Expiries <- MCExpiries
  Holidays <- MCHolidays
  Users = {u1, u2}
  MaxTime = 4
  MaxSets = 2
  Ttl = 2
INVARIANTS CalendarIsRight ExpiryIsNextSession LockoutHolds SelectionIsFair GatesPickTheWeakest MarketDataIsKept RunnersReproduceRecords BooksBalance MetricsTellTheTrades RunnerOwnsItsBlocks
PROPERTIES ReadsAreLive
CHECK_DEADLOCK FALSE
