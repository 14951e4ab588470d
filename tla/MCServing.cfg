SPECIFICATION Front
CONSTANTS
  Requests = {r1, r2}
  Limits = {0, 1}
  Quota = 2
  Bytes <- MCBytes
  Months = 2
  Stored = {"orig"}
  Changes = {"rejected"}
  None = none
  MaxRequests = 3
  MaxEvents = 1
  Callers = {c1}
  Lengths <- MCLengths
  FixedLimit = 1
  MaxLimit = 2
  Threshold = 2
  MaxTicks = 4
  MaxTurns = 1
  MaxPassed = 5
  Keys = {"a", "b", "c", "d"}
  SizeOf <- MCSizeOf
  MaxBytes = 3
  MaxFileBytes = 4
  Clients = {r1, r2}
  Nobody = nobody
  MaxServed = 5
  MaxFaults = 1
SYMMETRY Symmetry
CHECK_DEADLOCK FALSE
INVARIANTS FrontTypeOK ViewsNeverOversold BandwidthHolds StrayThumbsWereRaced LimitsHold CacheHolds
