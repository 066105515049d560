SPECIFICATION EventSpec
CONSTANTS
  Workers = {w1}
  MaxMessages = 1
  BatchSize = 1
  ClaimCount = 1
  ScanLimit = 1
  MaxRetries = 3
  MaxReadFailures = 2
  MaxFaults = 1
INVARIANT
  EveryFailureIsDeadLettered
