SPECIFICATION FairEventSpec
CONSTANTS
  Workers = {w1}
  MaxMessages = 2
  BatchSize = 2
  ClaimCount = 1
  ScanLimit = 1
  MaxRetries = 2
  MaxReadFailures = 2
  MaxFaults = 2
PROPERTY
  EventsSettle
