SPECIFICATION EventSpec
CONSTANTS
  Workers = {w1, w2}
  MaxMessages = 2
  BatchSize = 2
  ClaimCount = 1
  ScanLimit = 1
  MaxRetries = 2
  MaxReadFailures = 2
  MaxFaults = 1
SYMMETRY WorkerSymmetry
INVARIANTS
  EventTypeOK
  AcksFollowOutcome
  NoEventForgotten
  HandledMeansEnriched
