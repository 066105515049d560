SPECIFICATION Spec
CONSTANTS
  Uploads = {u1, u2}
  Collectors = {g1, g2}
  Hashes = {h1}
  ChunkIDs = {c1, c2}
  h1 = h1
  h2 = h2
  Contents <- SharingContents
  NoChunk = NoChunk
  NoHash = NoHash
  MaxAttempts = 3
  MaxCollectorFaults = 1
  SlowUploads = TRUE
SYMMETRY Symmetry
INVARIANTS
  TypeOK
  LossOnlyThroughKnownWindows
  ListsMatchProgress
  EventsNameCompleteFiles
  Handshake
  RetryConverges
  AcknowledgedUploadsSurvive
PROPERTIES
  ImplementsCatalog
