SPECIFICATION FairSpec
CONSTANTS
  Uploads = {u1, u2}
  Collectors = {g1}
  Hashes = {h1, h2}
  ChunkIDs = {c1, c2}
  h1 = h1
  h2 = h2
  Contents <- RepeatContents
  NoChunk = NoChunk
  NoHash = NoHash
  MaxAttempts = 3
  MaxCollectorFaults = 1
  SlowUploads = FALSE
PROPERTIES
  UploadsFinish
  AbandonedRowsSwept
  OrphansCollected
