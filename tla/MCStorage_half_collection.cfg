SPECIFICATION Spec
CONSTANTS
  Uploads = {u1}
  Collectors = {g1}
  Hashes = {h1, h2}
  ChunkIDs = {c1}
  h1 = h1
  h2 = h2
  Contents <- OneChunk
  NoChunk = NoChunk
  NoHash = NoHash
  MaxAttempts = 3
  MaxCollectorFaults = 1
  SlowUploads = FALSE
INVARIANT
  RolledBackRowsKeepObjects
