SPECIFICATION AgeSpec
CONSTANTS
  Uploads = {u1}
  Collectors = {g1}
  Hashes = {h1}
  ChunkIDs = {c1}
  h1 = h1
  Contents <- OneChunk
  NoChunk = NoChunk
  NoHash = NoHash
  MaxAttempts = 3
  MaxCollectorFaults = 0
  SlowUploads = FALSE
PROPERTY
  CollectsOnlyRested
