SPECIFICATION Spec
CONSTANTS
  Uploads = {u1, u2}
  Collectors = {g1}
  Hashes = {h1, h2}
  ChunkIDs = {c1}
  h1 = h1
  h2 = h2
  Contents <- OneChunk
  NoChunk = NoChunk
  NoHash = NoHash
  MaxAttempts = 3
  MaxCollectorFaults = 0
  SlowUploads = FALSE
INVARIANT
  LockedOnlyWhileUnreferenced
