SPECIFICATION DownloadSpec
CONSTANTS
  Uploads = {u1}
  Collectors = {g1}
  Hashes = {h1, h2}
  ChunkIDs = {c1, c2}
  h1 = h1
  h2 = h2
  Contents <- TwoChunks
  NoChunk = NoChunk
  NoHash = NoHash
  NoFile = NoFile
  MaxAttempts = 3
  MaxCollectorFaults = 0
  SlowUploads = FALSE
  Readers = {r1}
INVARIANT
  CompletedDownloadIsWhole
