----------------------------- MODULE MCStorage -----------------------------
(* Instances of Storage for TLC.                                           *)
EXTENDS Storage, TLC

CONSTANTS h1, h2

OneChunk == {<<h1>>}
(* A file of one chunk, a file that repeats it.                            *)
RepeatContents == {<<h1>>, <<h1, h1>>}
(* ... and an empty file.                                                  *)
SharingContents == {<< >>} \cup RepeatContents

(* Requests, identifiers and workers are interchangeable.                  *)
Symmetry ==
  Permutations(Uploads) \cup Permutations(ChunkIDs) \cup Permutations(Collectors)
=============================================================================
