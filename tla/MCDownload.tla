----------------------------- MODULE MCDownload -----------------------------
(* Instances of Download for TLC.                                          *)
EXTENDS Download, TLC

CONSTANTS h1, h2

(* Two chunks, in an order the identifiers do not follow.                  *)
TwoChunks == {<<h2, h1>>}

(* Requests and identifiers are interchangeable.                           *)
DownloadSymmetry == Permutations(Uploads) \cup Permutations(ChunkIDs)
=============================================================================
