--------------------------- MODULE MCRateLimiter ---------------------------
(* An instance of RateLimiter for TLC.                                     *)
EXTENDS RateLimiter, SequencesExt

(* No, one or two entries; no proxy, one, or two in a row.                    *)
ShortHeaders == BoundedSeq(Texts, 2)
ShortPaths == BoundedSeq(Trusted, 2)

Symmetry == Permutations(Replicas) \cup Permutations(Requests)
=============================================================================
