--------------------------- MODULE MCEventStream ---------------------------
(* Instances of EventStream for TLC.                                       *)
EXTENDS EventStream, TLC

(* Workers are interchangeable; messages are numbered and are not.         *)
WorkerSymmetry == Permutations(Workers)
=============================================================================
