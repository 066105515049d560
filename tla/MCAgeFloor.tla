----------------------------- MODULE MCAgeFloor -----------------------------
(* An instance of AgeFloor for TLC.                                        *)
EXTENDS AgeFloor

CONSTANT h1

OneChunk == {<<h1>>}
=============================================================================
