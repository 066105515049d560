---------------------------- MODULE MCDirectory ----------------------------
(* An instance of Directory for TLC.                                       *)
EXTENDS Directory

Lower == [ch \in {"a", "b", "B"} |-> IF ch = "B" THEN "b" ELSE ch]

(* A name with a wildcard in it, and terms: nothing, wildcards with a      *)
(* backslash before and after them, a letter of a tag.                     *)
OneName == {<<"\\", "_">>}
FewQueries == {<< >>, <<"\\", "_">>, <<"%", "\\">>, <<"b">>}
OneEmbedding == {[texts |-> {<<"B", "a">>}, tags |-> {<<"b">>}]}

(* Users are interchangeable; identifiers are handed out in an order of   *)
(* their own.                                                              *)
Symmetry == Permutations(Users)
=============================================================================
