------------------------------- MODULE Search -------------------------------
(***************************************************************************)
(* The comparison of SearchFiles: a term from the request, escaped by      *)
(* likePatternEscaper and put between two wildcards, against a text with   *)
(* PostgreSQL's ILIKE.  A text is a sequence of characters.                *)
(***************************************************************************)
EXTENDS Naturals, Sequences, SequencesExt

CONSTANTS Letters, \* the characters that mean nothing to LIKE
          Fold     \* the case folding of a letter

Percent == "%"
Underscore == "_"
Backslash == "\\"
Special == {Percent, Underscore, Backslash}

ASSUME FoldAssumption == Letters \cap Special = {} /\ Fold \in [Letters -> Letters]

-----------------------------------------------------------------------------
FoldCase(ch) == IF ch \in Letters THEN Fold[ch] ELSE ch

(* Faulty variant: the escape character itself is passed through.          *)
EscapeWildcards(ch) == IF ch \in {Percent, Underscore} THEN <<Backslash, ch>> ELSE <<ch>>

(* The three rules of likePatternEscaper, applied in one pass.             *)
EscapeChar(ch) == IF ch \in Special THEN <<Backslash, ch>> ELSE <<ch>>

likePatternEscaper(s) == FlattenSeq([i \in DOMAIN s |-> EscapeChar(s[i])])

(* '%' || $3 || '%'                                                        *)
SubstringPattern(s) == <<Percent>> \o likePatternEscaper(s) \o <<Percent>>

(* text ILIKE pattern.  from[j]: the positions from which the text matches *)
(* the pattern from j on, T + 1 being the end of the text.  Backslash      *)
(* makes the next character of the pattern literal; a pattern that ends in *)
(* one is an error of the statement, here no match.                        *)
ILike(text, pattern) ==
  LET T == Len(text)
      P == Len(pattern)
      Same(i, j) == j <= P /\ FoldCase(text[i]) = FoldCase(pattern[j])
      from[j \in 1 .. P + 2] ==
        IF j = P + 2 THEN {}
        ELSE IF j = P + 1 THEN {T + 1}
        ELSE IF pattern[j] = Percent
             THEN {i \in 1 .. T + 1 : \E k \in from[j + 1] : i <= k}
        ELSE IF pattern[j] = Underscore
             THEN {i \in 1 .. T : i + 1 \in from[j + 1]}
        ELSE IF pattern[j] = Backslash
             THEN {i \in 1 .. T : Same(i, j + 1) /\ i + 1 \in from[j + 2]}
        ELSE {i \in 1 .. T : Same(i, j) /\ i + 1 \in from[j + 1]}
  IN 1 \in from[1]

(* One of the three substring conditions of the WHERE clause.              *)
Finds(text, term) == ILike(text, SubstringPattern(term))

-----------------------------------------------------------------------------
(* What a search is for: the term, character by character and in any case, *)
(* somewhere in the text.                                                  *)
Literally(text, term) ==
  \E k \in 0 .. Len(text) :
    /\ k + Len(term) <= Len(text)
    /\ \A i \in DOMAIN term : FoldCase(text[k + i]) = FoldCase(term[i])
=============================================================================
