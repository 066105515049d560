---------------------------- MODULE SearchProofs ----------------------------
(***************************************************************************)
(* A search term has no wildcards and no escapes, whatever its length and  *)
(* the length of the text.  The escaper and ILIKE are recursive functions; *)
(* that they exist and what they compute is shown by induction over sets   *)
(* of numbers, from the well-foundedness of < on Nat.                      *)
(***************************************************************************)
EXTENDS Search, TLAPS, WellFoundedInduction, SequenceTheorems

Chars == Special \cup Letters

-----------------------------------------------------------------------------
(* A set of numbers that is not empty has a least one.                     *)
LEMMA LeastNumber ==
  ASSUME NEW T \in SUBSET Nat, T # {}
  PROVE  \E x \in T : \A y \in T : x <= y
<1> DEFINE R == OpToRel(<, Nat)
<1>1. IsWellFoundedOn(R, Nat)
  BY NatLessThanWellFounded
<1>2. \A x, y \in Nat : <<y, x>> \in R <=> y < x
  BY DEF OpToRel
<1> HIDE DEF R
<1>3. PICK x \in T : \A y \in T : ~(<<y, x>> \in R)
  BY <1>1, WFMin
<1>4. \A y \in T : ~(y < x)
  BY <1>2, <1>3
<1>5. QED
  BY <1>4

(* Induction, with a set in place of a formula.                            *)
LEMMA Induction ==
  ASSUME NEW S, 0 \in S, \A n \in Nat : n \in S => n + 1 \in S
  PROVE  \A n \in Nat : n \in S
<1> DEFINE T == {n \in Nat : n \notin S}
<1>1. CASE T # {}
  <2>1. PICK x \in T : \A y \in T : x <= y
    BY <1>1, LeastNumber
  <2>2. x # 0 /\ x \in Nat /\ x - 1 \in Nat
    OBVIOUS
  <2>3. x - 1 \in S
    BY <2>1, <2>2
  <2>4. (x - 1) + 1 = x
    BY <2>2
  <2>5. QED
    BY <2>2, <2>3, <2>4
<1>2. QED
  BY <1>1

-----------------------------------------------------------------------------
(* The escaper.                                                            *)
(* FlattenSeq's recursive function exists: extend a table of its first n   *)
(* values by one.                                                          *)
LEMMA FlattenTable ==
  ASSUME NEW seqs, Len(seqs) \in Nat, Len(seqs) # 0
  PROVE  \E f : /\ f = [i \in 1 .. Len(seqs) |-> IF i = 1 THEN seqs[i] ELSE f[i - 1] \o seqs[i]]
                /\ FlattenSeq(seqs) = f[Len(seqs)]
<1> DEFINE Table(n, f) == f = [i \in 1 .. n |-> IF i = 1 THEN seqs[i] ELSE f[i - 1] \o seqs[i]]
           S == {n \in Nat : \E f : Table(n, f)}
<1>1. 0 \in S
  <2>1. Table(0, << >>)
    OBVIOUS
  <2>2. QED
    BY <2>1
<1>2. ASSUME NEW n \in Nat, n \in S PROVE n + 1 \in S
  <2>1. PICK f : Table(n, f)
    BY <1>2
  <2> DEFINE g == [i \in 1 .. n + 1 |-> IF i = n + 1
                                        THEN IF i = 1 THEN seqs[i] ELSE f[i - 1] \o seqs[i]
                                        ELSE f[i]]
  <2>2. ASSUME NEW i \in 1 .. n + 1
        PROVE  g[i] = IF i = 1 THEN seqs[i] ELSE g[i - 1] \o seqs[i]
    <3>1. CASE i = n + 1
      BY <3>1
    <3>2. CASE i # n + 1
      <4>1. i \in 1 .. n
        BY <3>2
      <4>2. f[i] = IF i = 1 THEN seqs[i] ELSE f[i - 1] \o seqs[i]
        BY <2>1, <4>1
      <4>3. i # 1 => i - 1 \in 1 .. n /\ g[i - 1] = f[i - 1]
        BY <4>1
      <4>4. QED
        BY <3>2, <4>1, <4>2, <4>3
    <3>3. QED
      BY <3>1, <3>2
  <2>3. Table(n + 1, g)
    BY <2>2
  <2>4. \E f1 : Table(n + 1, f1)
    BY <2>3, Zenon
  <2>5. n + 1 \in Nat
    OBVIOUS
  <2> HIDE DEF Table
  <2>6. QED
    BY <2>4, <2>5, Zenon
<1>3. \A n \in Nat : n \in S
  <2> HIDE DEF S
  <2>1. QED
    BY <1>1, <1>2, Induction
<1>4. \E f : Table(Len(seqs), f)
  BY <1>3
<1> DEFINE flatten == CHOOSE f : Table(Len(seqs), f)
<1>5. Table(Len(seqs), flatten)
  BY <1>4, Zenon
<1>6. FlattenSeq(seqs) = flatten[Len(seqs)]
  BY Zenon DEF FlattenSeq
<1>7. QED
  BY <1>5, <1>6, Zenon

(* What a concatenation is made of.                                        *)
LEMMA ConcatParts ==
  ASSUME NEW C, NEW a \in Seq(C), NEW b \in Seq(C)
  PROVE  /\ a \o b \in Seq(C)
         /\ Len(a) \in Nat /\ Len(b) \in Nat
         /\ Len(a \o b) = Len(a) + Len(b)
         /\ \A i \in 1 .. Len(a) : (a \o b)[i] = a[i]
         /\ \A m \in 1 .. Len(b) : (a \o b)[Len(a) + m] = b[m]
<1>1. Len(a) \in Nat /\ Len(b) \in Nat
  OBVIOUS
<1>2. a \o b \in Seq(C) /\ Len(a \o b) = Len(a) + Len(b)
  OBVIOUS
<1>3. ASSUME NEW i \in 1 .. Len(a) PROVE (a \o b)[i] = a[i]
  BY <1>1
<1>4. ASSUME NEW m \in 1 .. Len(b) PROVE (a \o b)[Len(a) + m] = b[m]
  <2>1. Len(a) + m \in 1 .. Len(a) + Len(b) /\ Len(a) + m > Len(a) /\ (Len(a) + m) - Len(a) = m
    BY <1>1
  <2>2. QED
    BY <1>1, <2>1
<1>5. QED
  BY <1>1, <1>2, <1>3, <1>4

(* Where the first n parts q of a concatenation E lie: off[k] is the       *)
(* length of the first k.                                                  *)
PartLies(q, off, E, k) ==
  /\ off[k] \in Nat /\ off[k - 1] \in Nat
  /\ off[k] = off[k - 1] + Len(q[k])
  /\ off[k] <= Len(E)
  /\ \A m \in 1 .. Len(q[k]) : E[off[k - 1] + m] = q[k][m]

PartsLie(q, off, E, C, n) == E \in Seq(C) /\ \A k \in 1 .. n : PartLies(q, off, E, k)

LEMMA PartsStep ==
  ASSUME NEW C, NEW q, NEW off, NEW n \in Nat, NEW E \in Seq(C), NEW b \in Seq(C),
         q[n + 1] = b, off[n] = Len(E), off[n + 1] = Len(E \o b),
         \A k \in 1 .. n : Len(q[k]) \in Nat,
         PartsLie(q, off, E, C, n)
  PROVE  PartsLie(q, off, E \o b, C, n + 1)
<1>1. PICK F : F = E \o b
  OBVIOUS
<1>2. /\ F \in Seq(C)
      /\ Len(E) \in Nat /\ Len(b) \in Nat
      /\ Len(F) = Len(E) + Len(b)
      /\ \A i \in 1 .. Len(E) : F[i] = E[i]
      /\ \A m \in 1 .. Len(b) : F[Len(E) + m] = b[m]
  BY <1>1, ConcatParts
<1>3. PartLies(q, off, F, n + 1)
  <2>1. PICK e \in Nat, l \in Nat : e = Len(E) /\ l = Len(b)
    BY <1>2
  <2>2. Len(F) = e + l /\ e + l \in Nat /\ e + l <= e + l /\ (n + 1) - 1 = n
    BY <1>2, <2>1
  <2>3. off[n] = e /\ off[n + 1] = e + l
    BY <1>1, <2>1, <2>2
  <2>4. \A m \in 1 .. l : F[e + m] = b[m]
    BY <1>2, <2>1
  <2>5. QED
    BY <2>1, <2>2, <2>3, <2>4 DEF PartLies
<1>4. ASSUME NEW k \in 1 .. n PROVE PartLies(q, off, F, k)
  <2>1. PartLies(q, off, E, k) /\ Len(q[k]) \in Nat
    BY DEF PartsLie
  <2>2. PICK e \in Nat, l \in Nat, o \in Nat : e = Len(E) /\ l = Len(q[k]) /\ o = off[k - 1]
    BY <1>2, <2>1 DEF PartLies
  <2>3. off[k] = o + l /\ o + l <= e /\ \A m \in 1 .. l : E[o + m] = q[k][m]
    BY <2>1, <2>2 DEF PartLies
  <2>4. \A m \in 1 .. l : o + m \in 1 .. e
    BY <2>3
  <2>5. \A m \in 1 .. l : F[o + m] = q[k][m]
    BY <1>2, <2>2, <2>3, <2>4
  <2>6. o + l \in Nat /\ o + l <= Len(F)
    <3>1. PICK r \in Nat : r = Len(b)
      BY <1>2
    <3>2. Len(F) = e + r
      BY <1>2, <2>2, <3>1
    <3>3. o + l \in Nat /\ o + l <= e + r
      BY <2>3
    <3>4. QED
      BY <3>2, <3>3
  <2>7. QED
    BY <2>2, <2>3, <2>5, <2>6 DEF PartLies
<1>5. \A k \in 1 .. n + 1 : k = n + 1 \/ k \in 1 .. n
  OBVIOUS
<1>6. \A k \in 1 .. n + 1 : PartLies(q, off, F, k)
  BY <1>3, <1>4, <1>5
<1>7. QED
  BY <1>1, <1>2, <1>6 DEF PartsLie

LEMMA PartsHold ==
  ASSUME NEW C, NEW q, NEW f, NEW off, NEW L \in Nat, L # 0,
         \A i \in 1 .. L : q[i] \in Seq(C),
         f = [i \in 1 .. L |-> IF i = 1 THEN q[i] ELSE f[i - 1] \o q[i]],
         off[0] = 0, \A k \in 1 .. L : off[k] = Len(f[k])
  PROVE  PartsLie(q, off, f[L], C, L)
<1> DEFINE S == {n \in Nat : n + 1 <= L => PartsLie(q, off, f[n + 1], C, n + 1)}
<1>1. 0 \in S
  <2>1. f[1] = q[1] /\ f[1] \in Seq(C) /\ Len(f[1]) \in Nat /\ 1 \in 1 .. L
    OBVIOUS
  <2>2. PICK l \in Nat : l = Len(q[1])
    BY <2>1
  <2>3. PartLies(q, off, q[1], 1)
    <3>1. off[1] = l
      BY <2>1, <2>2
    <3>2. off[1 - 1] = 0 /\ l = 0 + l /\ l <= l /\ \A m \in 1 .. l : 0 + m = m
      OBVIOUS
    <3>3. QED
      BY <2>2, <3>1, <3>2 DEF PartLies
  <2>4. PartsLie(q, off, f[1], C, 1)
    BY <2>1, <2>2, <2>3 DEF PartsLie
  <2>5. QED
    BY <2>4
<1>2. ASSUME NEW n \in Nat, n \in S PROVE n + 1 \in S
  <2> DEFINE m == n + 1
             p == m + 1
  <2>1. CASE p <= L
    <3>1. PartsLie(q, off, f[m], C, m)
      BY <1>2, <2>1
    <3>2. /\ m \in Nat /\ p \in Nat /\ m # 0 /\ p # 1 /\ p - 1 = m
          /\ m \in 1 .. L /\ p \in 1 .. L /\ \A k \in 1 .. m : k \in 1 .. L
      BY <2>1
    <3> HIDE DEF m
    <3>3. p = m + 1
      OBVIOUS
    <3> HIDE DEF p
    <3>4. f[p] = f[m] \o q[p] /\ q[p] \in Seq(C) /\ off[m] = Len(f[m]) /\ off[p] = Len(f[p])
      BY <3>2
    <3>5. \A k \in 1 .. m : Len(q[k]) \in Nat
      BY <3>2
    <3>6. PartsLie(q, off, f[p], C, p)
      <4>1. f[m] \in Seq(C)
        BY <3>1 DEF PartsLie
      <4>2. PICK E \in Seq(C), b \in Seq(C) : E = f[m] /\ b = q[p]
        BY <3>4, <4>1
      <4>3. /\ q[m + 1] = b /\ off[m] = Len(E) /\ off[m + 1] = Len(E \o b)
            /\ PartsLie(q, off, E, C, m)
        BY <3>1, <3>3, <3>4, <4>2
      <4>4. PartsLie(q, off, E \o b, C, m + 1)
        BY <3>2, <3>5, <4>3, PartsStep
      <4>5. QED
        BY <3>3, <3>4, <4>2, <4>4
    <3>7. QED
      BY <3>6 DEF m, p
  <2>2. QED
    BY <2>1
<1>3. \A n \in Nat : n \in S
  <2> HIDE DEF S
  <2>1. QED
    BY <1>1, <1>2, Induction
<1>4. L - 1 \in S /\ (L - 1) + 1 = L
  <2>1. L - 1 \in Nat /\ (L - 1) + 1 = L
    OBVIOUS
  <2> HIDE DEF S
  <2>2. QED
    BY <1>3, <2>1
<1>5. QED
  BY <1>4

(* Where the escaped characters of a term lie: off[k] characters of the    *)
(* result stand for the first k of the term.                               *)
Placed(s, E, off) ==
  /\ E \in Seq(Chars)
  /\ off \in [0 .. Len(s) -> Nat]
  /\ off[0] = 0
  /\ off[Len(s)] = Len(E)
  /\ \A k \in 1 .. Len(s) : PartLies([i \in DOMAIN s |-> EscapeChar(s[i])], off, E, k)

LEMMA EscapedTyped ==
  ASSUME NEW ch \in Chars
  PROVE  EscapeChar(ch) \in Seq(Chars)
<1>1. Backslash \in Chars
  BY DEF Chars, Special
<1>2. <<Backslash, ch>> \in Seq(Chars) /\ <<ch>> \in Seq(Chars)
  BY <1>1
<1>3. QED
  BY <1>2 DEF EscapeChar

LEMMA EscaperPlaces ==
  ASSUME NEW s \in Seq(Chars)
  PROVE  \E off : Placed(s, likePatternEscaper(s), off)
<1>1. PICK L \in Nat : L = Len(s) /\ DOMAIN s = 1 .. L
  OBVIOUS
<1> DEFINE q == [i \in DOMAIN s |-> EscapeChar(s[i])]
<1>2. \A i \in 1 .. L : EscapeChar(s[i]) \in Seq(Chars)
  BY <1>1, EscapedTyped
<1>3. q \in Seq(Seq(Chars)) /\ Len(q) = L /\ \A i \in 1 .. L : q[i] = EscapeChar(s[i])
  BY <1>1, <1>2
<1>4. likePatternEscaper(s) = FlattenSeq(q)
  BY Zenon DEF likePatternEscaper
<1> HIDE DEF q
<1>5. CASE L = 0
  <2>1. likePatternEscaper(s) = q
    BY <1>3, <1>4, <1>5 DEF FlattenSeq
  <2>2. q \in Seq(Chars) /\ Len(q) = 0
    BY <1>3, <1>5
  <2>3. Placed(s, q, [k \in 0 .. Len(s) |-> 0])
    BY <1>1, <1>5, <2>2 DEF Placed
  <2>4. QED
    BY <2>1, <2>3, Zenon
<1>6. CASE L # 0
  <2>1. PICK f : /\ f = [i \in 1 .. L |-> IF i = 1 THEN q[i] ELSE f[i - 1] \o q[i]]
                 /\ FlattenSeq(q) = f[L]
    <3>1. \E f : /\ f = [i \in 1 .. Len(q) |-> IF i = 1 THEN q[i] ELSE f[i - 1] \o q[i]]
                 /\ FlattenSeq(q) = f[Len(q)]
      BY <1>3, <1>6, FlattenTable
    <3>2. QED
      BY <1>3, <3>1, Zenon
  <2> DEFINE off == [k \in 0 .. L |-> IF k = 0 THEN 0 ELSE Len(f[k])]
  <2>2. off[0] = 0 /\ off[L] = Len(f[L]) /\ \A k \in 1 .. L : off[k] = Len(f[k])
    BY <1>6
  <2>3. DOMAIN off = 0 .. L
    OBVIOUS
  <2>4. off = [k \in 0 .. L |-> off[k]]
    OBVIOUS
  <2> HIDE DEF off
  <2>5. \A i \in 1 .. L : q[i] \in Seq(Chars)
    BY <1>2, <1>3
  <2>6. PartsLie(q, off, f[L], Chars, L)
    BY <1>6, <2>1, <2>2, <2>5, PartsHold
  <2>7. \A k \in 0 .. L : off[k] \in Nat
    BY <2>2, <2>6 DEF PartsLie, PartLies
  <2>8. off \in [0 .. L -> Nat]
    BY <2>4, <2>7
  <2>9. Placed(s, f[L], off)
    <3>1. f[L] \in Seq(Chars) /\ \A k \in 1 .. L : PartLies(q, off, f[L], k)
      BY <2>6, Zenon DEF PartsLie
    <3>2. QED
      BY <1>1, <2>2, <2>8, <3>1, Zenon DEF Placed, q
  <2>10. QED
    BY <1>4, <2>1, <2>9, Zenon
<1>7. QED
  BY <1>5, <1>6

-----------------------------------------------------------------------------
(* ILIKE.                                                                  *)
(* The body of ILike's recursive function.                                 *)
Match(text, pattern, f, j) ==
  LET T == Len(text)
      P == Len(pattern)
      Same(i, h) == h <= P /\ FoldCase(text[i]) = FoldCase(pattern[h])
  IN IF j = P + 2 THEN {}
     ELSE IF j = P + 1 THEN {T + 1}
     ELSE IF pattern[j] = Percent
          THEN {i \in 1 .. T + 1 : \E k \in f[j + 1] : i <= k}
     ELSE IF pattern[j] = Underscore
          THEN {i \in 1 .. T : i + 1 \in f[j + 1]}
     ELSE IF pattern[j] = Backslash
          THEN {i \in 1 .. T : Same(i, j + 1) /\ i + 1 \in f[j + 2]}
     ELSE {i \in 1 .. T : Same(i, j) /\ i + 1 \in f[j + 1]}

(* A value depends on the values of the next two places only.              *)
LEMMA MatchLooksAhead ==
  ASSUME NEW text, NEW pattern, Len(pattern) \in Nat, NEW j \in 1 .. Len(pattern) + 2, NEW f, NEW g,
         \A k \in (j + 1) .. Len(pattern) + 2 : f[k] = g[k]
  PROVE  Match(text, pattern, f, j) = Match(text, pattern, g, j)
<1>1. CASE j \in 1 .. Len(pattern)
  <2>1. j + 1 \in (j + 1) .. Len(pattern) + 2 /\ j + 2 \in (j + 1) .. Len(pattern) + 2
    BY <1>1
  <2>2. f[j + 1] = g[j + 1] /\ f[j + 2] = g[j + 2]
    BY <2>1
  <2>3. QED
    BY <2>2, Zenon DEF Match
<1>2. CASE j \notin 1 .. Len(pattern)
  <2>1. j = Len(pattern) + 1 \/ j = Len(pattern) + 2
    BY <1>2
  <2>2. QED
    BY <2>1, Zenon DEF Match
<1>3. QED
  BY <1>1, <1>2

(* The function exists: extend a table of its last n values by one.        *)
LEMMA MatchTable ==
  ASSUME NEW text, NEW pattern, Len(pattern) \in Nat
  PROVE  \E f : /\ f = [j \in 1 .. Len(pattern) + 2 |-> Match(text, pattern, f, j)]
                /\ ILike(text, pattern) <=> 1 \in f[1]
<1>1. PICK Z \in Nat : Z = Len(pattern) + 2
  OBVIOUS
<1> DEFINE Table(h, f) == f = [j \in h .. Z |-> Match(text, pattern, f, j)]
           S == {n \in Nat : n <= Z => \E f : Table(Z + 1 - n, f)}
<1>2. 0 \in S
  <2>1. Table(Z + 1 - 0, << >>)
    OBVIOUS
  <2>2. \E f : Table(Z + 1 - 0, f)
    BY <2>1, Zenon
  <2>3. 0 \in Nat
    OBVIOUS
  <2> HIDE DEF Table
  <2>4. QED
    BY <2>2, <2>3, Zenon
<1>3. ASSUME NEW n \in Nat, n \in S PROVE n + 1 \in S
  <2>1. CASE n + 1 <= Z
    <3>1. n <= Z
      BY <2>1
    <3>2. \E f : Table(Z + 1 - n, f)
      <4> HIDE DEF Table
      <4>1. QED
        BY <1>3, <3>1, Zenon
    <3>3. PICK f : Table(Z + 1 - n, f)
      BY <3>2
    <3>4. PICK h \in 1 .. Z : h = Z - n /\ h = Z + 1 - (n + 1) /\ h + 1 = Z + 1 - n
      BY <2>1
    <3>5. f = [j \in (h + 1) .. Z |-> Match(text, pattern, f, j)]
      BY <3>3, <3>4, Zenon
    <3> DEFINE g == [j \in h .. Z |-> IF j = h THEN Match(text, pattern, f, j) ELSE f[j]]
    <3>6. \A k \in (h + 1) .. Z : f[k] = g[k]
      BY <3>4
    <3>7. ASSUME NEW j \in h .. Z PROVE g[j] = Match(text, pattern, g, j)
      <4>1. g[j] = Match(text, pattern, f, j)
        BY <3>4, <3>5
      <4> HIDE DEF g
      <4>2. j \in 1 .. Len(pattern) + 2 /\ \A k \in (j + 1) .. Len(pattern) + 2 : f[k] = g[k]
        BY <1>1, <3>4, <3>6
      <4>3. Match(text, pattern, f, j) = Match(text, pattern, g, j)
        BY <4>2, MatchLooksAhead
      <4>4. QED
        BY <4>1, <4>3
    <3>8. g = [j \in h .. Z |-> g[j]]
      OBVIOUS
    <3> HIDE DEF g
    <3>9. Table(h, g)
      BY <3>7, <3>8
    <3>10. \E f1 : Table(Z + 1 - (n + 1), f1)
      BY <3>4, <3>9, Zenon
    <3>11. n + 1 \in Nat
      OBVIOUS
    <3> HIDE DEF Table
    <3>12. QED
      BY <3>10, <3>11, Zenon
  <2>2. CASE ~(n + 1 <= Z)
    <3>1. n + 1 \in Nat
      OBVIOUS
    <3>2. QED
      BY <2>2, <3>1, Zenon
  <2>3. QED
    BY <2>1, <2>2
<1>4. \A n \in Nat : n \in S
  <2> HIDE DEF S
  <2>1. QED
    BY <1>2, <1>3, Induction
<1>5. \E f : Table(1, f)
  <2>1. Z \in Nat /\ Z <= Z /\ Z + 1 - Z = 1
    OBVIOUS
  <2>2. Z \in S
    BY <1>4
  <2> HIDE DEF Table
  <2>3. \E f : Table(Z + 1 - Z, f)
    BY <2>1, <2>2, Zenon
  <2>4. QED
    BY <2>1, <2>3, Zenon
<1> DEFINE from == CHOOSE f : f = [j \in 1 .. Len(pattern) + 2 |-> Match(text, pattern, f, j)]
<1>6. from = [j \in 1 .. Len(pattern) + 2 |-> Match(text, pattern, from, j)]
  BY <1>1, <1>5, Zenon
<1>7. ILike(text, pattern) <=> 1 \in from[1]
  BY Zenon DEF ILike, Match
<1>8. QED
  BY <1>6, <1>7, Zenon

-----------------------------------------------------------------------------
(* The pattern '%' || E || '%'.                                            *)
Around(E) == <<Percent>> \o E \o <<Percent>>

LEMMA PatternParts ==
  ASSUME NEW E \in Seq(Chars), NEW Q, Q = Around(E)
  PROVE  /\ Len(E) \in Nat
         /\ Len(Q) = Len(E) + 2
         /\ Q[1] = Percent
         /\ Q[Len(E) + 2] = Percent
         /\ \A i \in 1 .. Len(E) : Q[i + 1] = E[i]
<1>1. PICK a \in Seq(Chars) : a = <<Percent>> /\ Len(a) = 1 /\ a[1] = Percent
  <2>1. Percent \in Chars
    BY DEF Chars, Special
  <2>2. <<Percent>> \in Seq(Chars) /\ Len(<<Percent>>) = 1 /\ <<Percent>>[1] = Percent
    BY <2>1
  <2>3. QED
    BY <2>2, Zenon
<1>2. PICK e \in Nat : e = Len(E)
  OBVIOUS
<1>3. PICK b : b = a \o E
  OBVIOUS
<1>4. /\ b \in Seq(Chars) /\ Len(b) = 1 + e /\ b[1] = Percent
      /\ \A i \in 1 .. e : b[1 + i] = E[i]
  BY <1>1, <1>2, <1>3, ConcatParts
<1>5. Q = b \o a
  BY <1>1, <1>3, Zenon DEF Around
<1>6. /\ Len(Q) = Len(b) + Len(a)
      /\ \A i \in 1 .. Len(b) : Q[i] = b[i]
      /\ \A m \in 1 .. Len(a) : Q[Len(b) + m] = a[m]
  <2>1. /\ Len(b \o a) = Len(b) + Len(a)
        /\ \A i \in 1 .. Len(b) : (b \o a)[i] = b[i]
        /\ \A m \in 1 .. Len(a) : (b \o a)[Len(b) + m] = a[m]
    <3>1. a \in Seq(Chars) /\ b \in Seq(Chars)
      BY <1>4
    <3>2. \A c, d \in Seq(Chars) : /\ Len(c \o d) = Len(c) + Len(d)
                                   /\ \A i \in 1 .. Len(c) : (c \o d)[i] = c[i]
                                   /\ \A m \in 1 .. Len(d) : (c \o d)[Len(c) + m] = d[m]
      BY ConcatParts
    <3>3. QED
      BY <3>1, <3>2, Zenon
  <2>2. QED
    BY <1>5, <2>1, Zenon
<1>7. Len(Q) = e + 2 /\ Q[e + 2] = Percent
  <2>1. (1 + e) + 1 = e + 2 /\ 1 \in 1 .. 1
    OBVIOUS
  <2>2. QED
    BY <1>1, <1>4, <1>6, <2>1
<1>8. Q[1] = Percent /\ \A i \in 1 .. e : Q[i + 1] = E[i]
  <2>1. 1 \in 1 .. 1 + e /\ \A i \in 1 .. e : i + 1 \in 1 .. 1 + e /\ i + 1 = 1 + i
    OBVIOUS
  <2>2. QED
    BY <1>4, <1>6, <2>1
<1>9. QED
  BY <1>2, <1>7, <1>8

(* The places where the text has a character and goes on as required.      *)
HasChar(text, ch, next) ==
  {i \in 1 .. Len(text) : FoldCase(text[i]) = FoldCase(ch) /\ i + 1 \in next}

(* The character, escaped or not, lies in E after o others.                *)
CharLies(ch, E, o) ==
  /\ o + Len(EscapeChar(ch)) <= Len(E)
  /\ \A m \in 1 .. Len(EscapeChar(ch)) : E[o + m] = EscapeChar(ch)[m]

(* It matches itself.                                                      *)
LEMMA CharacterMatches ==
  ASSUME NEW text, NEW E \in Seq(Chars), NEW ch \in Chars, NEW Q, NEW f, NEW o \in Nat,
         Q = Around(E), CharLies(ch, E, o)
  PROVE  Match(text, Q, f, o + 2) = HasChar(text, ch, f[o + Len(EscapeChar(ch)) + 2])
<1>1. PICK e \in Nat : e = Len(E) /\ Len(Q) = e + 2 /\ \A i \in 1 .. e : Q[i + 1] = E[i]
  BY PatternParts
<1>2. Percent # Underscore /\ Percent # Backslash /\ Underscore # Backslash
  BY DEF Percent, Underscore, Backslash
<1>3. CASE ch \in Special
  <2>1. EscapeChar(ch) = <<Backslash, ch>>
    BY <1>3 DEF EscapeChar
  <2>2. o + 2 <= e /\ E[o + 1] = Backslash /\ E[o + 2] = ch
    <3>1. Len(<<Backslash, ch>>) = 2 /\ <<Backslash, ch>>[1] = Backslash /\ <<Backslash, ch>>[2] = ch
      OBVIOUS
    <3>2. 1 \in 1 .. 2 /\ 2 \in 1 .. 2
      OBVIOUS
    <3>3. QED
      BY <1>1, <2>1, <3>1, <3>2 DEF CharLies
  <2>3. Q[o + 2] = Backslash /\ Q[o + 3] = ch
    <3>1. o + 1 \in 1 .. e /\ o + 2 \in 1 .. e /\ (o + 1) + 1 = o + 2 /\ (o + 2) + 1 = o + 3
      BY <2>2
    <3>2. QED
      BY <1>1, <2>2, <3>1
  <2>4. /\ o + 2 # (e + 2) + 2 /\ o + 2 # (e + 2) + 1 /\ (o + 2) + 1 = o + 3
        /\ o + 3 <= e + 2 /\ (o + 2) + 2 = o + 2 + 2
    BY <2>2
  <2>5. Match(text, Q, f, o + 2) = HasChar(text, ch, f[o + 2 + 2])
    BY <1>1, <1>2, <2>3, <2>4 DEF Match, HasChar
  <2>6. Len(EscapeChar(ch)) = 2
    BY <2>1
  <2>7. QED
    BY <2>5, <2>6
<1>4. CASE ch \notin Special
  <2>1. EscapeChar(ch) = <<ch>>
    BY <1>4 DEF EscapeChar
  <2>2. o + 1 <= e /\ E[o + 1] = ch
    <3>1. Len(<<ch>>) = 1 /\ <<ch>>[1] = ch /\ 1 \in 1 .. 1
      OBVIOUS
    <3>2. QED
      BY <1>1, <2>1, <3>1 DEF CharLies
  <2>3. Q[o + 2] = ch
    <3>1. o + 1 \in 1 .. e /\ (o + 1) + 1 = o + 2
      BY <2>2
    <3>2. QED
      BY <1>1, <2>2, <3>1
  <2>4. /\ o + 2 # (e + 2) + 2 /\ o + 2 # (e + 2) + 1
        /\ o + 2 <= e + 2 /\ (o + 2) + 1 = o + 1 + 2
    BY <2>2
  <2>5. ch # Percent /\ ch # Underscore /\ ch # Backslash
    BY <1>4 DEF Special
  <2>6. Match(text, Q, f, o + 2) = HasChar(text, ch, f[o + 1 + 2])
    BY <1>1, <2>3, <2>4, <2>5 DEF Match, HasChar
  <2>7. Len(EscapeChar(ch)) = 1
    BY <2>1
  <2>8. QED
    BY <2>6, <2>7
<1>5. QED
  BY <1>3, <1>4

(* Where the rest of the term, after its first k characters, lies in the   *)
(* text.                                                                   *)
Rest(text, term, k) ==
  {i \in 1 .. Len(text) + 1 :
     /\ i + (Len(term) - k) <= Len(text) + 1
     /\ \A h \in (k + 1) .. Len(term) : FoldCase(text[i + h - k - 1]) = FoldCase(term[h])}

LEMMA RestStep ==
  ASSUME NEW text, NEW term, Len(text) \in Nat, Len(term) \in Nat, NEW k \in 1 .. Len(term)
  PROVE  Rest(text, term, k - 1) = HasChar(text, term[k], Rest(text, term, k))
<1>1. PICK T \in Nat, L \in Nat : T = Len(text) /\ L = Len(term) /\ k \in 1 .. L /\ k \in Nat
  OBVIOUS
<1>2. ASSUME NEW i \in Rest(text, term, k - 1)
      PROVE  i \in 1 .. T /\ FoldCase(text[i]) = FoldCase(term[k]) /\ i + 1 \in Rest(text, term, k)
  <2>1. /\ i \in 1 .. T + 1 /\ i + (L - (k - 1)) <= T + 1
        /\ \A h \in ((k - 1) + 1) .. L : FoldCase(text[i + h - (k - 1) - 1]) = FoldCase(term[h])
    BY <1>1 DEF Rest
  <2>2. i \in 1 .. T /\ i + 1 \in 1 .. T + 1 /\ (i + 1) + (L - k) <= T + 1
    BY <1>1, <2>1
  <2>3. FoldCase(text[i]) = FoldCase(term[k])
    <3>1. k \in ((k - 1) + 1) .. L /\ i + k - (k - 1) - 1 = i
      BY <1>1, <2>2
    <3>2. QED
      BY <2>1, <3>1
  <2>4. ASSUME NEW h \in (k + 1) .. L
        PROVE  FoldCase(text[(i + 1) + h - k - 1]) = FoldCase(term[h])
    <3>1. h \in ((k - 1) + 1) .. L /\ i + h - (k - 1) - 1 = (i + 1) + h - k - 1
      BY <1>1, <2>2
    <3>2. QED
      BY <2>1, <3>1
  <2>5. QED
    BY <1>1, <2>2, <2>3, <2>4 DEF Rest
<1>3. ASSUME NEW i \in 1 .. T, FoldCase(text[i]) = FoldCase(term[k]), i + 1 \in Rest(text, term, k)
      PROVE  i \in Rest(text, term, k - 1)
  <2>1. /\ (i + 1) + (L - k) <= T + 1
        /\ \A h \in (k + 1) .. L : FoldCase(text[(i + 1) + h - k - 1]) = FoldCase(term[h])
    BY <1>1, <1>3 DEF Rest
  <2>2. i \in 1 .. T + 1 /\ i + (L - (k - 1)) <= T + 1
    BY <1>1, <2>1
  <2>3. ASSUME NEW h \in ((k - 1) + 1) .. L
        PROVE  FoldCase(text[i + h - (k - 1) - 1]) = FoldCase(term[h])
    <3>1. CASE h = k
      <4>1. i + h - (k - 1) - 1 = i
        BY <1>1, <3>1
      <4>2. QED
        BY <1>3, <3>1, <4>1
    <3>2. CASE h # k
      <4>1. h \in (k + 1) .. L /\ i + h - (k - 1) - 1 = (i + 1) + h - k - 1
        BY <1>1, <3>2
      <4>2. QED
        BY <2>1, <4>1
    <3>3. QED
      BY <3>1, <3>2
  <2>4. QED
    BY <1>1, <2>2, <2>3 DEF Rest
<1>4. QED
  BY <1>1, <1>2, <1>3 DEF HasChar

(* From the end of the term to its beginning: the pattern from the k-th    *)
(* character on matches where the rest of the term lies.                   *)
LEMMA PatternMatchesRest ==
  ASSUME NEW text, Len(text) \in Nat, NEW term \in Seq(Chars), NEW E, NEW off, NEW Q, NEW f,
         Placed(term, E, off), Q = Around(E),
         \A j \in 1 .. Len(Q) + 2 : f[j] = Match(text, Q, f, j)
  PROVE  f[2] = Rest(text, term, 0)
<1>1. E \in Seq(Chars)
  BY Zenon DEF Placed
<1>2. PICK e \in Nat : e = Len(E) /\ Len(Q) = e + 2 /\ Q[e + 2] = Percent
  BY <1>1, PatternParts
<1>3. PICK L \in Nat : L = Len(term)
  OBVIOUS
<1>4. \A j \in 1 .. e + 4 : f[j] = Match(text, Q, f, j)
  <2>1. (e + 2) + 2 = e + 4
    OBVIOUS
  <2>2. QED
    BY <1>2, <2>1
<1> DEFINE Good(k) == f[off[k] + 2] = Rest(text, term, k)
           S == {n \in Nat : n <= L => Good(L - n)}
<1>5. off[L] = e /\ off[0] = 0
  BY <1>2, <1>3 DEF Placed
<1>6. 0 \in S
  <2>1. f[e + 2] = {i \in 1 .. Len(text) + 1 : \E k \in f[e + 3] : i <= k}
    <3>1. /\ e + 2 \in 1 .. e + 4 /\ e + 2 # (e + 2) + 2 /\ e + 2 # (e + 2) + 1 /\ (e + 2) + 1 = e + 3
      OBVIOUS
    <3>2. Match(text, Q, f, e + 2) = {i \in 1 .. Len(text) + 1 : \E k \in f[(e + 2) + 1] : i <= k}
      BY <1>2, <3>1, Zenon DEF Match
    <3>3. QED
      BY <1>4, <3>1, <3>2
  <2>2. f[e + 3] = {Len(text) + 1}
    <3>1. e + 3 \in 1 .. e + 4 /\ e + 3 # (e + 2) + 2 /\ e + 3 = (e + 2) + 1
      OBVIOUS
    <3>2. Match(text, Q, f, e + 3) = {Len(text) + 1}
      BY <1>2, <3>1, Zenon DEF Match
    <3>3. QED
      BY <1>4, <3>1, <3>2
  <2>3. f[e + 2] = 1 .. Len(text) + 1
    <3>1. PICK D : D = f[e + 2]
      OBVIOUS
    <3>2. PICK t \in Nat : t = Len(text) + 1
      OBVIOUS
    <3>3. D = {i \in 1 .. t : \E k \in {t} : i <= k}
      BY <2>1, <2>2, <3>1, <3>2, Zenon
    <3>4. {i \in 1 .. t : \E k \in {t} : i <= k} = 1 .. t
      OBVIOUS
    <3>5. QED
      BY <3>1, <3>2, <3>3, <3>4, Zenon
  <2>4. Rest(text, term, L) = 1 .. Len(text) + 1
    BY <1>3 DEF Rest
  <2>5. Good(L)
    BY <1>5, <2>3, <2>4
  <2>6. L - 0 = L
    OBVIOUS
  <2> HIDE DEF Good
  <2>7. QED
    BY <2>5, <2>6
<1>7. ASSUME NEW n \in Nat, n \in S PROVE n + 1 \in S
  <2>1. CASE n + 1 <= L
    <3>1. PICK k \in 1 .. L : k = L - n /\ k - 1 = L - (n + 1)
      BY <2>1
    <3>2. f[off[k] + 2] = Rest(text, term, k)
      <4>1. n <= L
        BY <2>1
      <4> HIDE DEF Good
      <4>2. Good(k)
        BY <1>7, <3>1, <4>1, Zenon
      <4>3. QED
        BY <4>2 DEF Good
    <3>3. PICK ch \in Chars : ch = term[k]
      BY <1>3, <3>1
    <3>4. /\ off[k] \in Nat /\ off[k - 1] \in Nat
          /\ off[k] = off[k - 1] + Len(EscapeChar(ch))
          /\ off[k] <= e
          /\ \A m \in 1 .. Len(EscapeChar(ch)) : E[off[k - 1] + m] = EscapeChar(ch)[m]
      <4> DEFINE q == [i \in DOMAIN term |-> EscapeChar(term[i])]
      <4>1. PartLies(q, off, E, k)
        BY <1>3, Zenon DEF Placed
      <4>2. q[k] = EscapeChar(ch)
        BY <1>3, <3>3
      <4> HIDE DEF q
      <4>3. QED
        BY <1>2, <4>1, <4>2, Zenon DEF PartLies
    <3>5. PICK o \in Nat : o = off[k - 1]
      BY <3>4
    <3>6. o + Len(EscapeChar(ch)) = off[k] /\ CharLies(ch, E, o)
      BY <1>2, <3>4, <3>5, Zenon DEF CharLies
    <3>7. Match(text, Q, f, o + 2) = HasChar(text, ch, f[o + Len(EscapeChar(ch)) + 2])
      <4>1. \A p \in Nat : CharLies(ch, E, p) =>
               Match(text, Q, f, p + 2) = HasChar(text, ch, f[p + Len(EscapeChar(ch)) + 2])
        BY <1>1, CharacterMatches
      <4>2. QED
        BY <3>6, <4>1, Zenon
    <3>8. f[o + 2] = Match(text, Q, f, o + 2)
      <4>1. PICK w \in Nat : w = off[k] /\ w <= e
        BY <3>4
      <4>2. Len(EscapeChar(ch)) \in Nat
        BY EscapedTyped
      <4>3. o <= e
        BY <3>6, <4>1, <4>2
      <4>4. o + 2 \in 1 .. e + 4
        BY <4>3
      <4>5. QED
        BY <1>4, <4>4
    <3>9. f[o + 2] = HasChar(text, term[k], Rest(text, term, k))
      <4>1. f[o + Len(EscapeChar(ch)) + 2] = Rest(text, term, k)
        BY <3>2, <3>6, Zenon
      <4>2. QED
        BY <3>3, <3>7, <3>8, <4>1, Zenon
    <3>10. Rest(text, term, k - 1) = HasChar(text, term[k], Rest(text, term, k))
      <4>1. k \in 1 .. Len(term) /\ Len(term) \in Nat
        BY <1>3
      <4>2. QED
        BY <4>1, RestStep, Zenon
    <3>11. Good(k - 1)
      BY <3>5, <3>9, <3>10, Zenon
    <3>12. n + 1 \in Nat
      OBVIOUS
    <3> HIDE DEF Good
    <3>13. QED
      BY <3>1, <3>11, <3>12, Zenon
  <2>2. CASE ~(n + 1 <= L)
    <3>1. n + 1 \in Nat
      OBVIOUS
    <3>2. QED
      BY <2>2, <3>1, Zenon
  <2>3. QED
    BY <2>1, <2>2
<1>8. \A n \in Nat : n \in S
  <2> HIDE DEF S
  <2>1. QED
    BY <1>6, <1>7, Induction
<1>9. Good(0)
  <2>1. L <= L /\ L - L = 0
    OBVIOUS
  <2> HIDE DEF Good
  <2>2. QED
    BY <1>8, <2>1, Zenon
<1>10. QED
  BY <1>5, <1>9

(* A search term finds the texts it occurs in, character by character and  *)
(* in any case, whatever wildcards and backslashes it has: for texts and   *)
(* terms of any length.                                                    *)
THEOREM TermsAreLiteral ==
  ASSUME NEW text \in Seq(Chars), NEW term \in Seq(Chars)
  PROVE  Finds(text, term) <=> Literally(text, term)
<1>1. PICK E, Q : E = likePatternEscaper(term) /\ Q = Around(E)
  OBVIOUS
<1>2. PICK off : Placed(term, E, off)
  BY <1>1, EscaperPlaces, Zenon
<1>3. Finds(text, term) <=> ILike(text, Q)
  BY <1>1, Zenon DEF Finds, SubstringPattern, Around
<1>4. /\ E \in Seq(Chars)
  BY <1>2, Zenon DEF Placed
<1>5. PICK e \in Nat : e = Len(E) /\ Len(Q) = e + 2 /\ Q[1] = Percent
  BY <1>1, <1>4, PatternParts
<1>6. PICK f : /\ \A j \in 1 .. Len(Q) + 2 : f[j] = Match(text, Q, f, j)
               /\ ILike(text, Q) <=> 1 \in f[1]
  <2>1. Len(Q) \in Nat
    BY <1>5
  <2>2. PICK f : f = [j \in 1 .. Len(Q) + 2 |-> Match(text, Q, f, j)] /\ (ILike(text, Q) <=> 1 \in f[1])
    BY <2>1, MatchTable, Zenon
  <2>3. \A j \in 1 .. Len(Q) + 2 : f[j] = Match(text, Q, f, j)
    BY <2>2
  <2>4. QED
    BY <2>2, <2>3, Zenon
<1>7. PICK T \in Nat : T = Len(text)
  OBVIOUS
<1>8. f[2] = Rest(text, term, 0)
  BY <1>1, <1>2, <1>6, <1>7, PatternMatchesRest
<1>9. f[1] = {i \in 1 .. T + 1 : \E k \in Rest(text, term, 0) : i <= k}
  <2>1. /\ 1 # (e + 2) + 2 /\ 1 # (e + 2) + 1 /\ 1 + 1 = 2 /\ 1 \in 1 .. (e + 2) + 2
    OBVIOUS
  <2>2. f[1] = Match(text, Q, f, 1)
    BY <1>5, <1>6, <2>1
  <2>3. Match(text, Q, f, 1) = {i \in 1 .. T + 1 : \E k \in f[1 + 1] : i <= k}
    BY <1>5, <1>7, <2>1, Zenon DEF Match
  <2>4. QED
    BY <1>8, <2>1, <2>2, <2>3
<1>10. 1 \in f[1] <=> Rest(text, term, 0) # {}
  <2>1. \A k \in Rest(text, term, 0) : k \in 1 .. T + 1
    BY <1>7 DEF Rest
  <2>2. QED
    BY <1>9, <2>1
<1>11. Rest(text, term, 0) # {} <=> Literally(text, term)
  <2>1. PICK L \in Nat : L = Len(term) /\ DOMAIN term = 1 .. L
    OBVIOUS
  <2>2. ASSUME NEW i \in Rest(text, term, 0) PROVE Literally(text, term)
    <3>1. /\ i \in 1 .. T + 1 /\ i + (L - 0) <= T + 1
          /\ \A h \in (0 + 1) .. L : FoldCase(text[i + h - 0 - 1]) = FoldCase(term[h])
      BY <1>7, <2>1 DEF Rest
    <3>2. PICK k \in 0 .. T : k = i - 1
      BY <3>1
    <3>3. k + L <= T
      BY <3>1, <3>2
    <3>4. ASSUME NEW h \in 1 .. L PROVE FoldCase(text[k + h]) = FoldCase(term[h])
      <4>1. h \in (0 + 1) .. L /\ i + h - 0 - 1 = k + h
        BY <3>1, <3>2
      <4>2. QED
        BY <3>1, <4>1
    <3>5. QED
      BY <1>7, <2>1, <3>3, <3>4 DEF Literally
  <2>3. ASSUME Literally(text, term) PROVE Rest(text, term, 0) # {}
    <3>1. PICK k \in 0 .. T : /\ k + L <= T
                              /\ \A h \in 1 .. L : FoldCase(text[k + h]) = FoldCase(term[h])
      BY <1>7, <2>1, <2>3 DEF Literally
    <3>2. PICK i \in 1 .. T + 1 : i = k + 1
      OBVIOUS
    <3>3. i + (L - 0) <= T + 1
      BY <3>1, <3>2
    <3>4. ASSUME NEW h \in (0 + 1) .. L PROVE FoldCase(text[i + h - 0 - 1]) = FoldCase(term[h])
      <4>1. h \in 1 .. L /\ i + h - 0 - 1 = k + h
        BY <3>2
      <4>2. QED
        BY <3>1, <4>1
    <3>5. i \in Rest(text, term, 0)
      BY <1>7, <2>1, <3>3, <3>4 DEF Rest
    <3>6. QED
      BY <3>5
  <2>4. QED
    BY <2>2, <2>3
<1>12. QED
  BY <1>3, <1>6, <1>10, <1>11
=============================================================================
