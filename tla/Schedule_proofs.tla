---------------------------- MODULE Schedule_proofs ----------------------------
(***************************************************************************)
(* Proofs about Schedule, for every number of streams, all rational        *)
(* periods, every bound on the number of cells and all layers.             *)
(***************************************************************************)
EXTENDS Schedule, WellFoundedInduction, TLAPS

Pos == Nat \ {0}

-----------------------------------------------------------------------------
(* Induction and recursion up to a number.                                 *)

(* A set of numbers that is not empty has a least one.                      *)
LEMMA LeastNumber ==
    ASSUME NEW S \in SUBSET Nat, S # {}
    PROVE  \E n \in S : \A m \in S : n <= m
<1> DEFINE R == {ss \in Nat \X Nat : ss[1] < ss[2]}
<1>1. OpToRel(<, Nat) = R
  BY Zenon DEF OpToRel
<1>2. IsWellFoundedOn(R, Nat)
  BY <1>1, NatLessThanWellFounded, Zenon
<1>3. PICK n \in S : \A m \in S : <<m, n>> \notin R
  BY <1>2, WFMin
<1>4. ASSUME NEW m \in S PROVE n <= m
  <2>1. n \in Nat /\ m \in Nat /\ ~(n > m)
    BY <1>3, <1>4
  <2>2. QED
    BY <2>1
<1>5. QED
  BY <1>4

(* Induction over the numbers up to n.                                      *)
LEMMA Induction ==
    ASSUME NEW n \in Pos, NEW T, 1 \in T,
           \A i \in 1..n : i # 1 /\ i - 1 \in T => i \in T
    PROVE  \A i \in 1..n : i \in T
<1> DEFINE Bad == {i \in 1..n : i \notin T}
<1>1. SUFFICES ASSUME Bad # {} PROVE FALSE
  OBVIOUS
<1>2. Bad \in SUBSET Nat
  OBVIOUS
<1>3. PICK i \in Bad : \A j \in Bad : i <= j
  <2> HIDE DEF Bad
  <2>1. QED
    BY <1>1, <1>2, LeastNumber
<1>4. i \in 1..n /\ i \notin T /\ i # 1
  BY <1>3
<1>5. i - 1 \in 1..n /\ ~(i <= i - 1)
  BY <1>4 DEF Pos
<1>6. i - 1 \in T
  BY <1>3, <1>5
<1>7. QED
  BY <1>4, <1>6

(***************************************************************************)
(* A function whose value is computed from the one before exists.          *)
(***************************************************************************)
Iterates(F, n, V, a, G) ==
    /\ F \in [1..n -> V]
    /\ F[1] = a
    /\ \A i \in 1..n : i # 1 => F[i] = G[<<i, F[i - 1]>>]

LEMMA Recursion ==
    ASSUME NEW n \in Pos, NEW V, NEW a \in V, NEW G \in [(1..n) \X V -> V]
    PROVE  \E F : Iterates(F, n, V, a, G)
<1> DEFINE Solves(F, m) == Iterates(F, m, V, a, G)
           T == {m \in 1..n : \E F : Solves(F, m)}
<1> USE DEF Iterates
<1>1. 1 \in T
  <2>1. Solves([i \in 1..1 |-> a], 1)
    OBVIOUS
  <2> HIDE DEF Solves
  <2>2. QED
    BY <2>1 DEF Pos
<1>2. ASSUME NEW m \in 1..n, m # 1, m - 1 \in T PROVE m \in T
  <2>1. PICK F : Solves(F, m - 1)
    BY <1>2
  <2> DEFINE H == [i \in 1..m |-> IF i = m THEN G[<<m, F[m - 1]>>] ELSE F[i]]
  <2>2. m - 1 \in 1..m - 1 /\ 1 \in 1..m - 1
    BY <1>2
  <2>3. F[m - 1] \in V
    BY <2>1, <2>2
  <2>4. G[<<m, F[m - 1]>>] \in V
    BY <2>3
  <2>5. \A i \in 1..m : i # m => i \in 1..m - 1
    OBVIOUS
  <2>6. H \in [1..m -> V]
    BY <2>1, <2>4, <2>5
  <2>7. /\ H[m] = G[<<m, F[m - 1]>>]
        /\ \A i \in 1..m - 1 : H[i] = F[i]
    OBVIOUS
  <2> HIDE DEF H
  <2>8. H[1] = a
    BY <2>1, <2>2, <2>7
  <2>9. ASSUME NEW i \in 1..m, i # 1 PROVE H[i] = G[<<i, H[i - 1]>>]
    <3>1. CASE i = m
      BY <2>2, <2>7, <3>1
    <3>2. CASE i # m
      <4>1. i \in 1..m - 1 /\ i - 1 \in 1..m - 1
        BY <2>9, <3>2
      <4>2. QED
        BY <2>1, <2>7, <2>9, <4>1
    <3>3. QED
      BY <3>1, <3>2
  <2>10. Solves(H, m)
    BY <2>6, <2>8, <2>9
  <2> HIDE DEF Solves
  <2>11. QED
    BY <2>10
<1>3. n \in 1..n
  BY DEF Pos
<1>4. \A i \in 1..n : i \in T
  <2> HIDE DEF T
  <2>1. QED
    BY <1>1, <1>2, Induction
<1>5. PICK F : Solves(F, n)
  BY <1>3, <1>4
<1> HIDE DEF Iterates
<1>6. QED
  BY <1>5

(***************************************************************************)
(* A bounded set of numbers has a greatest one.                            *)
(***************************************************************************)
LEMMA MaxIs ==
    ASSUME NEW S \in SUBSET Nat, S # {}, NEW b \in Nat, \A x \in S : x <= b
    PROVE  Max(S) \in S /\ \A x \in S : x <= Max(S)
<1> DEFINE Bounds == {c \in Nat : \A x \in S : x <= c}
<1>1. PICK c \in Bounds : \A d \in Bounds : c <= d
  <2>1. Bounds \in SUBSET Nat /\ b \in Bounds
    OBVIOUS
  <2> HIDE DEF Bounds
  <2>2. QED
    BY <2>1, LeastNumber
<1>2. c \in Nat /\ \A x \in S : x <= c
  BY <1>1
<1>3. c \in S
  <2>1. SUFFICES ASSUME c \notin S PROVE FALSE
    OBVIOUS
  <2>2. PICK x \in S : TRUE
    OBVIOUS
  <2>3. x \in Nat /\ x <= c /\ x # c
    BY <1>2, <2>1
  <2>4. c - 1 \in Nat
    BY <1>2, <2>3
  <2>5. ASSUME NEW y \in S PROVE y <= c - 1
    <3>1. y \in Nat /\ y <= c /\ y # c
      BY <1>2, <2>1
    <3>2. QED
      BY <1>2, <3>1
  <2>6. c - 1 \in Bounds
    BY <2>4, <2>5
  <2>7. c <= c - 1
    BY <1>1, <2>6
  <2>8. QED
    BY <1>2, <2>7
<1>4. \E x \in S : \A y \in S : x >= y
  BY <1>2, <1>3
<1>5. Max(S) \in S /\ \A y \in S : Max(S) >= y
  BY <1>4 DEF Max
<1>6. QED
  BY <1>5

-----------------------------------------------------------------------------
(* Sequences and flattening them.                                          *)

(***************************************************************************)
(* Any two entries of a sequence, in their order, are related.             *)
(***************************************************************************)
Pairwise(q, R) == \A i, j \in 1..Len(q) : i < j => <<q[i], q[j]>> \in R

(* The range of a sequence holds its entries.                               *)
LEMMA RangeIs ==
    ASSUME NEW S, NEW q \in Seq(S)
    PROVE  /\ Range(q) \subseteq S
           /\ \A x : x \in Range(q) <=> \E i \in 1..Len(q) : x = q[i]
<1>1. Range(q) = {q[i] : i \in 1..Len(q)}
  BY DEF Range
<1>2. \A i \in 1..Len(q) : q[i] \in S
  OBVIOUS
<1>3. QED
  BY <1>1, <1>2

(* The entries of a concatenation, counted from the start of each part.     *)
LEMMA ConcatIs ==
    ASSUME NEW S, NEW p \in Seq(S), NEW q \in Seq(S)
    PROVE  /\ p \o q \in Seq(S) /\ Len(p \o q) = Len(p) + Len(q)
           /\ \A i \in 1..Len(p) : (p \o q)[i] = p[i]
           /\ \A i \in 1..Len(q) : (p \o q)[Len(p) + i] = q[i]
  OBVIOUS

(* Each entry of a concatenation is one of its first or second part.        *)
LEMMA ConcatEntry ==
    ASSUME NEW S, NEW p \in Seq(S), NEW q \in Seq(S), NEW i \in 1..Len(p \o q)
    PROVE  \/ i \in 1..Len(p) /\ (p \o q)[i] = p[i]
           \/ i - Len(p) \in 1..Len(q) /\ (p \o q)[i] = q[i - Len(p)]
<1>1. Len(p) \in Nat /\ Len(q) \in Nat /\ Len(p \o q) = Len(p) + Len(q)
  BY ConcatIs
<1>2. CASE i <= Len(p)
  BY <1>1, <1>2, ConcatIs
<1>3. CASE ~(i <= Len(p))
  <2>1. i - Len(p) \in 1..Len(q) /\ Len(p) + (i - Len(p)) = i
    BY <1>1, <1>3
  <2>2. (p \o q)[Len(p) + (i - Len(p))] = q[i - Len(p)]
    BY <2>1, ConcatIs
  <2>3. QED
    BY <2>1, <2>2
<1>4. QED
  BY <1>2, <1>3

(* A concatenation holds what its parts hold.                               *)
LEMMA ConcatRange ==
    ASSUME NEW S, NEW p \in Seq(S), NEW q \in Seq(S), NEW x
    PROVE  x \in Range(p \o q) <=> x \in Range(p) \/ x \in Range(q)
<1> DEFINE r == p \o q
<1>1. /\ r \in Seq(S) /\ Len(r) = Len(p) + Len(q)
      /\ Len(p) \in Nat /\ Len(q) \in Nat
      /\ \A i \in 1..Len(p) : r[i] = p[i]
      /\ \A i \in 1..Len(q) : r[Len(p) + i] = q[i]
  BY ConcatIs
<1>2. \A i \in 1..Len(r) : \/ i \in 1..Len(p) /\ r[i] = p[i]
                           \/ i - Len(p) \in 1..Len(q) /\ r[i] = q[i - Len(p)]
  BY ConcatEntry
<1> HIDE DEF r
<1>3. ASSUME x \in Range(r) PROVE x \in Range(p) \/ x \in Range(q)
  <2>1. PICK i \in 1..Len(r) : x = r[i]
    BY <1>1, <1>3, RangeIs
  <2>2. QED
    BY <1>2, <2>1, RangeIs
<1>4. ASSUME x \in Range(p) PROVE x \in Range(r)
  <2>1. PICK i \in 1..Len(p) : x = p[i]
    BY <1>4, RangeIs
  <2>2. i \in 1..Len(r) /\ r[i] = x
    BY <1>1, <2>1
  <2>3. QED
    BY <1>1, <2>2, RangeIs
<1>5. ASSUME x \in Range(q) PROVE x \in Range(r)
  <2>1. PICK i \in 1..Len(q) : x = q[i]
    BY <1>5, RangeIs
  <2>2. Len(p) + i \in 1..Len(r) /\ r[Len(p) + i] = x
    BY <1>1, <2>1
  <2>3. QED
    BY <1>1, <2>2, RangeIs
<1>6. QED
  BY <1>3, <1>4, <1>5 DEF r

(* And is ordered if they are and all of the first comes before the second. *)
LEMMA ConcatPairwise ==
    ASSUME NEW S, NEW p \in Seq(S), NEW q \in Seq(S), NEW R,
           Pairwise(p, R), Pairwise(q, R),
           \A a \in Range(p), b \in Range(q) : <<a, b>> \in R
    PROVE  Pairwise(p \o q, R)
<1> DEFINE r == p \o q
<1>1. \A i \in 1..Len(r) : \/ i \in 1..Len(p) /\ r[i] = p[i]
                           \/ i - Len(p) \in 1..Len(q) /\ r[i] = q[i - Len(p)]
  BY ConcatEntry
<1>2. Len(p) \in Nat /\ Len(q) \in Nat /\ Len(r) = Len(p) + Len(q)
  BY ConcatIs
<1> HIDE DEF r
<1>3. ASSUME NEW i \in 1..Len(r), NEW j \in 1..Len(r), i < j
      PROVE  <<r[i], r[j]>> \in R
  <2>1. CASE i \in 1..Len(p) /\ r[i] = p[i] /\ j \in 1..Len(p) /\ r[j] = p[j]
    BY <1>3, <2>1 DEF Pairwise
  <2>2. CASE /\ i \in 1..Len(p) /\ r[i] = p[i]
             /\ j - Len(p) \in 1..Len(q) /\ r[j] = q[j - Len(p)]
    <3>1. r[i] \in Range(p) /\ r[j] \in Range(q)
      BY <2>2, RangeIs
    <3>2. QED
      BY <3>1
  <2>3. CASE /\ i - Len(p) \in 1..Len(q) /\ r[i] = q[i - Len(p)]
             /\ j - Len(p) \in 1..Len(q) /\ r[j] = q[j - Len(p)]
    <3>1. i - Len(p) < j - Len(p)
      BY <1>2, <1>3
    <3>2. QED
      BY <2>3, <3>1 DEF Pairwise
  <2>4. CASE i - Len(p) \in 1..Len(q) /\ j \in 1..Len(p)
    BY <1>2, <1>3, <2>4
  <2>5. QED
    BY <1>1, <2>1, <2>2, <2>3, <2>4
<1>4. Pairwise(r, R)
  BY <1>3 DEF Pairwise
<1>5. QED
  BY <1>4 DEF r

(***************************************************************************)
(* A function that solves the equation of FlattenSeq gives its result.     *)
(***************************************************************************)
Accumulates(F, seqs, n) ==
    /\ F[1] = seqs[1]
    /\ \A i \in 1..n : i # 1 => F[i] = F[i - 1] \o seqs[i]

LEMMA FlattenIs ==
    ASSUME NEW seqs, NEW n \in Pos, Len(seqs) = n,
           NEW F, Accumulates(F, seqs, n)
    PROVE  FlattenSeq(seqs) = F[n]
<1> DEFINE Flattens(H) ==
               H = [i \in 1..n |-> IF i = 1 THEN seqs[i] ELSE H[i - 1] \o seqs[i]]
           C == CHOOSE H : Flattens(H)
           G == [i \in 1..n |-> F[i]]
           T == {i \in 1..n : C[i] = F[i]}
<1> USE DEF Accumulates
<1>1. Flattens(G)
  <2>1. ASSUME NEW i \in 1..n
        PROVE  G[i] = IF i = 1 THEN seqs[i] ELSE G[i - 1] \o seqs[i]
    <3>1. CASE i = 1
      BY <3>1
    <3>2. CASE i # 1
      <4>1. i - 1 \in 1..n
        BY <3>2 DEF Pos
      <4>2. G[i - 1] = F[i - 1] /\ G[i] = F[i]
        BY <4>1
      <4>3. QED
        BY <3>2, <4>2
    <3>3. QED
      BY <3>1, <3>2
  <2>2. QED
    BY <2>1
<1>2. Flattens(C)
  BY <1>1
<1>3. FlattenSeq(seqs) = C[n]
  BY DEF FlattenSeq, Pos
<1> HIDE DEF C
<1>4. 1 \in 1..n /\ n \in 1..n /\ 1 \in T
  <2>1. 1 \in 1..n /\ n \in 1..n
    BY DEF Pos
  <2>2. C[1] = seqs[1]
    BY <1>2, <2>1
  <2>3. QED
    BY <2>1, <2>2
<1>5. ASSUME NEW i \in 1..n, i # 1, i - 1 \in T PROVE i \in T
  <2>1. C[i] = C[i - 1] \o seqs[i]
    BY <1>2, <1>5
  <2>2. QED
    BY <1>5, <2>1
<1>6. n \in T
  <2> HIDE DEF T
  <2>1. QED
    BY <1>4, <1>5, Induction
<1>7. QED
  BY <1>3, <1>6

FlattensBy(F, seqs, n, S) ==
    /\ F \in [1..n -> Seq(S)]
    /\ Accumulates(F, seqs, n)
    /\ FlattenSeq(seqs) = F[n]

(* The flattening of sequences is built up by one concatenation for each.   *)
LEMMA FlattenSteps ==
    ASSUME NEW S, NEW n \in Pos, NEW seqs \in [1..n -> Seq(S)]
    PROVE  \E F : FlattensBy(F, seqs, n, S)
<1> DEFINE V == Seq(S)
           G == [p \in (1..n) \X V |-> p[2] \o seqs[p[1]]]
<1>1. /\ 1 \in 1..n /\ Len(seqs) = n
      /\ \A i \in 1..n : i # 1 => i - 1 \in 1..n
  BY DEF Pos
<1>2. \A v \in V, w \in V : v \o w \in V
  OBVIOUS
<1>3. \A i \in 1..n : seqs[i] \in V
  OBVIOUS
<1> HIDE DEF V
<1>4. G \in [(1..n) \X V -> V]
  <2>1. \A p \in (1..n) \X V : p[2] \in V /\ p[1] \in 1..n
    OBVIOUS
  <2>2. \A p \in (1..n) \X V : p[2] \o seqs[p[1]] \in V
    BY <1>2, <1>3, <2>1
  <2>3. QED
    BY <2>2
<1>5. \A i \in 1..n : \A v \in V : G[<<i, v>>] = v \o seqs[i]
  OBVIOUS
<1> HIDE DEF G
<1>6. PICK F : /\ F \in [1..n -> V]
               /\ F[1] = seqs[1]
               /\ \A i \in 1..n : i # 1 => F[i] = G[<<i, F[i - 1]>>]
  <2>1. seqs[1] \in V
    BY <1>1, <1>3
  <2>2. \E F : Iterates(F, n, V, seqs[1], G)
    BY <1>4, <2>1, Recursion
  <2>3. QED
    BY <2>2 DEF Iterates
<1>7. ASSUME NEW i \in 1..n, i # 1 PROVE F[i] = F[i - 1] \o seqs[i]
  <2>1. F[i - 1] \in V
    BY <1>1, <1>6, <1>7
  <2>2. QED
    BY <1>5, <1>6, <1>7, <2>1
<1>8. FlattenSeq(seqs) = F[n]
  <2>1. Len(seqs) = n
    BY <1>1
  <2>2. Accumulates(F, seqs, n)
    BY <1>6, <1>7 DEF Accumulates
  <2>3. QED
    BY <2>1, <2>2, FlattenIs
<1>9. QED
  <2>1. FlattensBy(F, seqs, n, S)
    BY <1>6, <1>7, <1>8 DEF V, FlattensBy, Accumulates
  <2>2. QED
    BY <2>1

(* It holds what any of them holds.                                         *)
LEMMA FlattenRange ==
    ASSUME NEW S, NEW n \in Pos, NEW seqs \in [1..n -> Seq(S)]
    PROVE  /\ FlattenSeq(seqs) \in Seq(S)
           /\ \A x : x \in Range(FlattenSeq(seqs))
                        <=> \E i \in 1..n : x \in Range(seqs[i])
<1>1. PICK F : /\ F \in [1..n -> Seq(S)]
               /\ F[1] = seqs[1]
               /\ \A i \in 1..n : i # 1 => F[i] = F[i - 1] \o seqs[i]
               /\ FlattenSeq(seqs) = F[n]
  <2>1. \E F : FlattensBy(F, seqs, n, S)
    BY FlattenSteps
  <2>2. QED
    BY <2>1 DEF FlattensBy, Accumulates
<1>2. /\ 1 \in 1..n /\ n \in 1..n /\ n \in Nat
      /\ \A i \in 1..n : i # 1 => i - 1 \in 1..n
  BY DEF Pos
<1>3. ASSUME NEW x
      PROVE  x \in Range(F[n]) <=> \E i \in 1..n : x \in Range(seqs[i])
  <2> DEFINE T == {k \in 1..n : x \in Range(F[k])
                                   <=> \E i \in 1..k : x \in Range(seqs[i])}
  <2>1. 1 \in T
    <3>1. \A i \in 1..1 : i = 1
      OBVIOUS
    <3>2. QED
      BY <1>1, <1>2, <3>1
  <2>2. ASSUME NEW k \in 1..n, k # 1, k - 1 \in T PROVE k \in T
    <3>1. F[k] = F[k - 1] \o seqs[k] /\ F[k - 1] \in Seq(S) /\ seqs[k] \in Seq(S)
      BY <1>1, <1>2, <2>2
    <3>2. x \in Range(F[k]) <=> x \in Range(F[k - 1]) \/ x \in Range(seqs[k])
      BY <3>1, ConcatRange
    <3>3. \A i : i \in 1..k <=> i \in 1..k - 1 \/ i = k
      BY <2>2
    <3>4. x \in Range(F[k - 1]) <=> \E i \in 1..k - 1 : x \in Range(seqs[i])
      BY <2>2
    <3>5. QED
      BY <3>2, <3>3, <3>4
  <2>3. n \in T
    <3> HIDE DEF T
    <3>1. QED
      BY <1>2, <2>1, <2>2, Induction
  <2>4. QED
    BY <2>3
<1>4. F[n] \in Seq(S)
  BY <1>1, <1>2
<1>5. QED
  BY <1>1, <1>3, <1>4

(* And is ordered if each of them is, and their sequence is.                *)
LEMMA FlattenPairwise ==
    ASSUME NEW S, NEW n \in Pos, NEW seqs \in [1..n -> Seq(S)], NEW R,
           \A i \in 1..n : Pairwise(seqs[i], R),
           \A i, j \in 1..n : i < j =>
               \A a \in Range(seqs[i]), b \in Range(seqs[j]) : <<a, b>> \in R
    PROVE  Pairwise(FlattenSeq(seqs), R)
<1>1. PICK F : /\ F \in [1..n -> Seq(S)]
               /\ F[1] = seqs[1]
               /\ \A i \in 1..n : i # 1 => F[i] = F[i - 1] \o seqs[i]
               /\ FlattenSeq(seqs) = F[n]
  <2>1. \E F : FlattensBy(F, seqs, n, S)
    BY FlattenSteps
  <2>2. QED
    BY <2>1 DEF FlattensBy, Accumulates
<1>2. /\ 1 \in 1..n /\ n \in 1..n /\ n \in Nat
      /\ \A i \in 1..n : i # 1 => i - 1 \in 1..n
  BY DEF Pos
<1> DEFINE T == {k \in 1..n :
                    /\ Pairwise(F[k], R)
                    /\ \A x \in Range(F[k]) : \E i \in 1..k : x \in Range(seqs[i])}
<1>3. 1 \in T
  <2>1. 1 \in 1..1
    OBVIOUS
  <2>2. QED
    BY <1>1, <1>2, <2>1
<1>4. ASSUME NEW k \in 1..n, k # 1, k - 1 \in T PROVE k \in T
  <2>1. F[k] = F[k - 1] \o seqs[k] /\ F[k - 1] \in Seq(S) /\ seqs[k] \in Seq(S)
    BY <1>1, <1>2, <1>4
  <2>2. /\ Pairwise(F[k - 1], R)
        /\ \A x \in Range(F[k - 1]) : \E i \in 1..k - 1 : x \in Range(seqs[i])
    BY <1>4
  <2>3. \A i \in 1..k - 1 : i \in 1..n /\ i < k /\ i \in 1..k
    BY <1>2, <1>4
  <2>4. \A a \in Range(F[k - 1]), b \in Range(seqs[k]) : <<a, b>> \in R
    BY <1>4, <2>2, <2>3
  <2>5. Pairwise(F[k], R)
    BY <2>1, <2>2, <2>4, ConcatPairwise
  <2>6. ASSUME NEW x \in Range(F[k])
        PROVE  \E i \in 1..k : x \in Range(seqs[i])
    <3>1. x \in Range(F[k - 1]) \/ x \in Range(seqs[k])
      BY <2>1, <2>6, ConcatRange
    <3>2. k \in 1..k
      BY <1>4
    <3>3. QED
      BY <2>2, <2>3, <3>1, <3>2
  <2>7. QED
    BY <2>5, <2>6
<1>5. n \in T
  <2> HIDE DEF T
  <2>1. QED
    BY <1>2, <1>3, <1>4, Induction
<1>6. QED
  BY <1>1, <1>5

-----------------------------------------------------------------------------
(* Increasing sequences of numbers.                                        *)

Less == {p \in Nat \X Nat : p[1] < p[2]}

(***************************************************************************)
(* What Ascending returns: the numbers of the set, in order.               *)
(***************************************************************************)
LEMMA AscendingIs ==
    ASSUME NEW n \in Pos, NEW S
    PROVE  /\ Ascending(n, S) \in Seq(1..n)
           /\ \A x : x \in Range(Ascending(n, S)) <=> x \in 1..n /\ x \in S
           /\ Pairwise(Ascending(n, S), Less)
<1> DEFINE seqs == [i \in 1..n |-> IF i \in S THEN <<i>> ELSE <<>>]
<1>1. seqs \in [1..n -> Seq(1..n)]
  <2>1. ASSUME NEW i \in 1..n
        PROVE  (IF i \in S THEN <<i>> ELSE <<>>) \in Seq(1..n)
    <3>1. <<i>> \in Seq(1..n)
      OBVIOUS
    <3>2. <<>> \in Seq(1..n)
      OBVIOUS
    <3>3. QED
      BY <3>1, <3>2
  <2>2. QED
    BY <2>1
<1>2. ASSUME NEW i \in 1..n
      PROVE  /\ \A x : x \in Range(seqs[i]) <=> x = i /\ i \in S
             /\ Pairwise(seqs[i], Less)
  <2> DEFINE q == seqs[i]
  <2>1. q \in Seq(1..n)
    BY <1>1
  <2>2. CASE i \in S
    <3>1. Len(q) = 1 /\ q[1] = i
      BY <2>2
    <3> HIDE DEF q, seqs
    <3>2. \A x : x \in Range(q) <=> \E j \in 1..Len(q) : x = q[j]
      BY <2>1, RangeIs
    <3>3. \A j : j \in 1..Len(q) <=> j = 1
      BY <3>1
    <3>4. \A x : x \in Range(q) <=> x = i
      BY <3>1, <3>2, <3>3
    <3>5. Pairwise(q, Less)
      BY <3>1 DEF Pairwise
    <3>6. QED
      BY <2>2, <3>4, <3>5 DEF q
  <2>3. CASE i \notin S
    <3>1. Len(q) = 0
      BY <2>3
    <3> HIDE DEF q, seqs
    <3>2. \A x : x \in Range(q) <=> \E j \in 1..Len(q) : x = q[j]
      BY <2>1, RangeIs
    <3>3. \A j : j \notin 1..Len(q)
      BY <3>1
    <3>4. \A x : x \notin Range(q)
      BY <3>2, <3>3
    <3>5. Pairwise(q, Less)
      BY <3>1 DEF Pairwise
    <3>6. QED
      BY <2>3, <3>4, <3>5 DEF q
  <2>4. QED
    BY <2>2, <2>3
<1>3. Ascending(n, S) = FlattenSeq(seqs)
  BY DEF Ascending
<1> HIDE DEF seqs
<1>4. \A i, j \in 1..n : i < j =>
          \A a \in Range(seqs[i]), b \in Range(seqs[j]) : <<a, b>> \in Less
  <2>1. ASSUME NEW i \in 1..n, NEW j \in 1..n, i < j,
               NEW a \in Range(seqs[i]), NEW b \in Range(seqs[j])
        PROVE  <<a, b>> \in Less
    <3>1. a = i /\ b = j
      BY <1>2
    <3>2. QED
      BY <2>1, <3>1 DEF Less
  <2>2. QED
    BY <2>1
<1>5. \A i \in 1..n : Pairwise(seqs[i], Less)
  BY <1>2
<1>6. Pairwise(FlattenSeq(seqs), Less)
  BY <1>1, <1>4, <1>5, FlattenPairwise
<1>7. /\ FlattenSeq(seqs) \in Seq(1..n)
      /\ \A x : x \in Range(FlattenSeq(seqs)) <=> \E i \in 1..n : x \in Range(seqs[i])
  BY <1>1, FlattenRange
<1>8. \A x : x \in Range(FlattenSeq(seqs)) <=> x \in 1..n /\ x \in S
  <2>1. ASSUME NEW x
        PROVE  x \in Range(FlattenSeq(seqs)) <=> x \in 1..n /\ x \in S
    <3>1. x \in Range(FlattenSeq(seqs)) <=> \E i \in 1..n : x \in Range(seqs[i])
      BY <1>7
    <3>2. \A i \in 1..n : x \in Range(seqs[i]) <=> x = i /\ i \in S
      BY <1>2
    <3>3. QED
      BY <3>1, <3>2
  <2>2. QED
    BY <2>1
<1>9. QED
  BY <1>3, <1>6, <1>7, <1>8

(* A positive factor keeps the order of two numbers.                        *)
LEMMA ProductOrder ==
    ASSUME NEW c \in Pos, NEW a \in Int, NEW b \in Int
    PROVE  /\ c * a \in Int /\ c * b \in Int
           /\ a < b <=> c * a < c * b
           /\ a = b <=> c * a = c * b
  BY SMT DEF Pos

(***************************************************************************)
(* The only increasing sequence of the first m multiples of c is that of   *)
(* c, 2 c, ..., m c.                                                       *)
(***************************************************************************)
LEMMA MultiplesInOrder ==
    ASSUME NEW c \in Pos, NEW m \in Nat, NEW q \in Seq(Nat), Pairwise(q, Less),
           \A x : x \in Range(q) <=> \E k \in 1..m : x = c * k
    PROVE  Len(q) = m /\ \A k \in 1..m : q[k] = c * k
<1>1. /\ Len(q) \in Nat /\ \A i \in 1..Len(q) : q[i] \in Nat
      /\ \A i, j \in 1..Len(q) : i < j => q[i] < q[j]
  <2>1. ASSUME NEW i \in 1..Len(q), NEW j \in 1..Len(q), i < j
        PROVE  q[i] < q[j]
    <3>1. <<q[i], q[j]>> \in Less
      BY <2>1 DEF Pairwise
    <3>2. QED
      BY <3>1 DEF Less
  <2>2. \A i \in 1..Len(q) : q[i] \in Nat
    OBVIOUS
  <2>3. Len(q) \in Nat
    OBVIOUS
  <2>4. QED
    BY <2>1, <2>2, <2>3
<1>2. \A i \in 1..Len(q) : \E k \in 1..m : q[i] = c * k
  <2>1. \A i \in 1..Len(q) : q[i] \in Range(q)
    BY RangeIs
  <2>2. QED
    BY <2>1
<1>3. \A k \in 1..m : \E i \in 1..Len(q) : q[i] = c * k
  <2>1. \A k \in 1..m : c * k \in Range(q)
    OBVIOUS
  <2>2. QED
    BY <2>1, RangeIs
<1> DEFINE T == {k \in 1..Len(q) : k <= m /\ q[k] = c * k}
<1>4. ASSUME NEW k \in 1..Len(q), k = 1 \/ k - 1 \in T
      PROVE  k \in T
  <2>1. PICK j \in 1..m : q[k] = c * j
    BY <1>2
  <2>2. k <= j
    <3>1. CASE k = 1
      BY <3>1
    <3>2. CASE k # 1
      <4>1. k - 1 \in 1..Len(q) /\ k - 1 < k /\ k - 1 \in T
        BY <1>4, <3>2
      <4>2. q[k - 1] < q[k] /\ q[k - 1] = c * (k - 1)
        BY <1>1, <4>1
      <4>3. c * (k - 1) < c * j /\ k - 1 \in Int /\ j \in Int /\ k \in Int
        BY <2>1, <4>2
      <4>4. k - 1 < j
        BY <4>3, ProductOrder
      <4>5. QED
        BY <4>3, <4>4
    <3>3. QED
      BY <3>1, <3>2
  <2>3. k \in 1..m /\ k \in Int /\ j \in Int
    BY <2>2
  <2>4. PICK i \in 1..Len(q) : q[i] = c * k
    BY <1>3, <2>3
  <2>5. ~(i < k)
    <3>1. SUFFICES ASSUME i < k PROVE FALSE
      OBVIOUS
    <3>2. k - 1 \in T /\ k - 1 \in 1..Len(q) /\ k - 1 \in Int
      BY <1>4, <3>1
    <3>3. q[k - 1] = c * (k - 1)
      BY <3>2
    <3>4. i = k - 1 \/ q[i] < q[k - 1]
      BY <1>1, <3>1, <3>2
    <3>5. c * (k - 1) < c * k
      BY <2>3, <3>2, ProductOrder
    <3>6. QED
      BY <2>3, <2>4, <3>2, <3>3, <3>4, <3>5, ProductOrder
  <2>6. ~(k < i)
    <3>1. SUFFICES ASSUME k < i PROVE FALSE
      OBVIOUS
    <3>2. c * j < c * k
      BY <1>1, <2>1, <2>4, <3>1
    <3>3. j < k
      BY <2>3, <3>2, ProductOrder
    <3>4. QED
      BY <2>2, <2>3, <3>3
  <2>7. i = k
    BY <2>3, <2>5, <2>6
  <2>8. QED
    BY <2>3, <2>4, <2>7
<1>5. \A k \in 1..Len(q) : k \in T
  <2>1. CASE Len(q) = 0
    BY <2>1
  <2>2. CASE Len(q) # 0
    <3>1. Len(q) \in Pos /\ 1 \in 1..Len(q)
      BY <1>1, <2>2 DEF Pos
    <3>2. 1 \in T
      BY <1>4, <3>1
    <3>3. \A k \in 1..Len(q) : k # 1 /\ k - 1 \in T => k \in T
      BY <1>4
    <3> HIDE DEF T
    <3>4. QED
      BY <3>1, <3>2, <3>3, Induction
  <2>3. QED
    BY <2>1, <2>2
<1>6. ~(m < Len(q))
  <2>1. SUFFICES ASSUME m < Len(q) PROVE FALSE
    OBVIOUS
  <2>2. Len(q) \in 1..Len(q)
    BY <1>1, <2>1
  <2>3. Len(q) <= m
    BY <1>5, <2>2
  <2>4. QED
    BY <1>1, <2>1, <2>3
<1>7. ~(Len(q) < m)
  <2>1. SUFFICES ASSUME Len(q) < m PROVE FALSE
    OBVIOUS
  <2>2. m \in 1..m /\ m \in Int
    BY <1>1, <2>1
  <2>3. PICK i \in 1..Len(q) : q[i] = c * m
    BY <1>3, <2>2
  <2>4. q[i] = c * i /\ i \in Int
    BY <1>5
  <2>5. i = m
    BY <2>2, <2>3, <2>4, ProductOrder
  <2>6. QED
    BY <1>1, <2>1, <2>5
<1>8. Len(q) = m
  BY <1>1, <1>6, <1>7
<1>9. QED
  BY <1>5, <1>8

-----------------------------------------------------------------------------
(* Divisors and multiples of numbers.                                      *)

(* A divisor and what it divides.                                           *)
LEMMA DivisionIs ==
    ASSUME NEW a \in Pos, NEW b \in Pos, Divides(a, b)
    PROVE  b \div a \in Pos /\ b = (b \div a) * a /\ a <= b
<1>1. b % a = 0 /\ b \in Nat /\ b > 0 /\ a \in Nat /\ a > 0
  BY DEF Divides, Pos
<1>2. b \div a \in Int /\ b = (b \div a) * a
  BY <1>1
<1>3. \A k \in Int : b = k * a => k > 0 /\ a <= b
  BY <1>1
<1>4. b \div a > 0 /\ a <= b
  BY <1>2, <1>3
<1>5. QED
  BY <1>2, <1>4 DEF Pos

(* Each factor divides a product.                                           *)
LEMMA ProductDivides ==
    ASSUME NEW a \in Pos, NEW k \in Pos
    PROVE  k * a \in Pos /\ Divides(a, k * a) /\ (k * a) \div a = k
<1>1. a \in Nat /\ a > 0 /\ k \in Nat /\ k > 0
  BY DEF Pos
<1>2. k * a \in Nat /\ k * a > 0
  BY <1>1
<1>3. (k * a) % a = 0 /\ (k * a) \div a = k
  BY <1>1
<1>4. QED
  BY <1>2, <1>3 DEF Pos, Divides

(* A positive factor cancels.                                               *)
LEMMA Cancel ==
    ASSUME NEW a \in Int, NEW b \in Int, NEW c \in Pos, a * c = b * c
    PROVE  a = b
  BY SMT DEF Pos

(* Gcd returns the greatest of the common divisors.                         *)
LEMMA GcdIs ==
    ASSUME NEW a \in Pos, NEW b \in Pos
    PROVE  /\ Gcd(a, b) \in Pos /\ Divides(Gcd(a, b), a) /\ Divides(Gcd(a, b), b)
           /\ \A g \in Pos : Divides(g, a) /\ Divides(g, b) => g <= Gcd(a, b)
<1> DEFINE S == {g \in 1..a : Divides(g, a) /\ Divides(g, b)}
<1>1. S \in SUBSET Nat /\ a \in Nat /\ \A x \in S : x <= a
  BY DEF Pos
<1>2. 1 \in S
  BY DEF Pos, Divides
<1>3. Gcd(a, b) = Max(S)
  BY DEF Gcd
<1>4. Max(S) \in S /\ \A x \in S : x <= Max(S)
  <2> HIDE DEF S
  <2>1. QED
    BY <1>1, <1>2, MaxIs
<1>5. \A g \in Pos : Divides(g, a) /\ Divides(g, b) => g \in S
  <2>1. ASSUME NEW g \in Pos, Divides(g, a), Divides(g, b) PROVE g \in S
    <3>1. g <= a
      BY <2>1, DivisionIs
    <3>2. g \in 1..a
      BY <3>1 DEF Pos
    <3>3. QED
      BY <2>1, <3>2
  <2>2. QED
    BY <2>1
<1>6. \A g \in S : g \in Pos /\ Divides(g, a) /\ Divides(g, b)
  BY DEF Pos
<1> HIDE DEF S
<1>7. QED
  BY <1>3, <1>4, <1>5, <1>6

(* That of a number and a multiple of it is the number.                     *)
LEMMA GcdOfMultiple ==
    ASSUME NEW k \in Pos, NEW d \in Pos
    PROVE  Gcd(k * d, d) = d
<1>1. k * d \in Pos /\ Divides(d, k * d) /\ Divides(d, d)
  <2>1. 1 \in Pos /\ 1 * d = d
    BY DEF Pos
  <2>2. QED
    BY <2>1, ProductDivides
<1>2. d <= Gcd(k * d, d) /\ Gcd(k * d, d) \in Pos /\ Divides(Gcd(k * d, d), d)
  BY <1>1, GcdIs
<1>3. Gcd(k * d, d) <= d
  BY <1>2, DivisionIs
<1>4. QED
  BY <1>2, <1>3 DEF Pos

(***************************************************************************)
(* What is left of two numbers without their greatest common divisor.      *)
(***************************************************************************)
LEMMA GcdLeaves ==
    ASSUME NEW a \in Pos, NEW b \in Pos
    PROVE  /\ Gcd(a, b) \in Pos
           /\ a \div Gcd(a, b) \in Pos /\ a = (a \div Gcd(a, b)) * Gcd(a, b)
           /\ b \div Gcd(a, b) \in Pos /\ b = (b \div Gcd(a, b)) * Gcd(a, b)
<1>1. Gcd(a, b) \in Pos /\ Divides(Gcd(a, b), a) /\ Divides(Gcd(a, b), b)
  BY GcdIs
<1>2. QED
  BY <1>1, DivisionIs

(* The product of positive numbers is positive.                             *)
LEMMA ProductPos ==
    ASSUME NEW a \in Pos, NEW b \in Pos
    PROVE  a * b \in Pos
<1>1. a \in Nat /\ a > 0 /\ b \in Nat /\ b > 0
  BY DEF Pos
<1>2. a * b \in Nat /\ a * b > 0
  BY <1>1
<1>3. QED
  BY <1>2 DEF Pos

(* Lcm returns a common multiple.                                           *)
LEMMA LcmIs ==
    ASSUME NEW a \in Pos, NEW b \in Pos
    PROVE  /\ Lcm(a, b) \in Pos
           /\ \E k \in Pos : Lcm(a, b) = k * a
           /\ \E k \in Pos : Lcm(a, b) = k * b
<1> DEFINE g == Gcd(a, b)
           i == a \div g
           k == b \div g
<1>1. g \in Pos /\ i \in Pos /\ a = i * g /\ k \in Pos /\ b = k * g
  BY GcdLeaves
<1>2. Lcm(a, b) = i * b
  BY DEF Lcm
<1> HIDE DEF g, i, k
<1>3. i * b \in Pos
  BY <1>1, ProductPos
<1>4. i * b = k * a
  <2>1. i * (k * g) = k * (i * g)
    BY <1>1 DEF Pos
  <2>2. QED
    BY <1>1, <2>1
<1>5. QED
  BY <1>1, <1>2, <1>3, <1>4

-----------------------------------------------------------------------------
(* Rational numbers.                                                       *)

IsRational(p) == p.n \in Pos /\ p.d \in Pos
(* p is k times q. *)
IsTimes(p, k, q) == p.n * q.d = k * (q.n * p.d)

IsReduction(r, n, d) ==
    /\ IsRational(r)
    /\ \E g \in Pos : n = r.n * g /\ d = r.d * g

(* Reduced cancels a common factor, and nothing else.                       *)
LEMMA ReducedIs ==
    ASSUME NEW n \in Pos, NEW d \in Pos
    PROVE  IsReduction(Reduced(n, d), n, d)
<1>1. /\ Gcd(n, d) \in Pos
      /\ n \div Gcd(n, d) \in Pos /\ n = (n \div Gcd(n, d)) * Gcd(n, d)
      /\ d \div Gcd(n, d) \in Pos /\ d = (d \div Gcd(n, d)) * Gcd(n, d)
  BY GcdLeaves
<1>2. /\ Reduced(n, d).n = n \div Gcd(n, d)
      /\ Reduced(n, d).d = d \div Gcd(n, d)
  BY DEF Reduced, Rational
<1>3. QED
  BY <1>1, <1>2 DEF IsRational, IsReduction

(* It leaves a whole number of a fraction that is one.                      *)
LEMMA ReducedMultiple ==
    ASSUME NEW k \in Pos, NEW d \in Pos
    PROVE  Reduced(k * d, d) = Rational(k, 1)
<1>1. Gcd(k * d, d) = d
  BY GcdOfMultiple
<1>2. (k * d) \div d = k
  BY ProductDivides
<1>3. d \div d = 1
  <2>1. 1 \in Pos /\ 1 * d = d
    BY DEF Pos
  <2>2. QED
    BY <2>1, ProductDivides
<1>4. QED
  BY <1>1, <1>2, <1>3 DEF Reduced

(* The quotient of a multiple is a whole number.                            *)
LEMMA QuotientIs ==
    ASSUME NEW p, NEW q, IsRational(p), IsRational(q),
           NEW k \in Pos, IsTimes(p, k, q)
    PROVE  Quotient(p, q) = Rational(k, 1)
<1>1. q.n * p.d \in Pos
  BY ProductPos DEF IsRational
<1>2. p.n * q.d = k * (q.n * p.d) /\ p.d * q.n = q.n * p.d
  BY DEF IsTimes, IsRational, Pos
<1>3. QED
  BY <1>1, <1>2, ReducedMultiple DEF Quotient

(* A multiple of a multiple is a multiple.                                  *)
LEMMA TimesTransitive ==
    ASSUME NEW p, NEW q, NEW r, IsRational(p), IsRational(q), IsRational(r),
           NEW k \in Pos, NEW l \in Pos, IsTimes(p, k, q), IsTimes(q, l, r)
    PROVE  k * l \in Pos /\ IsTimes(p, k * l, r)
<1>1. PICK pn, pd, qn, qd, rn, rd \in Pos :
         /\ pn = p.n /\ pd = p.d /\ qn = q.n /\ qd = q.d /\ rn = r.n /\ rd = r.d
  BY DEF IsRational
<1>2. pn * qd = k * (qn * pd) /\ qn * rd = l * (rn * qd)
  BY <1>1 DEF IsTimes
<1>3. /\ pn \in Int /\ pd \in Int /\ qn \in Int /\ qd \in Int
      /\ rn \in Int /\ rd \in Int /\ k \in Int /\ l \in Int
  BY DEF Pos
<1>4. (pn * rd) * (qn * qd) = ((k * l) * (rn * pd)) * (qn * qd)
  <2>1. (pn * rd) * (qn * qd) = (pn * qd) * (qn * rd)
    BY <1>3
  <2>2. (pn * qd) * (qn * rd) = (k * (qn * pd)) * (l * (rn * qd))
    BY <1>2
  <2>3. (k * (qn * pd)) * (l * (rn * qd)) = ((k * l) * (rn * pd)) * (qn * qd)
    BY <1>3
  <2>4. QED
    BY <2>1, <2>2, <2>3
<1>5. qn * qd \in Pos /\ pn * rd \in Int /\ (k * l) * (rn * pd) \in Int
  <2>1. qn * qd \in Pos
    BY ProductPos
  <2>2. QED
    BY <1>3, <2>1
<1>6. pn * rd = (k * l) * (rn * pd)
  BY <1>4, <1>5, Cancel
<1>7. k * l \in Pos
  BY ProductPos
<1>8. QED
  BY <1>1, <1>6, <1>7 DEF IsTimes

Scaled(a, b, r, t, x, y, g) == a = x * (r * g) /\ t * g = y * b
CrossTimes(a, b, r, t, k) == a * t = k * (r * b)

(* Common factors of the parts of two fractions make one a multiple of the other. *)
LEMMA ScaledTimes ==
    ASSUME NEW a \in Pos, NEW b \in Pos, NEW r \in Pos, NEW t \in Pos,
           NEW x \in Pos, NEW y \in Pos, NEW g \in Pos,
           Scaled(a, b, r, t, x, y, g)
    PROVE  \E k \in Pos : CrossTimes(a, b, r, t, k)
<1> USE DEF Scaled
<1>1. /\ a \in Int /\ b \in Int /\ r \in Int /\ t \in Int
      /\ x \in Int /\ y \in Int /\ g \in Int
  BY DEF Pos
<1>2. (a * t) * g = ((x * y) * (r * b)) * g
  <2>1. (a * t) * g = a * (t * g)
    BY <1>1
  <2>2. a * (t * g) = (x * (r * g)) * (y * b)
    OBVIOUS
  <2>3. (x * (r * g)) * (y * b) = ((x * y) * (r * b)) * g
    BY <1>1
  <2>4. QED
    BY <2>1, <2>2, <2>3
<1>3. a * t \in Int /\ (x * y) * (r * b) \in Int
  BY <1>1
<1>4. a * t = (x * y) * (r * b)
  BY <1>2, <1>3, Cancel
<1>5. QED
  BY <1>4, ProductPos DEF CrossTimes

(***************************************************************************)
(* Both rational numbers are multiples of their greatest common divisor.   *)
(***************************************************************************)
LEMMA RationalGcdDivides ==
    ASSUME NEW a, NEW b, IsRational(a), IsRational(b)
    PROVE  /\ IsRational(RationalGcd(a, b))
           /\ \E k \in Pos : IsTimes(a, k, RationalGcd(a, b))
           /\ \E k \in Pos : IsTimes(b, k, RationalGcd(a, b))
<1> DEFINE n == Gcd(a.n, b.n)
           d == Lcm(a.d, b.d)
           r == RationalGcd(a, b)
<1>1. a.n \in Pos /\ a.d \in Pos /\ b.n \in Pos /\ b.d \in Pos
  BY DEF IsRational
<1>2. PICK x, z \in Pos : n \in Pos /\ a.n = x * n /\ b.n = z * n
  BY <1>1, GcdLeaves
<1>3. PICK y, w \in Pos : d \in Pos /\ d = y * a.d /\ d = w * b.d
  BY <1>1, LcmIs
<1>4. r = Reduced(n, d)
  BY DEF RationalGcd
<1> HIDE DEF n, d, r
<1>5. IsRational(r) /\ \E g \in Pos : n = r.n * g /\ d = r.d * g
  <2>1. n \in Pos /\ d \in Pos
    BY <1>2, <1>3
  <2>2. IsReduction(Reduced(n, d), n, d)
    BY <2>1, ReducedIs
  <2>3. QED
    BY <1>4, <2>2 DEF IsReduction
<1>6. PICK g \in Pos : n = r.n * g /\ d = r.d * g
  BY <1>5
<1>7. r.n \in Pos /\ r.d \in Pos
  BY <1>5 DEF IsRational
<1>8. \E k \in Pos : IsTimes(a, k, r)
  <2>1. Scaled(a.n, a.d, r.n, r.d, x, y, g)
    BY <1>2, <1>3, <1>6 DEF Scaled
  <2>2. \E k \in Pos : CrossTimes(a.n, a.d, r.n, r.d, k)
    BY <1>1, <1>7, <2>1, ScaledTimes
  <2>3. QED
    BY <2>2 DEF IsTimes, CrossTimes
<1>9. \E k \in Pos : IsTimes(b, k, r)
  <2>1. Scaled(b.n, b.d, r.n, r.d, z, w, g)
    BY <1>2, <1>3, <1>6 DEF Scaled
  <2>2. \E k \in Pos : CrossTimes(b.n, b.d, r.n, r.d, k)
    BY <1>1, <1>7, <2>1, ScaledTimes
  <2>3. QED
    BY <2>2 DEF IsTimes, CrossTimes
<1>10. QED
  BY <1>5, <1>8, <1>9 DEF r

(***************************************************************************)
(* And their least common multiple is one of both.                         *)
(***************************************************************************)
LEMMA RationalLcmIsMultiple ==
    ASSUME NEW a, NEW b, IsRational(a), IsRational(b)
    PROVE  /\ IsRational(RationalLcm(a, b))
           /\ \E k \in Pos : IsTimes(RationalLcm(a, b), k, a)
           /\ \E k \in Pos : IsTimes(RationalLcm(a, b), k, b)
<1> DEFINE n == Lcm(a.n, b.n)
           d == Gcd(a.d, b.d)
           r == RationalLcm(a, b)
<1>1. a.n \in Pos /\ a.d \in Pos /\ b.n \in Pos /\ b.d \in Pos
  BY DEF IsRational
<1>2. PICK x, z \in Pos : d \in Pos /\ a.d = x * d /\ b.d = z * d
  BY <1>1, GcdLeaves
<1>3. PICK y, w \in Pos : n \in Pos /\ n = y * a.n /\ n = w * b.n
  BY <1>1, LcmIs
<1>4. r = Reduced(n, d)
  BY DEF RationalLcm
<1> HIDE DEF n, d, r
<1>5. IsRational(r) /\ \E g \in Pos : n = r.n * g /\ d = r.d * g
  <2>1. n \in Pos /\ d \in Pos
    BY <1>2, <1>3
  <2>2. IsReduction(Reduced(n, d), n, d)
    BY <2>1, ReducedIs
  <2>3. QED
    BY <1>4, <2>2 DEF IsReduction
<1>6. PICK g \in Pos : n = r.n * g /\ d = r.d * g
  BY <1>5
<1>7. r.n \in Pos /\ r.d \in Pos
  BY <1>5 DEF IsRational
<1>8. \E k \in Pos : IsTimes(r, k, a)
  <2>1. Scaled(a.d, a.n, r.d, r.n, x, y, g)
    BY <1>2, <1>3, <1>6 DEF Scaled
  <2>2. \E k \in Pos : CrossTimes(a.d, a.n, r.d, r.n, k)
    BY <1>1, <1>7, <2>1, ScaledTimes
  <2>3. a.d * r.n = r.n * a.d /\ r.d * a.n = a.n * r.d
    BY <1>1, <1>7 DEF Pos
  <2>4. QED
    BY <2>2, <2>3 DEF IsTimes, CrossTimes
<1>9. \E k \in Pos : IsTimes(r, k, b)
  <2>1. Scaled(b.d, b.n, r.d, r.n, z, w, g)
    BY <1>2, <1>3, <1>6 DEF Scaled
  <2>2. \E k \in Pos : CrossTimes(b.d, b.n, r.d, r.n, k)
    BY <1>1, <1>7, <2>1, ScaledTimes
  <2>3. b.d * r.n = r.n * b.d /\ r.d * b.n = b.n * r.d
    BY <1>1, <1>7 DEF Pos
  <2>4. QED
    BY <2>2, <2>3 DEF IsTimes, CrossTimes
<1>10. QED
  BY <1>5, <1>8, <1>9 DEF r

(***************************************************************************)
(* The least common multiple of a rational number and 1 is a whole number. *)
(***************************************************************************)
LEMMA WholeLcm ==
    ASSUME NEW a, IsRational(a)
    PROVE  RationalLcm(a, Rational(1, 1)).d = 1
<1> DEFINE n == Lcm(a.n, 1)
<1>1. a.n \in Pos /\ a.d \in Pos /\ 1 \in Pos
  BY DEF IsRational, Pos
<1>2. n \in Pos
  BY <1>1, LcmIs
<1> HIDE DEF n
<1>3. n * 1 = n /\ a.d * 1 = a.d
  BY <1>1, <1>2 DEF Pos
<1>4. Gcd(a.d, 1) = 1
  BY <1>1, <1>3, GcdOfMultiple
<1>5. Reduced(n, 1) = Rational(n, 1)
  BY <1>1, <1>2, <1>3, ReducedMultiple
<1>6. Rational(1, 1).n = 1 /\ Rational(1, 1).d = 1 /\ Rational(n, 1).d = 1
  BY DEF Rational
<1>7. RationalLcm(a, Rational(1, 1)) = Reduced(n, 1)
  BY <1>4, <1>6 DEF RationalLcm, n
<1>8. QED
  BY <1>5, <1>6, <1>7

-----------------------------------------------------------------------------
(* The grid and the hyper-period.                                          *)

PositiveRationals == [n : Pos, d : Pos]

(* Both operations return fractions of positive numbers.                    *)
LEMMA RationalTypes ==
    /\ \A a, b : IsRational(a) /\ IsRational(b) =>
           RationalGcd(a, b) \in PositiveRationals /\ RationalLcm(a, b) \in PositiveRationals
    /\ \A r \in PositiveRationals : IsRational(r)
<1>1. ASSUME NEW a, NEW b, IsRational(a), IsRational(b)
      PROVE  /\ RationalGcd(a, b) \in PositiveRationals
             /\ RationalLcm(a, b) \in PositiveRationals
  <2>1. IsRational(RationalGcd(a, b)) /\ IsRational(RationalLcm(a, b))
    BY <1>1, RationalGcdDivides, RationalLcmIsMultiple
  <2>2. \E x, y : RationalGcd(a, b) = Rational(x, y)
    BY DEF RationalGcd, Reduced
  <2>3. \E x, y : RationalLcm(a, b) = Rational(x, y)
    BY DEF RationalLcm, Reduced
  <2>4. \A x, y : IsRational(Rational(x, y)) => Rational(x, y) \in PositiveRationals
    BY DEF IsRational, Rational, PositiveRationals
  <2>5. QED
    BY <2>1, <2>2, <2>3, <2>4
<1>2. \A r \in PositiveRationals : IsRational(r)
  BY DEF IsRational, PositiveRationals
<1>3. QED
  BY <1>1, <1>2

PeriodsType == period \in [Streams -> Periods]

(* The periods are such fractions.                                          *)
LEMMA PeriodIsRational ==
    ASSUME PeriodsType, NEW s \in Streams
    PROVE  IsRational(period[s])
<1>1. period[s] \in Periods
  BY DEF PeriodsType
<1>2. QED
  BY <1>1, ScheduleAssumption DEF IsRational, Pos

(* The recursive function of ExtendPeriod exists and solves its equation.   *)
LEMMA GcdUpToIs ==
    ASSUME PeriodsType
    PROVE  /\ GcdUpTo \in [Streams -> PositiveRationals]
           /\ GcdUpTo[1] = RationalGcd(period[1], period[1])
           /\ \A s \in Streams :
                 s # 1 => GcdUpTo[s] = RationalGcd(GcdUpTo[s - 1], period[s])
<1> DEFINE G == [p \in Streams \X PositiveRationals |->
                    RationalGcd(p[2], period[p[1]])]
           Solves(f) == f = [s \in Streams |->
                RationalGcd(IF s = 1 THEN period[1] ELSE f[s - 1], period[s])]
<1>1. /\ Streams = 1..NumStreams /\ NumStreams \in Pos /\ 1 \in Streams
      /\ \A s \in Streams : s # 1 => s - 1 \in Streams
  BY ScheduleAssumption DEF Streams, Pos
<1>2. G \in [Streams \X PositiveRationals -> PositiveRationals]
  <2>1. ASSUME NEW p \in Streams \X PositiveRationals
        PROVE  RationalGcd(p[2], period[p[1]]) \in PositiveRationals
    <3>1. p[1] \in Streams /\ p[2] \in PositiveRationals
      OBVIOUS
    <3>2. QED
      BY <3>1, PeriodIsRational, RationalTypes
  <2>2. QED
    BY <2>1
<1>3. \A s \in Streams : \A r \in PositiveRationals :
          G[<<s, r>>] = RationalGcd(r, period[s])
  OBVIOUS
<1>4. RationalGcd(period[1], period[1]) \in PositiveRationals
  BY <1>1, PeriodIsRational, RationalTypes
<1> HIDE DEF G
<1>5. PICK f : Iterates(f, NumStreams, PositiveRationals,
                        RationalGcd(period[1], period[1]), G)
  BY <1>1, <1>2, <1>4, Recursion
<1>6. /\ f \in [Streams -> PositiveRationals]
      /\ f[1] = RationalGcd(period[1], period[1])
      /\ \A s \in Streams : s # 1 => f[s] = RationalGcd(f[s - 1], period[s])
  <2>1. /\ f \in [Streams -> PositiveRationals]
        /\ f[1] = RationalGcd(period[1], period[1])
        /\ \A s \in Streams : s # 1 => f[s] = G[<<s, f[s - 1]>>]
    BY <1>1, <1>5 DEF Iterates
  <2>2. \A s \in Streams : s # 1 => f[s - 1] \in PositiveRationals
    BY <1>1, <2>1
  <2>3. QED
    BY <1>3, <2>1, <2>2
<1>7. Solves(f)
  BY <1>6
<1>8. GcdUpTo = CHOOSE g : Solves(g)
  BY DEF GcdUpTo
<1>9. Solves(GcdUpTo)
  <2> HIDE DEF Solves
  <2>1. QED
    BY <1>7, <1>8
<1>10. \A s \in Streams : GcdUpTo[s] =
           RationalGcd(IF s = 1 THEN period[1] ELSE GcdUpTo[s - 1], period[s])
  BY <1>9
<1>11. GcdUpTo = [s \in Streams |-> GcdUpTo[s]]
  BY <1>9
<1> DEFINE T == {s \in Streams : GcdUpTo[s] = f[s]}
<1>12. 1 \in T
  BY <1>1, <1>6, <1>10
<1>13. ASSUME NEW s \in Streams, s # 1, s - 1 \in T PROVE s \in T
  BY <1>6, <1>10, <1>13
<1>14. \A s \in Streams : s \in T
  <2> HIDE DEF T
  <2>1. QED
    BY <1>1, <1>12, <1>13, Induction
<1>15. \A s \in Streams : GcdUpTo[s] \in PositiveRationals
  BY <1>6, <1>14
<1>16. GcdUpTo \in [Streams -> PositiveRationals]
  BY <1>11, <1>15
<1>17. QED
  BY <1>1, <1>10, <1>16

(* And that of HyperPeriod.                                                 *)
LEMMA LcmUpToIs ==
    ASSUME PeriodsType
    PROVE  /\ LcmUpTo \in [Streams -> PositiveRationals]
           /\ LcmUpTo[1] = RationalLcm(period[1], period[1])
           /\ \A s \in Streams :
                 s # 1 => LcmUpTo[s] = RationalLcm(LcmUpTo[s - 1], period[s])
<1> DEFINE G == [p \in Streams \X PositiveRationals |->
                    RationalLcm(p[2], period[p[1]])]
           Solves(f) == f = [s \in Streams |->
                RationalLcm(IF s = 1 THEN period[1] ELSE f[s - 1], period[s])]
<1>1. /\ Streams = 1..NumStreams /\ NumStreams \in Pos /\ 1 \in Streams
      /\ \A s \in Streams : s # 1 => s - 1 \in Streams
  BY ScheduleAssumption DEF Streams, Pos
<1>2. G \in [Streams \X PositiveRationals -> PositiveRationals]
  <2>1. ASSUME NEW p \in Streams \X PositiveRationals
        PROVE  RationalLcm(p[2], period[p[1]]) \in PositiveRationals
    <3>1. p[1] \in Streams /\ p[2] \in PositiveRationals
      OBVIOUS
    <3>2. QED
      BY <3>1, PeriodIsRational, RationalTypes
  <2>2. QED
    BY <2>1
<1>3. \A s \in Streams : \A r \in PositiveRationals :
          G[<<s, r>>] = RationalLcm(r, period[s])
  OBVIOUS
<1>4. RationalLcm(period[1], period[1]) \in PositiveRationals
  BY <1>1, PeriodIsRational, RationalTypes
<1> HIDE DEF G
<1>5. PICK f : Iterates(f, NumStreams, PositiveRationals,
                        RationalLcm(period[1], period[1]), G)
  BY <1>1, <1>2, <1>4, Recursion
<1>6. /\ f \in [Streams -> PositiveRationals]
      /\ f[1] = RationalLcm(period[1], period[1])
      /\ \A s \in Streams : s # 1 => f[s] = RationalLcm(f[s - 1], period[s])
  <2>1. /\ f \in [Streams -> PositiveRationals]
        /\ f[1] = RationalLcm(period[1], period[1])
        /\ \A s \in Streams : s # 1 => f[s] = G[<<s, f[s - 1]>>]
    BY <1>1, <1>5 DEF Iterates
  <2>2. \A s \in Streams : s # 1 => f[s - 1] \in PositiveRationals
    BY <1>1, <2>1
  <2>3. QED
    BY <1>3, <2>1, <2>2
<1>7. Solves(f)
  BY <1>6
<1>8. LcmUpTo = CHOOSE g : Solves(g)
  BY DEF LcmUpTo
<1>9. Solves(LcmUpTo)
  <2> HIDE DEF Solves
  <2>1. QED
    BY <1>7, <1>8
<1>10. \A s \in Streams : LcmUpTo[s] =
           RationalLcm(IF s = 1 THEN period[1] ELSE LcmUpTo[s - 1], period[s])
  BY <1>9
<1>11. LcmUpTo = [s \in Streams |-> LcmUpTo[s]]
  BY <1>9
<1> DEFINE T == {s \in Streams : LcmUpTo[s] = f[s]}
<1>12. 1 \in T
  BY <1>1, <1>6, <1>10
<1>13. ASSUME NEW s \in Streams, s # 1, s - 1 \in T PROVE s \in T
  BY <1>6, <1>10, <1>13
<1>14. \A s \in Streams : s \in T
  <2> HIDE DEF T
  <2>1. QED
    BY <1>1, <1>12, <1>13, Induction
<1>15. \A s \in Streams : LcmUpTo[s] \in PositiveRationals
  BY <1>6, <1>14
<1>16. LcmUpTo \in [Streams -> PositiveRationals]
  BY <1>11, <1>15
<1>17. QED
  BY <1>1, <1>10, <1>16

(***************************************************************************)
(* The grid divides every period, and the least common multiple is one of  *)
(* every period.                                                           *)
(***************************************************************************)
LEMMA ExtendPeriodDivides ==
    ASSUME PeriodsType
    PROVE  /\ IsRational(ExtendPeriod)
           /\ \A s \in Streams : \E k \in Pos : IsTimes(period[s], k, ExtendPeriod)
<1> DEFINE Divided(s, i) == \E k \in Pos : IsTimes(period[s], k, GcdUpTo[i])
           T == {i \in Streams : \A s \in 1..i : Divided(s, i)}
<1>1. /\ Streams = 1..NumStreams /\ NumStreams \in Pos
      /\ 1 \in Streams /\ NumStreams \in Streams
      /\ \A i \in Streams : i # 1 => i - 1 \in Streams
      /\ \A i \in Streams : \A s \in 1..i : s \in Streams
  BY ScheduleAssumption DEF Streams, Pos
<1>2. /\ \A i \in Streams : GcdUpTo[i] \in PositiveRationals
      /\ GcdUpTo[1] = RationalGcd(period[1], period[1])
      /\ \A i \in Streams :
            i # 1 => GcdUpTo[i] = RationalGcd(GcdUpTo[i - 1], period[i])
  BY GcdUpToIs
<1>3. \A i \in Streams : IsRational(GcdUpTo[i]) /\ IsRational(period[i])
  BY <1>2, PeriodIsRational, RationalTypes
<1>4. 1 \in T
  <2>1. Divided(1, 1)
    BY <1>1, <1>2, <1>3, RationalGcdDivides
  <2>2. \A s \in 1..1 : s = 1
    OBVIOUS
  <2> HIDE DEF Divided
  <2>3. QED
    BY <1>1, <2>1, <2>2
<1>5. ASSUME NEW i \in Streams, i # 1, i - 1 \in T PROVE i \in T
  <2> DEFINE g == GcdUpTo[i - 1]
             h == GcdUpTo[i]
  <2>1. IsRational(g) /\ IsRational(period[i]) /\ h = RationalGcd(g, period[i])
    BY <1>1, <1>2, <1>3, <1>5
  <2>2. /\ \E k \in Pos : IsTimes(g, k, h)
        /\ \E k \in Pos : IsTimes(period[i], k, h)
        /\ IsRational(h)
    <3> HIDE DEF g, h
    <3>1. QED
      BY <2>1, RationalGcdDivides
  <2>3. ASSUME NEW s \in 1..i PROVE Divided(s, i)
    <3>1. CASE s = i
      BY <2>2, <3>1
    <3>2. CASE s # i
      <4>1. s \in 1..i - 1 /\ s \in Streams
        BY <1>1, <3>2
      <4>2. PICK k \in Pos : IsTimes(period[s], k, g)
        BY <1>5, <4>1
      <4>3. PICK l \in Pos : IsTimes(g, l, h)
        BY <2>2
      <4>4. IsRational(period[s])
        BY <1>3, <4>1
      <4> HIDE DEF g, h
      <4>5. k * l \in Pos /\ IsTimes(period[s], k * l, h)
        BY <2>1, <2>2, <4>2, <4>3, <4>4, TimesTransitive
      <4>6. QED
        BY <4>5 DEF h
    <3>3. QED
      BY <3>1, <3>2
  <2>4. QED
    BY <2>3
<1>6. \A i \in Streams : i \in T
  <2> HIDE DEF T
  <2>1. QED
    BY <1>1, <1>4, <1>5, Induction
<1>7. ExtendPeriod = GcdUpTo[NumStreams]
  BY DEF ExtendPeriod
<1>8. \A s \in Streams : Divided(s, NumStreams)
  BY <1>1, <1>6
<1>9. QED
  BY <1>1, <1>3, <1>7, <1>8

(* As for the grid.                                                        *)
LEMMA LcmIsMultiple ==
    ASSUME PeriodsType
    PROVE  /\ IsRational(LcmUpTo[NumStreams])
           /\ \A s \in Streams : \E k \in Pos : IsTimes(LcmUpTo[NumStreams], k, period[s])
<1> DEFINE Multiple(s, i) == \E k \in Pos : IsTimes(LcmUpTo[i], k, period[s])
           T == {i \in Streams : \A s \in 1..i : Multiple(s, i)}
<1>1. /\ Streams = 1..NumStreams /\ NumStreams \in Pos
      /\ 1 \in Streams /\ NumStreams \in Streams
      /\ \A i \in Streams : i # 1 => i - 1 \in Streams
      /\ \A i \in Streams : \A s \in 1..i : s \in Streams
  BY ScheduleAssumption DEF Streams, Pos
<1>2. /\ \A i \in Streams : LcmUpTo[i] \in PositiveRationals
      /\ LcmUpTo[1] = RationalLcm(period[1], period[1])
      /\ \A i \in Streams :
            i # 1 => LcmUpTo[i] = RationalLcm(LcmUpTo[i - 1], period[i])
  BY LcmUpToIs
<1>3. \A i \in Streams : IsRational(LcmUpTo[i]) /\ IsRational(period[i])
  BY <1>2, PeriodIsRational, RationalTypes
<1>4. 1 \in T
  <2>1. Multiple(1, 1)
    BY <1>1, <1>2, <1>3, RationalLcmIsMultiple
  <2>2. \A s \in 1..1 : s = 1
    OBVIOUS
  <2> HIDE DEF Multiple
  <2>3. QED
    BY <1>1, <2>1, <2>2
<1>5. ASSUME NEW i \in Streams, i # 1, i - 1 \in T PROVE i \in T
  <2> DEFINE g == LcmUpTo[i - 1]
             h == LcmUpTo[i]
  <2>1. IsRational(g) /\ IsRational(period[i]) /\ h = RationalLcm(g, period[i])
    BY <1>1, <1>2, <1>3, <1>5
  <2>2. /\ \E k \in Pos : IsTimes(h, k, g)
        /\ \E k \in Pos : IsTimes(h, k, period[i])
        /\ IsRational(h)
    <3> HIDE DEF g, h
    <3>1. QED
      BY <2>1, RationalLcmIsMultiple
  <2>3. ASSUME NEW s \in 1..i PROVE Multiple(s, i)
    <3>1. CASE s = i
      BY <2>2, <3>1
    <3>2. CASE s # i
      <4>1. s \in 1..i - 1 /\ s \in Streams
        BY <1>1, <3>2
      <4>2. PICK k \in Pos : IsTimes(g, k, period[s])
        BY <1>5, <4>1
      <4>3. PICK l \in Pos : IsTimes(h, l, g)
        BY <2>2
      <4>4. IsRational(period[s])
        BY <1>3, <4>1
      <4> HIDE DEF g, h
      <4>5. l * k \in Pos /\ IsTimes(h, l * k, period[s])
        BY <2>1, <2>2, <4>2, <4>3, <4>4, TimesTransitive
      <4>6. QED
        BY <4>5 DEF h
    <3>3. QED
      BY <3>1, <3>2
  <2>4. QED
    BY <2>3
<1>6. \A i \in Streams : i \in T
  <2> HIDE DEF T
  <2>1. QED
    BY <1>1, <1>4, <1>5, Induction
<1>7. \A s \in Streams : Multiple(s, NumStreams)
  BY <1>1, <1>6
<1>8. QED
  BY <1>1, <1>3, <1>7


(***************************************************************************)
(* The hyper-period is a whole number of nanoseconds and of periods.       *)
(***************************************************************************)
LEMMA HyperPeriodIsMultiple ==
    ASSUME PeriodsType
    PROVE  /\ IsRational(HyperPeriod) /\ HyperPeriod.d = 1
           /\ \A s \in Streams : \E k \in Pos : IsTimes(HyperPeriod, k, period[s])
<1> DEFINE m == LcmUpTo[NumStreams]
           h == HyperPeriod
           one == Rational(1, 1)
<1>1. IsRational(m) /\ \A s \in Streams : \E k \in Pos : IsTimes(m, k, period[s])
  BY LcmIsMultiple
<1>2. IsRational(one)
  BY DEF IsRational, Rational, Pos
<1>3. h = RationalLcm(m, one)
  BY DEF HyperPeriod
<1>4. h.d = 1
  BY <1>1, <1>3, WholeLcm
<1> HIDE DEF m, h, one
<1>5. IsRational(h) /\ \E k \in Pos : IsTimes(h, k, m)
  BY <1>1, <1>2, <1>3, RationalLcmIsMultiple
<1>6. PICK l \in Pos : IsTimes(h, l, m)
  BY <1>5
<1>7. ASSUME NEW s \in Streams PROVE \E k \in Pos : IsTimes(h, k, period[s])
  <2>1. PICK k \in Pos : IsTimes(m, k, period[s])
    BY <1>1
  <2>2. IsRational(period[s])
    BY PeriodIsRational
  <2>3. l * k \in Pos /\ IsTimes(h, l * k, period[s])
    BY <1>1, <1>5, <1>6, <2>1, <2>2, TimesTransitive
  <2>4. QED
    BY <2>3
<1>8. QED
  BY <1>4, <1>5, <1>7 DEF h

(***************************************************************************)
(* The grid in whole numbers: the cells of the hyper-period, those of each *)
(* period, and the periods of each hyper-period.                           *)
(***************************************************************************)
GridOf(s, m) ==
    /\ CellOf(s) = Rational(CellOf(s).n, 1) /\ CellOf(s).n \in Pos
    /\ IsTimes(period[s], CellOf(s).n, ExtendPeriod)
    /\ m \in Pos /\ NumSteps.n = m * CellOf(s).n
    /\ Quotient(HyperPeriod, period[s]) = Rational(m, 1)

LEMMA GridIsWhole ==
    ASSUME PeriodsType
    PROVE  /\ NumSteps = Rational(NumSteps.n, 1) /\ NumSteps.n \in Pos
           /\ IsTimes(HyperPeriod, NumSteps.n, ExtendPeriod)
           /\ \A s \in Streams : \E m : GridOf(s, m)
<1> DEFINE e == ExtendPeriod
           h == HyperPeriod
<1>1. IsRational(e) /\ \A s \in Streams : \E k \in Pos : IsTimes(period[s], k, e)
  BY ExtendPeriodDivides
<1>2. IsRational(h) /\ \A s \in Streams : \E k \in Pos : IsTimes(h, k, period[s])
  BY HyperPeriodIsMultiple
<1>3. NumSteps = Quotient(h, e) /\ \A s \in Streams : CellOf(s) = Quotient(period[s], e)
  BY DEF NumSteps, CellOf
<1>4. \A k : Rational(k, 1).n = k
  BY DEF Rational
<1> HIDE DEF e, h
<1>5. ASSUME NEW s \in Streams
      PROVE  \E m, c \in Pos :
                /\ m * c \in Pos /\ NumSteps = Rational(m * c, 1) /\ IsTimes(h, m * c, e)
                /\ CellOf(s) = Rational(c, 1) /\ IsTimes(period[s], c, e)
                /\ Quotient(h, period[s]) = Rational(m, 1)
  <2>1. PICK c \in Pos : IsTimes(period[s], c, e)
    BY <1>1
  <2>2. PICK m \in Pos : IsTimes(h, m, period[s])
    BY <1>2
  <2>3. IsRational(period[s])
    BY PeriodIsRational
  <2>4. m * c \in Pos /\ IsTimes(h, m * c, e)
    BY <1>1, <1>2, <2>1, <2>2, <2>3, TimesTransitive
  <2>5. CellOf(s) = Rational(c, 1)
    BY <1>1, <1>3, <2>1, <2>3, QuotientIs
  <2>6. Quotient(h, period[s]) = Rational(m, 1)
    BY <1>2, <2>2, <2>3, QuotientIs
  <2>7. NumSteps = Rational(m * c, 1)
    BY <1>1, <1>2, <1>3, <2>4, QuotientIs
  <2>8. QED
    BY <2>1, <2>2, <2>4, <2>5, <2>6, <2>7
<1>6. \A s \in Streams : \E m : GridOf(s, m)
  <2>1. ASSUME NEW s \in Streams PROVE \E m : GridOf(s, m)
    <3>1. PICK m, c \in Pos :
             /\ m * c \in Pos /\ NumSteps = Rational(m * c, 1) /\ IsTimes(h, m * c, e)
             /\ CellOf(s) = Rational(c, 1) /\ IsTimes(period[s], c, e)
             /\ Quotient(h, period[s]) = Rational(m, 1)
      BY <1>5
    <3>2. CellOf(s).n = c /\ NumSteps.n = m * c
      BY <1>4, <3>1
    <3>3. GridOf(s, m)
      BY <3>1, <3>2 DEF GridOf, e, h
    <3>4. QED
      BY <3>3
  <2>2. QED
    BY <2>1
<1>7. 1 \in Streams
  BY ScheduleAssumption DEF Streams
<1>8. PICK k \in Pos : NumSteps = Rational(k, 1) /\ IsTimes(h, k, e)
  BY <1>5, <1>7
<1>9. NumSteps.n = k
  BY <1>4, <1>8
<1>10. QED
  BY <1>6, <1>8, <1>9 DEF e, h

(***************************************************************************)
(* It only depends on the periods, which never change.                     *)
(***************************************************************************)
LEMMA GridUnchanged ==
    ASSUME period' = period
    PROVE  /\ ExtendPeriod' = ExtendPeriod /\ HyperPeriod' = HyperPeriod
           /\ NumSteps' = NumSteps /\ \A s : CellOf(s)' = CellOf(s)
<1>1. GcdUpTo' = GcdUpTo
  BY DEF GcdUpTo
<1>2. LcmUpTo' = LcmUpTo
  BY DEF LcmUpTo
<1>3. ExtendPeriod' = ExtendPeriod /\ HyperPeriod' = HyperPeriod
  BY <1>1, <1>2 DEF ExtendPeriod, HyperPeriod
<1>4. QED
  BY <1>3 DEF NumSteps, CellOf

-----------------------------------------------------------------------------
(* The cells of the grid.                                                  *)

Distinct == {p \in Streams \X Streams : p[1] # p[2]}
Sorted == {p \in Distinct : EvalLayer[p[1]] <= EvalLayer[p[2]]}

(***************************************************************************)
(* The n cells st hold each stream in the one of its first period, where   *)
(* BuildExtendSteps puts it, or in all multiples of that, where            *)
(* ApplyPeriodicity has put it.                                            *)
(***************************************************************************)
HoldFirst(st, n, cells) ==
    /\ st \in [1..n -> Seq(Streams)]
    /\ \A c \in 1..n :
          /\ Pairwise(st[c], Distinct)
          /\ \A s \in Streams : s \in Range(st[c]) <=> cells[s] = c
HoldAll(st, n, cells) ==
    /\ st \in [1..n -> Seq(Streams)]
    /\ \A c \in 1..n :
          /\ Pairwise(st[c], Distinct)
          /\ \A s \in Streams : s \in Range(st[c]) <=> Divides(cells[s], c)

(* An increasing sequence of streams has none twice.                        *)
LEMMA LessIsDistinct ==
    ASSUME NEW q \in Seq(Streams), Pairwise(q, Less)
    PROVE  Pairwise(q, Distinct)
<1>1. ASSUME NEW i \in 1..Len(q), NEW j \in 1..Len(q), i < j
      PROVE  <<q[i], q[j]>> \in Distinct
  <2>1. <<q[i], q[j]>> \in Less /\ q[i] \in Streams /\ q[j] \in Streams
    BY <1>1 DEF Pairwise
  <2>2. QED
    BY <2>1 DEF Less, Distinct, Streams
<1>2. QED
  BY <1>1 DEF Pairwise

(* What BuildExtendSteps makes of the first cells of the streams.           *)
LEMMA FirstCells ==
    ASSUME NEW n \in Pos, NEW cells, NEW st,
           st = [c \in 1..n |-> Ascending(NumStreams, {s \in Streams : cells[s] = c})]
    PROVE  HoldFirst(st, n, cells)
<1>1. NumStreams \in Pos /\ Streams = 1..NumStreams
  BY ScheduleAssumption DEF Pos, Streams
<1>2. ASSUME NEW c \in 1..n
      PROVE  /\ st[c] \in Seq(Streams) /\ Pairwise(st[c], Distinct)
             /\ \A s \in Streams : s \in Range(st[c]) <=> cells[s] = c
  <2> DEFINE S == {s \in Streams : cells[s] = c}
             q == Ascending(NumStreams, S)
  <2>1. st[c] = q
    OBVIOUS
  <2>2. \A s \in Streams : s \in S <=> cells[s] = c
    OBVIOUS
  <2> HIDE DEF S
  <2>3. /\ q \in Seq(1..NumStreams) /\ Pairwise(q, Less)
        /\ \A x : x \in Range(q) <=> x \in 1..NumStreams /\ x \in S
    BY <1>1, AscendingIs
  <2> HIDE DEF q
  <2>4. q \in Seq(Streams)
    BY <1>1, <2>3
  <2>5. Pairwise(q, Distinct)
    BY <2>3, <2>4, LessIsDistinct
  <2>6. QED
    BY <1>1, <2>1, <2>2, <2>3, <2>4, <2>5
<1>3. st \in [1..n -> Seq(Streams)]
  <2>1. \A c \in 1..n : Ascending(NumStreams, {s \in Streams : cells[s] = c}) \in Seq(Streams)
    BY <1>2
  <2>2. QED
    BY <2>1
<1>4. QED
  BY <1>2, <1>3 DEF HoldFirst

(* What ApplyPeriodicity makes of that.                                     *)
LEMMA AllCells ==
    ASSUME NEW n \in Pos, NEW cells \in [Streams -> Pos], NEW st, NEW after,
           HoldFirst(st, n, cells),
           after = [c \in 1..n |-> FlattenSeq([first \in 1..c |->
                       IF Divides(first, c) THEN st[first] ELSE <<>>])]
    PROVE  HoldAll(after, n, cells)
<1>1. ASSUME NEW c \in 1..n
      PROVE  /\ after[c] \in Seq(Streams) /\ Pairwise(after[c], Distinct)
             /\ \A s \in Streams : s \in Range(after[c]) <=> Divides(cells[s], c)
  <2> DEFINE seqs == [first \in 1..c |-> IF Divides(first, c) THEN st[first] ELSE <<>>]
             q == FlattenSeq(seqs)
  <2>1. after[c] = q
    OBVIOUS
  <2>2. c \in Pos /\ \A first \in 1..c : first \in 1..n /\ first \in Pos
    BY DEF Pos
  <2>3. ASSUME NEW first \in 1..c
        PROVE  /\ seqs[first] \in Seq(Streams) /\ Pairwise(seqs[first], Distinct)
               /\ \A s \in Streams : s \in Range(seqs[first])
                                        <=> cells[s] = first /\ Divides(first, c)
    <3> DEFINE r == seqs[first]
    <3>1. CASE Divides(first, c)
      <4>1. r = st[first]
        BY <3>1
      <4> HIDE DEF r
      <4>2. first \in 1..n /\ st \in [1..n -> Seq(Streams)]
        BY <2>2 DEF HoldFirst
      <4>3. /\ Pairwise(st[first], Distinct)
            /\ \A s \in Streams : s \in Range(st[first]) <=> cells[s] = first
        BY <4>2 DEF HoldFirst
      <4>4. r \in Seq(Streams)
        BY <4>1, <4>2
      <4>5. /\ Pairwise(r, Distinct)
            /\ \A s \in Streams : s \in Range(r) <=> cells[s] = first /\ Divides(first, c)
        BY <3>1, <4>1, <4>3
      <4>6. QED
        BY <4>4, <4>5 DEF r
    <3>2. CASE ~Divides(first, c)
      <4>1. r = <<>>
        BY <3>2
      <4> HIDE DEF r, seqs
      <4>2. r \in Seq(Streams) /\ Len(r) = 0
        BY <4>1
      <4>3. \A x : x \in Range(r) <=> \E i \in 1..Len(r) : x = r[i]
        BY <4>2, RangeIs
      <4>4. \A i : i \notin 1..Len(r)
        BY <4>2
      <4>5. Pairwise(r, Distinct) /\ \A x : x \notin Range(r)
        BY <4>3, <4>4 DEF Pairwise
      <4>6. QED
        BY <3>2, <4>2, <4>5 DEF r
    <3>3. QED
      BY <3>1, <3>2
  <2>4. seqs \in [1..c -> Seq(Streams)]
    <3>1. \A first \in 1..c :
              (IF Divides(first, c) THEN st[first] ELSE <<>>) \in Seq(Streams)
      BY <2>3
    <3>2. QED
      BY <3>1
  <2> HIDE DEF seqs
  <2>5. ASSUME NEW i \in 1..c, NEW j \in 1..c, i < j,
               NEW a \in Range(seqs[i]), NEW b \in Range(seqs[j])
        PROVE  <<a, b>> \in Distinct
    <3>1. a \in Streams /\ b \in Streams
      BY <2>3, RangeIs
    <3>2. cells[a] = i /\ cells[b] = j /\ i # j
      BY <2>3, <2>5, <3>1
    <3>3. QED
      BY <3>1, <3>2 DEF Distinct
  <2>6. Pairwise(q, Distinct)
    <3>1. \A i \in 1..c : Pairwise(seqs[i], Distinct)
      BY <2>3
    <3>2. \A i, j \in 1..c : i < j =>
              \A a \in Range(seqs[i]), b \in Range(seqs[j]) : <<a, b>> \in Distinct
      BY <2>5
    <3>3. QED
      BY <2>2, <2>4, <3>1, <3>2, FlattenPairwise
  <2>7. q \in Seq(Streams) /\ \A x : x \in Range(q) <=> \E i \in 1..c : x \in Range(seqs[i])
    BY <2>2, <2>4, FlattenRange
  <2> HIDE DEF q
  <2>8. ASSUME NEW s \in Streams PROVE s \in Range(q) <=> Divides(cells[s], c)
    <3>1. s \in Range(q) <=> \E i \in 1..c : cells[s] = i /\ Divides(i, c)
      BY <2>3, <2>7
    <3>2. ASSUME Divides(cells[s], c) PROVE cells[s] \in 1..c
      <4>1. cells[s] \in Pos
        OBVIOUS
      <4>2. cells[s] <= c
        BY <2>2, <3>2, <4>1, DivisionIs
      <4>3. QED
        BY <4>1, <4>2 DEF Pos
    <3>3. QED
      BY <3>1, <3>2
  <2>9. QED
    BY <2>1, <2>6, <2>7, <2>8
<1>2. after \in [1..n -> Seq(Streams)]
  <2>1. \A c \in 1..n : FlattenSeq([first \in 1..c |->
            IF Divides(first, c) THEN st[first] ELSE <<>>]) \in Seq(Streams)
    BY <1>1
  <2>2. QED
    BY <2>1
<1>3. QED
  BY <1>1, <1>2 DEF HoldAll

-----------------------------------------------------------------------------
(* The order of the layers.                                                *)

(* ByLayer looks at every layer there is.                                   *)
LEMMA LayersAreBounded ==
    /\ Max(Range(EvalLayer)) \in Nat
    /\ \A s \in Streams : EvalLayer[s] \in 0..Max(Range(EvalLayer))
<1> DEFINE T == {i \in Streams : \E b \in Nat : \A s \in 1..i : EvalLayer[s] <= b}
           S == Range(EvalLayer)
<1>1. /\ NumStreams \in Pos /\ Streams = 1..NumStreams /\ EvalLayer \in [Streams -> Nat]
      /\ 1 \in Streams /\ NumStreams \in Streams
  BY ScheduleAssumption DEF Pos, Streams
<1>2. 1 \in T
  <2>1. EvalLayer[1] \in Nat /\ \A s \in 1..1 : s = 1
    BY <1>1
  <2>2. \A s \in 1..1 : EvalLayer[s] <= EvalLayer[1]
    BY <2>1
  <2>3. QED
    BY <1>1, <2>1, <2>2
<1>3. ASSUME NEW i \in 1..NumStreams, i # 1, i - 1 \in T PROVE i \in T
  <2>1. PICK b \in Nat : \A s \in 1..i - 1 : EvalLayer[s] <= b
    BY <1>3
  <2>2. EvalLayer[i] \in Nat
    BY <1>1
  <2>3. PICK c \in Nat : b <= c /\ EvalLayer[i] <= c
    <3>1. CASE b <= EvalLayer[i]
      BY <2>2, <3>1
    <3>2. CASE ~(b <= EvalLayer[i])
      BY <2>2, <3>2
    <3>3. QED
      BY <3>1, <3>2
  <2>4. ASSUME NEW s \in 1..i PROVE EvalLayer[s] <= c
    <3>1. CASE s = i
      BY <2>3, <3>1
    <3>2. CASE s # i
      <4>1. s \in 1..i - 1 /\ s \in Streams
        BY <1>1, <3>2 DEF Pos
      <4>2. EvalLayer[s] <= b /\ EvalLayer[s] \in Nat
        BY <1>1, <2>1, <4>1
      <4>3. QED
        BY <2>3, <4>2
    <3>3. QED
      BY <3>1, <3>2
  <2>5. QED
    BY <1>1, <2>4
<1>4. NumStreams \in T
  <2> HIDE DEF T
  <2>1. \A i \in 1..NumStreams : i \in T
    BY <1>1, <1>2, <1>3, Induction
  <2>2. QED
    BY <1>1, <2>1
<1>5. PICK b \in Nat : \A s \in Streams : EvalLayer[s] <= b
  BY <1>1, <1>4
<1>6. S = {EvalLayer[s] : s \in Streams}
  BY <1>1 DEF Range
<1>7. S \in SUBSET Nat /\ S # {} /\ \A x \in S : x <= b
  BY <1>1, <1>5, <1>6
<1>8. Max(S) \in S /\ \A x \in S : x <= Max(S)
  <2> HIDE DEF S
  <2>1. QED
    BY <1>7, MaxIs
<1>9. \A s \in Streams : EvalLayer[s] \in S
  BY <1>6
<1> HIDE DEF S
<1>10. Max(S) \in Nat /\ \A s \in Streams : EvalLayer[s] \in 0..Max(S)
  <2> DEFINE m == Max(S)
  <2>1. m \in Nat
    BY <1>7, <1>8
  <2>2. ASSUME NEW s \in Streams PROVE EvalLayer[s] \in Nat /\ EvalLayer[s] <= m
    BY <1>7, <1>8, <1>9
  <2> HIDE DEF m
  <2>3. \A s \in Streams : EvalLayer[s] \in 0..m
    BY <2>1, <2>2
  <2>4. QED
    BY <2>1, <2>3 DEF m
<1>11. QED
  BY <1>10 DEF S

(* The streams of one layer, each once.                                     *)
LEMMA InLayerIs ==
    ASSUME NEW due \in Seq(Streams), Len(due) \in Pos, Pairwise(due, Distinct), NEW l
    PROVE  /\ InLayer(due, l) \in Seq(Streams)
           /\ \A x : x \in Range(InLayer(due, l))
                        <=> x \in Range(due) /\ EvalLayer[x] = l
           /\ Pairwise(InLayer(due, l), Sorted)
<1> DEFINE S == {i \in DOMAIN due : EvalLayer[due[i]] = l}
           at == Ascending(Len(due), S)
           q == InLayer(due, l)
<1>1. \A i : i \in S <=> i \in 1..Len(due) /\ EvalLayer[due[i]] = l
  OBVIOUS
<1>2. q = [j \in DOMAIN at |-> due[at[j]]]
  BY DEF InLayer
<1> HIDE DEF S, q
<1>3. /\ at \in Seq(1..Len(due)) /\ Pairwise(at, Less)
      /\ \A x : x \in Range(at) <=> x \in 1..Len(due) /\ x \in S
  BY AscendingIs
<1> HIDE DEF at
<1>4. /\ Len(at) \in Nat
      /\ \A j \in 1..Len(at) : at[j] \in 1..Len(due) /\ at[j] \in Range(at)
      /\ \A x \in Range(at) : \E j \in 1..Len(at) : x = at[j]
  BY <1>3, RangeIs
<1>5. q = [j \in 1..Len(at) |-> due[at[j]]]
  BY <1>2, <1>3
<1>6. q \in Seq(Streams) /\ Len(q) = Len(at) /\ \A j \in 1..Len(q) : q[j] = due[at[j]]
  <2>1. \A j \in 1..Len(at) : due[at[j]] \in Streams
    BY <1>4
  <2>2. \A j \in 1..Len(at) : q[j] = due[at[j]]
    BY <1>5
  <2>3. q \in Seq(Streams) /\ Len(q) = Len(at)
    BY <1>4, <1>5, <2>1
  <2>4. QED
    BY <2>2, <2>3
<1>7. ASSUME NEW x
      PROVE  x \in Range(q) <=> x \in Range(due) /\ EvalLayer[x] = l
  <2>1. x \in Range(q) <=> \E j \in 1..Len(at) : x = due[at[j]]
    BY <1>6, RangeIs
  <2>2. x \in Range(due) <=> \E i \in 1..Len(due) : x = due[i]
    BY RangeIs
  <2>3. ASSUME NEW j \in 1..Len(at), x = due[at[j]]
        PROVE  x \in Range(due) /\ EvalLayer[x] = l
    BY <1>1, <1>3, <1>4, <2>2, <2>3
  <2>4. ASSUME NEW i \in 1..Len(due), x = due[i], EvalLayer[x] = l
        PROVE  \E j \in 1..Len(at) : x = due[at[j]]
    <3>1. i \in Range(at)
      BY <1>1, <1>3, <2>4
    <3>2. QED
      BY <1>4, <2>4, <3>1
  <2>5. QED
    BY <2>1, <2>2, <2>3, <2>4
<1>8. ASSUME NEW i \in 1..Len(q), NEW j \in 1..Len(q), i < j
      PROVE  <<q[i], q[j]>> \in Sorted
  <2>1. <<at[i], at[j]>> \in Less
    BY <1>3, <1>6, <1>8 DEF Pairwise
  <2>2. at[i] \in 1..Len(due) /\ at[j] \in 1..Len(due) /\ at[i] < at[j]
    BY <1>4, <1>6, <2>1 DEF Less
  <2>3. <<due[at[i]], due[at[j]]>> \in Distinct
    BY <2>2 DEF Pairwise
  <2>4. q[i] = due[at[i]] /\ q[j] = due[at[j]]
    BY <1>6
  <2>5. EvalLayer[q[i]] = l /\ EvalLayer[q[j]] = l /\ q[i] \in Streams
    <3>1. q[i] \in Range(q) /\ q[j] \in Range(q) /\ q[i] \in Streams
      BY <1>6, RangeIs
    <3>2. QED
      BY <1>7, <3>1
  <2>6. EvalLayer[q[i]] <= EvalLayer[q[j]]
    <3>1. EvalLayer[q[i]] \in Nat
      BY <2>5, ScheduleAssumption
    <3>2. QED
      BY <2>5, <3>1
  <2>7. QED
    BY <2>3, <2>4, <2>6 DEF Sorted
<1>9. Pairwise(q, Sorted)
  BY <1>8 DEF Pairwise
<1>10. QED
  BY <1>6, <1>7, <1>9 DEF q

(***************************************************************************)
(* The sort keeps the streams and puts them in the order of their layers.  *)
(***************************************************************************)
LEMMA ByLayerIs ==
    ASSUME NEW due \in Seq(Streams), Len(due) \in Pos, Pairwise(due, Distinct)
    PROVE  /\ ByLayer(due) \in Seq(Streams)
           /\ \A x : x \in Range(ByLayer(due)) <=> x \in Range(due)
           /\ Pairwise(ByLayer(due), Sorted)
<1> DEFINE top == Max(Range(EvalLayer))
           n == top + 1
           seqs == [l \in 1..n |-> InLayer(due, l - 1)]
           q == FlattenSeq(seqs)
<1>1. ByLayer(due) = q
  BY DEF ByLayer
<1>2. top \in Nat /\ \A s \in Streams : EvalLayer[s] \in 0..top
  BY LayersAreBounded
<1> HIDE DEF top
<1>3. n \in Pos /\ \A k \in 0..top : k + 1 \in 1..n
  BY <1>2 DEF Pos
<1>4. ASSUME NEW l \in 1..n
      PROVE  /\ seqs[l] \in Seq(Streams) /\ Pairwise(seqs[l], Sorted)
             /\ \A x : x \in Range(seqs[l]) <=> x \in Range(due) /\ EvalLayer[x] = l - 1
  BY InLayerIs
<1>5. seqs \in [1..n -> Seq(Streams)]
  <2>1. \A l \in 1..n : InLayer(due, l - 1) \in Seq(Streams)
    BY InLayerIs
  <2>2. QED
    BY <2>1
<1> HIDE DEF n, seqs
<1>6. ASSUME NEW i \in 1..n, NEW j \in 1..n, i < j,
             NEW a \in Range(seqs[i]), NEW b \in Range(seqs[j])
      PROVE  <<a, b>> \in Sorted
  <2>1. EvalLayer[a] = i - 1 /\ EvalLayer[b] = j - 1
    BY <1>4
  <2>2. a \in Streams /\ b \in Streams
    BY <1>4, RangeIs
  <2>3. i \in Int /\ j \in Int
    BY <1>3 DEF Pos
  <2>4. i - 1 # j - 1 /\ i - 1 <= j - 1
    BY <1>6, <2>3
  <2>5. QED
    BY <2>1, <2>2, <2>4 DEF Sorted, Distinct
<1>7. Pairwise(q, Sorted)
  <2>1. \A i \in 1..n : Pairwise(seqs[i], Sorted)
    BY <1>4
  <2>2. \A i, j \in 1..n : i < j =>
            \A a \in Range(seqs[i]), b \in Range(seqs[j]) : <<a, b>> \in Sorted
    BY <1>6
  <2>3. QED
    BY <1>3, <1>5, <2>1, <2>2, FlattenPairwise
<1>8. q \in Seq(Streams) /\ \A x : x \in Range(q) <=> \E i \in 1..n : x \in Range(seqs[i])
  BY <1>3, <1>5, FlattenRange
<1> HIDE DEF q
<1>9. ASSUME NEW x PROVE x \in Range(q) <=> x \in Range(due)
  <2>1. x \in Range(q) <=> \E i \in 1..n : x \in Range(due) /\ EvalLayer[x] = i - 1
    BY <1>4, <1>8
  <2>2. ASSUME x \in Range(due) PROVE \E i \in 1..n : EvalLayer[x] = i - 1
    <3>1. x \in Streams
      BY <2>2, RangeIs
    <3>2. EvalLayer[x] \in 0..top
      BY <1>2, <3>1
    <3>3. EvalLayer[x] + 1 \in 1..n /\ EvalLayer[x] = (EvalLayer[x] + 1) - 1
      BY <1>2, <1>3, <3>2
    <3>4. QED
      BY <3>3
  <2>3. QED
    BY <2>1, <2>2
<1>10. QED
  BY <1>1, <1>7, <1>8, <1>9

-----------------------------------------------------------------------------
(* The invariant.                                                          *)

Cells == [s \in Streams |-> CellOf(s).n]

(* The numbers of cells are positive.                                       *)
LEMMA CellsType ==
    ASSUME PeriodsType
    PROVE  NumSteps.n \in Pos /\ Cells \in [Streams -> Pos]
<1>1. NumSteps.n \in Pos /\ \A s \in Streams : CellOf(s).n \in Pos
  BY GridIsWhole DEF GridOf
<1>2. QED
  BY <1>1 DEF Cells

(* They only depend on the periods.                                         *)
LEMMA CellsUnchanged ==
    ASSUME period' = period
    PROVE  NumSteps.n' = NumSteps.n /\ Cells' = Cells /\ PeriodsType' = PeriodsType
<1>1. NumSteps' = NumSteps /\ \A s : CellOf(s)' = CellOf(s)
  BY GridUnchanged
<1>2. QED
  BY <1>1 DEF Cells, PeriodsType

(***************************************************************************)
(* Each deadline stands for a filled cell: it has its streams, each once,  *)
(* and its pause.                                                          *)
(***************************************************************************)
DeadlinesFollow ==
    /\ deadlines \in [1..Len(Filled) -> [pause : Int, due : Seq(Streams)]]
    /\ \A i \in 1..Len(Filled) :
          /\ deadlines[i].pause = PauseBefore(i)
          /\ Pairwise(deadlines[i].due, Distinct)
          /\ \A s \in Streams :
                s \in Range(deadlines[i].due) <=> s \in Range(steps[Filled[i]])
DueSorted == \A i \in 1..Len(Filled) : Pairwise(deadlines[i].due, Sorted)

IInv ==
    /\ PeriodsType
    /\ pc \in {"extend", "error", "periodicity", "condense", "sort", "done"}
    /\ pc = "periodicity" => HoldFirst(steps, NumSteps.n, Cells)
    /\ pc \in {"condense", "sort", "done"} => HoldAll(steps, NumSteps.n, Cells)
    /\ pc \in {"sort", "done"} => DeadlinesFollow
    /\ pc = "done" => DueSorted

(***************************************************************************)
(* The filled cells are those at a multiple of some stream's first one.    *)
(***************************************************************************)
LEMMA FilledIs ==
    ASSUME NEW n \in Pos, NEW cells, HoldAll(steps, n, cells)
    PROVE  /\ Len(steps) = n /\ Filled \in Seq(1..n) /\ Pairwise(Filled, Less)
           /\ \A c \in 1..n : steps[c] # <<>> <=> \E s \in Streams : Divides(cells[s], c)
           /\ \A x : x \in Range(Filled)
                        <=> x \in 1..n /\ \E s \in Streams : Divides(cells[s], x)
<1> DEFINE S == {c \in DOMAIN steps : steps[c] # <<>>}
<1>1. steps \in [1..n -> Seq(Streams)] /\ n \in Nat
  BY DEF HoldAll, Pos
<1>2. Len(steps) = n /\ \A x : x \in S <=> x \in 1..n /\ steps[x] # <<>>
  BY <1>1
<1>3. Filled = Ascending(n, S)
  BY <1>2 DEF Filled
<1> HIDE DEF S
<1>4. /\ Filled \in Seq(1..n) /\ Pairwise(Filled, Less)
      /\ \A x : x \in Range(Filled) <=> x \in 1..n /\ x \in S
  BY <1>3, AscendingIs
<1>5. ASSUME NEW c \in 1..n
      PROVE  steps[c] # <<>> <=> \E s \in Streams : Divides(cells[s], c)
  <2> DEFINE q == steps[c]
  <2>1. q \in Seq(Streams) /\ \A s \in Streams : s \in Range(q) <=> Divides(cells[s], c)
    BY <1>1 DEF HoldAll
  <2> HIDE DEF q
  <2>2. Range(q) \subseteq Streams /\ \A x : x \in Range(q) <=> \E i \in 1..Len(q) : x = q[i]
    BY <2>1, RangeIs
  <2>3. ASSUME q # <<>> PROVE \E s \in Streams : s \in Range(q)
    <3>1. 1 \in 1..Len(q)
      BY <2>1, <2>3
    <3>2. QED
      BY <2>2, <3>1
  <2>4. ASSUME q = <<>> PROVE \A s : s \notin Range(q)
    <3>1. \A i : i \notin 1..Len(q)
      BY <2>4
    <3>2. QED
      BY <2>2, <3>1
  <2>5. QED
    BY <2>1, <2>3, <2>4 DEF q
<1>6. QED
  BY <1>2, <1>4, <1>5

(* The invariant holds initially.                                           *)
LEMMA InitIInv == Init => IInv
<1>1. ASSUME Init PROVE IInv
  BY <1>1 DEF Init, IInv, PeriodsType
<1>2. QED
  BY <1>1

(* BuildExtendSteps establishes the first cells; none of its assertions fails. *)
LEMMA BuildIInv ==
    ASSUME IInv, BuildExtendSteps
    PROVE  IInv'
<1> DEFINE n == NumSteps.n
<1>1. PeriodsType /\ period' = period
  BY DEF IInv, BuildExtendSteps
<1>2. n \in Pos /\ Cells \in [Streams -> Pos]
  BY <1>1, CellsType
<1>3. n' = n /\ Cells' = Cells /\ PeriodsType'
  BY <1>1, CellsUnchanged
<1>4. NumSteps.d = 1 /\ \A s \in Streams : CellOf(s).d = 1
  <2>1. NumSteps = Rational(NumSteps.n, 1)
    BY <1>1, GridIsWhole
  <2>2. \A s \in Streams : CellOf(s) = Rational(CellOf(s).n, 1)
    BY <1>1, GridIsWhole DEF GridOf
  <2>3. \A k : Rational(k, 1).d = 1
    BY DEF Rational
  <2>4. QED
    BY <2>1, <2>2, <2>3
<1>5. CASE pc' = "error"
  BY <1>3, <1>5 DEF IInv
<1>6. CASE pc' = "periodicity"
  <2>1. steps' = [c \in 1..n |->
                     Ascending(NumStreams, {s \in Streams : CellOf(s).n = c})]
    BY <1>4, <1>6 DEF BuildExtendSteps, IsInteger
  <2>2. \A c : {s \in Streams : CellOf(s).n = c} = {s \in Streams : Cells[s] = c}
    BY DEF Cells
  <2>3. steps' = [c \in 1..n |->
                     Ascending(NumStreams, {s \in Streams : Cells[s] = c})]
    BY <2>1, <2>2
  <2> HIDE DEF n
  <2>4. HoldFirst(steps', n, Cells)
    BY <1>2, <2>3, FirstCells
  <2>5. HoldFirst(steps, NumSteps.n, Cells)'
    BY <1>3, <2>4 DEF n
  <2>6. QED
    BY <1>3, <1>6, <2>5 DEF IInv
<1>7. pc' = "error" \/ pc' = "periodicity"
  BY <1>4 DEF BuildExtendSteps, IsInteger
<1>8. QED
  BY <1>5, <1>6, <1>7

(* ApplyPeriodicity fills the cells.                                        *)
LEMMA PeriodicityIInv ==
    ASSUME IInv, ApplyPeriodicity
    PROVE  IInv'
<1> DEFINE n == NumSteps.n
<1>1. PeriodsType /\ period' = period /\ pc' = "condense" /\ HoldFirst(steps, n, Cells)
  BY DEF IInv, ApplyPeriodicity
<1>2. n \in Pos /\ Cells \in [Streams -> Pos]
  BY <1>1, CellsType
<1>3. n' = n /\ Cells' = Cells /\ PeriodsType'
  BY <1>1, CellsUnchanged
<1> HIDE DEF n
<1>4. steps \in [1..n -> Seq(Streams)]
  BY <1>1 DEF HoldFirst
<1>5. steps' = [c \in 1..n |-> FlattenSeq([first \in 1..c |->
                   IF Divides(first, c) THEN steps[first] ELSE <<>>])]
  BY <1>4 DEF ApplyPeriodicity
<1>6. HoldAll(steps', n, Cells)
  BY <1>1, <1>2, <1>5, AllCells
<1>7. HoldAll(steps, NumSteps.n, Cells)'
  BY <1>3, <1>6 DEF n
<1>8. QED
  BY <1>1, <1>3, <1>7 DEF IInv

(***************************************************************************)
(* The last cell is never empty: it is at a multiple of every stream's.    *)
(***************************************************************************)
LEMMA LastCellIsFilled ==
    ASSUME PeriodsType, HoldAll(steps, NumSteps.n, Cells)
    PROVE  /\ Len(steps) = NumSteps.n /\ NumSteps.n \in 1..NumSteps.n
           /\ steps[NumSteps.n] # <<>>
<1> DEFINE n == NumSteps.n
<1>1. n \in Pos /\ Cells \in [Streams -> Pos]
  BY CellsType
<1>2. n \in 1..n
  BY <1>1 DEF Pos
<1>3. 1 \in Streams
  BY ScheduleAssumption DEF Streams
<1>4. PICK m : m \in Pos /\ n = m * Cells[1]
  <2>1. PICK m : GridOf(1, m)
    BY <1>3, GridIsWhole
  <2>2. QED
    BY <1>3, <2>1 DEF GridOf, Cells
<1>5. Divides(Cells[1], n)
  <2>1. Cells[1] \in Pos
    BY <1>1, <1>3
  <2> HIDE DEF n
  <2>2. QED
    BY <1>4, <2>1, ProductDivides
<1> HIDE DEF n
<1>6. /\ Len(steps) = n
      /\ \A c \in 1..n : steps[c] # <<>> <=> \E s \in Streams : Divides(Cells[s], c)
  <2>1. HoldAll(steps, n, Cells)
    BY DEF n
  <2>2. QED
    BY <1>1, <2>1, FilledIs
<1>7. steps[n] # <<>>
  BY <1>2, <1>3, <1>5, <1>6
<1>8. QED
  BY <1>2, <1>6, <1>7 DEF n

(* The pauses are whole numbers.                                            *)
LEMMA PausesAreWhole ==
    ASSUME IsRational(ExtendPeriod), NEW n \in Pos, Filled \in Seq(1..n),
           NEW i \in 1..Len(Filled)
    PROVE  /\ CellsSince(i) \in Int /\ PauseBefore(i) \in Int
           /\ PauseBefore(i) = (ExtendPeriod.n * CellsSince(i)) \div ExtendPeriod.d
<1>1. /\ \A j \in 1..Len(Filled) : Filled[j] \in Int
      /\ Len(Filled) \in Nat
  BY DEF Pos
<1>2. CellsSince(i) \in Int
  <2>1. CASE i = 1
    BY <1>1, <2>1 DEF CellsSince
  <2>2. CASE i # 1
    <3>1. i - 1 \in 1..Len(Filled)
      BY <1>1, <2>2
    <3>2. QED
      BY <1>1, <2>2, <3>1 DEF CellsSince
  <2>3. QED
    BY <2>1, <2>2
<1>3. PauseBefore(i) = (ExtendPeriod.n * CellsSince(i)) \div ExtendPeriod.d
  BY DEF PauseBefore, Truncated, Rational
<1>4. ExtendPeriod.n \in Int /\ ExtendPeriod.d \in Int /\ ExtendPeriod.d > 0
  BY DEF IsRational, Pos
<1>5. (ExtendPeriod.n * CellsSince(i)) \div ExtendPeriod.d \in Int
  BY <1>2, <1>4
<1>6. QED
  BY <1>2, <1>3, <1>5

(* The last two stages do not change which cells are filled.                *)
LEMMA FilledUnchanged ==
    ASSUME steps' = steps, period' = period
    PROVE  Filled' = Filled /\ \A i : PauseBefore(i)' = PauseBefore(i)
<1>1. {c \in DOMAIN steps : steps[c] # <<>>}' = {c \in DOMAIN steps : steps[c] # <<>>}
  OBVIOUS
<1>2. Filled' = Filled
  BY <1>1 DEF Filled
<1>3. ExtendPeriod' = ExtendPeriod
  BY GridUnchanged
<1>4. QED
  BY <1>2, <1>3 DEF PauseBefore, CellsSince

(* CondenseDeadlines follows the filled cells.                              *)
LEMMA CondenseIInv ==
    ASSUME IInv, CondenseDeadlines
    PROVE  IInv'
<1> DEFINE n == NumSteps.n
<1>1. /\ PeriodsType /\ period' = period /\ steps' = steps
      /\ HoldAll(steps, n, Cells)
  BY DEF IInv, CondenseDeadlines
<1>2. n \in Pos /\ Cells \in [Streams -> Pos]
  BY <1>1, CellsType
<1>3. n' = n /\ Cells' = Cells /\ PeriodsType'
  BY <1>1, CellsUnchanged
<1>4. pc' = "sort"
  <2>1. Len(steps) = n /\ steps[n] # <<>>
    BY <1>1, LastCellIsFilled
  <2>2. QED
    BY <2>1 DEF CondenseDeadlines
<1> HIDE DEF n
<1>5. Filled \in Seq(1..n)
  BY <1>1, <1>2, FilledIs
<1>6. Filled' = Filled /\ \A i : PauseBefore(i)' = PauseBefore(i)
  BY <1>1, FilledUnchanged
<1>7. deadlines' = [i \in 1..Len(Filled) |->
                       [pause |-> PauseBefore(i), due |-> steps[Filled[i]]]]
  BY DEF CondenseDeadlines
<1>8. ASSUME NEW i \in 1..Len(Filled)
      PROVE  /\ PauseBefore(i) \in Int /\ steps[Filled[i]] \in Seq(Streams)
             /\ Pairwise(steps[Filled[i]], Distinct)
  <2>1. IsRational(ExtendPeriod)
    BY <1>1, ExtendPeriodDivides
  <2>2. PauseBefore(i) \in Int
    BY <1>2, <1>5, <2>1, PausesAreWhole
  <2>3. Filled[i] \in 1..n
    BY <1>5, RangeIs
  <2>4. steps \in [1..n -> Seq(Streams)] /\ Pairwise(steps[Filled[i]], Distinct)
    BY <1>1, <2>3 DEF HoldAll
  <2>5. QED
    BY <2>2, <2>3, <2>4
<1>9. DeadlinesFollow'
  <2>1. deadlines' \in [1..Len(Filled) -> [pause : Int, due : Seq(Streams)]]
    BY <1>7, <1>8
  <2>2. ASSUME NEW i \in 1..Len(Filled)
        PROVE  /\ deadlines'[i].pause = PauseBefore(i)
               /\ deadlines'[i].due = steps[Filled[i]]
    BY <1>7
  <2>3. QED
    BY <1>1, <1>6, <1>8, <2>1, <2>2 DEF DeadlinesFollow
<1>10. HoldAll(steps, NumSteps.n, Cells)'
  BY <1>1, <1>3 DEF n
<1>11. QED
  BY <1>3, <1>4, <1>9, <1>10 DEF IInv

(* No deadline is empty.                                                    *)
LEMMA DueIsFilled ==
    ASSUME PeriodsType, HoldAll(steps, NumSteps.n, Cells), DeadlinesFollow,
           NEW i \in 1..Len(Filled)
    PROVE  deadlines[i].due \in Seq(Streams) /\ Len(deadlines[i].due) \in Pos
<1> DEFINE n == NumSteps.n
           due == deadlines[i].due
<1>1. n \in Pos
  BY CellsType
<1>2. HoldAll(steps, n, Cells)
  OBVIOUS
<1>3. /\ due \in Seq(Streams)
      /\ \A s \in Streams : s \in Range(due) <=> s \in Range(steps[Filled[i]])
  BY DEF DeadlinesFollow
<1> HIDE DEF n, due
<1>4. /\ Filled \in Seq(1..n)
      /\ \A x : x \in Range(Filled)
                   <=> x \in 1..n /\ \E s \in Streams : Divides(Cells[s], x)
  BY <1>1, <1>2, FilledIs
<1>5. Filled[i] \in 1..n /\ Filled[i] \in Range(Filled)
  BY <1>4, RangeIs
<1>6. PICK s \in Streams : Divides(Cells[s], Filled[i])
  BY <1>4, <1>5
<1>7. s \in Range(due)
  BY <1>2, <1>3, <1>5, <1>6 DEF HoldAll
<1>8. PICK j \in 1..Len(due) : s = due[j]
  BY <1>3, <1>7, RangeIs
<1>9. Len(due) \in Pos
  BY <1>3, <1>8 DEF Pos
<1>10. QED
  BY <1>3, <1>9 DEF due

(* SortDeadlines orders each deadline.                                      *)
LEMMA SortIInv ==
    ASSUME IInv, SortDeadlines
    PROVE  IInv'
<1> DEFINE n == NumSteps.n
           m == Len(Filled)
           Entry == [pause : Int, due : Seq(Streams)]
<1>1. /\ PeriodsType /\ period' = period /\ steps' = steps /\ pc' = "done"
      /\ HoldAll(steps, n, Cells) /\ DeadlinesFollow
  BY DEF IInv, SortDeadlines
<1>2. n' = n /\ Cells' = Cells /\ PeriodsType'
  BY <1>1, CellsUnchanged
<1>3. Filled' = Filled /\ \A i : PauseBefore(i)' = PauseBefore(i)
  BY <1>1, FilledUnchanged
<1>4. deadlines \in [1..m -> Entry]
  BY <1>1 DEF DeadlinesFollow
<1>5. deadlines' = [i \in 1..m |-> [deadlines[i] EXCEPT !.due = ByLayer(@)]]
  BY <1>4 DEF SortDeadlines
<1>6. ASSUME NEW i \in 1..m
      PROVE  /\ deadlines'[i] \in Entry
             /\ deadlines'[i].pause = PauseBefore(i)
             /\ Pairwise(deadlines'[i].due, Sorted)
             /\ \A s \in Streams :
                   s \in Range(deadlines'[i].due) <=> s \in Range(steps[Filled[i]])
  <2> DEFINE due == deadlines[i].due
  <2>1. due \in Seq(Streams) /\ Len(due) \in Pos
    BY <1>1, DueIsFilled
  <2>2. /\ Pairwise(due, Distinct) /\ deadlines[i].pause = PauseBefore(i)
        /\ \A s \in Streams : s \in Range(due) <=> s \in Range(steps[Filled[i]])
    BY <1>1 DEF DeadlinesFollow
  <2>3. /\ deadlines[i] \in Entry
        /\ deadlines'[i] = [deadlines[i] EXCEPT !.due = ByLayer(due)]
    BY <1>4, <1>5
  <2> HIDE DEF due
  <2>4. /\ ByLayer(due) \in Seq(Streams) /\ Pairwise(ByLayer(due), Sorted)
        /\ \A x : x \in Range(ByLayer(due)) <=> x \in Range(due)
    BY <2>1, <2>2, ByLayerIs
  <2>5. /\ deadlines'[i] \in Entry
        /\ deadlines'[i].pause = deadlines[i].pause
        /\ deadlines'[i].due = ByLayer(due)
    BY <2>3, <2>4
  <2>6. QED
    BY <2>2, <2>4, <2>5
<1>7. deadlines' \in [1..m -> Entry]
  <2>1. ASSUME NEW i \in 1..m
        PROVE  [deadlines[i] EXCEPT !.due = ByLayer(@)] \in Entry
    <3>1. deadlines'[i] = [deadlines[i] EXCEPT !.due = ByLayer(@)]
      BY <1>5
    <3>2. QED
      BY <1>6, <3>1
  <2>2. QED
    BY <1>5, <2>1
<1>8. ASSUME NEW i \in 1..m PROVE Pairwise(deadlines'[i].due, Distinct)
  <2>1. \A p \in Sorted : p \in Distinct
    BY DEF Sorted
  <2>2. QED
    BY <1>6, <2>1 DEF Pairwise
<1>9. DeadlinesFollow' /\ DueSorted'
  BY <1>1, <1>3, <1>6, <1>7, <1>8 DEF DeadlinesFollow, DueSorted
<1>10. HoldAll(steps, NumSteps.n, Cells)'
  BY <1>1, <1>2
<1>11. QED
  BY <1>1, <1>2, <1>9, <1>10 DEF IInv

(* Nothing changes when nothing happens.                                    *)
LEMMA StutterIInv ==
    ASSUME IInv, UNCHANGED vars
    PROVE  IInv'
<1>1. /\ period' = period /\ steps' = steps /\ pc' = pc /\ deadlines' = deadlines
  BY DEF vars
<1>2. NumSteps.n' = NumSteps.n /\ Cells' = Cells /\ PeriodsType' = PeriodsType
  BY <1>1, CellsUnchanged
<1>3. Filled' = Filled /\ \A i : PauseBefore(i)' = PauseBefore(i)
  BY <1>1, FilledUnchanged
<1>4. DeadlinesFollow' = DeadlinesFollow /\ DueSorted' = DueSorted
  BY <1>1, <1>3 DEF DeadlinesFollow, DueSorted
<1>5. /\ HoldFirst(steps, NumSteps.n, Cells)' = HoldFirst(steps, NumSteps.n, Cells)
      /\ HoldAll(steps, NumSteps.n, Cells)' = HoldAll(steps, NumSteps.n, Cells)
  BY <1>1, <1>2
<1>6. QED
  BY <1>1, <1>2, <1>4, <1>5 DEF IInv

(* The invariant holds in every state.                                     *)
THEOREM AlwaysIInv == Spec => []IInv
<1>1. Init => IInv
  BY InitIInv
<1>2. IInv /\ [Next]_vars => IInv'
  BY BuildIInv, PeriodicityIInv, CondenseIInv, SortIInv, StutterIInv DEF Next
<1>3. QED
  BY <1>1, <1>2, PTL DEF Spec

(***************************************************************************)
(* The assertions of the computation hold.                                 *)
(***************************************************************************)
THEOREM AssertionsHold == Spec => []NoAssertionFails
<1>1. IInv => NoAssertionFails
  BY DEF IInv, NoAssertionFails
<1>2. QED
  BY <1>1, AlwaysIInv, PTL

-----------------------------------------------------------------------------
(* The times of the deadlines.                                             *)

(* The recursive function of the times exists and solves its equation.      *)
LEMMA TimeOfIs ==
    ASSUME NEW n \in Pos,
           deadlines \in [1..n -> [pause : Int, due : Seq(Streams)]]
    PROVE  /\ \A i \in 1..n : TimeOf[i] \in Int
           /\ TimeOf[1] = deadlines[1].pause
           /\ \A i \in 1..n : i # 1 => TimeOf[i] = TimeOf[i - 1] + deadlines[i].pause
<1> DEFINE G == [p \in (1..n) \X Int |-> p[2] + deadlines[p[1]].pause]
           Solves(f) == f = [i \in 1..n |->
                (IF i = 1 THEN 0 ELSE f[i - 1]) + deadlines[i].pause]
<1>1. 1 \in 1..n /\ \A i \in 1..n : i # 1 => i - 1 \in 1..n
  BY DEF Pos
<1>2. \A i \in 1..n : deadlines[i].pause \in Int
  OBVIOUS
<1>3. G \in [(1..n) \X Int -> Int]
  <2>1. ASSUME NEW p \in (1..n) \X Int
        PROVE  p[2] + deadlines[p[1]].pause \in Int
    <3>1. p[1] \in 1..n /\ p[2] \in Int
      OBVIOUS
    <3>2. QED
      BY <1>2, <3>1
  <2>2. QED
    BY <2>1
<1>4. \A i \in 1..n : \A t \in Int : G[<<i, t>>] = t + deadlines[i].pause
  OBVIOUS
<1>5. deadlines[1].pause \in Int
  BY <1>1, <1>2
<1> HIDE DEF G
<1>6. PICK f : Iterates(f, n, Int, deadlines[1].pause, G)
  BY <1>3, <1>5, Recursion
<1>7. /\ f \in [1..n -> Int] /\ f[1] = deadlines[1].pause
      /\ \A i \in 1..n : i # 1 => f[i] = f[i - 1] + deadlines[i].pause
  <2>1. /\ f \in [1..n -> Int] /\ f[1] = deadlines[1].pause
        /\ \A i \in 1..n : i # 1 => f[i] = G[<<i, f[i - 1]>>]
    BY <1>6 DEF Iterates
  <2>2. \A i \in 1..n : i # 1 => f[i - 1] \in Int
    BY <1>1, <2>1
  <2>3. QED
    BY <1>4, <2>1, <2>2
<1>8. Solves(f)
  <2>1. ASSUME NEW i \in 1..n
        PROVE  f[i] = (IF i = 1 THEN 0 ELSE f[i - 1]) + deadlines[i].pause
    <3>1. CASE i = 1
      BY <1>5, <1>7, <3>1
    <3>2. CASE i # 1
      BY <1>7, <3>2
    <3>3. QED
      BY <3>1, <3>2
  <2>2. QED
    BY <1>7, <2>1
<1>9. TimeOf = CHOOSE g : Solves(g)
  <2>1. DOMAIN deadlines = 1..n
    OBVIOUS
  <2>2. QED
    BY <2>1 DEF TimeOf
<1>10. Solves(TimeOf)
  <2> HIDE DEF Solves
  <2>1. QED
    BY <1>8, <1>9
<1>11. \A i \in 1..n :
           TimeOf[i] = (IF i = 1 THEN 0 ELSE TimeOf[i - 1]) + deadlines[i].pause
  BY <1>10
<1> DEFINE T == {i \in 1..n : TimeOf[i] = f[i]}
<1>12. 1 \in T
  <2>1. TimeOf[1] = 0 + deadlines[1].pause
    BY <1>1, <1>11
  <2>2. QED
    BY <1>1, <1>5, <1>7, <2>1
<1>13. ASSUME NEW i \in 1..n, i # 1, i - 1 \in T PROVE i \in T
  BY <1>7, <1>11, <1>13
<1>14. \A i \in 1..n : i \in T
  <2> HIDE DEF T
  <2>1. QED
    BY <1>12, <1>13, Induction
<1>15. \A i \in 1..n : TimeOf[i] = f[i]
  BY <1>14
<1>16. QED
  BY <1>1, <1>7, <1>15

(* How much a division cuts off.                                            *)
LEMMA DivisionBounds ==
    ASSUME NEW a \in Int, NEW d \in Pos
    PROVE  /\ a \div d \in Int
           /\ (a \div d) * d <= a /\ a < (a \div d + 1) * d
           /\ d = 1 => a \div d = a
<1>1. d \in Int /\ d > 0
  BY DEF Pos
<1>2. QED
  BY <1>1, SMT

(* What is cut off adds up.                                                 *)
LEMMA SumBounds ==
    ASSUME NEW t \in Int, NEW p \in Int, NEW d \in Int, NEW i \in Int,
           NEW x \in Int, NEW y \in Int,
           t * d <= x, x < (t + (i - 1)) * d, p * d <= y, y < (p + 1) * d
    PROVE  (t + p) * d <= x + y /\ x + y < ((t + p) + i) * d
<1>1. (t + p) * d = t * d + p * d
  OBVIOUS
<1>2. ((t + p) + i) * d = (t + (i - 1)) * d + (p + 1) * d
  OBVIOUS
<1>3. t * d \in Int /\ p * d \in Int /\ (t + (i - 1)) * d \in Int /\ (p + 1) * d \in Int
  OBVIOUS
<1>4. QED
  BY <1>1, <1>2, <1>3

(***************************************************************************)
(* A deadline comes at its cell, or early by less than one nanosecond for  *)
(* each deadline so far.                                                   *)
(***************************************************************************)
AtCell(t, i, cell, e) ==
    /\ t \in Int
    /\ e.d = 1 => t = e.n * cell
    /\ t * e.d <= e.n * cell /\ e.n * cell < (t + i) * e.d

LEMMA DeadlinesAtCells ==
    ASSUME IsRational(ExtendPeriod), NEW n \in Pos, Filled \in Seq(1..n),
           Len(Filled) \in Pos, DeadlinesFollow
    PROVE  \A i \in 1..Len(Filled) : AtCell(TimeOf[i], i, Filled[i], ExtendPeriod)
<1> DEFINE e == ExtendPeriod
           m == Len(Filled)
           T == {i \in 1..m : AtCell(TimeOf[i], i, Filled[i], e)}
<1>1. /\ m \in Pos /\ 1 \in 1..m
      /\ \A i \in 1..m : i # 1 => i - 1 \in 1..m
      /\ \A i \in 1..m : Filled[i] \in Int
  BY DEF Pos
<1>2. e.n \in Int /\ e.d \in Pos /\ e.d \in Int
  BY DEF IsRational, Pos
<1>3. /\ \A i \in 1..m : TimeOf[i] \in Int
      /\ TimeOf[1] = deadlines[1].pause
      /\ \A i \in 1..m : i # 1 => TimeOf[i] = TimeOf[i - 1] + deadlines[i].pause
  <2>1. deadlines \in [1..m -> [pause : Int, due : Seq(Streams)]]
    BY DEF DeadlinesFollow
  <2>2. QED
    BY <2>1, TimeOfIs
<1>4. ASSUME NEW i \in 1..m
      PROVE  /\ CellsSince(i) \in Int
             /\ deadlines[i].pause = (e.n * CellsSince(i)) \div e.d
  <2>1. /\ CellsSince(i) \in Int /\ PauseBefore(i) = (e.n * CellsSince(i)) \div e.d
    BY PausesAreWhole
  <2>2. deadlines[i].pause = PauseBefore(i)
    BY DEF DeadlinesFollow
  <2>3. QED
    BY <2>1, <2>2
<1>5. /\ CellsSince(1) = Filled[1]
      /\ \A i \in 1..m : i # 1 => CellsSince(i) = Filled[i] - Filled[i - 1]
  BY <1>1 DEF CellsSince
<1> HIDE DEF e
<1>6. ASSUME NEW i \in 1..m
      PROVE  AtCell(deadlines[i].pause, 1, CellsSince(i), e)
  <2> DEFINE a == e.n * CellsSince(i)
  <2>1. a \in Int /\ deadlines[i].pause = a \div e.d
    BY <1>2, <1>4
  <2> HIDE DEF a
  <2>2. /\ a \div e.d \in Int /\ (a \div e.d) * e.d <= a
        /\ a < (a \div e.d + 1) * e.d /\ (e.d = 1 => a \div e.d = a)
    BY <1>2, <2>1, DivisionBounds
  <2>3. QED
    BY <2>1, <2>2 DEF AtCell, a
<1>7. 1 \in T
  BY <1>1, <1>3, <1>5, <1>6
<1>8. ASSUME NEW i \in 1..m, i # 1, i - 1 \in T PROVE i \in T
  <2>1. PICK t, p, f, c \in Int : /\ t = TimeOf[i - 1] /\ p = deadlines[i].pause
                                  /\ f = Filled[i - 1] /\ c = CellsSince(i)
    <3>1. i - 1 \in 1..m
      BY <1>1, <1>8
    <3>2. deadlines[i].pause \in Int
      BY <1>6 DEF AtCell
    <3>3. QED
      BY <1>1, <1>3, <1>4, <3>1, <3>2
  <2>2. AtCell(t, i - 1, f, e) /\ AtCell(p, 1, c, e)
    BY <1>6, <1>8, <2>1
  <2>3. TimeOf[i] = t + p /\ Filled[i] = f + c /\ i \in Int
    <3>1. c = Filled[i] - f
      BY <1>5, <1>8, <2>1
    <3>2. Filled[i] \in Int
      BY <1>1
    <3>3. Filled[i] = f + c
      BY <2>1, <3>1, <3>2
    <3>4. TimeOf[i] = t + p
      BY <1>3, <1>8, <2>1
    <3>5. QED
      BY <3>3, <3>4
  <2>4. e.n * f \in Int /\ e.n * c \in Int /\ e.n * (f + c) = e.n * f + e.n * c
    <3>1. PICK k \in Int : k = e.n
      BY <1>2
    <3>2. k * f \in Int /\ k * c \in Int
      OBVIOUS
    <3>3. k * (f + c) = k * f + k * c
      OBVIOUS
    <3>4. QED
      BY <3>1, <3>2, <3>3
  <2>5. /\ (t + p) * e.d <= e.n * f + e.n * c
        /\ e.n * f + e.n * c < ((t + p) + i) * e.d
    BY <1>2, <2>2, <2>3, <2>4, SumBounds DEF AtCell
  <2>6. e.d = 1 => t + p = e.n * (f + c)
    BY <2>2, <2>4 DEF AtCell
  <2>7. AtCell(t + p, i, f + c, e)
    BY <2>4, <2>5, <2>6 DEF AtCell
  <2>8. QED
    BY <2>3, <2>7
<1>9. \A i \in 1..m : i \in T
  <2> HIDE DEF T, m
  <2>1. QED
    BY <1>1, <1>7, <1>8, Induction
<1>10. QED
  BY <1>9 DEF e

-----------------------------------------------------------------------------
(* The deadlines of a stream.                                              *)

MultipleUpTo(x, c, m) == \E k \in 1..m : x = c * k

(* The numbers up to m c that c divides are its first m multiples.          *)
LEMMA MultiplesUpTo ==
    ASSUME NEW c \in Pos, NEW m \in Pos, NEW x
    PROVE  x \in 1..m * c /\ Divides(c, x) <=> MultipleUpTo(x, c, m)
<1> DEFINE n == m * c
<1> USE DEF MultipleUpTo
<1>1. c \in Int /\ m \in Int /\ c > 0 /\ m > 0 /\ n \in Int
  BY DEF Pos
<1>2. ASSUME x \in 1..n, Divides(c, x) PROVE \E k \in 1..m : x = c * k
  <2>1. x \in Pos
    BY <1>1, <1>2 DEF Pos
  <2>2. x \div c \in Pos /\ x = (x \div c) * c
    BY <1>2, <2>1, DivisionIs
  <2>3. PICK k \in Pos : x = k * c
    BY <2>2
  <2>4. k \in Int /\ k > 0 /\ k * c = c * k /\ m * c = c * m
    BY <1>1, <2>3 DEF Pos
  <2>5. ~(m < k)
    <3>1. SUFFICES ASSUME m < k PROVE FALSE
      OBVIOUS
    <3>2. c * m < c * k
      BY <1>1, <2>4, <3>1, ProductOrder
    <3>3. x <= n /\ x \in Int
      BY <1>1, <1>2
    <3>4. QED
      BY <1>1, <2>3, <2>4, <3>2, <3>3
  <2>6. k \in 1..m
    BY <1>1, <2>4, <2>5
  <2>7. QED
    BY <2>3, <2>4, <2>6
<1>3. ASSUME NEW k \in 1..m, x = c * k PROVE x \in 1..n /\ Divides(c, x)
  <2>1. k \in Pos /\ k \in Int /\ k <= m
    BY <1>1 DEF Pos
  <2>2. k * c \in Pos /\ Divides(c, k * c)
    BY <2>1, ProductDivides
  <2>3. k * c = c * k /\ m * c = c * m
    BY <1>1, <2>1
  <2>4. ~(c * m < c * k)
    BY <1>1, <2>1, ProductOrder
  <2>5. c * m \in Int /\ c * k \in Int
    BY <1>1, <2>1
  <2>6. x \in Pos /\ x <= n
    BY <1>3, <2>2, <2>3, <2>4, <2>5
  <2>7. QED
    BY <1>1, <1>3, <2>2, <2>3, <2>6 DEF Pos
<1>4. QED
  BY <1>2, <1>3

(***************************************************************************)
(* The k-th deadline of a stream is that of the k-th multiple of its cell. *)
(***************************************************************************)
LEMMA DeadlinesOfIs ==
    ASSUME IInv, pc = "done", NEW s \in Streams, NEW m, GridOf(s, m)
    PROVE  /\ Len(DeadlinesOf(s)) = m
           /\ \A k \in 1..m : /\ DeadlinesOf(s)[k] \in 1..Len(Filled)
                              /\ Filled[DeadlinesOf(s)[k]] = CellOf(s).n * k
<1> DEFINE n == NumSteps.n
           last == Len(Filled)
           S == {i \in DOMAIN deadlines : s \in Range(deadlines[i].due)}
           D == DeadlinesOf(s)
           c == Cells[s]
           q == [k \in 1..Len(D) |-> Filled[D[k]]]
<1>1. PeriodsType /\ HoldAll(steps, n, Cells) /\ DeadlinesFollow
  BY DEF IInv
<1>2. n \in Pos /\ c \in Pos
  BY <1>1, CellsType
<1>3. m \in Pos /\ n = m * c /\ c = CellOf(s).n
  BY DEF GridOf, Cells
<1> HIDE DEF n, c
<1>4. /\ Filled \in Seq(1..n) /\ Pairwise(Filled, Less)
      /\ \A x : x \in Range(Filled)
                   <=> x \in 1..n /\ \E t \in Streams : Divides(Cells[t], x)
  BY <1>1, <1>2, FilledIs
<1>5. /\ last \in Nat /\ \A i \in 1..last : Filled[i] \in 1..n
      /\ \A x \in Range(Filled) : \E i \in 1..last : x = Filled[i]
  BY <1>4, RangeIs
<1>6. /\ DOMAIN deadlines = 1..last /\ Len(deadlines) = last
      /\ \A i \in 1..last :
            s \in Range(deadlines[i].due) <=> s \in Range(steps[Filled[i]])
  <2>1. deadlines \in [1..last -> [pause : Int, due : Seq(Streams)]]
    BY <1>1 DEF DeadlinesFollow
  <2>2. DOMAIN deadlines = 1..last /\ Len(deadlines) = last
    BY <1>5, <2>1
  <2>3. QED
    BY <1>1, <2>2 DEF DeadlinesFollow
<1>7. \A i : i \in S <=> i \in 1..last /\ Divides(c, Filled[i])
  <2>1. \A i \in 1..last : s \in Range(steps[Filled[i]]) <=> Divides(c, Filled[i])
    BY <1>1, <1>5 DEF HoldAll, c
  <2>2. QED
    BY <1>6, <2>1
<1>8. D = Ascending(last, S)
  BY <1>6 DEF DeadlinesOf
<1>9. last \in Pos
  <2>1. n \in Range(Filled)
    <3>1. n = m * c /\ Divides(c, m * c)
      BY <1>2, <1>3, ProductDivides
    <3>2. n \in 1..n
      BY <1>2 DEF Pos
    <3>3. QED
      BY <1>4, <3>1, <3>2 DEF c
  <2>2. PICK i \in 1..last : n = Filled[i]
    BY <1>5, <2>1
  <2>3. QED
    BY <1>5, <2>2 DEF Pos
<1> HIDE DEF S, D, last
<1>10. /\ D \in Seq(1..last) /\ Pairwise(D, Less)
       /\ \A x : x \in Range(D) <=> x \in 1..last /\ x \in S
  BY <1>8, <1>9, AscendingIs
<1>11. /\ Len(D) \in Nat
       /\ \A k \in 1..Len(D) : D[k] \in 1..last /\ D[k] \in S
       /\ \A i \in S : \E k \in 1..Len(D) : i = D[k]
  <2>1. \A k \in 1..Len(D) : D[k] \in Range(D)
    BY <1>10, RangeIs
  <2>2. \A i \in S : i \in Range(D)
    BY <1>7, <1>10
  <2>3. \A i \in Range(D) : \E k \in 1..Len(D) : i = D[k]
    BY <1>10, RangeIs
  <2>4. QED
    BY <1>10, <2>1, <2>2, <2>3
<1>12. q \in Seq(Nat) /\ Len(q) = Len(D) /\ \A k \in 1..Len(D) : q[k] = Filled[D[k]]
  <2>1. \A k \in 1..Len(D) : Filled[D[k]] \in Nat
    BY <1>5, <1>11
  <2>2. QED
    BY <1>11, <2>1
<1> HIDE DEF q
<1>13. Pairwise(q, Less)
  <2>1. ASSUME NEW i \in 1..Len(q), NEW j \in 1..Len(q), i < j
        PROVE  <<q[i], q[j]>> \in Less
    <3>1. <<D[i], D[j]>> \in Less
      BY <1>10, <1>12, <2>1 DEF Pairwise
    <3>2. D[i] \in 1..last /\ D[j] \in 1..last /\ D[i] < D[j]
      BY <1>11, <1>12, <3>1 DEF Less
    <3>3. <<Filled[D[i]], Filled[D[j]]>> \in Less
      BY <1>4, <3>2 DEF Pairwise, last
    <3>4. QED
      BY <1>12, <3>3
  <2>2. QED
    BY <2>1 DEF Pairwise
<1>14. ASSUME NEW x
       PROVE  x \in Range(q) <=> \E k \in 1..m : x = c * k
  <2>1. x \in Range(q) <=> \E k \in 1..Len(D) : x = Filled[D[k]]
    BY <1>12, RangeIs
  <2>2. x \in 1..n /\ Divides(c, x) <=> \E k \in 1..m : x = c * k
    <3>1. x \in 1..m * c /\ Divides(c, x) <=> MultipleUpTo(x, c, m)
      BY <1>2, <1>3, MultiplesUpTo
    <3>2. QED
      BY <1>3, <3>1 DEF MultipleUpTo
  <2>3. ASSUME NEW k \in 1..Len(D), x = Filled[D[k]]
        PROVE  x \in 1..n /\ Divides(c, x)
    BY <1>5, <1>7, <1>11, <2>3
  <2>4. ASSUME x \in 1..n, Divides(c, x)
        PROVE  \E k \in 1..Len(D) : x = Filled[D[k]]
    <3>1. x \in Range(Filled)
      BY <1>4, <2>4 DEF c
    <3>2. PICK i \in 1..last : x = Filled[i]
      BY <1>5, <3>1
    <3>3. i \in S
      BY <1>7, <2>4, <3>2
    <3>4. QED
      BY <1>11, <3>2, <3>3
  <2>5. QED
    BY <2>1, <2>2, <2>3, <2>4
<1>15. Len(q) = m /\ \A k \in 1..m : q[k] = c * k
  <2>1. m \in Nat
    BY <1>3 DEF Pos
  <2>2. QED
    BY <1>2, <1>12, <1>13, <1>14, <2>1, MultiplesInOrder
<1>16. Len(D) = m /\ \A k \in 1..m : D[k] \in 1..last /\ Filled[D[k]] = c * k
  BY <1>11, <1>12, <1>15
<1>17. QED
  BY <1>3, <1>16 DEF D, last

(***************************************************************************)
(* A time t of the i-th deadline around the k-th cell that is a multiple   *)
(* of c is around k periods: pn / pd is the period, en / ed the grid.      *)
(***************************************************************************)
Around(pn, pd, en, ed, c, k, i, t) ==
    /\ pn * ed = c * (en * pd)
    /\ t * ed <= en * (c * k) /\ en * (c * k) < (t + i) * ed
Ahead(pn, pd, en, ed, c, k, i, t) ==
    /\ k * pn - t * pd >= 0 /\ k * pn - t * pd < i * pd
    /\ ed = 1 /\ t = en * (c * k) => k * pn - t * pd = 0

LEMMA AheadIs ==
    ASSUME NEW pn \in Pos, NEW pd \in Pos, NEW en \in Pos, NEW ed \in Pos,
           NEW c \in Pos, NEW k \in Pos, NEW i \in Pos, NEW t \in Int,
           Around(pn, pd, en, ed, c, k, i, t)
    PROVE  Ahead(pn, pd, en, ed, c, k, i, t)
<1> USE DEF Around, Ahead
<1> DEFINE a == k * pn - t * pd
           x == en * (c * k)
<1>1. /\ pn \in Int /\ pd \in Int /\ en \in Int /\ ed \in Int
      /\ c \in Int /\ k \in Int /\ i \in Int /\ ed > 0 /\ pd > 0
  BY DEF Pos
<1>2. a \in Int /\ x \in Int /\ t * ed \in Int /\ i * ed \in Int /\ i * pd \in Int
  BY <1>1
<1>3. ed * a = pd * (x - t * ed)
  <2>1. ed * a = k * (pn * ed) - (t * ed) * pd
    BY <1>1
  <2>2. k * (pn * ed) = k * (c * (en * pd))
    OBVIOUS
  <2>3. k * (c * (en * pd)) = pd * x
    BY <1>1
  <2>4. pd * (x - t * ed) = pd * x - (t * ed) * pd
    BY <1>1, <1>2
  <2>5. QED
    BY <2>1, <2>2, <2>3, <2>4
<1>4. t * ed <= x /\ x - t * ed < i * ed
  <2>1. (t + i) * ed = t * ed + i * ed
    BY <1>1
  <2>2. QED
    BY <1>2, <2>1
<1> DEFINE y == x - t * ed
<1>5. y \in Int /\ y >= 0 /\ y < i * ed /\ ed * a = pd * y
  BY <1>2, <1>3, <1>4
<1> HIDE DEF a, x, y
<1>6. ~(a < 0)
  <2>1. SUFFICES ASSUME a < 0 PROVE FALSE
    OBVIOUS
  <2>2. ed * a < ed * 0 /\ ~(pd * y < pd * 0)
    BY <1>1, <1>2, <1>5, <2>1, ProductOrder
  <2>3. ed * 0 = 0 /\ pd * 0 = 0 /\ pd * y \in Int
    BY <1>1, <1>5
  <2>4. QED
    BY <1>5, <2>2, <2>3
<1>7. a < i * pd
  <2>1. pd * y < pd * (i * ed)
    BY <1>1, <1>2, <1>5, ProductOrder
  <2>2. pd * (i * ed) = ed * (i * pd)
    BY <1>1
  <2>3. ed * a < ed * (i * pd)
    BY <1>5, <2>1, <2>2
  <2>4. QED
    BY <1>1, <1>2, <2>3, ProductOrder
<1>8. ASSUME ed = 1, t = x PROVE a = 0
  <2>1. y = 0 /\ ed * a = a /\ pd * 0 = 0
    BY <1>1, <1>2, <1>8 DEF y
  <2>2. QED
    BY <1>5, <2>1
<1>9. a >= 0
  BY <1>2, <1>6
<1>10. QED
  BY <1>7, <1>8, <1>9 DEF a, x

-----------------------------------------------------------------------------
(* The schedule.                                                           *)

(* The deadlines of the finished schedule, and where the last one is.       *)
LEMMA DoneDeadlines ==
    ASSUME IInv, pc = "done"
    PROVE  /\ Len(Filled) \in Pos /\ Len(deadlines) = Len(Filled)
           /\ DOMAIN deadlines = 1..Len(Filled)
           /\ Filled[Len(Filled)] = NumSteps.n
           /\ \A i \in 1..Len(Filled) :
                 AtCell(TimeOf[i], i, Filled[i], ExtendPeriod)
<1> DEFINE n == NumSteps.n
           last == Len(Filled)
<1>1. PeriodsType /\ HoldAll(steps, n, Cells) /\ DeadlinesFollow
  BY DEF IInv
<1>2. n \in Pos /\ n \in 1..n /\ steps[n] # <<>> /\ IsRational(ExtendPeriod)
  BY <1>1, CellsType, LastCellIsFilled, ExtendPeriodDivides
<1> HIDE DEF n
<1>3. /\ Filled \in Seq(1..n) /\ Pairwise(Filled, Less)
      /\ \A x : x \in Range(Filled)
                   <=> x \in 1..n /\ \E s \in Streams : Divides(Cells[s], x)
      /\ \A c \in 1..n : steps[c] # <<>> <=> \E s \in Streams : Divides(Cells[s], c)
  BY <1>1, <1>2, FilledIs
<1>4. /\ last \in Nat /\ \A i \in 1..last : Filled[i] \in 1..n
      /\ \A x \in Range(Filled) : \E i \in 1..last : x = Filled[i]
  BY <1>3, RangeIs
<1>5. n \in Range(Filled)
  BY <1>2, <1>3
<1>6. PICK i \in 1..last : n = Filled[i]
  BY <1>4, <1>5
<1>7. last \in Pos /\ last \in 1..last
  BY <1>4, <1>6 DEF Pos
<1>8. Filled[last] = n
  <2>1. CASE i = last
    BY <1>6, <2>1
  <2>2. CASE i # last
    <3>1. i < last
      BY <1>4, <1>6, <2>2
    <3>2. <<Filled[i], Filled[last]>> \in Less
      BY <1>3, <1>6, <1>7, <3>1 DEF Pairwise
    <3>3. n < Filled[last]
      BY <1>6, <3>2 DEF Less
    <3>4. Filled[last] <= n /\ Filled[last] \in Int /\ n \in Int
      BY <1>2, <1>4, <1>7 DEF Pos
    <3>5. QED
      BY <3>3, <3>4
  <2>3. QED
    BY <2>1, <2>2
<1>9. DOMAIN deadlines = 1..last /\ Len(deadlines) = last
  <2>1. deadlines \in [1..last -> [pause : Int, due : Seq(Streams)]]
    BY <1>1 DEF DeadlinesFollow
  <2> HIDE DEF last
  <2>2. QED
    BY <1>4, <2>1
<1>10. \A j \in 1..last : AtCell(TimeOf[j], j, Filled[j], ExtendPeriod)
  BY <1>1, <1>2, <1>3, <1>7, DeadlinesAtCells
<1>11. QED
  BY <1>7, <1>8, <1>9, <1>10 DEF n

(* Each stream has one deadline for each of its periods, at its time.       *)
LEMMA DeadlinesOnTime ==
    ASSUME IInv, pc = "done", NEW s \in Streams
    PROVE  /\ Quotient(HyperPeriod, period[s]) = Rational(Len(DeadlinesOf(s)), 1)
           /\ \A k \in 1..Len(DeadlinesOf(s)) :
                 OnTime(DeadlinesOf(s)[k], k, period[s])
<1> DEFINE e == ExtendPeriod
           p == period[s]
           c == CellOf(s).n
<1>1. PeriodsType
  BY DEF IInv
<1>2. PICK m : GridOf(s, m)
  BY <1>1, GridIsWhole
<1>3. /\ Len(DeadlinesOf(s)) = m
      /\ \A k \in 1..m : /\ DeadlinesOf(s)[k] \in 1..Len(Filled)
                         /\ Filled[DeadlinesOf(s)[k]] = c * k
  BY <1>2, DeadlinesOfIs
<1>4. /\ IsRational(e) /\ IsRational(p) /\ c \in Pos /\ m \in Pos /\ IsTimes(p, c, e)
      /\ Quotient(HyperPeriod, p) = Rational(m, 1)
  BY <1>1, <1>2, ExtendPeriodDivides, PeriodIsRational DEF GridOf
<1> HIDE DEF e, p, c
<1>5. ASSUME NEW k \in 1..m PROVE OnTime(DeadlinesOf(s)[k], k, p)
  <2>1. PICK i : i = DeadlinesOf(s)[k]
    OBVIOUS
  <2>2. i \in 1..Len(Filled) /\ Filled[i] = c * k
    BY <1>3, <2>1
  <2>3. PICK t : t = TimeOf[i]
    OBVIOUS
  <2>4. AtCell(t, i, c * k, e)
    <3>1. AtCell(TimeOf[i], i, Filled[i], e)
      BY <2>2, DoneDeadlines DEF e
    <3>2. QED
      BY <2>2, <2>3, <3>1
  <2>5. i \in Pos /\ k \in Pos
    BY <1>4, <2>2 DEF Pos
  <2>6. PICK pn, pd, en, ed \in Pos : pn = p.n /\ pd = p.d /\ en = e.n /\ ed = e.d
    BY <1>4 DEF IsRational
  <2>7. /\ t \in Int /\ pn * ed = c * (en * pd)
        /\ t * ed <= en * (c * k) /\ en * (c * k) < (t + i) * ed
        /\ ed = 1 => t = en * (c * k)
    BY <1>4, <2>4, <2>6 DEF AtCell, IsTimes
  <2>8. /\ k * pn - t * pd >= 0 /\ k * pn - t * pd < i * pd
        /\ ed = 1 /\ t = en * (c * k) => k * pn - t * pd = 0
    <3>1. Around(pn, pd, en, ed, c, k, i, t)
      BY <2>7 DEF Around
    <3>2. Ahead(pn, pd, en, ed, c, k, i, t)
      BY <1>4, <2>5, <2>6, <2>7, <3>1, AheadIs
    <3>3. QED
      BY <3>2 DEF Ahead
  <2>9. OnTime(i, k, p) <=>
            IF ed = 1 THEN k * pn - t * pd = 0
            ELSE k * pn - t * pd >= 0 /\ k * pn - t * pd < i * pd
    BY <2>3, <2>6 DEF OnTime, IsInteger, e
  <2>10. QED
    BY <2>1, <2>7, <2>8, <2>9
<1>6. QED
  BY <1>3, <1>4, <1>5 DEF p

(* Each deadline has a stream once, in the order of the layers.             *)
LEMMA DeadlinesInLayers ==
    ASSUME IInv, pc = "done", NEW i \in 1..Len(Filled)
    PROVE  LET due == deadlines[i].due
           IN  /\ IsInjective(due)
               /\ \A a, b \in DOMAIN due :
                     a < b => EvalLayer[due[a]] <= EvalLayer[due[b]]
<1> DEFINE due == deadlines[i].due
<1>1. Pairwise(due, Sorted)
  BY DEF IInv, DueSorted
<1>2. due \in Seq(Streams)
  <2>1. deadlines \in [1..Len(Filled) -> [pause : Int, due : Seq(Streams)]]
    BY DEF IInv, DeadlinesFollow
  <2>2. QED
    BY <2>1
<1> HIDE DEF due
<1>3. \A a : a \in DOMAIN due => a \in 1..Len(due) /\ a \in Int
  BY <1>2
<1>4. ASSUME NEW a \in DOMAIN due, NEW b \in DOMAIN due, a < b
      PROVE  due[a] # due[b] /\ EvalLayer[due[a]] <= EvalLayer[due[b]]
  <2>1. <<due[a], due[b]>> \in Sorted
    BY <1>1, <1>3, <1>4 DEF Pairwise
  <2>2. QED
    BY <2>1 DEF Sorted, Distinct
<1>5. ASSUME NEW a \in DOMAIN due, NEW b \in DOMAIN due, due[a] = due[b] PROVE a = b
  <2>1. a \in Int /\ b \in Int
    BY <1>3
  <2>2. ~(a < b) /\ ~(b < a)
    BY <1>4, <1>5
  <2>3. QED
    BY <2>1, <2>2
<1>6. IsInjective(due)
  BY <1>5 DEF IsInjective
<1>7. QED
  BY <1>4, <1>6 DEF due

(***************************************************************************)
(* Every stream is due once in each of its periods and nowhere else, and   *)
(* the streams of one deadline come in the order of their layers.          *)
(***************************************************************************)
THEOREM AlwaysDueOncePerPeriod == Spec => []DueOncePerPeriod
<1>1. IInv => DueOncePerPeriod
  <2>1. SUFFICES ASSUME IInv, pc = "done"
                 PROVE  DueOncePerPeriod
    BY DEF DueOncePerPeriod
  <2>2. \A s \in Streams :
            /\ Quotient(HyperPeriod, period[s]) = Rational(Len(DeadlinesOf(s)), 1)
            /\ \A k \in 1..Len(DeadlinesOf(s)) :
                  OnTime(DeadlinesOf(s)[k], k, period[s])
    BY <2>1, DeadlinesOnTime
  <2>3. \A i \in DOMAIN deadlines :
            LET due == deadlines[i].due
            IN  /\ IsInjective(due)
                /\ \A a, b \in DOMAIN due :
                      a < b => EvalLayer[due[a]] <= EvalLayer[due[b]]
    BY <2>1, DoneDeadlines, DeadlinesInLayers
  <2>4. QED
    BY <2>2, <2>3 DEF DueOncePerPeriod
<1>2. QED
  BY <1>1, AlwaysIInv, PTL

(***************************************************************************)
(* On a grid of whole nanoseconds the pauses fill the hyper-period.        *)
(***************************************************************************)
THEOREM AlwaysPausesFillHyperPeriod == Spec => []PausesFillHyperPeriod
<1>1. IInv => PausesFillHyperPeriod
  <2>1. SUFFICES ASSUME IInv, pc = "done", IsInteger(ExtendPeriod)
                 PROVE  Rational(TimeOf[Len(deadlines)], 1) = HyperPeriod
    BY DEF PausesFillHyperPeriod
  <2> DEFINE e == ExtendPeriod
             h == HyperPeriod
             n == NumSteps.n
  <2>2. PeriodsType
    BY <2>1 DEF IInv
  <2>3. IsRational(e) /\ IsRational(h) /\ h.d = 1 /\ IsTimes(h, n, e) /\ n \in Pos
    BY <2>2, ExtendPeriodDivides, HyperPeriodIsMultiple, GridIsWhole
  <2>4. \E x, y : h = Rational(x, y)
    BY DEF HyperPeriod, RationalLcm, Reduced
  <2>5. TimeOf[Len(deadlines)] = e.n * n
    <3>1. /\ Len(deadlines) = Len(Filled) /\ Len(Filled) \in 1..Len(Filled)
          /\ Filled[Len(Filled)] = n
          /\ \A i \in 1..Len(Filled) : AtCell(TimeOf[i], i, Filled[i], e)
      BY <2>1, DoneDeadlines DEF Pos
    <3>2. AtCell(TimeOf[Len(deadlines)], Len(Filled), n, e)
      BY <3>1
    <3>3. QED
      BY <2>1, <3>2 DEF AtCell, IsInteger
  <2>6. e.d = 1
    BY <2>1 DEF IsInteger
  <2> HIDE DEF e, h, n
  <2>7. h.n = e.n * n
    <3>1. h.n * 1 = n * (e.n * 1)
      BY <2>3, <2>6 DEF IsTimes
    <3>2. h.n \in Int /\ e.n \in Int /\ n \in Int
      BY <2>3 DEF IsRational, Pos
    <3>3. QED
      BY <3>1, <3>2
  <2>8. h = Rational(h.n, 1)
    BY <2>3, <2>4 DEF Rational
  <2>9. QED
    BY <2>5, <2>7, <2>8 DEF h
<1>2. QED
  BY <1>1, AlwaysIInv, PTL
=============================================================================
