---------------------------- MODULE ListTheorems ---------------------------
(***************************************************************************)
(* Facts about numbers, sequences and their concatenation that the proofs  *)
(* of several modules rest on, and induction for sets: the induction       *)
(* theorems of the library take an operator, which the provers cannot      *)
(* instantiate.                                                            *)
(***************************************************************************)
EXTENDS
    Naturals, SequencesExt, FiniteSetsExt,
    SequenceTheorems, FiniteSetTheorems, WellFoundedInduction, TLAPS

(* Induction over the naturals, for sets: what is left to show has no      *)
(* least element.                                                          *)
LEMMA LeastElement ==
    ASSUME NEW S \in SUBSET Nat, S # {}
    PROVE  \E n \in S : \A m \in S : n <= m
<1> DEFINE R == {ss \in Nat \X Nat : ss[1] < ss[2]}
<1>1. IsWellFoundedOn(OpToRel(<, Nat), Nat)
  BY NatLessThanWellFounded
<1>2. OpToRel(<, Nat) = R
  BY DEF OpToRel
<1>3. \E x \in S : \A y \in S : <<y, x>> \notin R
  BY <1>1, <1>2, WFMin
<1>4. \A x, y \in Nat : <<y, x>> \in R <=> y < x
  OBVIOUS
<1> HIDE DEF R
<1>5. PICK x \in S : \A y \in S : <<y, x>> \notin R
  BY <1>3
<1>6. ASSUME NEW y \in S PROVE x <= y
  <2>1. ~(y < x)
    BY <1>4, <1>5
  <2> QED
    BY <2>1
<1> QED
  BY <1>6

LEMMA SetInduction ==
    ASSUME NEW S \in SUBSET Nat, 0 \in S, \A n \in S : n + 1 \in S
    PROVE  S = Nat
<1> SUFFICES ASSUME Nat \ S # {} PROVE FALSE
  OBVIOUS
<1>1. PICK n \in Nat \ S : \A m \in Nat \ S : n <= m
  BY LeastElement
<1>2. n # 0 /\ n - 1 \in Nat /\ n - 1 \notin Nat \ S
  BY <1>1
<1> QED
  BY <1>1, <1>2

(* What FlattenSeq computes on its way.                                    *)
Flattens(f, ss, n) == f = [i \in 1..n |-> IF i = 1 THEN ss[i] ELSE f[i - 1] \o ss[i]]

LEMMA FlattensExists ==
    ASSUME NEW ss
    PROVE  \A n \in Nat : \E f : Flattens(f, ss, n)
<1> DEFINE S == {n \in Nat : \E f : Flattens(f, ss, n)}
<1>1. 0 \in S
  <2>1. Flattens([i \in 1..0 |-> ss], ss, 0)
    BY DEF Flattens
  <2> QED
    BY <2>1
<1>2. ASSUME NEW n \in S PROVE n + 1 \in S
  <2>1. PICK f : Flattens(f, ss, n)
    OBVIOUS
  <2> DEFINE g == [i \in 1..(n + 1) |-> IF i \in 1..n THEN f[i]
                                        ELSE IF i = 1 THEN ss[i] ELSE f[i - 1] \o ss[i]]
  <2>2. \A i \in 1..(n + 1) : g[i] = IF i = 1 THEN ss[i] ELSE g[i - 1] \o ss[i]
    <3> SUFFICES ASSUME NEW i \in 1..(n + 1)
                 PROVE  g[i] = IF i = 1 THEN ss[i] ELSE g[i - 1] \o ss[i]
      OBVIOUS
    <3>1. i # 1 => i - 1 \in 1..n
      OBVIOUS
    <3>2. i # 1 => g[i - 1] = f[i - 1]
      BY <3>1
    <3>3. i \in 1..n => f[i] = IF i = 1 THEN ss[i] ELSE f[i - 1] \o ss[i]
      BY <2>1 DEF Flattens
    <3> QED
      BY <3>2, <3>3
  <2>3. g = [i \in 1..(n + 1) |-> g[i]]
    OBVIOUS
  <2> HIDE DEF g
  <2>4. Flattens(g, ss, n + 1)
    BY <2>2, <2>3 DEF Flattens
  <2> QED
    BY <2>4
<1> HIDE DEF S
<1>3. S = Nat
  BY <1>1, <1>2, SetInduction DEF S
<1> QED
  BY <1>3 DEF S

LEMMA FlattensType ==
    ASSUME NEW T, NEW ss \in Seq(Seq(T)), NEW f, Flattens(f, ss, Len(ss))
    PROVE  \A i \in 1..Len(ss) : f[i] \in Seq(T)
<1> DEFINE S == {n \in Nat : n \in 1..Len(ss) => f[n] \in Seq(T)}
<1>1. 0 \in S
  OBVIOUS
<1>2. ASSUME NEW n \in S PROVE n + 1 \in S
  <2> SUFFICES ASSUME n + 1 \in 1..Len(ss) PROVE f[n + 1] \in Seq(T)
    OBVIOUS
  <2>1. f[n + 1] = IF n + 1 = 1 THEN ss[n + 1] ELSE f[n] \o ss[n + 1]
    <3>1. \A i \in 1..Len(ss) : f[i] = IF i = 1 THEN ss[i] ELSE f[i - 1] \o ss[i]
      BY DEF Flattens
    <3>2. n \in Nat /\ (n + 1) - 1 = n
      OBVIOUS
    <3> QED
      BY <3>1, <3>2
  <2>2. ss[n + 1] \in Seq(T)
    OBVIOUS
  <2>3. n + 1 # 1 => f[n] \in Seq(T)
    OBVIOUS
  <2> QED
    BY <2>1, <2>2, <2>3
<1>3. S \in SUBSET Nat
  OBVIOUS
<1> HIDE DEF S
<1>4. S = Nat
  BY <1>1, <1>2, <1>3, SetInduction
<1> QED
  BY <1>4 DEF S

LEMMA FlattenType ==
    ASSUME NEW T, NEW ss \in Seq(Seq(T))
    PROVE  FlattenSeq(ss) \in Seq(T)
<1>1. CASE Len(ss) = 0
  BY <1>1 DEF FlattenSeq
<1>2. CASE Len(ss) # 0
  <2> DEFINE f == CHOOSE f : f = [i \in 1..Len(ss) |-> IF i = 1 THEN ss[i] ELSE f[i - 1] \o ss[i]]
  <2>1. FlattenSeq(ss) = f[Len(ss)]
    BY <1>2 DEF FlattenSeq
  <2>2. Len(ss) \in Nat
    OBVIOUS
  <2>3. \E g : g = [i \in 1..Len(ss) |-> IF i = 1 THEN ss[i] ELSE g[i - 1] \o ss[i]]
    BY <2>2, FlattensExists DEF Flattens
  <2>4. f = [i \in 1..Len(ss) |-> IF i = 1 THEN ss[i] ELSE f[i - 1] \o ss[i]]
    BY <2>3
  <2> HIDE DEF f
  <2>5. Flattens(f, ss, Len(ss))
    BY <2>4 DEF Flattens
  <2> QED
    BY <1>2, <2>1, <2>5, FlattensType
<1> QED
  BY <1>1, <1>2
(* The greatest element of a bounded set.                                 *)
LEMMA GreatestElement ==
    ASSUME NEW b \in Nat, NEW S \in SUBSET (0..b), S # {}
    PROVE  Max(S) \in S /\ \A n \in S : n <= Max(S)
<1> DEFINE Above == {n \in Nat : \A m \in S : m <= n}
<1>1. b \in Above
  OBVIOUS
<1>2. PICK top \in Above : \A n \in Above : top <= n
  <2>1. Above \in SUBSET Nat /\ Above # {}
    BY <1>1
  <2> HIDE DEF Above
  <2> QED
    BY <2>1, LeastElement
<1>3. top \in S
  <2> SUFFICES ASSUME top \notin S PROVE FALSE
    OBVIOUS
  <2>1. PICK m \in S : TRUE
    OBVIOUS
  <2>2. top \in Nat /\ m \in Nat /\ m <= top /\ m # top
    OBVIOUS
  <2>3. top - 1 \in Nat
    BY <2>2
  <2>4. \A k \in S : k <= top - 1
    <3> SUFFICES ASSUME NEW k \in S PROVE k <= top - 1
      OBVIOUS
    <3>1. k \in Nat /\ k <= top /\ k # top
      OBVIOUS
    <3> QED
      BY <2>2, <3>1
  <2>5. top - 1 \in Above
    BY <2>3, <2>4
  <2> QED
    BY <1>2, <2>2, <2>5
<1>4. \A n \in S : n <= top
  OBVIOUS
<1> HIDE DEF Above
<1>5. \E x \in S : \A y \in S : x >= y
  BY <1>3, <1>4
<1>6. Max(S) \in S /\ \A y \in S : Max(S) >= y
  BY <1>5 DEF Max
<1> QED
  BY <1>6

(* The greatest and the least of some numbers.                            *)
LEMMA GreatestIs ==
    ASSUME NEW S \in SUBSET Nat, NEW n \in S, \A m \in S : m <= n
    PROVE  Max(S) = n
<1>1. \A y \in S : n >= y
  OBVIOUS
<1>2. \A x \in S : (\A y \in S : x >= y) => x = n
  OBVIOUS
<1> QED
  BY <1>1, <1>2 DEF Max

LEMMA LeastIs ==
    ASSUME NEW S \in SUBSET Nat, S # {}
    PROVE  Min(S) \in S /\ \A m \in S : Min(S) <= m
<1>1. \E n \in S : \A m \in S : n <= m
  BY LeastElement
<1> QED
  BY <1>1 DEF Min
-----------------------------------------------------------------------------
(* Induction over sequences, for sets of them.                             *)
LEMMA SeqInduction ==
    ASSUME NEW T, NEW C \in SUBSET Seq(T), <<>> \in C, \A s \in C, e \in T : Append(s, e) \in C
    PROVE  C = Seq(T)
<1> DEFINE S == {n \in Nat : \A s \in Seq(T) : Len(s) = n => s \in C}
<1>1. 0 \in S
  <2>1. \A s \in Seq(T) : Len(s) = 0 => s = <<>>
    OBVIOUS
  <2> QED
    BY <2>1
<1>2. ASSUME NEW n \in S PROVE n + 1 \in S
  <2> SUFFICES ASSUME NEW s \in Seq(T), Len(s) = n + 1 PROVE s \in C
    OBVIOUS
  <2>1. n \in Nat /\ \A t \in Seq(T) : Len(t) = n => t \in C
    OBVIOUS
  <2> HIDE DEF S
  <2>2. s # <<>>
    BY <2>1
  <2>3. PICK t \in Seq(T), e \in T : s = Append(t, e)
    BY <2>2, SequenceEmptyOrAppend
  <2>4. Len(t) = n
    BY <2>1, <2>3
  <2> QED
    BY <2>1, <2>3, <2>4
<1>3. S \in SUBSET Nat
  OBVIOUS
<1> HIDE DEF S
<1>4. S = Nat
  BY <1>1, <1>2, <1>3, SetInduction
<1>5. ASSUME NEW s \in Seq(T) PROVE s \in C
  <2>1. Len(s) \in S
    BY <1>4
  <2> QED
    BY <2>1 DEF S
<1> QED
  BY <1>5

(* What FlattenSeq computes of two lists that begin alike is alike.        *)
Alike(x, y, n) == \A i \in 1..n : x[i] = y[i]

LEMMA FlattensAlike ==
    ASSUME NEW ss, NEW tt, NEW n \in Nat, NEW m \in Nat, n <= m,
           NEW f, NEW g, Flattens(f, ss, n), Flattens(g, tt, m),
           Alike(ss, tt, n)
    PROVE  Alike(f, g, n)
<1> DEFINE S == {k \in Nat : k \in 1..n => f[k] = g[k]}
<1>0. \A i \in 1..n : ss[i] = tt[i]
  BY DEF Alike
<1>1. 0 \in S
  OBVIOUS
<1>2. ASSUME NEW k \in S PROVE k + 1 \in S
  <2> SUFFICES ASSUME k + 1 \in 1..n PROVE f[k + 1] = g[k + 1]
    OBVIOUS
  <2>1. k \in Nat /\ (k + 1) - 1 = k /\ k + 1 \in 1..m /\ (k + 1 # 1 => k \in 1..n)
    OBVIOUS
  <2>2. \A i \in 1..n : f[i] = IF i = 1 THEN ss[i] ELSE f[i - 1] \o ss[i]
    BY DEF Flattens
  <2>3. \A i \in 1..m : g[i] = IF i = 1 THEN tt[i] ELSE g[i - 1] \o tt[i]
    BY DEF Flattens
  <2>4. k + 1 # 1 => f[k] = g[k]
    BY <2>1
  <2>5. f[k + 1] = IF k + 1 = 1 THEN ss[k + 1] ELSE f[k] \o ss[k + 1]
    BY <2>1, <2>2
  <2>6. g[k + 1] = IF k + 1 = 1 THEN tt[k + 1] ELSE g[k] \o tt[k + 1]
    BY <2>1, <2>3
  <2> QED
    BY <1>0, <2>4, <2>5, <2>6
<1>3. S \in SUBSET Nat
  OBVIOUS
<1> HIDE DEF S
<1>4. S = Nat
  BY <1>1, <1>2, <1>3, SetInduction
<1> QED
  BY <1>4 DEF S, Alike

LEMMA FlattenIs ==
    ASSUME NEW T, NEW ss \in Seq(Seq(T)), ss # <<>>
    PROVE  \E f : Flattens(f, ss, Len(ss)) /\ FlattenSeq(ss) = f[Len(ss)]
<1> DEFINE f == CHOOSE f : f = [i \in 1..Len(ss) |-> IF i = 1 THEN ss[i] ELSE f[i - 1] \o ss[i]]
<1>1. Len(ss) \in Nat /\ Len(ss) # 0
  OBVIOUS
<1>2. FlattenSeq(ss) = f[Len(ss)]
  BY <1>1 DEF FlattenSeq
<1>3. \E g : g = [i \in 1..Len(ss) |-> IF i = 1 THEN ss[i] ELSE g[i - 1] \o ss[i]]
  BY <1>1, FlattensExists DEF Flattens
<1>4. f = [i \in 1..Len(ss) |-> IF i = 1 THEN ss[i] ELSE f[i - 1] \o ss[i]]
  BY <1>3
<1> HIDE DEF f
<1> QED
  BY <1>2, <1>4 DEF Flattens

LEMMA FlattenAppend ==
    ASSUME NEW T, NEW ss \in Seq(Seq(T)), NEW e \in Seq(T)
    PROVE  FlattenSeq(Append(ss, e)) = FlattenSeq(ss) \o e
<1>1. PICK tt \in Seq(Seq(T)) : tt = Append(ss, e)
  BY AppendProperties
<1>2. /\ Len(tt) = Len(ss) + 1 /\ tt # <<>> /\ tt[Len(ss) + 1] = e /\ Len(ss) \in Nat
      /\ \A i \in 1..Len(ss) : tt[i] = ss[i]
  BY <1>1, AppendProperties
<1>3. PICK g : Flattens(g, tt, Len(ss) + 1) /\ FlattenSeq(tt) = g[Len(ss) + 1]
  BY <1>2, FlattenIs
<1>4. \A i \in 1..(Len(ss) + 1) : g[i] = IF i = 1 THEN tt[i] ELSE g[i - 1] \o tt[i]
  BY <1>3 DEF Flattens
<1>5. CASE ss = <<>>
  <2>1. FlattenSeq(ss) = <<>>
    BY <1>5 DEF FlattenSeq
  <2>2. g[1] = e
    BY <1>2, <1>4, <1>5
  <2>3. <<>> \o e = e
    BY ConcatEmptySeq
  <2> QED
    BY <1>1, <1>3, <1>5, <2>1, <2>2, <2>3
<1>6. CASE ss # <<>>
  <2>1. Len(ss) # 0 /\ Len(ss) <= Len(ss) + 1 /\ Len(ss) + 1 \in Nat
    BY <1>6
  <2>2. PICK f : Flattens(f, ss, Len(ss)) /\ FlattenSeq(ss) = f[Len(ss)]
    BY <1>6, FlattenIs
  <2>3. \A i \in 1..Len(ss) : f[i] = g[i]
    <3>1. PICK n \in Nat, m \in Nat : n = Len(ss) /\ m = Len(ss) + 1
      BY <1>2, <2>1
    <3>2. Flattens(f, ss, n) /\ Flattens(g, tt, m) /\ n <= m /\ Alike(ss, tt, n)
      BY <1>2, <1>3, <2>1, <2>2, <3>1 DEF Alike
    <3>3. Alike(f, g, n)
      BY <3>1, <3>2, FlattensAlike
    <3> QED
      BY <3>1, <3>3 DEF Alike
  <2>4. f[Len(ss)] = g[Len(ss)]
    BY <1>2, <2>1, <2>3
  <2>5. Len(ss) + 1 \in 1..(Len(ss) + 1) /\ Len(ss) + 1 # 1 /\ (Len(ss) + 1) - 1 = Len(ss)
    BY <1>2, <2>1
  <2>6. g[Len(ss) + 1] = g[Len(ss)] \o e
    BY <1>2, <1>4, <2>5
  <2> QED
    BY <1>1, <1>3, <2>2, <2>4, <2>6
<1> QED
  BY <1>5, <1>6

LEMMA FlattenOne ==
    ASSUME NEW T, NEW e \in Seq(T)
    PROVE  FlattenSeq(<<e>>) = e
<1>1. <<>> \in Seq(Seq(T)) /\ Append(<<>>, e) = <<e>> /\ FlattenSeq(<<>>) = <<>>
  BY DEF FlattenSeq
<1>2. FlattenSeq(<<e>>) = <<>> \o e
  BY <1>1, FlattenAppend
<1> QED
  BY <1>2, ConcatEmptySeq

LEMMA FlattenSplit ==
    ASSUME NEW T, NEW x \in Seq(Seq(T)), NEW y \in Seq(Seq(T))
    PROVE  FlattenSeq(x \o y) = FlattenSeq(x) \o FlattenSeq(y)
<1> DEFINE C == {z \in Seq(Seq(T)) : FlattenSeq(x \o z) = FlattenSeq(x) \o FlattenSeq(z)}
<1>0. FlattenSeq(x) \in Seq(T)
  BY FlattenType
<1>1. <<>> \in C
  <2>1. x \o <<>> = x /\ FlattenSeq(<<>>) = <<>>
    BY ConcatEmptySeq DEF FlattenSeq
  <2>2. FlattenSeq(x) \o <<>> = FlattenSeq(x)
    BY <1>0, ConcatEmptySeq
  <2>3. <<>> \in Seq(Seq(T))
    OBVIOUS
  <2> QED
    BY <2>1, <2>2, <2>3
<1>2. ASSUME NEW z \in C, NEW e \in Seq(T) PROVE Append(z, e) \in C
  <2>1. z \in Seq(Seq(T)) /\ FlattenSeq(x \o z) = FlattenSeq(x) \o FlattenSeq(z)
    OBVIOUS
  <2> HIDE DEF C
  <2>2. Append(z, e) \in Seq(Seq(T)) /\ x \o z \in Seq(Seq(T))
    BY <2>1, ConcatProperties
  <2>3. x \o Append(z, e) = Append(x \o z, e)
    <3>1. Append(z, e) = z \o <<e>> /\ Append(x \o z, e) = (x \o z) \o <<e>> /\ <<e>> \in Seq(Seq(T))
      BY <2>1, <2>2, AppendIsConcat
    <3> QED
      BY <2>1, <3>1, ConcatAssociative
  <2>4. FlattenSeq(z) \in Seq(T)
    BY <2>1, FlattenType
  <2>5. FlattenSeq(Append(x \o z, e)) = FlattenSeq(x \o z) \o e
    BY <2>2, FlattenAppend
  <2>6. FlattenSeq(Append(z, e)) = FlattenSeq(z) \o e
    BY <2>1, FlattenAppend
  <2>7. (FlattenSeq(x) \o FlattenSeq(z)) \o e = FlattenSeq(x) \o (FlattenSeq(z) \o e)
    BY <1>0, <2>4, ConcatAssociative
  <2> QED
    BY <2>1, <2>2, <2>3, <2>5, <2>6, <2>7 DEF C
<1>3. C \in SUBSET Seq(Seq(T))
  OBVIOUS
<1> HIDE DEF C
<1>4. C = Seq(Seq(T))
  BY <1>1, <1>2, <1>3, SeqInduction
<1> QED
  BY <1>4 DEF C
=============================================================================
