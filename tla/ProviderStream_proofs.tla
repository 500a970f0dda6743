------------------------- MODULE ProviderStream_proofs ----------------------
(***************************************************************************)
(* What the user sees of a response while it arrives, and what is kept of  *)
(* it, for every text, every way to cut it into pieces and every number of *)
(* calls: the user sees what is outside the blocks of calls, and that is   *)
(* the answer that is kept (ShownInv: what is still to be shown depends on *)
(* the buffer alone); and the calls are returned as they were made         *)
(* (CallInv).                                                              *)
(***************************************************************************)
EXTENDS ProviderStream, ListTheorems
-----------------------------------------------------------------------------
(* Texts.                                                                  *)
Symbols == {"<", "f", "b", "e", "j", "t"}
Words == Seq(Symbols)

\* A marker stands at i: they differ in their last symbol.
Stands(s, i, c) == i \in 1..Len(s) /\ i + 2 \in 1..Len(s) /\ s[i] = "<" /\ s[i + 1] = "f" /\ s[i + 2] = c

LEMMA WordAt ==
    ASSUME NEW s \in Words
    PROVE  DOMAIN s = 1..Len(s) /\ Len(s) \in Nat /\ \A i \in 1..Len(s) : s[i] \in Symbols
BY DEF Words

\* What is cut out of a text.
LEMMA CutIs ==
    ASSUME NEW s \in Words, NEW m \in Nat, NEW n \in Nat, m > 0, n <= Len(s), m <= n + 1
    PROVE  /\ SubSeq(s, m, n) \in Words /\ Len(SubSeq(s, m, n)) = n + 1 - m
           /\ \A i \in 1..(n + 1 - m) : SubSeq(s, m, n)[i] = s[m + i - 1]
<1>1. PICK k \in Nat : k = Len(s) /\ \A i \in 1..k : s[i] \in Symbols
  BY WordAt
<1>2. \A i \in m..n : s[i] \in Symbols
  BY <1>1
<1>3. /\ SubSeq(s, m, n) \in Seq(Symbols)
      /\ Len(SubSeq(s, m, n)) = IF m <= n THEN n - m + 1 ELSE 0
      /\ \A i \in 1..(n - m + 1) : SubSeq(s, m, n)[i] = s[m + i - 1]
  BY <1>2, SubSeqProperties
<1>4. n - m + 1 = n + 1 - m /\ (~(m <= n) => n + 1 - m = 0)
  OBVIOUS
<1> QED
  BY <1>3, <1>4 DEF Words

LEMMA FromIs ==
    ASSUME NEW s \in Words, NEW n \in 0..Len(s)
    PROVE  /\ From(s, n + 1) \in Words /\ Len(From(s, n + 1)) = Len(s) - n
           /\ \A i \in 1..(Len(s) - n) : From(s, n + 1)[i] = s[n + i]
<1>1. PICK k \in Nat : k = Len(s)
  BY WordAt
<1>2. PICK m \in Nat : m = n + 1 /\ m > 0 /\ m <= k + 1 /\ k + 1 - m = k - n
  BY <1>1
<1>3. PICK t \in Words : t = SubSeq(s, m, k) /\ Len(t) = k + 1 - m /\ \A i \in 1..(k + 1 - m) : t[i] = s[m + i - 1]
  <2>1. k <= Len(s) /\ m <= k + 1
    BY <1>1, <1>2
  <2>2. /\ SubSeq(s, m, k) \in Words /\ Len(SubSeq(s, m, k)) = k + 1 - m
        /\ \A i \in 1..(k + 1 - m) : SubSeq(s, m, k)[i] = s[m + i - 1]
    BY <1>2, <2>1, CutIs
  <2> QED
    BY <2>2
<1>4. \A i \in 1..(k - n) : m + i - 1 = n + i
  BY <1>1, <1>2
<1>5. From(s, n + 1) = t
  BY <1>1, <1>2, <1>3 DEF From
<1> QED
  BY <1>1, <1>2, <1>3, <1>4, <1>5

LEMMA JoinIs ==
    ASSUME NEW s \in Words, NEW y \in Words
    PROVE  /\ s \o y \in Words /\ Len(s \o y) = Len(s) + Len(y)
           /\ \A i \in 1..Len(s) : (s \o y)[i] = s[i]
           /\ \A i \in 1..Len(y) : (s \o y)[Len(s) + i] = y[i]
<1>1. PICK k \in Nat, l \in Nat : k = Len(s) /\ l = Len(y)
  BY WordAt
<1>2. PICK w \in Words : w = s \o y /\ Len(w) = k + l /\ \A i \in 1..(k + l) : w[i] = IF i <= k THEN s[i] ELSE y[i - k]
  <2>1. s \in Seq(Symbols) /\ y \in Seq(Symbols)
    BY DEF Words
  <2>2. /\ s \o y \in Seq(Symbols) /\ Len(s \o y) = Len(s) + Len(y)
        /\ \A i \in 1..(Len(s) + Len(y)) : (s \o y)[i] = IF i <= Len(s) THEN s[i] ELSE y[i - Len(s)]
    BY <2>1, ConcatProperties
  <2> QED
    BY <1>1, <2>2 DEF Words
<1>3. ASSUME NEW i \in 1..k PROVE w[i] = s[i]
  <2>1. i \in 1..(k + l) /\ i <= k
    OBVIOUS
  <2> QED
    BY <1>2, <2>1
<1>4. ASSUME NEW i \in 1..l PROVE w[k + i] = y[i]
  <2>1. k + i \in 1..(k + l) /\ ~(k + i <= k) /\ (k + i) - k = i
    OBVIOUS
  <2> QED
    BY <1>2, <2>1
<1> QED
  BY <1>1, <1>2, <1>3, <1>4

LEMMA SameWord ==
    ASSUME NEW s \in Words, NEW t \in Words, Len(s) = Len(t), \A i \in 1..Len(s) : s[i] = t[i]
    PROVE  s = t
BY SeqEqual, Zenon DEF Words

LEMMA OccursAt ==
    ASSUME NEW s \in Words, NEW c \in Symbols, NEW i \in DOMAIN s
    PROVE  IsPrefix(<<"<", "f", c>>, From(s, i)) <=> Stands(s, i, c)
<1>1. PICK k \in Nat : k = Len(s) /\ DOMAIN s = 1..k
  BY WordAt
<1>2. PICK n \in Nat : n \in 0..k /\ n + 1 = i
  <2>1. i - 1 \in Nat /\ i - 1 \in 0..k /\ (i - 1) + 1 = i
    BY <1>1
  <2> QED
    BY <2>1
<1>3. PICK t \in Words : t = From(s, i) /\ Len(t) = k - n /\ \A j \in 1..(k - n) : t[j] = s[n + j]
  BY <1>1, <1>2, FromIs
<1>4. PICK m : m = <<"<", "f", c>>
  OBVIOUS
<1>5. m \in Words /\ Len(m) = 3 /\ m[1] = "<" /\ m[2] = "f" /\ m[3] = c
  BY <1>4 DEF Words, Symbols
<1>6. SubSeq(m, 1, 3) = m
  BY <1>5, SubSeqFull DEF Words
<1>7. PICK l \in Nat : l = k - n /\ l = Len(t)
  BY <1>2, <1>3
<1>8. CASE 3 <= l
  <2>1. PICK u \in Words : u = SubSeq(t, 1, 3) /\ Len(u) = 3 /\ \A j \in 1..3 : u[j] = t[1 + j - 1]
    <3>0. t \in Words /\ 3 <= Len(t) /\ 1 <= 3 + 1 /\ 1 > 0 /\ 1 \in Nat /\ 3 \in Nat
      BY <1>3, <1>7, <1>8
    <3>1. SubSeq(t, 1, 3) \in Words /\ Len(SubSeq(t, 1, 3)) = 3 + 1 - 1
          /\ \A j \in 1..(3 + 1 - 1) : SubSeq(t, 1, 3)[j] = t[1 + j - 1]
      BY <3>0, CutIs
    <3>2. 3 + 1 - 1 = 3
      OBVIOUS
    <3>3. Len(SubSeq(t, 1, 3)) = 3 /\ \A j \in 1..3 : SubSeq(t, 1, 3)[j] = t[1 + j - 1]
      BY <3>1, <3>2
    <3> QED
      BY <3>1, <3>3
  <2>2. u[1] = t[1] /\ u[2] = t[2] /\ u[3] = t[3]
    BY <2>1
  <2>3. t[1] = s[i] /\ t[2] = s[i + 1] /\ t[3] = s[i + 2]
    <3>1. 1 \in 1..(k - n) /\ 2 \in 1..(k - n) /\ 3 \in 1..(k - n) /\ n + 1 = i /\ n + 2 = i + 1 /\ n + 3 = i + 2
      BY <1>2, <1>7, <1>8
    <3>2. t[1] = s[n + 1] /\ t[2] = s[n + 2] /\ t[3] = s[n + 3]
      BY <1>3, <3>1
    <3> QED
      BY <3>1, <3>2
  <2>4. m = u <=> m[1] = u[1] /\ m[2] = u[2] /\ m[3] = u[3]
    <3>1. ASSUME m[1] = u[1], m[2] = u[2], m[3] = u[3] PROVE m = u
      <4>1. \A j \in 1..3 : m[j] = u[j]
        BY <3>1
      <4> QED
        BY <1>5, <2>1, <4>1, SameWord
    <3> QED
      BY <3>1
  <2>5. i \in 1..k /\ i + 2 \in 1..k
    BY <1>1, <1>2, <1>7, <1>8
  <2>6. IsPrefix(m, t) <=> m = u
    BY <1>5, <1>6, <1>7, <1>8, <2>1 DEF IsPrefix
  <2> QED
    BY <1>1, <1>3, <1>4, <1>5, <2>2, <2>3, <2>4, <2>5, <2>6 DEF Stands
<1>9. CASE ~(3 <= l)
  <2>1. ~IsPrefix(m, t)
    BY <1>5, <1>7, <1>9 DEF IsPrefix
  <2>2. i + 2 \notin 1..k
    BY <1>1, <1>2, <1>7, <1>9
  <2> QED
    BY <1>1, <1>3, <1>4, <2>1, <2>2 DEF Stands
<1> QED
  BY <1>8, <1>9

LEMMA MarkersAre ==
    ASSUME NEW s \in Words
    PROVE  /\ Occurrences(s, Begin) = {i \in 1..Len(s) : Stands(s, i, "b")}
           /\ Occurrences(s, End) = {i \in 1..Len(s) : Stands(s, i, "e")}
<1>1. DOMAIN s = 1..Len(s)
  BY WordAt
<1>2. \A c \in Symbols : \A i \in DOMAIN s : IsPrefix(<<"<", "f", c>>, From(s, i)) <=> Stands(s, i, c)
  BY OccursAt
<1>3. PICK b \in Symbols, e \in Symbols : b = "b" /\ e = "e"
  BY DEF Symbols
<1>4. Begin = <<"<", "f", b>> /\ End = <<"<", "f", e>> /\ Len(Begin) = 3 /\ Len(End) = 3
  BY <1>3 DEF Begin, End
<1> QED
  BY <1>1, <1>2, <1>3, <1>4 DEF Occurrences

\* Markers do not overlap.
LEMMA MarkersApart ==
    ASSUME NEW s \in Words, NEW i, NEW j, NEW c \in {"b", "e"}, NEW d \in {"b", "e"},
           Stands(s, i, c), Stands(s, j, d), i < j
    PROVE  i + 3 <= j
<1>1. PICK k \in Nat : k = Len(s)
  BY WordAt
<1>2. i \in Nat /\ j \in Nat
  BY <1>1 DEF Stands
<1>3. j # i + 1 /\ j # i + 2
  BY DEF Stands
<1> QED
  BY <1>2, <1>3

-----------------------------------------------------------------------------
(* What of a text is visible.                                              *)
Positions(s) == 1..Len(s)
Seen(s, i) == IF Between(s, i) THEN <<>> ELSE <<s[i]>>

(* A position is inside a block: a begin marker stands at or before it,    *)
(* and no end marker after that one ends before the position.              *)
LEMMA BetweenIs ==
    ASSUME NEW s \in Words, NEW i \in Nat
    PROVE  Between(s, i) <=> \E b \in 1..Len(s) :
              Stands(s, b, "b") /\ b <= i /\ \A e \in 1..Len(s) : Stands(s, e, "e") /\ b < e => i < e + 3
<1>1. /\ Occurrences(s, Begin) = {b \in 1..Len(s) : Stands(s, b, "b")}
      /\ Occurrences(s, End) = {e \in 1..Len(s) : Stands(s, e, "e")}
  BY MarkersAre
<1>2. Len(Begin) = 3 /\ Len(End) = 3
  BY DEF Begin, End
<1>3. Len(s) \in Nat
  BY WordAt
<1>4. ASSUME NEW b \in 1..Len(s), NEW e \in 1..Len(s), Stands(s, b, "b"), Stands(s, e, "e")
      PROVE  b + 3 <= e <=> b < e
  <2>1. b < e => b + 3 <= e
    BY <1>4, MarkersApart
  <2> QED
    BY <1>3, <2>1
<1>5. Between(s, i) <=> \E b \in Occurrences(s, Begin) :
          b <= i /\ \A e \in Occurrences(s, End) : b + 3 <= e => i < e + 3
  BY <1>2 DEF Between
<1> QED
  BY <1>1, <1>4, <1>5

LEMMA VisibleIs ==
    ASSUME NEW s \in Words
    PROVE  /\ Visible(s) = FlattenSeq([i \in 1..Len(s) |-> Seen(s, i)])
           /\ [i \in 1..Len(s) |-> Seen(s, i)] \in Seq(Words)
           /\ Visible(s) \in Words
<1>1. PICK k \in Nat : k = Len(s) /\ DOMAIN s = 1..k /\ \A i \in 1..k : s[i] \in Symbols
  BY WordAt
<1>2. ASSUME NEW i \in 1..k PROVE Seen(s, i) \in Words
  <2>1. s[i] \in Symbols
    BY <1>1
  <2>2. <<s[i]>> \in Words /\ <<>> \in Words
    BY <2>1 DEF Words
  <2> QED
    BY <2>2 DEF Seen
<1>3. Visible(s) = FlattenSeq([i \in 1..k |-> Seen(s, i)])
  BY <1>1 DEF Visible, Seen
<1>4. PICK z : z = [i \in 1..k |-> Seen(s, i)]
  OBVIOUS
<1>5. z \in Seq(Words)
  BY <1>2, <1>4
<1>6. FlattenSeq(z) \in Words
  BY <1>5, FlattenType DEF Words
<1> QED
  BY <1>1, <1>3, <1>4, <1>5, <1>6

\* What only shows single symbols, and what shows nothing.
LEMMA FlattenSingles ==
    ASSUME NEW T, NEW s \in Seq(T)
    PROVE  FlattenSeq([i \in 1..Len(s) |-> <<s[i]>>]) = s
<1> DEFINE Singles(t) == [i \in 1..Len(t) |-> <<t[i]>>]
<1> DEFINE C == {t \in Seq(T) : Singles(t) \in Seq(Seq(T)) /\ FlattenSeq(Singles(t)) = t}
<1>1. <<>> \in C
  <2>1. Singles(<<>>) = <<>>
    OBVIOUS
  <2>2. FlattenSeq(<<>>) = <<>> /\ <<>> \in Seq(Seq(T)) /\ <<>> \in Seq(T)
    BY DEF FlattenSeq
  <2> QED
    BY <2>1, <2>2
<1>2. ASSUME NEW t \in C, NEW e \in T PROVE Append(t, e) \in C
  <2>1. t \in Seq(T) /\ Singles(t) \in Seq(Seq(T)) /\ FlattenSeq(Singles(t)) = t
    OBVIOUS
  <2> HIDE DEF C
  <2>2. Append(t, e) \in Seq(T) /\ Len(Append(t, e)) = Len(t) + 1 /\ Len(t) \in Nat
        /\ (\A i \in 1..Len(t) : Append(t, e)[i] = t[i]) /\ Append(t, e)[Len(t) + 1] = e
    BY <2>1, AppendProperties
  <2>3. Singles(Append(t, e)) = Append(Singles(t), <<e>>)
    <3>1. PICK u : u = Append(t, e)
      OBVIOUS
    <3>2. PICK n \in Nat : n = Len(t)
      BY <2>2
    <3>3. Singles(u) = [i \in 1..(n + 1) |-> <<u[i]>>]
      BY <2>2, <3>1, <3>2
    <3>4. Append(Singles(t), <<e>>) = [i \in 1..(n + 1) |-> IF i = n + 1 THEN <<e>> ELSE <<t[i]>>]
      <4>1. DOMAIN Singles(t) = 1..n
        BY <3>2
      <4>2. Len(Singles(t)) = n
        BY <2>1, <4>1
      <4>3. Append(Singles(t), <<e>>) = [i \in 1..(n + 1) |-> IF i = n + 1 THEN <<e>> ELSE Singles(t)[i]]
        BY <2>1, <4>2
      <4>4. ASSUME NEW i \in 1..(n + 1), i # n + 1 PROVE Singles(t)[i] = <<t[i]>>
        <5>1. i \in 1..n
          BY <4>4
        <5> QED
          BY <3>2, <5>1
      <4> QED
        BY <4>3, <4>4
    <3>5. ASSUME NEW i \in 1..(n + 1) PROVE u[i] = IF i = n + 1 THEN e ELSE t[i]
      <4>1. i # n + 1 => i \in 1..n
        OBVIOUS
      <4> QED
        BY <2>2, <3>1, <3>2, <4>1
    <3> QED
      BY <3>1, <3>3, <3>4, <3>5
  <2>4. <<e>> \in Seq(T)
    OBVIOUS
  <2>5. Append(Singles(t), <<e>>) \in Seq(Seq(T)) /\ FlattenSeq(Append(Singles(t), <<e>>)) = FlattenSeq(Singles(t)) \o <<e>>
    <3>1. PICK x \in Seq(Seq(T)), y \in Seq(T) : x = Singles(t) /\ y = <<e>>
      BY <2>1, <2>4
    <3>2. Append(x, y) \in Seq(Seq(T)) /\ FlattenSeq(Append(x, y)) = FlattenSeq(x) \o y
      BY FlattenAppend
    <3> QED
      BY <3>1, <3>2
  <2>6. t \o <<e>> = Append(t, e)
    BY <2>1, AppendIsConcat
  <2> QED
    BY <2>1, <2>2, <2>3, <2>5, <2>6 DEF C
<1>3. C \in SUBSET Seq(T)
  OBVIOUS
<1> HIDE DEF C
<1>4. C = Seq(T)
  BY <1>1, <1>2, <1>3, SeqInduction
<1> QED
  BY <1>4 DEF C

LEMMA FlattenEmpties ==
    ASSUME NEW T, NEW n \in Nat
    PROVE  FlattenSeq([i \in 1..n |-> <<>>]) = <<>>
<1> DEFINE z(k) == [i \in 1..k |-> <<>>]
<1> DEFINE S == {k \in Nat : z(k) \in Seq(Seq(T)) /\ FlattenSeq(z(k)) = <<>>}
<1>1. 0 \in S
  <2>1. z(0) = <<>>
    OBVIOUS
  <2>2. FlattenSeq(<<>>) = <<>> /\ <<>> \in Seq(Seq(T))
    BY DEF FlattenSeq
  <2> QED
    BY <2>1, <2>2
<1>2. ASSUME NEW k \in S PROVE k + 1 \in S
  <2>1. k \in Nat /\ z(k) \in Seq(Seq(T)) /\ FlattenSeq(z(k)) = <<>>
    OBVIOUS
  <2> HIDE DEF S
  <2>2. Len(z(k)) = k
    BY <2>1
  <2>3. Append(z(k), <<>>) = z(k + 1)
    BY <2>1, <2>2
  <2>4. <<>> \in Seq(T)
    OBVIOUS
  <2>5. Append(z(k), <<>>) \in Seq(Seq(T)) /\ FlattenSeq(Append(z(k), <<>>)) = FlattenSeq(z(k)) \o <<>>
    <3>1. PICK x \in Seq(Seq(T)), y \in Seq(T) : x = z(k) /\ y = <<>>
      BY <2>1, <2>4
    <3>2. Append(x, y) \in Seq(Seq(T)) /\ FlattenSeq(Append(x, y)) = FlattenSeq(x) \o y
      BY FlattenAppend
    <3> QED
      BY <3>1, <3>2
  <2>6. <<>> \o <<>> = <<>>
    OBVIOUS
  <2>7. z(k + 1) \in Seq(Seq(T)) /\ FlattenSeq(z(k + 1)) = <<>>
    BY <2>1, <2>3, <2>5, <2>6
  <2> QED
    BY <2>1, <2>7 DEF S
<1>3. S \in SUBSET Nat
  OBVIOUS
<1> HIDE DEF S
<1>4. S = Nat
  BY <1>1, <1>2, <1>3, SetInduction
<1> QED
  BY <1>4 DEF S

LEMMA SplitList ==
    ASSUME NEW T, NEW z \in Seq(T), NEW a \in Nat, NEW b \in Nat, Len(z) = a + b
    PROVE  /\ [i \in 1..a |-> z[i]] \in Seq(T) /\ [i \in 1..b |-> z[a + i]] \in Seq(T)
           /\ z = [i \in 1..a |-> z[i]] \o [i \in 1..b |-> z[a + i]]
<1>1. \A i \in 1..a : z[i] \in T
  OBVIOUS
<1>2. \A i \in 1..b : z[a + i] \in T
  OBVIOUS
<1>3. PICK x \in Seq(T) : x = [i \in 1..a |-> z[i]]
  <2>1. [i \in 1..a |-> z[i]] \in Seq(T)
    BY <1>1
  <2> QED
    BY <2>1
<1>4. PICK y \in Seq(T) : y = [i \in 1..b |-> z[a + i]]
  <2>1. [i \in 1..b |-> z[a + i]] \in Seq(T)
    BY <1>2
  <2> QED
    BY <2>1
<1>5. Len(x) = a /\ Len(y) = b
  BY <1>3, <1>4
<1>6. /\ x \o y \in Seq(T) /\ Len(x \o y) = Len(x) + Len(y)
      /\ \A i \in 1..(Len(x) + Len(y)) : (x \o y)[i] = IF i <= Len(x) THEN x[i] ELSE y[i - Len(x)]
  BY ConcatProperties
<1>7. ASSUME NEW i \in 1..(a + b) PROVE (x \o y)[i] = z[i]
  <2>1. i <= a => i \in 1..a
    OBVIOUS
  <2>2. ~(i <= a) => i - a \in 1..b /\ a + (i - a) = i
    OBVIOUS
  <2> QED
    BY <1>3, <1>4, <1>5, <1>6, <2>1, <2>2
<1>8. PICK w \in Seq(T) : w = x \o y
  BY <1>6
<1>9. Len(w) = Len(z) /\ \A i \in 1..Len(w) : w[i] = z[i]
  BY <1>5, <1>6, <1>7, <1>8
<1>10. w = z
  BY <1>9, SeqEqual
<1> QED
  BY <1>3, <1>4, <1>8, <1>10

(* A text may be divided where every block that began has ended.           *)
Shut(s, n) == \A b \in 1..n : Stands(s, b, "b") => \E e \in 1..Len(s) : Stands(s, e, "e") /\ b < e /\ e + 2 <= n

LEMMA StandsAfter ==
    ASSUME NEW s \in Words, NEW n \in 0..Len(s), NEW i \in Nat \ {0}, NEW c
    PROVE  Stands(From(s, n + 1), i, c) <=> Stands(s, n + i, c)
<1>1. PICK k \in Nat : k = Len(s) /\ n \in 0..k
  BY WordAt
<1>2. PICK t \in Words : t = From(s, n + 1) /\ Len(t) = k - n /\ \A j \in 1..(k - n) : t[j] = s[n + j]
  BY <1>1, FromIs
<1>3. i \in 1..(k - n) /\ i + 2 \in 1..(k - n) <=> n + i \in 1..k /\ (n + i) + 2 \in 1..k
  BY <1>1
<1>4. n + (i + 1) = (n + i) + 1 /\ n + (i + 2) = (n + i) + 2
  BY <1>1
<1>5. ASSUME i \in 1..(k - n), i + 2 \in 1..(k - n)
      PROVE  t[i] = s[n + i] /\ t[i + 1] = s[(n + i) + 1] /\ t[i + 2] = s[(n + i) + 2]
  <2>1. i + 1 \in 1..(k - n)
    BY <1>1, <1>5
  <2> QED
    BY <1>2, <1>4, <1>5, <2>1
<1> QED
  BY <1>1, <1>2, <1>3, <1>5 DEF Stands

LEMMA BetweenAfter ==
    ASSUME NEW s \in Words, NEW n \in 0..Len(s), Shut(s, n), NEW i \in 1..(Len(s) - n)
    PROVE  Between(From(s, n + 1), i) <=> Between(s, n + i)
<1>1. PICK k \in Nat : k = Len(s) /\ n \in 0..k /\ i \in 1..(k - n)
  BY WordAt
<1>2. PICK t \in Words : t = From(s, n + 1) /\ Len(t) = k - n
  BY <1>1, FromIs
<1>3. \A j \in Nat \ {0} : \A c \in {"b", "e"} : Stands(t, j, c) <=> Stands(s, n + j, c)
  BY <1>1, <1>2, StandsAfter
<1>4. Between(s, n + i) <=> \E b \in 1..k :
          Stands(s, b, "b") /\ b <= n + i /\ \A e \in 1..k : Stands(s, e, "e") /\ b < e => n + i < e + 3
  <2>1. n + i \in Nat
    BY <1>1
  <2> QED
    BY <1>1, <2>1, BetweenIs
<1>5. Between(t, i) <=> \E b \in 1..(k - n) :
          Stands(t, b, "b") /\ b <= i /\ \A e \in 1..(k - n) : Stands(t, e, "e") /\ b < e => i < e + 3
  <2>1. i \in Nat
    BY <1>1
  <2> QED
    BY <1>2, <2>1, BetweenIs
<1>6. ASSUME Between(s, n + i) PROVE Between(t, i)
  <2>1. PICK b \in 1..k : Stands(s, b, "b") /\ b <= n + i /\ \A e \in 1..k : Stands(s, e, "e") /\ b < e => n + i < e + 3
    BY <1>4, <1>6
  <2>2. ~(b <= n)
    <3> SUFFICES ASSUME b <= n PROVE FALSE
      OBVIOUS
    <3>1. b \in 1..n
      BY <1>1
    <3>2. PICK e \in 1..k : Stands(s, e, "e") /\ b < e /\ e + 2 <= n
      BY <1>1, <2>1, <3>1 DEF Shut
    <3>3. n + i < e + 3
      BY <2>1, <3>2
    <3> QED
      BY <1>1, <3>2, <3>3
  <2>3. PICK d \in 1..(k - n) : n + d = b
    <3>1. b - n \in 1..(k - n) /\ n + (b - n) = b
      BY <1>1, <2>2
    <3> QED
      BY <3>1
  <2>4. Stands(t, d, "b") /\ d <= i
    <3>1. d \in Nat \ {0} /\ d <= i
      BY <1>1, <2>1, <2>3
    <3> QED
      BY <1>3, <2>1, <2>3, <3>1
  <2>5. ASSUME NEW e \in 1..(k - n), Stands(t, e, "e"), d < e PROVE i < e + 3
    <3>1. e \in Nat \ {0} /\ n + e \in 1..k /\ b < n + e
      BY <1>1, <2>3, <2>5
    <3>2. n + i < (n + e) + 3
      BY <1>3, <2>1, <2>5, <3>1
    <3> QED
      BY <1>1, <3>2
  <2> QED
    BY <1>5, <2>4, <2>5
<1>7. ASSUME Between(t, i) PROVE Between(s, n + i)
  <2>1. PICK b \in 1..(k - n) : Stands(t, b, "b") /\ b <= i /\ \A e \in 1..(k - n) : Stands(t, e, "e") /\ b < e => i < e + 3
    BY <1>5, <1>7
  <2>2. b \in Nat \ {0} /\ n + b \in 1..k /\ n + b <= n + i
    BY <1>1, <2>1
  <2>3. Stands(s, n + b, "b")
    BY <1>3, <2>1, <2>2
  <2>4. ASSUME NEW e \in 1..k, Stands(s, e, "e"), n + b < e PROVE n + i < e + 3
    <3>1. PICK d \in 1..(k - n) : n + d = e
      <4>1. e - n \in 1..(k - n) /\ n + (e - n) = e
        BY <1>1, <2>4
      <4> QED
        BY <4>1
    <3>2. d \in Nat \ {0} /\ b < d
      BY <1>1, <2>4, <3>1
    <3>3. i < d + 3
      BY <1>3, <2>1, <2>4, <3>1, <3>2
    <3> QED
      BY <1>1, <3>1, <3>3
  <2> QED
    BY <1>4, <2>2, <2>3, <2>4
<1> QED
  BY <1>2, <1>6, <1>7

(* There, what is visible of the text is what is visible of either part.   *)
LEMMA VisibleCut ==
    ASSUME NEW s \in Words, NEW n \in 0..Len(s), NEW m \in 0..n, Shut(s, n),
           \A i \in 1..m : ~Between(s, i), \A i \in 1..n : m < i => Between(s, i)
    PROVE  Visible(s) = SubSeq(s, 1, m) \o Visible(From(s, n + 1))
<1>1. PICK k \in Nat : k = Len(s) /\ n \in 0..k
  BY WordAt
<1>2. n \in Nat /\ m \in Nat /\ k - n \in Nat /\ n - m \in Nat /\ k = n + (k - n) /\ n = m + (n - m) /\ m \in 0..k
  BY <1>1
<1>3. PICK t \in Words : t = From(s, n + 1) /\ Len(t) = k - n /\ \A j \in 1..(k - n) : t[j] = s[n + j]
  BY <1>1, FromIs
<1>4. PICK z \in Seq(Words) : z = [i \in 1..k |-> Seen(s, i)] /\ Visible(s) = FlattenSeq(z)
  BY <1>1, VisibleIs
<1>5. PICK v \in Seq(Words) : v = [i \in 1..(k - n) |-> Seen(t, i)] /\ Visible(t) = FlattenSeq(v)
  BY <1>3, VisibleIs
<1>6. \A i \in 1..(k - n) : v[i] = z[n + i]
  <2> TAKE i \in 1..(k - n)
  <2>1. n + i \in 1..k /\ i \in 1..(Len(s) - n)
    BY <1>1, <1>2
  <2>2. Between(t, i) <=> Between(s, n + i)
    BY <1>3, <2>1, BetweenAfter
  <2>3. t[i] = s[n + i]
    BY <1>3
  <2> QED
    BY <1>4, <1>5, <2>1, <2>2, <2>3 DEF Seen
<1>7. Len(z) = k /\ Len(v) = k - n
  BY <1>2, <1>4, <1>5
<1>8. PICK p \in Seq(Words) : p = [i \in 1..n |-> z[i]] /\ z = p \o v
  <2>1. /\ [i \in 1..n |-> z[i]] \in Seq(Words)
        /\ z = [i \in 1..n |-> z[i]] \o [i \in 1..(k - n) |-> z[n + i]]
    BY <1>2, <1>7, SplitList
  <2>2. v = [i \in 1..(k - n) |-> z[n + i]]
    BY <1>5, <1>6
  <2> QED
    BY <2>1, <2>2
<1>9. Len(p) = n
  BY <1>2, <1>8
<1>10. PICK x \in Seq(Words), y \in Seq(Words) :
          x = [i \in 1..m |-> p[i]] /\ y = [i \in 1..(n - m) |-> p[m + i]] /\ p = x \o y
  <2>1. /\ [i \in 1..m |-> p[i]] \in Seq(Words) /\ [i \in 1..(n - m) |-> p[m + i]] \in Seq(Words)
        /\ p = [i \in 1..m |-> p[i]] \o [i \in 1..(n - m) |-> p[m + i]]
    BY <1>2, <1>9, SplitList
  <2> QED
    BY <2>1
<1>11. \A i \in 1..n : p[i] = IF Between(s, i) THEN <<>> ELSE <<s[i]>>
  BY <1>1, <1>2, <1>4, <1>8 DEF Seen
<1>12. FlattenSeq(y) = <<>>
  <2>1. \A i \in 1..(n - m) : p[m + i] = <<>>
    <3> TAKE i \in 1..(n - m)
    <3>1. m + i \in 1..n /\ m < m + i
      BY <1>2
    <3> QED
      BY <1>11, <3>1
  <2>2. y = [i \in 1..(n - m) |-> <<>>]
    BY <1>10, <2>1
  <2> QED
    BY <1>2, <2>2, FlattenEmpties
<1>13. FlattenSeq(x) = SubSeq(s, 1, m)
  <2>1. PICK r \in Words : r = SubSeq(s, 1, m) /\ Len(r) = m /\ \A i \in 1..m : r[i] = s[i]
    <3>1. SubSeq(s, 1, m) \in Words /\ Len(SubSeq(s, 1, m)) = m + 1 - 1
          /\ \A i \in 1..(m + 1 - 1) : SubSeq(s, 1, m)[i] = s[1 + i - 1]
      BY <1>1, <1>2, CutIs
    <3>2. m + 1 - 1 = m /\ \A i \in 1..m : 1 + i - 1 = i
      BY <1>2
    <3> QED
      BY <3>1, <3>2
  <2>2. \A i \in 1..m : p[i] = <<s[i]>>
    <3> TAKE i \in 1..m
    <3>1. i \in 1..n
      BY <1>2
    <3> QED
      BY <1>11, <3>1
  <2>3. x = [i \in 1..Len(r) |-> <<r[i]>>]
    BY <1>10, <2>1, <2>2
  <2> QED
    BY <2>1, <2>3, FlattenSingles DEF Words
<1>14. FlattenSeq(z) = (FlattenSeq(x) \o FlattenSeq(y)) \o FlattenSeq(v)
  <2>1. FlattenSeq(x \o y) = FlattenSeq(x) \o FlattenSeq(y)
    BY FlattenSplit DEF Words
  <2>2. FlattenSeq(p \o v) = FlattenSeq(p) \o FlattenSeq(v)
    BY FlattenSplit DEF Words
  <2> QED
    BY <1>8, <1>10, <2>1, <2>2
<1>15. FlattenSeq(x) \o <<>> = FlattenSeq(x)
  <2>1. FlattenSeq(x) \in Seq(Symbols)
    BY FlattenType DEF Words
  <2> QED
    BY <2>1, ConcatEmptySeq
<1> QED
  BY <1>3, <1>4, <1>5, <1>12, <1>13, <1>14, <1>15

(* What is held back at the end of a text.                                 *)
EndsOne(s) == Len(s) >= 1 /\ s[Len(s)] = "<"
EndsTwo(s) == Len(s) >= 2 /\ s[Len(s) - 1] = "<" /\ s[Len(s)] = "f"

LEMMA PartialIs ==
    ASSUME NEW s \in Words
    PROVE  /\ Partial(s) \in {0, 1, 2} /\ Partial(s) <= Len(s)
           /\ Partial(s) = 2 <=> EndsTwo(s)
           /\ Partial(s) = 1 <=> EndsOne(s)
<1>1. PICK k \in Nat : k = Len(s)
  BY WordAt
<1>2. Len(Begin) - 1 = 2 /\ SubSeq(Begin, 1, 1) = <<"<">> /\ SubSeq(Begin, 1, 2) = <<"<", "f">>
  <2>1. PICK m : m = Begin
    OBVIOUS
  <2>2. m \in Words /\ Len(m) = 3 /\ m[1] = "<" /\ m[2] = "f"
    BY <2>1 DEF Begin, Words, Symbols
  <2>3. PICK u \in Words : u = SubSeq(m, 1, 1) /\ Len(u) = 1 /\ u[1] = m[1]
    <3>1. SubSeq(m, 1, 1) \in Words /\ Len(SubSeq(m, 1, 1)) = 1 + 1 - 1
          /\ \A j \in 1..(1 + 1 - 1) : SubSeq(m, 1, 1)[j] = m[1 + j - 1]
      BY <2>2, CutIs
    <3>2. 1 + 1 - 1 = 1 /\ 1 \in 1..1
      OBVIOUS
    <3>3. Len(SubSeq(m, 1, 1)) = 1 /\ SubSeq(m, 1, 1)[1] = m[1]
      BY <3>1, <3>2
    <3> QED
      BY <3>1, <3>3
  <2>4. PICK v \in Words : v = SubSeq(m, 1, 2) /\ Len(v) = 2 /\ v[1] = m[1] /\ v[2] = m[2]
    <3>0. 2 <= Len(m) /\ 1 <= 2 + 1 /\ 1 > 0 /\ 1 \in Nat /\ 2 \in Nat
      BY <2>2
    <3>1. SubSeq(m, 1, 2) \in Words /\ Len(SubSeq(m, 1, 2)) = 2 + 1 - 1
          /\ \A j \in 1..(2 + 1 - 1) : SubSeq(m, 1, 2)[j] = m[1 + j - 1]
      BY <2>2, <3>0, CutIs
    <3>2. 2 + 1 - 1 = 2 /\ 1 \in 1..2 /\ 2 \in 1..2 /\ 1 + 1 - 1 = 1 /\ 1 + 2 - 1 = 2
      OBVIOUS
    <3>3. Len(SubSeq(m, 1, 2)) = 2 /\ SubSeq(m, 1, 2)[1] = m[1] /\ SubSeq(m, 1, 2)[2] = m[2]
      BY <3>1, <3>2
    <3> QED
      BY <3>1, <3>3
  <2>5. u = <<"<">>
    <3>1. u \in Seq(Symbols) /\ Len(u) = 1 /\ u[1] = "<"
      BY <2>2, <2>3 DEF Words
    <3> QED
      BY <3>1
  <2>6. v = <<"<", "f">>
    <3>1. v \in Seq(Symbols) /\ Len(v) = 2 /\ v[1] = "<" /\ v[2] = "f"
      BY <2>2, <2>4 DEF Words
    <3> QED
      BY <3>1
  <2>7. Len(Begin) - 1 = 2
    BY <2>1, <2>2
  <2> QED
    BY <2>1, <2>3, <2>4, <2>5, <2>6, <2>7
<1>3. PICK S : S = {n \in 1..2 : n <= k /\ From(s, k - n + 1) = SubSeq(Begin, 1, n)}
  OBVIOUS
<1>4. Partial(s) = Max({0} \cup S)
  BY <1>1, <1>2, <1>3 DEF Partial
<1>5. 1 \in S <=> EndsOne(s)
  <2>1. ~(k >= 1) => 1 \notin S /\ ~EndsOne(s)
    BY <1>1, <1>3 DEF EndsOne
  <2>2. ASSUME k >= 1 PROVE 1 \in S <=> EndsOne(s)
    <3>1. k - 1 \in 0..Len(s) /\ Len(s) - (k - 1) = 1 /\ (k - 1) + 1 = k /\ k - 1 + 1 = k
      BY <1>1, <2>2
    <3>2. From(s, k) \in Words /\ Len(From(s, k)) = 1 /\ From(s, k)[1] = s[k]
      <4>1. PICK n \in 0..Len(s) : n = k - 1
        BY <3>1
      <4>2. From(s, n + 1) \in Words /\ Len(From(s, n + 1)) = Len(s) - n
            /\ \A i \in 1..(Len(s) - n) : From(s, n + 1)[i] = s[n + i]
        BY FromIs
      <4>3. n + 1 = k /\ Len(s) - n = 1 /\ 1 \in 1..1
        BY <3>1, <4>1
      <4> QED
        BY <4>2, <4>3
    <3>3. From(s, k) = <<"<">> <=> s[k] = "<"
      BY <3>2 DEF Words
    <3>4. 1 \in S <=> From(s, k) = <<"<">>
      <4>1. 1 \in S <=> 1 <= k /\ From(s, k - 1 + 1) = SubSeq(Begin, 1, 1)
        BY <1>3
      <4> QED
        BY <1>2, <2>2, <3>1, <4>1
    <3> QED
      BY <1>1, <2>2, <3>3, <3>4 DEF EndsOne
  <2> QED
    BY <2>1, <2>2
<1>6. 2 \in S <=> EndsTwo(s)
  <2>1. ~(k >= 2) => 2 \notin S /\ ~EndsTwo(s)
    BY <1>1, <1>3 DEF EndsTwo
  <2>2. ASSUME k >= 2 PROVE 2 \in S <=> EndsTwo(s)
    <3>1. k - 2 \in 0..Len(s) /\ Len(s) - (k - 2) = 2 /\ (k - 2) + 1 = k - 1 /\ (k - 2) + 2 = k /\ k - 2 + 1 = k - 1
      BY <1>1, <2>2
    <3>2. From(s, k - 1) \in Words /\ Len(From(s, k - 1)) = 2 /\ From(s, k - 1)[1] = s[k - 1] /\ From(s, k - 1)[2] = s[k]
      <4>1. PICK n \in 0..Len(s) : n = k - 2
        BY <3>1
      <4>2. From(s, n + 1) \in Words /\ Len(From(s, n + 1)) = Len(s) - n
            /\ \A i \in 1..(Len(s) - n) : From(s, n + 1)[i] = s[n + i]
        BY FromIs
      <4>3. n + 1 = k - 1 /\ n + 2 = k /\ Len(s) - n = 2 /\ 1 \in 1..2 /\ 2 \in 1..2
        BY <3>1, <4>1
      <4>4. \A i \in 1..2 : From(s, k - 1)[i] = s[n + i]
        BY <4>2, <4>3
      <4> QED
        BY <4>2, <4>3, <4>4
    <3>3. From(s, k - 1) = <<"<", "f">> <=> s[k - 1] = "<" /\ s[k] = "f"
      BY <3>2 DEF Words
    <3>4. 2 \in S <=> From(s, k - 1) = <<"<", "f">>
      <4>1. 2 \in S <=> 2 <= k /\ From(s, k - 2 + 1) = SubSeq(Begin, 1, 2)
        BY <1>3
      <4> QED
        BY <1>2, <2>2, <3>1, <4>1
    <3> QED
      BY <1>1, <2>2, <3>3, <3>4 DEF EndsTwo
  <2> QED
    BY <2>1, <2>2
<1>7. ~(EndsOne(s) /\ EndsTwo(s))
  BY DEF EndsOne, EndsTwo
<1>8. PICK M \in SUBSET Nat : M = {0} \cup S
  <2>1. {0} \cup S \in SUBSET Nat
    BY <1>3
  <2> QED
    BY <2>1
<1>9. S \subseteq {1, 2}
  <2>1. \A n \in 1..2 : n \in {1, 2}
    OBVIOUS
  <2> QED
    BY <1>3, <2>1
<1>10. CASE EndsTwo(s)
  <2>1. M = {0, 2}
    BY <1>5, <1>6, <1>7, <1>8, <1>9, <1>10
  <2>2. 2 \in M /\ \A m \in M : m <= 2
    BY <2>1
  <2>3. Max(M) = 2
    BY <2>2, GreatestIs
  <2> QED
    BY <1>1, <1>4, <1>7, <1>8, <1>10, <2>3 DEF EndsTwo
<1>11. CASE EndsOne(s)
  <2>1. M = {0, 1}
    BY <1>5, <1>6, <1>7, <1>8, <1>9, <1>11
  <2>2. 1 \in M /\ \A m \in M : m <= 1
    BY <2>1
  <2>3. Max(M) = 1
    BY <2>2, GreatestIs
  <2> QED
    BY <1>1, <1>4, <1>7, <1>8, <1>11, <2>3 DEF EndsOne
<1>12. CASE ~EndsOne(s) /\ ~EndsTwo(s)
  <2>1. M = {0}
    BY <1>5, <1>6, <1>8, <1>9, <1>12
  <2>2. 0 \in M /\ \A m \in M : m <= 0
    BY <2>1
  <2>3. Max(M) = 0
    BY <2>2, GreatestIs
  <2> QED
    BY <1>1, <1>4, <1>8, <1>12, <2>3
<1> QED
  BY <1>10, <1>11, <1>12

LEMMA JoinCut ==
    ASSUME NEW s \in Words, NEW y \in Words, NEW n \in 0..Len(s)
    PROVE  SubSeq(s \o y, 1, n) = SubSeq(s, 1, n) /\ From(s \o y, n + 1) = From(s, n + 1) \o y
<1>1. PICK k \in Nat, l \in Nat : k = Len(s) /\ l = Len(y) /\ n \in 0..k
  BY WordAt
<1>2. PICK w \in Words : w = s \o y /\ Len(w) = k + l /\ (\A i \in 1..k : w[i] = s[i]) /\ (\A i \in 1..l : w[k + i] = y[i])
  <2>1. /\ s \o y \in Words /\ Len(s \o y) = Len(s) + Len(y)
        /\ \A i \in 1..Len(s) : (s \o y)[i] = s[i]
        /\ \A i \in 1..Len(y) : (s \o y)[Len(s) + i] = y[i]
    BY JoinIs
  <2> QED
    BY <1>1, <2>1
<1>3. SubSeq(w, 1, n) = SubSeq(s, 1, n)
  <2>1. n \in Nat /\ n <= Len(s) /\ n <= Len(w) /\ n + 1 - 1 = n /\ 1 <= n + 1 /\ 1 > 0
    BY <1>1, <1>2
  <2>2. SubSeq(w, 1, n) \in Words /\ Len(SubSeq(w, 1, n)) = n /\ \A i \in 1..n : SubSeq(w, 1, n)[i] = w[1 + i - 1]
    <3>1. SubSeq(w, 1, n) \in Words /\ Len(SubSeq(w, 1, n)) = n + 1 - 1 /\ \A i \in 1..(n + 1 - 1) : SubSeq(w, 1, n)[i] = w[1 + i - 1]
      BY <2>1, CutIs
    <3> QED
      BY <2>1, <3>1
  <2>3. SubSeq(s, 1, n) \in Words /\ Len(SubSeq(s, 1, n)) = n /\ \A i \in 1..n : SubSeq(s, 1, n)[i] = s[1 + i - 1]
    <3>1. SubSeq(s, 1, n) \in Words /\ Len(SubSeq(s, 1, n)) = n + 1 - 1 /\ \A i \in 1..(n + 1 - 1) : SubSeq(s, 1, n)[i] = s[1 + i - 1]
      BY <2>1, CutIs
    <3> QED
      BY <2>1, <3>1
  <2>4. \A i \in 1..n : SubSeq(w, 1, n)[i] = SubSeq(s, 1, n)[i]
    <3> TAKE i \in 1..n
    <3>1. 1 + i - 1 = i /\ i \in 1..k
      BY <1>1
    <3> QED
      BY <1>2, <2>2, <2>3, <3>1
  <2> QED
    BY <2>2, <2>3, <2>4, SameWord
<1>4. From(w, n + 1) = From(s, n + 1) \o y
  <2>1. PICK t \in Words : t = From(s, n + 1) /\ Len(t) = k - n /\ \A i \in 1..(k - n) : t[i] = s[n + i]
    BY <1>1, FromIs
  <2>2. PICK u \in Words : u = From(w, n + 1) /\ Len(u) = (k + l) - n /\ \A i \in 1..((k + l) - n) : u[i] = w[n + i]
    <3>1. n \in 0..Len(w)
      BY <1>1, <1>2
    <3>2. From(w, n + 1) \in Words /\ Len(From(w, n + 1)) = Len(w) - n /\ \A i \in 1..(Len(w) - n) : From(w, n + 1)[i] = w[n + i]
      BY <3>1, FromIs
    <3> QED
      BY <1>2, <3>2
  <2>3. PICK v \in Words : v = t \o y /\ Len(v) = (k - n) + l /\ (\A i \in 1..(k - n) : v[i] = t[i])
                           /\ \A i \in 1..l : v[(k - n) + i] = y[i]
    <3>1. /\ t \o y \in Words /\ Len(t \o y) = Len(t) + Len(y)
          /\ \A i \in 1..Len(t) : (t \o y)[i] = t[i]
          /\ \A i \in 1..Len(y) : (t \o y)[Len(t) + i] = y[i]
      BY JoinIs
    <3>2. Len(y) = l /\ Len(t) = k - n
      BY <1>1, <2>1
    <3> QED
      BY <3>1, <3>2
  <2>4. (k + l) - n = (k - n) + l
    BY <1>1
  <2>5. ASSUME NEW i \in 1..((k + l) - n) PROVE u[i] = v[i]
    <3>1. CASE i <= k - n
      <4>1. i \in 1..(k - n) /\ n + i \in 1..k
        BY <1>1, <3>1
      <4> QED
        BY <1>2, <2>1, <2>2, <2>3, <4>1
    <3>2. CASE ~(i <= k - n)
      <4>1. PICK j \in 1..l : i = (k - n) + j
        <5>1. i - (k - n) \in 1..l /\ i = (k - n) + (i - (k - n))
          BY <1>1, <3>2
        <5> QED
          BY <5>1
      <4>2. n + i = k + j
        BY <1>1, <4>1
      <4>3. u[i] = w[k + j]
        BY <2>2, <4>2
      <4>4. v[i] = y[j]
        BY <2>3, <4>1
      <4> QED
        BY <1>2, <4>3, <4>4
    <3> QED
      BY <3>1, <3>2
  <2>6. Len(u) = Len(v) /\ \A i \in 1..Len(u) : u[i] = v[i]
    BY <2>2, <2>3, <2>4, <2>5
  <2> QED
    BY <2>1, <2>2, <2>3, <2>6, SameWord
<1> QED
  BY <1>2, <1>3, <1>4

LEMMA StandsBefore ==
    ASSUME NEW s \in Words, NEW y \in Words, NEW i \in Nat \ {0}, i + 2 <= Len(s), NEW c
    PROVE  Stands(s \o y, i, c) <=> Stands(s, i, c)
<1>1. PICK k \in Nat, l \in Nat : k = Len(s) /\ l = Len(y)
  BY WordAt
<1>2. PICK w \in Words : w = s \o y /\ Len(w) = k + l /\ \A j \in 1..k : w[j] = s[j]
  <2>1. s \o y \in Words /\ Len(s \o y) = Len(s) + Len(y) /\ \A j \in 1..Len(s) : (s \o y)[j] = s[j]
    BY JoinIs
  <2> QED
    BY <1>1, <2>1
<1>3. i \in 1..k /\ i + 1 \in 1..k /\ i + 2 \in 1..k /\ i \in 1..(k + l) /\ i + 2 \in 1..(k + l)
  BY <1>1
<1> QED
  BY <1>1, <1>2, <1>3 DEF Stands

(* What a round leaves of a text: where it cuts, and what stays.           *)
Cuts(s, m, n) ==
    Shut(s, n) /\ (\A i \in 1..m : ~Between(s, i)) /\ (\A i \in 1..n : m < i => Between(s, i))

\* The filter waits for the end of a block, or for the rest of a marker.
Opened(s) == Stands(s, 1, "b") /\ \A e \in 1..Len(s) : ~Stands(s, e, "e")
Half(s) == s = <<>> \/ s = <<"<">> \/ s = <<"<", "f">>
Held(s) == Opened(s) \/ Half(s)

LEMMA NoneBefore ==
    ASSUME NEW s \in Words, NEW n \in 0..Len(s), \A b \in 1..n : ~Stands(s, b, "b")
    PROVE  Cuts(s, n, n)
<1>1. PICK k \in Nat : k = Len(s) /\ n \in 0..k
  BY WordAt
<1>2. ASSUME NEW i \in 1..n PROVE ~Between(s, i)
  <2>1. i \in Nat
    BY <1>1
  <2>2. ASSUME Between(s, i) PROVE FALSE
    <3>1. PICK b \in 1..Len(s) : Stands(s, b, "b") /\ b <= i
      BY <2>1, <2>2, BetweenIs
    <3>2. b \in 1..n
      BY <1>1, <3>1
    <3> QED
      BY <3>1, <3>2
  <2> QED
    BY <2>2
<1>3. \A i \in 1..n : ~(n < i)
  BY <1>1
<1> QED
  BY <1>2, <1>3 DEF Cuts, Shut

\* Before what is held back there is no block, whatever follows.
LEMMA CutsPlain ==
    ASSUME NEW s \in Words, Occurrences(s, Begin) = {}, NEW y \in Words
    PROVE  Cuts(s \o y, Len(s) - Partial(s), Len(s) - Partial(s))
<1>1. PICK k \in Nat, l \in Nat : k = Len(s) /\ l = Len(y)
  BY WordAt
<1>2. PICK p \in 0..2 : p = Partial(s) /\ p <= k /\ (p = 2 <=> EndsTwo(s)) /\ (p = 1 <=> EndsOne(s))
  BY <1>1, PartialIs
<1>3. PICK w \in Words : w = s \o y /\ Len(w) = k + l /\ \A i \in 1..k : w[i] = s[i]
  <2>1. s \o y \in Words /\ Len(s \o y) = Len(s) + Len(y) /\ \A i \in 1..Len(s) : (s \o y)[i] = s[i]
    BY JoinIs
  <2> QED
    BY <1>1, <2>1
<1>4. \A b \in 1..k : ~Stands(s, b, "b")
  BY <1>1, MarkersAre
<1>5. ASSUME NEW b \in 1..(k - p), Stands(w, b, "b") PROVE FALSE
  <2>1. b \in Nat \ {0} /\ b \in 1..k
    BY <1>1, <1>2
  <2>2. ~(b + 2 <= k)
    <3>1. b + 2 <= k => Stands(s, b, "b")
      BY <1>1, <1>3, <1>5, <2>1, StandsBefore
    <3> QED
      BY <1>4, <2>1, <3>1
  <2>3. w[b] = "<" /\ w[b + 1] = "f"
    BY <1>5 DEF Stands
  <2>4. CASE b = k
    <3>1. s[k] = "<" /\ k >= 1
      BY <1>3, <2>1, <2>3, <2>4
    <3>2. p = 1
      BY <1>1, <1>2, <3>1 DEF EndsOne
    <3> QED
      BY <1>1, <2>4, <3>2
  <2>5. CASE b + 1 = k
    <3>1. b + 1 \in 1..k /\ k - 1 = b
      BY <2>1, <2>5
    <3>2. s[k - 1] = "<" /\ s[k] = "f" /\ k >= 2
      BY <1>3, <2>1, <2>3, <2>5, <3>1
    <3>3. p = 2
      BY <1>1, <1>2, <3>2 DEF EndsTwo
    <3> QED
      BY <1>1, <2>5, <3>3
  <2>6. b = k \/ b + 1 = k
    BY <1>1, <2>1, <2>2
  <2> QED
    BY <2>4, <2>5, <2>6
<1>6. PICK n \in 0..Len(w) : n = k - p
  <2>1. k - p \in 0..Len(w)
    BY <1>1, <1>2, <1>3
  <2> QED
    BY <2>1
<1>7. Cuts(w, n, n)
  BY <1>5, <1>6, NoneBefore
<1> QED
  BY <1>1, <1>2, <1>3, <1>6, <1>7

\* Nor before the first begin marker.
LEMMA CutsBegun ==
    ASSUME NEW s \in Words, NEW b \in 1..Len(s), Stands(s, b, "b"),
           \A i \in 1..Len(s) : Stands(s, i, "b") => b <= i, NEW y \in Words
    PROVE  Cuts(s \o y, b - 1, b - 1)
<1>1. PICK k \in Nat, l \in Nat : k = Len(s) /\ l = Len(y)
  BY WordAt
<1>2. b \in 1..k /\ b + 2 <= k
  BY <1>1 DEF Stands
<1>3. PICK w \in Words : w = s \o y /\ Len(w) = k + l
  BY <1>1, JoinIs
<1>4. ASSUME NEW i \in 1..(b - 1), Stands(w, i, "b") PROVE FALSE
  <2>1. i \in Nat \ {0} /\ i + 2 <= Len(s) /\ i \in 1..Len(s) /\ ~(b <= i)
    BY <1>1, <1>2
  <2>2. Stands(s, i, "b")
    BY <1>3, <1>4, <2>1, StandsBefore
  <2> QED
    BY <2>1, <2>2
<1>5. PICK n \in 0..Len(w) : n = b - 1
  <2>1. b - 1 \in 0..Len(w)
    BY <1>1, <1>2, <1>3
  <2> QED
    BY <2>1
<1>6. Cuts(w, n, n)
  BY <1>4, <1>5, NoneBefore
<1> QED
  BY <1>3, <1>5, <1>6

\* The first block ends with the first end marker after its beginning.
LEMMA CutsBlock ==
    ASSUME NEW s \in Words, NEW b \in 1..Len(s), Stands(s, b, "b"),
           \A i \in 1..Len(s) : Stands(s, i, "b") => b <= i,
           NEW e \in 1..Len(s), Stands(s, e, "e"), b <= e,
           \A i \in 1..Len(s) : Stands(s, i, "e") /\ b <= i => e <= i, NEW y \in Words
    PROVE  b + 3 <= e /\ e + 2 <= Len(s) /\ Cuts(s \o y, b - 1, e + 2)
<1>1. PICK k \in Nat, l \in Nat : k = Len(s) /\ l = Len(y)
  BY WordAt
<1>2. b # e
  BY DEF Stands
<1>3. b + 3 <= e /\ e + 2 <= k /\ b \in 1..k /\ e \in 1..k
  <2>1. b < e
    BY <1>1, <1>2
  <2>2. b + 3 <= e
    BY <2>1, MarkersApart
  <2> QED
    BY <1>1, <2>2 DEF Stands
<1>4. PICK w \in Words : w = s \o y /\ Len(w) = k + l
  BY <1>1, JoinIs
<1>5. \A i \in 1..k : \A c \in {"b", "e"} : i + 2 <= k => (Stands(w, i, c) <=> Stands(s, i, c))
  <2> TAKE i \in 1..k
  <2> TAKE c \in {"b", "e"}
  <2>1. i \in Nat \ {0}
    OBVIOUS
  <2> QED
    BY <1>1, <1>4, <2>1, StandsBefore
<1>6. Cuts(w, b - 1, b - 1)
  BY <1>4, CutsBegun
<1>7. Stands(w, b, "b") /\ Stands(w, e, "e")
  BY <1>1, <1>3, <1>5
<1>8. Shut(w, e + 2)
  <2> SUFFICES ASSUME NEW d \in 1..(e + 2), Stands(w, d, "b")
               PROVE  \E f \in 1..Len(w) : Stands(w, f, "e") /\ d < f /\ f + 2 <= e + 2
    BY DEF Shut
  <2>1. d \in Nat
    BY <1>3
  <2>2. ~(e < d)
    <3>1. e < d => e + 3 <= d
      BY <1>7, MarkersApart
    <3> QED
      BY <1>3, <2>1, <3>1
  <2>3. d # e
    BY <1>7 DEF Stands
  <2>4. d < e /\ e \in 1..Len(w)
    BY <1>1, <1>3, <1>4, <2>1, <2>2, <2>3
  <2>5. e + 2 <= e + 2
    BY <1>3
  <2> QED
    BY <1>7, <2>4, <2>5
<1>9. ASSUME NEW i \in 1..(e + 2), b - 1 < i PROVE Between(w, i)
  <2>1. i \in Nat /\ b <= i /\ b \in 1..Len(w)
    BY <1>1, <1>3, <1>4, <1>9
  <2>2. ASSUME NEW f \in 1..Len(w), Stands(w, f, "e"), b < f PROVE i < f + 3
    <3>1. ~(f < e)
      <4> SUFFICES ASSUME f < e PROVE FALSE
        OBVIOUS
      <4>1. f \in 1..k /\ f + 2 <= k /\ b <= f
        BY <1>1, <1>3, <1>4, <2>2
      <4>2. Stands(s, f, "e")
        BY <1>5, <2>2, <4>1
      <4>3. e <= f
        BY <1>1, <4>1, <4>2
      <4> QED
        BY <1>3, <1>4, <4>3
    <3> QED
      BY <1>1, <1>3, <1>4, <3>1
  <2> QED
    BY <1>7, <2>1, <2>2, BetweenIs
<1>10. \A i \in 1..(b - 1) : ~Between(w, i)
  BY <1>6 DEF Cuts
<1> QED
  BY <1>1, <1>3, <1>4, <1>8, <1>9, <1>10 DEF Cuts

(* TextToolCallStreamFilter.feed, one round: it cuts where no block is     *)
(* open, whatever text comes next, and keeps what may become a block.      *)
Rounded(s, m, n) ==
    /\ Round(s).out = SubSeq(s, 1, m) /\ Round(s).rest = From(s, n + 1)
    /\ Round(s).again => n > 0
    /\ ~Round(s).again => Held(From(s, n + 1))
    /\ \A y \in Words : Cuts(s \o y, m, n)

LEMMA HalfIs ==
    ASSUME NEW s \in Words, NEW p, p = Partial(s)
    PROVE  Half(From(s, (Len(s) - p) + 1)) /\ Len(s) - p \in 0..Len(s)
<1>1. PICK k \in Nat : k = Len(s)
  BY WordAt
<1>2. p \in {0, 1, 2} /\ p <= k /\ (p = 2 <=> EndsTwo(s)) /\ (p = 1 <=> EndsOne(s))
  BY <1>1, PartialIs
<1>3. PICK n \in 0..k : n = k - p /\ k - n = p
  <2>1. k - p \in 0..k /\ k - (k - p) = p
    BY <1>1, <1>2
  <2> QED
    BY <2>1
<1>4. PICK t \in Words : t = From(s, n + 1) /\ Len(t) = p /\ \A i \in 1..p : t[i] = s[n + i]
  <2>1. From(s, n + 1) \in Words /\ Len(From(s, n + 1)) = Len(s) - n /\ \A i \in 1..(Len(s) - n) : From(s, n + 1)[i] = s[n + i]
    BY <1>1, FromIs
  <2>2. Len(s) - n = p
    BY <1>1, <1>3
  <2> QED
    BY <2>1, <2>2
<1>5. CASE p = 0
  <2>1. t = <<>>
    BY <1>4, <1>5 DEF Words
  <2> QED
    BY <1>1, <1>3, <1>4, <2>1 DEF Half
<1>6. CASE p = 1
  <2>1. t[1] = "<"
    <3>1. n + 1 = k /\ 1 \in 1..p
      BY <1>2, <1>3, <1>6
    <3> QED
      BY <1>1, <1>2, <1>4, <1>6, <3>1 DEF EndsOne
  <2>2. t \in Seq(Symbols) /\ Len(t) = 1
    BY <1>4, <1>6 DEF Words
  <2>3. t = <<"<">>
    BY <2>1, <2>2
  <2> QED
    BY <1>1, <1>3, <1>4, <2>3 DEF Half
<1>7. CASE p = 2
  <2>1. t[1] = "<" /\ t[2] = "f"
    <3>1. n + 1 = k - 1 /\ n + 2 = k /\ 1 \in 1..p /\ 2 \in 1..p
      BY <1>2, <1>3, <1>7
    <3> QED
      BY <1>1, <1>2, <1>4, <1>7, <3>1 DEF EndsTwo
  <2>2. t \in Seq(Symbols) /\ Len(t) = 2
    BY <1>4, <1>7 DEF Words
  <2>3. t = <<"<", "f">>
    BY <2>1, <2>2
  <2> QED
    BY <1>1, <1>3, <1>4, <2>3 DEF Half
<1> QED
  BY <1>2, <1>5, <1>6, <1>7

LEMMA RoundIs ==
    ASSUME NEW s \in Words
    PROVE  \E n \in 0..Len(s) : \E m \in 0..n : Rounded(s, m, n)
<1>1. PICK k \in Nat : k = Len(s)
  BY WordAt
<1>2. PICK B \in SUBSET Nat : B = Occurrences(s, Begin) /\ B = {i \in 1..k : Stands(s, i, "b")}
  <2>1. Occurrences(s, Begin) = {i \in 1..k : Stands(s, i, "b")}
    BY <1>1, MarkersAre
  <2>2. {i \in 1..k : Stands(s, i, "b")} \in SUBSET Nat
    OBVIOUS
  <2> QED
    BY <2>1, <2>2
<1>3. PICK b : b = Min(B)
  OBVIOUS
<1>4. PICK E : E = {e \in Occurrences(s, End) : e >= b}
  OBVIOUS
<1>5. E = {e \in 1..k : Stands(s, e, "e") /\ e >= b}
  BY <1>1, <1>4, MarkersAre
<1>6. /\ B = {} => Round(s) = [out |-> SubSeq(s, 1, Len(s) - Partial(s)),
                               rest |-> From(s, Len(s) - Partial(s) + 1), again |-> FALSE]
      /\ B # {} /\ E = {} => Round(s) = [out |-> SubSeq(s, 1, b - 1), rest |-> From(s, b), again |-> FALSE]
      /\ B # {} /\ E # {} => Round(s) = [out |-> SubSeq(s, 1, b - 1), rest |-> From(s, Min(E) + Len(End)), again |-> TRUE]
  BY <1>2, <1>3, <1>4, Zenon DEF Round
<1>7. CASE B = {}
  <2>1. PICK n \in 0..k : n = Len(s) - Partial(s) /\ Half(From(s, n + 1))
    BY <1>1, HalfIs
  <2>2. \A y \in Words : Cuts(s \o y, n, n)
    BY <1>2, <1>7, <2>1, CutsPlain
  <2>3. Round(s).out = SubSeq(s, 1, n) /\ Round(s).rest = From(s, n + 1) /\ ~Round(s).again
    BY <1>6, <1>7, <2>1
  <2>4. Rounded(s, n, n) /\ n \in 0..Len(s) /\ n \in 0..n
    BY <1>1, <2>1, <2>2, <2>3 DEF Rounded, Held
  <2> QED
    BY <2>4
<1>8. CASE B # {}
  <2>1. b \in 1..k /\ Stands(s, b, "b") /\ \A i \in 1..k : Stands(s, i, "b") => b <= i
    BY <1>2, <1>3, <1>8, LeastIs
  <2>2. PICK m \in Nat : m = b - 1 /\ m + 1 = b /\ m \in 0..k
    <3>1. b - 1 \in Nat /\ (b - 1) + 1 = b /\ b - 1 \in 0..k
      BY <2>1
    <3> QED
      BY <3>1
  <2>3. CASE E = {}
    <3>1. \A y \in Words : Cuts(s \o y, m, m)
      BY <1>1, <2>1, <2>2, CutsBegun
    <3>2. Round(s).out = SubSeq(s, 1, m) /\ Round(s).rest = From(s, m + 1) /\ ~Round(s).again
      BY <1>6, <1>8, <2>2, <2>3
    <3>3. Opened(From(s, m + 1))
      <4>1. \A i \in Nat \ {0} : \A c \in {"b", "e"} : Stands(From(s, m + 1), i, c) <=> Stands(s, m + i, c)
        BY <1>1, <2>2, StandsAfter
      <4>2. PICK t \in Words : t = From(s, m + 1) /\ Len(t) = k - m
        BY <1>1, <2>2, FromIs
      <4>3. Stands(t, 1, "b")
        BY <2>1, <2>2, <4>1, <4>2
      <4>4. ASSUME NEW e \in 1..Len(t), Stands(t, e, "e") PROVE FALSE
        <5>1. e \in Nat \ {0} /\ m + e \in 1..k /\ m + e >= b
          BY <1>1, <2>2, <4>2
        <5>2. Stands(s, m + e, "e")
          BY <4>1, <4>2, <4>4, <5>1
        <5> QED
          BY <1>5, <2>3, <5>1, <5>2
      <4> QED
        BY <4>2, <4>3, <4>4 DEF Opened
    <3>4. Rounded(s, m, m) /\ m \in 0..Len(s) /\ m \in 0..m
      BY <1>1, <2>2, <3>1, <3>2, <3>3 DEF Rounded, Held
    <3> QED
      BY <3>4
  <2>4. CASE E # {}
    <3>1. PICK e \in Nat : e = Min(E) /\ e \in E /\ \A i \in E : e <= i
      <4>1. E \in SUBSET Nat
        BY <1>5
      <4> QED
        BY <2>4, <4>1, LeastIs
    <3>2. e \in 1..k /\ Stands(s, e, "e") /\ b <= e /\ \A i \in 1..k : Stands(s, i, "e") /\ b <= i => e <= i
      BY <1>5, <2>1, <3>1
    <3>3. b + 3 <= e /\ e + 2 <= k /\ \A y \in Words : Cuts(s \o y, b - 1, e + 2)
      <4>1. \A y \in Words : b + 3 <= e /\ e + 2 <= Len(s) /\ Cuts(s \o y, b - 1, e + 2)
        BY <1>1, <2>1, <3>2, CutsBlock
      <4>2. <<>> \in Words
        BY DEF Words
      <4> QED
        BY <1>1, <4>1, <4>2
    <3>4. PICK n \in 0..k : n = e + 2 /\ n + 1 = e + 3 /\ n > 0 /\ m \in 0..n
      <4>1. e + 2 \in 0..k /\ (e + 2) + 1 = e + 3 /\ e + 2 > 0 /\ m \in 0..(e + 2)
        BY <1>1, <2>1, <2>2, <3>1, <3>3
      <4> QED
        BY <4>1
    <3>5. Round(s).out = SubSeq(s, 1, m) /\ Round(s).rest = From(s, n + 1) /\ Round(s).again
      <4>1. Len(End) = 3
        BY DEF End
      <4> QED
        BY <1>6, <1>8, <2>2, <2>4, <3>1, <3>4, <4>1
    <3>6. \A y \in Words : Cuts(s \o y, m, n)
      BY <2>2, <3>3, <3>4
    <3>7. Rounded(s, m, n) /\ n \in 0..Len(s)
      BY <1>1, <3>4, <3>5, <3>6 DEF Rounded
    <3> QED
      BY <3>4, <3>7
  <2> QED
    BY <2>3, <2>4
<1> QED
  BY <1>7, <1>8

LEMMA RoundShows ==
    ASSUME NEW s \in Words, NEW n \in 0..Len(s), NEW m \in 0..n, Rounded(s, m, n)
    PROVE  /\ Round(s).out \in Words /\ Round(s).rest \in Words /\ Len(Round(s).rest) = Len(s) - n
           /\ \A y \in Words : Visible(s \o y) = Round(s).out \o Visible(Round(s).rest \o y)
<1>1. PICK k \in Nat : k = Len(s) /\ n \in 0..k /\ m \in 0..n
  BY WordAt
<1>2. PICK t \in Words : t = From(s, n + 1) /\ Len(t) = k - n
  BY <1>1, FromIs
<1>3. PICK r \in Words : r = SubSeq(s, 1, m)
  <2>1. m \in Nat /\ m <= Len(s) /\ 1 <= m + 1 /\ 1 > 0
    BY <1>1
  <2>2. SubSeq(s, 1, m) \in Words
    BY <2>1, CutIs
  <2> QED
    BY <2>2
<1>4. Round(s).out = r /\ Round(s).rest = t
  BY <1>2, <1>3 DEF Rounded
<1>5. ASSUME NEW y \in Words PROVE Visible(s \o y) = r \o Visible(t \o y)
  <2>1. PICK l \in Nat : l = Len(y)
    BY WordAt
  <2>2. PICK w \in Words : w = s \o y /\ Len(w) = k + l
    BY <1>1, <2>1, JoinIs
  <2>3. Cuts(w, m, n) /\ n \in 0..Len(w)
    BY <1>1, <2>2 DEF Rounded
  <2>4. Visible(w) = SubSeq(w, 1, m) \o Visible(From(w, n + 1))
    BY <2>3, VisibleCut DEF Cuts
  <2>5. m \in 0..Len(s)
    BY <1>1
  <2>6. SubSeq(w, 1, m) = r /\ From(w, n + 1) = t \o y
    BY <1>2, <1>3, <2>2, <2>5, JoinCut
  <2> QED
    BY <2>2, <2>4, <2>6
<1> QED
  BY <1>1, <1>2, <1>4, <1>5

LEMMA TipIs ==
    ASSUME NEW s \in Words, NEW n \in 0..Len(s)
    PROVE  /\ Tip(s, n) \in Words /\ Len(Tip(s, n)) = n /\ n \in Nat
           /\ \A i \in 1..n : Tip(s, n)[i] = s[(Len(s) - n) + i]
           /\ \A j \in 0..n : From(Tip(s, n), j + 1) = Tip(s, n - j)
           /\ Tip(s, Len(s)) = s
<1>1. PICK k \in Nat : k = Len(s) /\ n \in 0..k
  BY WordAt
<1>2. ASSUME NEW m \in 0..k
      PROVE  Tip(s, m) \in Words /\ Len(Tip(s, m)) = m /\ \A i \in 1..m : Tip(s, m)[i] = s[(k - m) + i]
  <2>1. PICK p \in 0..k : p = k - m /\ k - p = m
    <3>1. k - m \in 0..k /\ k - (k - m) = m
      BY <1>1
    <3> QED
      BY <3>1
  <2>2. From(s, p + 1) \in Words /\ Len(From(s, p + 1)) = k - p /\ \A i \in 1..(k - p) : From(s, p + 1)[i] = s[p + i]
    BY <1>1, FromIs
  <2>3. Tip(s, m) = From(s, p + 1)
    BY <1>1, <2>1 DEF Tip
  <2> QED
    BY <2>1, <2>2, <2>3
<1>3. ASSUME NEW j \in 0..n PROVE From(Tip(s, n), j + 1) = Tip(s, n - j)
  <2>1. PICK d \in 0..k : d = n - j
    <3>1. n - j \in 0..k
      BY <1>1
    <3> QED
      BY <3>1
  <2>2. PICK t \in Words : t = Tip(s, n) /\ Len(t) = n /\ \A i \in 1..n : t[i] = s[(k - n) + i]
    BY <1>1, <1>2
  <2>3. PICK u \in Words : u = Tip(s, d) /\ Len(u) = d /\ \A i \in 1..d : u[i] = s[(k - d) + i]
    BY <1>2, <2>1
  <2>4. PICK v \in Words : v = From(t, j + 1) /\ Len(v) = d /\ \A i \in 1..d : v[i] = t[j + i]
    <3>0. j \in 0..Len(t)
      BY <2>2
    <3>1. From(t, j + 1) \in Words /\ Len(From(t, j + 1)) = n - j /\ \A i \in 1..(n - j) : From(t, j + 1)[i] = t[j + i]
      BY <2>2, <3>0, FromIs
    <3> QED
      BY <2>1, <3>1
  <2>5. ASSUME NEW i \in 1..d PROVE v[i] = u[i]
    <3>1. j + i \in 1..n /\ (k - n) + (j + i) = (k - d) + i
      BY <1>1, <2>1
    <3>2. t[j + i] = s[(k - d) + i]
      BY <2>2, <3>1
    <3> QED
      BY <2>3, <2>4, <3>2
  <2>6. v = u
    BY <2>3, <2>4, <2>5, SameWord
  <2> QED
    BY <2>1, <2>2, <2>3, <2>4, <2>6
<1>4. Tip(s, k) = s
  <2>1. k \in 0..k /\ \A i \in 1..k : (k - k) + i = i
    BY <1>1
  <2>2. Tip(s, k) \in Words /\ Len(Tip(s, k)) = k /\ \A i \in 1..k : Tip(s, k)[i] = s[i]
    BY <1>2, <2>1
  <2> QED
    BY <1>1, <2>2, SameWord
<1> QED
  BY <1>1, <1>2, <1>3, <1>4

(* The recursion of Feed, and that it has a solution.                      *)
Fed(f, s, n) ==
    IF Round(Tip(s, n)).again
    THEN [out |-> Round(Tip(s, n)).out \o f[Len(Round(Tip(s, n)).rest)].out,
          buffer |-> f[Len(Round(Tip(s, n)).rest)].buffer]
    ELSE [out |-> Round(Tip(s, n)).out, buffer |-> Round(Tip(s, n)).rest]
Feeds(f, s, k) == f = [n \in 0..k |-> Fed(f, s, n)]

LEMMA RoundShorter ==
    ASSUME NEW s \in Words, NEW n \in 0..Len(s), Round(Tip(s, n)).again
    PROVE  Len(Round(Tip(s, n)).rest) \in 0..(n - 1)
<1>1. PICK t \in Words : t = Tip(s, n) /\ Len(t) = n /\ n \in Nat
  BY TipIs
<1>2. PICK c \in 0..n, a \in Nat : a \in 0..c /\ Rounded(t, a, c)
  <2>1. PICK c \in 0..Len(t) : \E a \in 0..c : Rounded(t, a, c)
    BY RoundIs
  <2>2. PICK a \in 0..c : Rounded(t, a, c)
    BY <2>1
  <2>3. c \in 0..n /\ a \in Nat
    BY <1>1
  <2> QED
    BY <2>2, <2>3
<1>3. Len(Round(t).rest) = n - c
  BY <1>1, <1>2, RoundShows
<1>4. c > 0
  BY <1>1, <1>2 DEF Rounded
<1>5. n - c \in 0..(n - 1)
  BY <1>1, <1>2, <1>4
<1> QED
  BY <1>1, <1>3, <1>5

LEMMA FeedExists ==
    ASSUME NEW s \in Words
    PROVE  \A k \in Nat : k <= Len(s) => \E f : Feeds(f, s, k)
<1> DEFINE S == {k \in Nat : k <= Len(s) => \E f : Feeds(f, s, k)}
<1>0. Len(s) \in Nat
  BY WordAt
<1>1. 0 \in S
  <2>1. 0 \in 0..Len(s)
    BY <1>0
  <2>2. ~Round(Tip(s, 0)).again
    <3>1. \A x \in 0..(0 - 1) : FALSE
      OBVIOUS
    <3>2. Round(Tip(s, 0)).again => Len(Round(Tip(s, 0)).rest) \in 0..(0 - 1)
      BY <2>1, RoundShorter
    <3> QED
      BY <3>1, <3>2
  <2> DEFINE g == [n \in 0..0 |-> [out |-> Round(Tip(s, n)).out, buffer |-> Round(Tip(s, n)).rest]]
  <2>3. \A n \in 0..0 : n = 0
    OBVIOUS
  <2>4. g = [n \in 0..0 |-> Fed(g, s, n)]
    <3>1. \A n \in 0..0 : Fed(g, s, n) = [out |-> Round(Tip(s, n)).out, buffer |-> Round(Tip(s, n)).rest]
      BY <2>2, <2>3 DEF Fed
    <3> QED
      BY <3>1
  <2> HIDE DEF g
  <2>5. Feeds(g, s, 0)
    BY <2>4 DEF Feeds
  <2> QED
    BY <2>5
<1>2. ASSUME NEW k \in S PROVE k + 1 \in S
  <2> SUFFICES ASSUME k + 1 <= Len(s) PROVE \E f : Feeds(f, s, k + 1)
    OBVIOUS
  <2>0. k \in Nat /\ (k <= Len(s) => \E f : Feeds(f, s, k))
    OBVIOUS
  <2> HIDE DEF S
  <2>1. PICK f : Feeds(f, s, k)
    BY <1>0, <2>0
  <2> DEFINE g == [n \in 0..(k + 1) |-> IF n \in 0..k THEN f[n] ELSE Fed(f, s, n)]
  <2>2. ASSUME NEW n \in 0..(k + 1) PROVE g[n] = Fed(g, s, n)
    <3>1. n \in 0..Len(s)
      BY <1>0, <2>0
    <3>2. Round(Tip(s, n)).again => Len(Round(Tip(s, n)).rest) \in 0..k
      <4> SUFFICES ASSUME Round(Tip(s, n)).again PROVE Len(Round(Tip(s, n)).rest) \in 0..k
        OBVIOUS
      <4>1. Len(Round(Tip(s, n)).rest) \in 0..(n - 1)
        BY <3>1, RoundShorter
      <4> QED
        BY <2>0, <4>1
    <3>3. \A j \in 0..k : j \in 0..(k + 1) /\ g[j] = f[j]
      BY <2>0
    <3>4. Fed(g, s, n) = Fed(f, s, n)
      <4> HIDE DEF g
      <4> QED
        BY <3>2, <3>3 DEF Fed
    <3>5. n \in 0..k => f[n] = Fed(f, s, n)
      BY <2>1 DEF Feeds
    <3>6. g[n] = IF n \in 0..k THEN f[n] ELSE Fed(f, s, n)
      OBVIOUS
    <3> QED
      BY <3>4, <3>5, <3>6
  <2>3. g = [n \in 0..(k + 1) |-> g[n]]
    OBVIOUS
  <2> HIDE DEF g
  <2>4. g = [n \in 0..(k + 1) |-> Fed(g, s, n)]
    BY <2>2, <2>3
  <2>5. Feeds(g, s, k + 1)
    BY <2>4 DEF Feeds
  <2> QED
    BY <2>5
<1>3. S \in SUBSET Nat
  OBVIOUS
<1> HIDE DEF S
<1>4. S = Nat
  BY <1>1, <1>2, <1>3, SetInduction
<1> QED
  BY <1>4 DEF S

LEMMA FeedSolves ==
    ASSUME NEW s \in Words
    PROVE  \E f : Feeds(f, s, Len(s)) /\ Feed(s) = f[Len(s)]
<1> DEFINE f == CHOOSE f : f = [n \in 0..Len(s) |-> Fed(f, s, n)]
<1>1. Feed(s) = f[Len(s)]
  BY DEF Feed, Fed
<1>2. Len(s) \in Nat /\ Len(s) <= Len(s)
  BY WordAt
<1>3. \E g : g = [n \in 0..Len(s) |-> Fed(g, s, n)]
  BY <1>2, FeedExists DEF Feeds
<1>4. f = [n \in 0..Len(s) |-> Fed(f, s, n)]
  BY <1>3
<1> HIDE DEF f
<1> QED
  BY <1>1, <1>4 DEF Feeds

\* A name for the provers to see \o by.
Joined(x, y) == x \o y

LEMMA JoinAssociative ==
    ASSUME NEW first \in Words, NEW next \in Words, NEW last \in Words
    PROVE  Joined(Joined(first, next), last) = Joined(first, Joined(next, last))
<1>1. first \in Seq(Symbols) /\ next \in Seq(Symbols) /\ last \in Seq(Symbols)
  BY DEF Words
<1> QED
  BY <1>1, ConcatAssociative DEF Joined

(* TextToolCallStreamFilter.feed: whatever text comes next, what is        *)
(* visible of it all is what is shown now and then what is visible of the  *)
(* buffer and the rest.                                                    *)
FedRight(fed, s) ==
    /\ fed.out \in Words /\ fed.buffer \in Words /\ Held(fed.buffer)
    /\ \A y \in Words : Visible(s \o y) = fed.out \o Visible(fed.buffer \o y)
IsTip(b, s) == \E m \in 0..Len(s) : b = Tip(s, m)

LEMMA VisibleWord ==
    ASSUME NEW s \in Words, NEW y \in Words
    PROVE  s \o y \in Words /\ Visible(s \o y) \in Words
<1>1. s \o y \in Words
  BY JoinIs
<1> QED
  BY <1>1, VisibleIs

LEMMA FeedStep ==
    ASSUME NEW s \in Words, NEW n \in 0..Len(s), NEW f,
           \A j \in 0..(n - 1) : FedRight(f[j], Tip(s, j)) /\ IsTip(f[j].buffer, s)
    PROVE  FedRight(Fed(f, s, n), Tip(s, n)) /\ IsTip(Fed(f, s, n).buffer, s)
<1>1. PICK t \in Words : t = Tip(s, n) /\ Len(t) = n /\ n \in Nat /\ \A j \in 0..n : From(t, j + 1) = Tip(s, n - j)
  BY TipIs
<1>2. PICK c \in 0..n, a \in Nat : a \in 0..c /\ Rounded(t, a, c)
  <2>1. PICK c \in 0..Len(t) : \E a \in 0..c : Rounded(t, a, c)
    BY RoundIs
  <2>2. PICK a \in 0..c : Rounded(t, a, c)
    BY <2>1
  <2>3. c \in 0..n /\ a \in Nat
    BY <1>1
  <2> QED
    BY <2>2, <2>3
<1>3. PICK r \in Words, u \in Words :
         /\ r = Round(t).out /\ u = Round(t).rest /\ Len(u) = n - c
         /\ \A y \in Words : Visible(t \o y) = r \o Visible(u \o y)
  <2>1. c \in 0..Len(t)
    BY <1>1
  <2>2. /\ Round(t).out \in Words /\ Round(t).rest \in Words /\ Len(Round(t).rest) = Len(t) - c
        /\ \A y \in Words : Visible(t \o y) = Round(t).out \o Visible(Round(t).rest \o y)
    BY <1>2, <2>1, RoundShows
  <2>3. PICK r \in Words, u \in Words : r = Round(t).out /\ u = Round(t).rest
    BY <2>2
  <2>4. Len(u) = n - c
    BY <1>1, <2>2, <2>3
  <2>5. \A y \in Words : Visible(t \o y) = r \o Visible(u \o y)
    BY <2>2, <2>3
  <2> QED
    BY <2>3, <2>4, <2>5
<1>4. u = Tip(s, n - c)
  <2>1. u = From(t, c + 1)
    BY <1>2, <1>3 DEF Rounded
  <2> QED
    BY <1>1, <1>2, <2>1
<1>5. CASE ~Round(t).again
  <2>1. Fed(f, s, n) = [out |-> r, buffer |-> u]
    BY <1>1, <1>3, <1>5 DEF Fed
  <2>2. Held(u)
    BY <1>2, <1>3, <1>5 DEF Rounded
  <2>3. n - c \in 0..Len(s)
    <3>1. Len(s) \in Nat
      BY WordAt
    <3> QED
      BY <1>1, <1>2, <3>1
  <2>4. IsTip(u, s)
    BY <1>4, <2>3 DEF IsTip
  <2>5. Fed(f, s, n).out = r /\ Fed(f, s, n).buffer = u
    BY <2>1
  <2> QED
    BY <1>1, <1>3, <2>2, <2>4, <2>5 DEF FedRight
<1>6. CASE Round(t).again
  <2>1. c > 0
    BY <1>2, <1>6 DEF Rounded
  <2>2. PICK j \in 0..(n - 1) : j = n - c
    <3>1. n - c \in 0..(n - 1)
      BY <1>1, <1>2, <2>1
    <3> QED
      BY <3>1
  <2>3. Fed(f, s, n) = [out |-> r \o f[j].out, buffer |-> f[j].buffer]
    BY <1>1, <1>3, <1>6, <2>2 DEF Fed
  <2>4. PICK more \in Words, b \in Words :
           /\ more = f[j].out /\ b = f[j].buffer /\ Held(b) /\ IsTip(b, s)
           /\ \A y \in Words : Visible(u \o y) = more \o Visible(b \o y)
    <3>1. FedRight(f[j], u) /\ IsTip(f[j].buffer, s)
      BY <1>4, <2>2
    <3> QED
      BY <3>1 DEF FedRight
  <2>5. PICK p \in Words : p = r \o more
    <3>1. r \o more \in Words
      BY JoinIs
    <3> QED
      BY <3>1
  <2>6. ASSUME NEW y \in Words PROVE Visible(t \o y) = p \o Visible(b \o y)
    <3>1. PICK v \in Words : v = Visible(b \o y)
      BY VisibleWord
    <3>2. Visible(t \o y) = Joined(r, Joined(more, v))
      BY <1>3, <2>4, <3>1 DEF Joined
    <3>3. Joined(Joined(r, more), v) = Joined(r, Joined(more, v))
      <4>1. r \in Words /\ more \in Words /\ v \in Words
        BY <1>3, <2>4, <3>1
      <4> QED
        BY <4>1, JoinAssociative
    <3> QED
      BY <2>5, <3>1, <3>2, <3>3 DEF Joined
  <2>7. Fed(f, s, n).out = p /\ Fed(f, s, n).buffer = b
    BY <2>3, <2>4, <2>5
  <2> QED
    BY <1>1, <2>4, <2>6, <2>7 DEF FedRight
<1> QED
  BY <1>5, <1>6

LEMMA FeedShows ==
    ASSUME NEW s \in Words
    PROVE  FedRight(Feed(s), s) /\ IsTip(Feed(s).buffer, s)
<1>1. PICK k \in Nat : k = Len(s)
  BY WordAt
<1>2. PICK f : Feeds(f, s, k) /\ Feed(s) = f[k]
  BY <1>1, FeedSolves
<1>3. \A n \in 0..k : f[n] = Fed(f, s, n)
  BY <1>2 DEF Feeds
<1> DEFINE S == {i \in Nat : \A n \in 0..k : n <= i => FedRight(f[n], Tip(s, n)) /\ IsTip(f[n].buffer, s)}
<1>4. ASSUME NEW n \in 0..k, \A j \in 0..(n - 1) : FedRight(f[j], Tip(s, j)) /\ IsTip(f[j].buffer, s)
      PROVE  FedRight(f[n], Tip(s, n)) /\ IsTip(f[n].buffer, s)
  BY <1>1, <1>3, <1>4, FeedStep
<1>5. 0 \in S
  <2>1. \A j \in 0..(0 - 1) : FALSE
    OBVIOUS
  <2>2. \A n \in 0..k : n <= 0 => n = 0
    OBVIOUS
  <2>3. FedRight(f[0], Tip(s, 0)) /\ IsTip(f[0].buffer, s)
    BY <1>4, <2>1
  <2> QED
    BY <2>2, <2>3
<1>6. ASSUME NEW i \in S PROVE i + 1 \in S
  <2>1. i \in Nat /\ \A n \in 0..k : n <= i => FedRight(f[n], Tip(s, n)) /\ IsTip(f[n].buffer, s)
    OBVIOUS
  <2> HIDE DEF S
  <2>2. ASSUME NEW n \in 0..k, n <= i + 1 PROVE FedRight(f[n], Tip(s, n)) /\ IsTip(f[n].buffer, s)
    <3>1. \A j \in 0..(n - 1) : j \in 0..k /\ j <= i
      BY <2>1, <2>2
    <3> QED
      BY <1>4, <2>1, <3>1
  <2> QED
    BY <2>1, <2>2 DEF S
<1>7. S \in SUBSET Nat
  OBVIOUS
<1> HIDE DEF S
<1>8. S = Nat
  BY <1>5, <1>6, <1>7, SetInduction
<1>9. FedRight(f[k], Tip(s, k)) /\ IsTip(f[k].buffer, s)
  <2>1. k \in S /\ k \in 0..k /\ k <= k
    BY <1>8
  <2> QED
    BY <2>1 DEF S
<1>10. Tip(s, k) = s
  BY <1>1, TipIs
<1> QED
  BY <1>2, <1>9, <1>10

(* What is visible of what the filter holds back, and of a text in which   *)
(* no block begins.                                                        *)
LEMMA VisiblePlain ==
    ASSUME NEW s \in Words, \A i \in 1..Len(s) : ~Between(s, i)
    PROVE  Visible(s) = s
<1>1. \A i \in 1..Len(s) : Seen(s, i) = <<s[i]>>
  BY DEF Seen
<1>2. Visible(s) = FlattenSeq([i \in 1..Len(s) |-> <<s[i]>>])
  BY <1>1, VisibleIs
<1> QED
  BY <1>2, FlattenSingles DEF Words

LEMMA OpenedHides ==
    ASSUME NEW s \in Words, Opened(s)
    PROVE  Visible(s) = <<>>
<1>1. PICK k \in Nat : k = Len(s)
  BY WordAt
<1>2. ASSUME NEW i \in 1..k PROVE Seen(s, i) = <<>>
  <2>1. i \in Nat /\ 1 \in 1..k /\ 1 <= i
    OBVIOUS
  <2>2. Between(s, i)
    BY <1>1, <2>1, BetweenIs DEF Opened
  <2> QED
    BY <2>2 DEF Seen
<1>3. Visible(s) = FlattenSeq([i \in 1..k |-> <<>>])
  BY <1>1, <1>2, VisibleIs
<1> QED
  BY <1>3, FlattenEmpties

LEMMA HalfShort ==
    ASSUME NEW s \in Words, Half(s)
    PROVE  Len(s) \in {0, 1, 2} /\ \A i : ~Stands(s, i, "b")
<1>1. Len(s) \in {0, 1, 2}
  BY DEF Half
<1>2. ASSUME NEW i, Stands(s, i, "b") PROVE FALSE
  <2>1. PICK k \in {0, 1, 2} : k = Len(s)
    BY <1>1
  <2>2. i \in 1..k /\ i + 2 \in 1..k
    BY <1>2, <2>1 DEF Stands
  <2> QED
    BY <2>1, <2>2
<1> QED
  BY <1>1, <1>2

LEMMA HalfVisible ==
    ASSUME NEW s \in Words, Half(s)
    PROVE  Visible(s) = s
<1>1. \A i \in 1..Len(s) : ~Between(s, i)
  <2> TAKE i \in 1..Len(s)
  <2>1. i \in Nat
    BY WordAt
  <2> QED
    BY <2>1, HalfShort, BetweenIs
<1> QED
  BY <1>1, VisiblePlain

\* TextToolCallStreamFilter.flush shows what is visible of the buffer.
LEMMA BeginsAt ==
    ASSUME NEW s \in Words
    PROVE  IsPrefix(Begin, s) <=> Stands(s, 1, "b")
<1>1. PICK k \in Nat : k = Len(s) /\ DOMAIN s = 1..k
  BY WordAt
<1>2. CASE k = 0
  <2>1. ~Stands(s, 1, "b")
    BY <1>1, <1>2 DEF Stands
  <2>2. ~IsPrefix(Begin, s)
    BY <1>1, <1>2 DEF IsPrefix, Begin
  <2> QED
    BY <2>1, <2>2
<1>3. CASE k # 0
  <2>1. PICK c \in Symbols : c = "b"
    BY DEF Symbols
  <2>2. 1 \in DOMAIN s
    BY <1>1, <1>3
  <2>3. From(s, 1) = s
    BY SubSeqFull DEF From, Words
  <2>4. IsPrefix(<<"<", "f", c>>, From(s, 1)) <=> Stands(s, 1, c)
    BY <2>2, OccursAt
  <2> QED
    BY <2>1, <2>3, <2>4 DEF Begin
<1> QED
  BY <1>2, <1>3

LEMMA FlushShows ==
    ASSUME NEW b \in Words, Held(b)
    PROVE  Visible(b) = IF IsPrefix(Begin, b) THEN <<>> ELSE b
<1>1. CASE Opened(b)
  BY <1>1, OpenedHides, BeginsAt DEF Opened
<1>2. CASE Half(b)
  BY <1>2, HalfVisible, HalfShort, BeginsAt
<1> QED
  BY <1>1, <1>2 DEF Held

\* What is held back as a part of a marker is as long as Partial says.
LEMMA HeldPartial ==
    ASSUME NEW s \in Words, NEW b \in Words, IsTip(b, s), Half(b), b # <<>>
    PROVE  Partial(s) = Len(b) /\ Len(b) > 0
<1>1. PICK k \in Nat : k = Len(s)
  BY WordAt
<1>2. PICK m \in 0..k : b = Tip(s, m) /\ Len(b) = m /\ \A i \in 1..m : b[i] = s[(k - m) + i]
  <2>1. PICK m \in 0..Len(s) : b = Tip(s, m)
    BY DEF IsTip
  <2>2. Len(Tip(s, m)) = m /\ \A i \in 1..m : Tip(s, m)[i] = s[(Len(s) - m) + i]
    BY TipIs
  <2> QED
    BY <1>1, <2>1, <2>2
<1>3. CASE b = <<"<">>
  <2>1. m = 1 /\ b[1] = "<"
    BY <1>2, <1>3
  <2>2. 1 \in 1..m /\ (k - m) + 1 = k /\ k >= 1
    BY <1>2, <2>1
  <2>3. EndsOne(s)
    BY <1>1, <1>2, <2>1, <2>2 DEF EndsOne
  <2> QED
    BY <1>2, <2>1, <2>3, PartialIs
<1>4. CASE b = <<"<", "f">>
  <2>1. m = 2 /\ b[1] = "<" /\ b[2] = "f"
    BY <1>2, <1>4
  <2>2. 1 \in 1..m /\ 2 \in 1..m /\ (k - m) + 1 = k - 1 /\ (k - m) + 2 = k /\ k >= 2
    BY <1>2, <2>1
  <2>3. EndsTwo(s)
    BY <1>1, <1>2, <2>1, <2>2 DEF EndsTwo
  <2> QED
    BY <1>2, <2>1, <2>3, PartialIs
<1> QED
  BY <1>3, <1>4 DEF Half

-----------------------------------------------------------------------------
(* The blocks of a text, and the recursion that finds them.                *)
RightBlocks(s) ==
    {b \in [begin : Nat, end : Nat] :
        /\ Stands(s, b.begin, "b") /\ Stands(s, b.end, "e") /\ b.begin + 3 <= b.end
        /\ \A e \in 1..Len(s) : Stands(s, e, "e") /\ b.begin < e => b.end <= e}

Pairs(s, n) == {p \in Occurrences(s, Begin) \X Occurrences(s, End) :
                   Len(s) - n < p[1] /\ p[1] + Len(Begin) <= p[2]}
FirstBegin(s, n) == Min({p[1] : p \in Pairs(s, n)})
FirstEnd(s, n) == Min({p[2] : p \in {q \in Pairs(s, n) : q[1] = FirstBegin(s, n)}})
After(s, n) == Len(s) - FirstEnd(s, n) - Len(End) + 1
Blocked(f, s, n) ==
    IF Pairs(s, n) = {} THEN <<>>
    ELSE <<[begin |-> FirstBegin(s, n), end |-> FirstEnd(s, n)]>> \o f[After(s, n)]
Finds(f, s, k) == f = [n \in 0..k |-> Blocked(f, s, n)]

LEMMA PairIs ==
    ASSUME NEW s \in Words, NEW n \in 0..Len(s), Pairs(s, n) # {}
    PROVE  /\ [begin |-> FirstBegin(s, n), end |-> FirstEnd(s, n)] \in RightBlocks(s)
           /\ After(s, n) \in 0..(n - 1)
<1>1. PICK k \in Nat : k = Len(s) /\ n \in 0..k
  BY WordAt
<1>2. PICK P : P = Pairs(s, n)
  OBVIOUS
<1>3. \A p \in P : p[1] \in 1..k /\ p[2] \in 1..k /\ Stands(s, p[1], "b") /\ Stands(s, p[2], "e") /\ k - n < p[1] /\ p[1] + 3 <= p[2]
  <2>1. Len(Begin) = 3
    BY DEF Begin
  <2> QED
    BY <1>1, <1>2, <2>1, MarkersAre DEF Pairs
<1>4. PICK b \in Nat : b = FirstBegin(s, n) /\ (\E p \in P : p[1] = b)
  <2>1. PICK B \in SUBSET Nat : B = {p[1] : p \in P}
    <3>1. {p[1] : p \in P} \in SUBSET Nat
      BY <1>3
    <3> QED
      BY <3>1
  <2>2. B # {}
    BY <1>2, <2>1
  <2>3. Min(B) \in B
    BY <2>2, LeastIs
  <2> QED
    BY <1>2, <2>1, <2>3 DEF FirstBegin
<1>5. PICK e \in Nat : e = FirstEnd(s, n) /\ (\E p \in P : p[1] = b /\ p[2] = e) /\ (\A p \in P : p[1] = b => e <= p[2])
  <2>1. PICK E \in SUBSET Nat : E = {p[2] : p \in {q \in P : q[1] = b}}
    <3>1. {p[2] : p \in {q \in P : q[1] = b}} \in SUBSET Nat
      BY <1>3
    <3> QED
      BY <3>1
  <2>2. E # {}
    BY <1>4, <2>1
  <2>3. Min(E) \in E /\ \A m \in E : Min(E) <= m
    BY <2>2, LeastIs
  <2>4. FirstEnd(s, n) = Min(E)
    BY <1>2, <1>4, <2>1 DEF FirstEnd
  <2> QED
    BY <2>1, <2>3, <2>4
<1>6. b \in 1..k /\ e \in 1..k /\ Stands(s, b, "b") /\ Stands(s, e, "e") /\ k - n < b /\ b + 3 <= e
  BY <1>3, <1>5
<1>7. ASSUME NEW d \in 1..k, Stands(s, d, "e"), b < d PROVE e <= d
  <2>1. b + 3 <= d
    BY <1>6, <1>7, MarkersApart
  <2>2. Len(Begin) = 3
    BY DEF Begin
  <2>3. b \in Occurrences(s, Begin) /\ d \in Occurrences(s, End)
    BY <1>1, <1>6, <1>7, MarkersAre
  <2>4. <<b, d>> \in P
    BY <1>1, <1>2, <1>6, <2>1, <2>2, <2>3 DEF Pairs
  <2> QED
    BY <1>5, <2>4
<1>8. e + 2 <= k
  BY <1>1, <1>6 DEF Stands
<1>9. [begin |-> b, end |-> e] \in RightBlocks(s)
  <2>1. PICK r : r = [begin |-> b, end |-> e]
    OBVIOUS
  <2>2. r \in [begin : Nat, end : Nat] /\ r.begin = b /\ r.end = e
    BY <2>1
  <2> QED
    BY <1>1, <1>6, <1>7, <2>1, <2>2 DEF RightBlocks
<1>10. After(s, n) = k - e - 3 + 1
  BY <1>1, <1>5 DEF After, End
<1>11. k - e - 3 + 1 \in 0..(n - 1)
  BY <1>1, <1>6, <1>8
<1> QED
  BY <1>4, <1>5, <1>9, <1>10, <1>11

LEMMA BlocksExist ==
    ASSUME NEW s \in Words
    PROVE  \A k \in Nat : k <= Len(s) => \E f : Finds(f, s, k)
<1> DEFINE S == {k \in Nat : k <= Len(s) => \E f : Finds(f, s, k)}
<1>0. Len(s) \in Nat
  BY WordAt
<1>1. 0 \in S
  <2>1. 0 \in 0..Len(s)
    BY <1>0
  <2>2. Pairs(s, 0) = {}
    <3>1. \A x \in 0..(0 - 1) : FALSE
      OBVIOUS
    <3>2. Pairs(s, 0) # {} => After(s, 0) \in 0..(0 - 1)
      BY <2>1, PairIs
    <3> QED
      BY <3>1, <3>2
  <2> DEFINE g == [n \in 0..0 |-> <<>>]
  <2>3. \A n \in 0..0 : n = 0
    OBVIOUS
  <2>4. g = [n \in 0..0 |-> Blocked(g, s, n)]
    <3>1. \A n \in 0..0 : Blocked(g, s, n) = <<>>
      BY <2>2, <2>3 DEF Blocked
    <3> QED
      BY <3>1
  <2> HIDE DEF g
  <2>5. Finds(g, s, 0)
    BY <2>4 DEF Finds
  <2> QED
    BY <2>5
<1>2. ASSUME NEW k \in S PROVE k + 1 \in S
  <2> SUFFICES ASSUME k + 1 <= Len(s) PROVE \E f : Finds(f, s, k + 1)
    OBVIOUS
  <2>0. k \in Nat /\ (k <= Len(s) => \E f : Finds(f, s, k))
    OBVIOUS
  <2> HIDE DEF S
  <2>1. PICK f : Finds(f, s, k)
    BY <1>0, <2>0
  <2> DEFINE g == [n \in 0..(k + 1) |-> IF n \in 0..k THEN f[n] ELSE Blocked(f, s, n)]
  <2>2. ASSUME NEW n \in 0..(k + 1) PROVE g[n] = Blocked(g, s, n)
    <3>1. n \in 0..Len(s)
      BY <1>0, <2>0
    <3>2. Pairs(s, n) # {} => After(s, n) \in 0..k
      <4> SUFFICES ASSUME Pairs(s, n) # {} PROVE After(s, n) \in 0..k
        OBVIOUS
      <4>1. After(s, n) \in 0..(n - 1)
        BY <3>1, PairIs
      <4> QED
        BY <2>0, <4>1
    <3>3. \A j \in 0..k : j \in 0..(k + 1) /\ g[j] = f[j]
      BY <2>0
    <3>4. Blocked(g, s, n) = Blocked(f, s, n)
      <4> HIDE DEF g
      <4> QED
        BY <3>2, <3>3 DEF Blocked
    <3>5. n \in 0..k => f[n] = Blocked(f, s, n)
      BY <2>1 DEF Finds
    <3>6. g[n] = IF n \in 0..k THEN f[n] ELSE Blocked(f, s, n)
      OBVIOUS
    <3> QED
      BY <3>4, <3>5, <3>6
  <2>3. g = [n \in 0..(k + 1) |-> g[n]]
    OBVIOUS
  <2> HIDE DEF g
  <2>4. g = [n \in 0..(k + 1) |-> Blocked(g, s, n)]
    BY <2>2, <2>3
  <2>5. Finds(g, s, k + 1)
    BY <2>4 DEF Finds
  <2> QED
    BY <2>5
<1>3. S \in SUBSET Nat
  OBVIOUS
<1> HIDE DEF S
<1>4. S = Nat
  BY <1>1, <1>2, <1>3, SetInduction
<1> QED
  BY <1>4 DEF S

LEMMA BlocksSolve ==
    ASSUME NEW s \in Words
    PROVE  \E f : Finds(f, s, Len(s)) /\ Blocks(s) = f[Len(s)]
<1> DEFINE f == CHOOSE f : f = [n \in 0..Len(s) |-> Blocked(f, s, n)]
<1>1. Blocks(s) = f[Len(s)]
  BY DEF Blocks, Blocked, Pairs, FirstBegin, FirstEnd, After
<1>2. Len(s) \in Nat /\ Len(s) <= Len(s)
  BY WordAt
<1>3. \E g : g = [n \in 0..Len(s) |-> Blocked(g, s, n)]
  BY <1>2, BlocksExist DEF Finds
<1>4. f = [n \in 0..Len(s) |-> Blocked(f, s, n)]
  BY <1>3
<1> HIDE DEF f
<1> QED
  BY <1>1, <1>4 DEF Finds

(* _TEXT_TOOL_CALL_RE: every block goes from a begin marker to the first   *)
(* end marker after it.                                                    *)
LEMMA BlocksRight ==
    ASSUME NEW s \in Words
    PROVE  Blocks(s) \in Seq(RightBlocks(s))
<1>1. PICK k \in Nat : k = Len(s)
  BY WordAt
<1>2. PICK f : Finds(f, s, k) /\ Blocks(s) = f[k]
  BY <1>1, BlocksSolve
<1>3. \A n \in 0..k : f[n] = Blocked(f, s, n)
  BY <1>2 DEF Finds
<1>4. PICK R : R = RightBlocks(s)
  OBVIOUS
<1> DEFINE S == {i \in Nat : \A n \in 0..k : n <= i => f[n] \in Seq(R)}
<1>5. ASSUME NEW n \in 0..k, \A j \in 0..(n - 1) : f[j] \in Seq(R)
      PROVE  f[n] \in Seq(R)
  <2>1. CASE Pairs(s, n) = {}
    <3>1. f[n] = <<>>
      BY <1>3, <2>1 DEF Blocked
    <3>2. <<>> \in Seq(R)
      OBVIOUS
    <3> QED
      BY <3>1, <3>2
  <2>2. CASE Pairs(s, n) # {}
    <3>1. PICK b, j : b = [begin |-> FirstBegin(s, n), end |-> FirstEnd(s, n)] /\ j = After(s, n)
      OBVIOUS
    <3>2. b \in R /\ j \in 0..(n - 1)
      BY <1>1, <1>4, <2>2, <3>1, PairIs
    <3>3. f[n] = <<b>> \o f[j]
      BY <1>3, <2>2, <3>1 DEF Blocked
    <3>4. <<b>> \in Seq(R) /\ f[j] \in Seq(R)
      BY <1>5, <3>2
    <3> QED
      BY <3>3, <3>4, ConcatProperties
  <2> QED
    BY <2>1, <2>2
<1>6. 0 \in S
  <2>1. \A j \in 0..(0 - 1) : FALSE
    OBVIOUS
  <2>2. \A n \in 0..k : n <= 0 => n = 0
    OBVIOUS
  <2>3. f[0] \in Seq(R)
    BY <1>5, <2>1
  <2> QED
    BY <2>2, <2>3
<1>7. ASSUME NEW i \in S PROVE i + 1 \in S
  <2>1. i \in Nat /\ \A n \in 0..k : n <= i => f[n] \in Seq(R)
    OBVIOUS
  <2> HIDE DEF S
  <2>2. ASSUME NEW n \in 0..k, n <= i + 1 PROVE f[n] \in Seq(R)
    <3>1. \A j \in 0..(n - 1) : j \in 0..k /\ j <= i
      BY <2>1, <2>2
    <3> QED
      BY <1>5, <2>1, <3>1
  <2> QED
    BY <2>1, <2>2 DEF S
<1>8. S \in SUBSET Nat
  OBVIOUS
<1> HIDE DEF S
<1>9. S = Nat
  BY <1>6, <1>7, <1>8, SetInduction
<1>10. f[k] \in Seq(R)
  <2>1. k \in S /\ k \in 0..k /\ k <= k
    BY <1>9
  <2> QED
    BY <2>1 DEF S
<1> QED
  BY <1>2, <1>4, <1>10

\* What is in a block of the answer is between markers.
LEMMA InBlockBetween ==
    ASSUME NEW s \in Words, NEW i \in 1..Len(s), InBlock(Blocks(s), i)
    PROVE  Between(s, i)
<1>1. PICK k \in Nat : k = Len(s) /\ i \in 1..k
  BY WordAt
<1>2. PICK n \in DOMAIN Blocks(s) : Blocks(s)[n].begin <= i /\ i <= Blocks(s)[n].end + Len(End) - 1
  BY DEF InBlock
<1>3. PICK b : b = Blocks(s)[n] /\ b \in RightBlocks(s)
  BY BlocksRight
<1>4. /\ b.begin \in Nat /\ b.end \in Nat /\ Stands(s, b.begin, "b") /\ b.begin \in 1..k
      /\ \A e \in 1..k : Stands(s, e, "e") /\ b.begin < e => b.end <= e
  BY <1>1, <1>3 DEF RightBlocks, Stands
<1>5. Len(End) = 3
  BY DEF End
<1>6. b.begin <= i /\ i < b.end + 3
  BY <1>1, <1>2, <1>3, <1>4, <1>5
<1>7. \A e \in 1..k : Stands(s, e, "e") /\ b.begin < e => i < e + 3
  BY <1>1, <1>4, <1>6
<1>8. i \in Nat
  BY <1>1
<1> QED
  BY <1>1, <1>4, <1>6, <1>7, <1>8, BetweenIs

-----------------------------------------------------------------------------
(* The calls of a text.                                                    *)
LEMMA FlattenNothing ==
    ASSUME NEW T, NEW z \in Seq(Seq(T)), FlattenSeq(z) = <<>>
    PROVE  \A n \in 1..Len(z) : z[n] = <<>>
<1> DEFINE C == {x \in Seq(Seq(T)) : FlattenSeq(x) = <<>> => \A n \in 1..Len(x) : x[n] = <<>>}
<1>1. <<>> \in C
  <2>1. <<>> \in Seq(Seq(T)) /\ \A n \in 1..Len(<<>>) : FALSE
    OBVIOUS
  <2> QED
    BY <2>1
<1>2. ASSUME NEW x \in C, NEW e \in Seq(T) PROVE Append(x, e) \in C
  <2>1. x \in Seq(Seq(T)) /\ (FlattenSeq(x) = <<>> => \A n \in 1..Len(x) : x[n] = <<>>)
    OBVIOUS
  <2> HIDE DEF C
  <2>2. PICK y \in Seq(Seq(T)) : /\ y = Append(x, e) /\ Len(y) = Len(x) + 1 /\ y[Len(x) + 1] = e
                                 /\ \A n \in 1..Len(x) : y[n] = x[n]
    <3>1. /\ Append(x, e) \in Seq(Seq(T)) /\ Len(Append(x, e)) = Len(x) + 1 /\ Append(x, e)[Len(x) + 1] = e
          /\ \A n \in 1..Len(x) : Append(x, e)[n] = x[n]
      BY <2>1, AppendProperties
    <3> QED
      BY <3>1
  <2>3. PICK w \in Seq(T) : w = FlattenSeq(x)
    BY <2>1, FlattenType
  <2>4. FlattenSeq(y) = w \o e
    BY <2>1, <2>2, <2>3, FlattenAppend
  <2>5. ASSUME FlattenSeq(y) = <<>> PROVE \A n \in 1..Len(y) : y[n] = <<>>
    <3>1. Len(w \o e) = Len(w) + Len(e)
      BY <2>3, ConcatProperties
    <3>2. Len(w) = 0 /\ Len(e) = 0
      BY <2>3, <2>4, <2>5, <3>1
    <3>3. w = <<>> /\ e = <<>>
      BY <2>3, <3>2
    <3>4. \A n \in 1..Len(x) : x[n] = <<>>
      BY <2>1, <2>3, <3>3
    <3>5. \A n \in 1..(Len(x) + 1) : n \in 1..Len(x) \/ n = Len(x) + 1
      BY <2>1
    <3> QED
      BY <2>2, <3>3, <3>4, <3>5
  <2> QED
    BY <2>2, <2>5 DEF C
<1>3. C \in SUBSET Seq(Seq(T))
  OBVIOUS
<1> HIDE DEF C
<1>4. C = Seq(Seq(T))
  BY <1>1, <1>2, <1>3, SeqInduction
<1> QED
  BY <1>4 DEF C

(* Calls are told apart by the list they come from and the place in it.    *)
Numbered(x) == \A n \in 1..Len(x) : \A k \in 1..Len(x[n]) : x[n][k].id = <<"text-tool", n, k>>
Told(w, n) ==
    /\ \A i \in 1..Len(w) : \E m \in 1..n, k \in Nat : w[i].id = <<"text-tool", m, k>>
    /\ \A i, j \in 1..Len(w) : i # j => w[i].id # w[j].id

LEMMA NumberedTold ==
    ASSUME NEW T, NEW z \in Seq(Seq(T)), Numbered(z)
    PROVE  Told(FlattenSeq(z), Len(z))
<1> DEFINE C == {x \in Seq(Seq(T)) : Numbered(x) => Told(FlattenSeq(x), Len(x))}
<1>1. <<>> \in C
  <2>1. <<>> \in Seq(Seq(T)) /\ FlattenSeq(<<>>) = <<>> /\ \A n \in 1..Len(<<>>) : FALSE
    BY DEF FlattenSeq
  <2> QED
    BY <2>1 DEF Told
<1>2. ASSUME NEW x \in C, NEW e \in Seq(T) PROVE Append(x, e) \in C
  <2>1. x \in Seq(Seq(T)) /\ (Numbered(x) => Told(FlattenSeq(x), Len(x)))
    OBVIOUS
  <2> HIDE DEF C
  <2>2. PICK l \in Nat : l = Len(x)
    BY <2>1
  <2>3. PICK y \in Seq(Seq(T)) : y = Append(x, e) /\ Len(y) = l + 1 /\ y[l + 1] = e /\ \A n \in 1..l : y[n] = x[n]
    <3>1. /\ Append(x, e) \in Seq(Seq(T)) /\ Len(Append(x, e)) = Len(x) + 1 /\ Append(x, e)[Len(x) + 1] = e
          /\ \A n \in 1..Len(x) : Append(x, e)[n] = x[n]
      BY <2>1, AppendProperties
    <3> QED
      BY <2>2, <3>1
  <2>4. PICK w \in Seq(T) : w = FlattenSeq(x)
    BY <2>1, FlattenType
  <2>5. FlattenSeq(y) = w \o e
    BY <2>1, <2>3, <2>4, FlattenAppend
  <2>6. ASSUME Numbered(y) PROVE Told(FlattenSeq(y), l + 1)
    <3>1. Numbered(x)
      <4> SUFFICES ASSUME NEW n \in 1..l, NEW k \in 1..Len(x[n]) PROVE x[n][k].id = <<"text-tool", n, k>>
        BY <2>2 DEF Numbered
      <4>1. n \in 1..Len(y) /\ y[n] = x[n]
        BY <2>2, <2>3
      <4> QED
        BY <2>6, <4>1 DEF Numbered
    <3>2. Told(w, l)
      BY <2>1, <2>2, <2>4, <3>1
    <3>3. \A k \in 1..Len(e) : e[k].id = <<"text-tool", l + 1, k>>
      <4>1. l + 1 \in 1..Len(y)
        BY <2>2, <2>3
      <4> QED
        BY <2>3, <2>6, <4>1 DEF Numbered
    <3>4. PICK a \in Nat, b \in Nat : a = Len(w) /\ b = Len(e)
      BY <2>4
    <3>5. PICK v \in Seq(T) : v = w \o e /\ Len(v) = a + b /\ \A i \in 1..(a + b) : v[i] = IF i <= a THEN w[i] ELSE e[i - a]
      <4>1. /\ w \o e \in Seq(T) /\ Len(w \o e) = Len(w) + Len(e)
            /\ \A i \in 1..(Len(w) + Len(e)) : (w \o e)[i] = IF i <= Len(w) THEN w[i] ELSE e[i - Len(w)]
        BY <2>4, ConcatProperties
      <4> QED
        BY <3>4, <4>1
    <3>6. ASSUME NEW i \in 1..(a + b), i <= a
          PROVE  \E m \in 1..l, k \in Nat : v[i].id = <<"text-tool", m, k>>
      <4>1. i \in 1..a /\ v[i] = w[i]
        BY <3>4, <3>5, <3>6
      <4> QED
        BY <3>2, <3>4, <4>1 DEF Told
    <3>7. ASSUME NEW i \in 1..(a + b), ~(i <= a)
          PROVE  i - a \in 1..b /\ v[i].id = <<"text-tool", l + 1, i - a>>
      <4>1. i - a \in 1..b /\ v[i] = e[i - a]
        BY <3>4, <3>5, <3>7
      <4> QED
        BY <3>3, <3>4, <4>1
    <3>8. ASSUME NEW i \in 1..(a + b) PROVE \E m \in 1..(l + 1), k \in Nat : v[i].id = <<"text-tool", m, k>>
      <4>1. CASE i <= a
        <5>1. PICK m \in 1..l, k \in Nat : v[i].id = <<"text-tool", m, k>>
          BY <3>6, <4>1
        <5>2. m \in 1..(l + 1)
          BY <2>2, <5>1
        <5> QED
          BY <5>1, <5>2
      <4>2. CASE ~(i <= a)
        <5>1. v[i].id = <<"text-tool", l + 1, i - a>> /\ l + 1 \in 1..(l + 1) /\ i - a \in Nat
          BY <2>2, <3>4, <3>7, <4>2
        <5> QED
          BY <5>1
      <4> QED
        BY <4>1, <4>2
    <3>9. ASSUME NEW i \in 1..(a + b), NEW j \in 1..(a + b), i <= a, ~(j <= a) PROVE v[i].id # v[j].id
      <4>1. PICK m \in 1..l, k \in Nat : v[i].id = <<"text-tool", m, k>>
        BY <3>6, <3>9
      <4>2. v[j].id = <<"text-tool", l + 1, j - a>>
        BY <3>7, <3>9
      <4>3. m # l + 1
        BY <2>2, <4>1
      <4> QED
        BY <4>1, <4>2, <4>3
    <3>10. ASSUME NEW i \in 1..(a + b), NEW j \in 1..(a + b), i # j, v[i].id = v[j].id PROVE FALSE
      <4>1. CASE i <= a /\ j <= a
        <5>1. i \in 1..a /\ j \in 1..a /\ v[i] = w[i] /\ v[j] = w[j]
          BY <3>4, <3>5, <4>1
        <5> QED
          BY <3>2, <3>4, <3>10, <5>1 DEF Told
      <4>2. CASE ~(i <= a) /\ ~(j <= a)
        <5>1. v[i].id = <<"text-tool", l + 1, i - a>> /\ v[j].id = <<"text-tool", l + 1, j - a>>
          BY <3>7, <4>2
        <5>2. PICK m, n : m = i - a /\ n = j - a
          OBVIOUS
        <5>3. <<"text-tool", l + 1, m>> = <<"text-tool", l + 1, n>>
          BY <3>10, <5>1, <5>2
        <5>4. m = n
          BY <5>3
        <5> QED
          BY <3>4, <3>10, <5>2, <5>4
      <4> QED
        BY <3>9, <3>10, <4>1, <4>2
    <3>11. \A i, j \in 1..Len(v) : i # j => v[i].id # v[j].id
      BY <3>5, <3>10
    <3>12. \A i \in 1..Len(v) : \E m \in 1..(l + 1), k \in Nat : v[i].id = <<"text-tool", m, k>>
      BY <3>5, <3>8
    <3>13. Told(v, l + 1)
      BY <3>11, <3>12 DEF Told
    <3> QED
      BY <2>5, <3>5, <3>13
  <2> QED
    BY <2>2, <2>3, <2>6 DEF C
<1>3. C \in SUBSET Seq(Seq(T))
  OBVIOUS
<1> HIDE DEF C
<1>4. C = Seq(Seq(T))
  BY <1>1, <1>2, <1>3, SeqInduction
<1> QED
  BY <1>4 DEF C

TextCall == [id : {"text-tool"} \X Nat \X Nat, args : {"whole"}]
CallLists(s) == [n \in DOMAIN Blocks(s) |-> CallsOf(s, Blocks(s)[n], n)]

LEMMA CallsOfIs ==
    ASSUME NEW s \in Words, NEW b \in RightBlocks(s), NEW n \in Nat
    PROVE  /\ CallsOf(s, b, n) \in Seq(TextCall)
           /\ \A k \in 1..Len(CallsOf(s, b, n)) : CallsOf(s, b, n)[k].id = <<"text-tool", n, k>>
<1>1. PICK l \in Nat : l = Len(s)
  BY WordAt
<1>2. b.begin \in Nat /\ b.end \in Nat /\ b.begin + 3 <= b.end /\ b.end \in 1..l /\ b.begin > 0
  BY <1>1 DEF RightBlocks, Stands
<1>3. Len(Begin) = 3
  BY DEF Begin
<1>4. PICK p \in Words : p = SubSeq(s, b.begin + Len(Begin), b.end - 1)
  <2>1. PICK m \in Nat, e \in Nat : m = b.begin + 3 /\ e = b.end - 1 /\ m > 0 /\ e <= Len(s) /\ m <= e + 1
    <3>1. b.begin + 3 \in Nat /\ b.end - 1 \in Nat /\ b.begin + 3 > 0 /\ b.end - 1 <= Len(s) /\ b.begin + 3 <= (b.end - 1) + 1
      BY <1>1, <1>2
    <3> QED
      BY <3>1
  <2>2. SubSeq(s, m, e) \in Words
    BY <2>1, CutIs
  <2> QED
    BY <1>3, <2>1, <2>2
<1>5. PICK j \in Nat : j = Len(p) /\ DOMAIN p = 1..j
  BY <1>4, WordAt
<1>6. CASE ToSet(p) \subseteq {"j"}
  <2>1. CallsOf(s, b, n) = [k \in 1..j |-> [id |-> <<"text-tool", n, k>>, args |-> "whole"]]
    BY <1>4, <1>5, <1>6 DEF CallsOf
  <2>2. PICK c : c = [k \in 1..j |-> [id |-> <<"text-tool", n, k>>, args |-> "whole"]]
    OBVIOUS
  <2>3. \A k \in 1..j : c[k] \in TextCall /\ c[k].id = <<"text-tool", n, k>>
    BY <2>2 DEF TextCall
  <2>4. c \in Seq(TextCall) /\ Len(c) = j
    BY <1>5, <2>2, <2>3
  <2> QED
    BY <2>1, <2>2, <2>3, <2>4
<1>7. CASE ~(ToSet(p) \subseteq {"j"})
  <2>1. CallsOf(s, b, n) = <<>>
    BY <1>4, <1>7 DEF CallsOf
  <2>2. <<>> \in Seq(TextCall) /\ \A k \in 1..Len(<<>>) : FALSE
    OBVIOUS
  <2> QED
    BY <2>1, <2>2
<1> QED
  BY <1>6, <1>7

(* parse_text_tool_calls: no two calls of a text share an id, and a text   *)
(* has calls as soon as one of its blocks has.                             *)
LEMMA TextCallsTold ==
    ASSUME NEW s \in Words
    PROVE  /\ TextCalls(s) \in Seq(TextCall)
           /\ Told(TextCalls(s), Len(Blocks(s)))
           /\ TextCalls(s) = <<>> => \A n \in DOMAIN Blocks(s) : CallsOf(s, Blocks(s)[n], n) = <<>>
<1>1. PICK bs \in Seq(RightBlocks(s)) : bs = Blocks(s)
  BY BlocksRight
<1>2. PICK l \in Nat : l = Len(bs) /\ DOMAIN bs = 1..l
  BY <1>1
<1>3. PICK z : z = [n \in 1..l |-> CallsOf(s, bs[n], n)]
  OBVIOUS
<1>4. TextCalls(s) = FlattenSeq(z)
  BY <1>1, <1>2, <1>3 DEF TextCalls
<1>5. \A n \in 1..l : /\ z[n] \in Seq(TextCall) /\ z[n] = CallsOf(s, bs[n], n)
                      /\ \A k \in 1..Len(z[n]) : z[n][k].id = <<"text-tool", n, k>>
  <2> TAKE n \in 1..l
  <2>1. bs[n] \in RightBlocks(s) /\ n \in Nat
    BY <1>1, <1>2
  <2>2. z[n] = CallsOf(s, bs[n], n)
    BY <1>3
  <2> QED
    BY <2>1, <2>2, CallsOfIs
<1>6. z \in Seq(Seq(TextCall)) /\ Len(z) = l
  BY <1>2, <1>3, <1>5
<1>7. Numbered(z)
  BY <1>5, <1>6 DEF Numbered
<1>8. FlattenSeq(z) \in Seq(TextCall)
  BY <1>6, FlattenType
<1>9. Told(FlattenSeq(z), l)
  BY <1>6, <1>7, NumberedTold
<1>10. FlattenSeq(z) = <<>> => \A n \in 1..l : z[n] = <<>>
  BY <1>6, FlattenNothing
<1> QED
  BY <1>1, <1>2, <1>4, <1>5, <1>8, <1>9, <1>10

-----------------------------------------------------------------------------
(* What the user has seen.                                                 *)
LEMMA TipJoin ==
    ASSUME NEW s \in Words, NEW b \in Words, IsTip(b, s), NEW d \in Words, NEW c \in Words, IsTip(c, b \o d)
    PROVE  IsTip(c, s \o d)
<1>1. PICK k \in Nat, l \in Nat : k = Len(s) /\ l = Len(d)
  BY WordAt
<1>2. PICK m \in 0..k : b = Tip(s, m) /\ Len(b) = m
  <2>1. PICK m \in 0..Len(s) : b = Tip(s, m)
    BY DEF IsTip
  <2> QED
    BY <1>1, <2>1, TipIs
<1>3. PICK w \in Words : w = s \o d /\ Len(w) = k + l
  BY <1>1, JoinIs
<1>4. PICK u \in Words : u = b \o d /\ Len(u) = m + l
  <2>1. b \o d \in Words /\ Len(b \o d) = Len(b) + Len(d)
    BY JoinIs
  <2> QED
    BY <1>1, <1>2, <2>1
<1>5. PICK p \in 0..k : p = k - m /\ k + l - (m + l) = p
  <2>1. k - m \in 0..k /\ k + l - (m + l) = k - m
    BY <1>1, <1>2
  <2> QED
    BY <2>1
<1>6. b = From(s, p + 1)
  BY <1>1, <1>2, <1>5 DEF Tip
<1>7. From(w, p + 1) = u
  BY <1>1, <1>3, <1>4, <1>5, <1>6, JoinCut
<1>8. PICK q \in 0..(k + l) : q = m + l /\ (k + l) - q = p
  <2>1. m + l \in 0..(k + l)
    BY <1>1, <1>2
  <2> QED
    BY <1>5, <2>1
<1>9. Tip(w, q) = u
  BY <1>3, <1>7, <1>8 DEF Tip
<1>10. PICK j \in 0..q : c = Tip(u, j)
  BY <1>4, <1>8 DEF IsTip
<1>11. PICK i \in 0..q : i = q - j /\ q - i = j
  <2>1. q - j \in 0..q /\ q - (q - j) = j
    BY <1>1, <1>8, <1>10
  <2> QED
    BY <2>1
<1>12. c = From(u, i + 1)
  BY <1>4, <1>8, <1>10, <1>11 DEF Tip
<1>13. \A x \in 0..q : From(Tip(w, q), x + 1) = Tip(w, q - x)
  <2>1. q \in 0..Len(w)
    BY <1>3
  <2> QED
    BY <2>1, TipIs
<1>14. c = Tip(w, j)
  BY <1>9, <1>11, <1>12, <1>13
<1>15. j \in 0..Len(w)
  BY <1>1, <1>3, <1>8, <1>10
<1> QED
  BY <1>3, <1>14, <1>15 DEF IsTip

WordsOK == text \in Words /\ left \in Words /\ buffer \in Words /\ shown \in Words /\ watched \in BOOLEAN

\* Until the response ends the filter has shown what can be told.
ShownSoFar ==
    watched /\ ~ended =>
        /\ Held(buffer) /\ IsTip(buffer, text)
        /\ \A y \in Words : Visible(text \o y) = shown \o Visible(buffer \o y)

HeldBackCut ==
    /\ mode # "openai" /\ TextCalls(text) # <<>> /\ Partial(text) > 0
    /\ shown = SubSeq(Visible(text), 1, Len(Visible(text)) - Partial(text))
ShownAtEnd == watched /\ ended => shown = Visible(text) \/ HeldBackCut

ShownInv == WordsOK /\ ShownSoFar /\ ShownAtEnd

LEMMA EmptyWord == <<>> \in Words /\ \A s \in Words : s \o <<>> = s /\ <<>> \o s = s
<1>1. <<>> \in Words
  BY DEF Words
<1>2. ASSUME NEW s \in Words PROVE s \o <<>> = s /\ <<>> \o s = s
  BY ConcatEmptySeq DEF Words
<1> QED
  BY <1>1, <1>2

LEMMA NothingShown ==
    ASSUME ContentsAssumption, StreamInit
    PROVE  ShownInv
<1>1. WordsOK
  BY EmptyWord DEF ContentsAssumption, StreamInit, WordsOK, Words, Symbols
<1>2. PICK e \in Words : e = <<>> /\ text = e /\ buffer = e /\ shown = e
  BY EmptyWord DEF StreamInit
<1>3. Half(e)
  BY <1>2 DEF Half
<1>4. Len(e) = 0 /\ 0 \in 0..0
  BY <1>2
<1>5. Tip(e, 0) = e
  BY <1>4, TipIs
<1>6. IsTip(e, e)
  BY <1>4, <1>5 DEF IsTip
<1>7. ASSUME NEW y \in Words PROVE Visible(e \o y) = e \o Visible(e \o y)
  <2>1. PICK v \in Words : v = Visible(e \o y)
    BY VisibleWord
  <2>2. e \o v = v
    BY <1>2, EmptyWord
  <2> QED
    BY <2>1, <2>2
<1>8. ShownSoFar
  BY <1>2, <1>3, <1>6, <1>7 DEF ShownSoFar, Held
<1>9. ShownAtEnd
  BY DEF StreamInit, ShownAtEnd
<1> QED
  BY <1>1, <1>8, <1>9 DEF ShownInv

LEMMA TextShows ==
    ASSUME ShownInv, NEW n \in 1..Len(left), Text(n)
    PROVE  ShownInv'
<1>0. WordsOK /\ left \in Words /\ text \in Words /\ buffer \in Words /\ shown \in Words
  BY DEF ShownInv, WordsOK
<1>1. PICK d \in Words : d = SubSeq(left, 1, n)
  <2>1. PICK k \in Nat : k = Len(left)
    BY <1>0, WordAt
  <2>2. n \in Nat /\ n <= Len(left) /\ 1 <= n + 1 /\ 1 > 0
    BY <2>1
  <2>3. SubSeq(left, 1, n) \in Words
    BY <1>0, <2>2, CutIs
  <2> QED
    BY <2>3
<1>2. left' \in Words
  <2>1. PICK k \in Nat : k = Len(left)
    BY <1>0, WordAt
  <2>2. n \in 0..Len(left)
    BY <2>1
  <2>3. From(left, n + 1) \in Words
    BY <1>0, <2>2, FromIs
  <2> QED
    BY <2>3 DEF Text
<1>3. PICK w \in Words : w = text \o d /\ text' = w
  <2>1. text \o d \in Words
    BY <1>0, JoinIs
  <2> QED
    BY <1>1, <2>1 DEF Text
<1>4. ~ended /\ ~ended' /\ watched' = watched
  BY DEF Text
<1>5. CASE ~watched
  <2>1. shown' = shown /\ buffer' = buffer
    BY <1>5 DEF Text
  <2> QED
    BY <1>0, <1>2, <1>3, <1>4, <1>5, <2>1 DEF ShownInv, WordsOK, ShownSoFar, ShownAtEnd
<1>6. CASE watched
  <2>1. PICK u \in Words : u = buffer \o d
    <3>1. buffer \o d \in Words
      BY <1>0, JoinIs
    <3> QED
      BY <3>1
  <2>2. PICK out \in Words, kept \in Words :
           /\ out = Feed(u).out /\ kept = Feed(u).buffer /\ Held(kept) /\ IsTip(kept, u)
           /\ \A y \in Words : Visible(u \o y) = out \o Visible(kept \o y)
    <3>1. FedRight(Feed(u), u) /\ IsTip(Feed(u).buffer, u)
      BY <2>1, FeedShows
    <3> QED
      BY <3>1 DEF FedRight
  <2>3. shown' = shown \o out /\ buffer' = kept
    BY <1>1, <1>6, <2>1, <2>2 DEF Text
  <2>4. Held(buffer) /\ IsTip(buffer, text) /\ \A y \in Words : Visible(text \o y) = shown \o Visible(buffer \o y)
    BY <1>4, <1>6 DEF ShownInv, ShownSoFar
  <2>5. IsTip(kept, w)
    BY <1>0, <1>1, <1>3, <2>1, <2>2, <2>4, TipJoin
  <2>6. shown' \in Words
    BY <1>0, <2>2, <2>3, JoinIs
  <2>7. ASSUME NEW y \in Words PROVE Visible(w \o y) = shown' \o Visible(kept \o y)
    <3>1. PICK v \in Words : v = Visible(kept \o y)
      BY <2>2, VisibleWord
    <3>2. w \o y = text \o (d \o y) /\ u \o y = buffer \o (d \o y)
      <4>1. Joined(Joined(text, d), y) = Joined(text, Joined(d, y))
        BY <1>0, <1>1, <2>7, JoinAssociative
      <4>2. Joined(Joined(buffer, d), y) = Joined(buffer, Joined(d, y))
        BY <1>0, <1>1, <2>7, JoinAssociative
      <4> QED
        BY <1>3, <2>1, <4>1, <4>2 DEF Joined
    <3>3. PICK z \in Words : z = d \o y
      BY <1>1, JoinIs
    <3>4. Visible(text \o z) = shown \o Visible(buffer \o z)
      BY <2>4, <3>3
    <3>5. Visible(u \o y) = out \o v
      BY <2>2, <3>1
    <3>6. Visible(w \o y) = Joined(shown, Joined(out, v))
      BY <3>2, <3>3, <3>4, <3>5 DEF Joined
    <3>7. Joined(Joined(shown, out), v) = Joined(shown, Joined(out, v))
      <4>1. shown \in Words /\ out \in Words /\ v \in Words
        BY <1>0, <2>2, <3>1
      <4> QED
        BY <4>1, JoinAssociative
    <3> QED
      BY <2>3, <3>1, <3>6, <3>7 DEF Joined
  <2>8. WordsOK'
    BY <1>0, <1>2, <1>3, <1>4, <2>2, <2>3, <2>6 DEF WordsOK
  <2>9. ShownSoFar'
    BY <1>3, <2>2, <2>3, <2>5, <2>7 DEF ShownSoFar
  <2> QED
    BY <1>4, <2>8, <2>9 DEF ShownInv, ShownAtEnd
<1> QED
  BY <1>5, <1>6

LEMMA ReturnShows ==
    ASSUME ShownInv, Return
    PROVE  ShownInv'
<1>0. WordsOK /\ left \in Words /\ text \in Words /\ buffer \in Words /\ shown \in Words
  BY DEF ShownInv, WordsOK
<1>1. ~ended /\ ended' /\ UNCHANGED <<mode, watched, left, text>>
  BY DEF Return
<1>2. CASE ~watched
  <2>1. UNCHANGED <<shown, buffer>>
    BY <1>2 DEF Return
  <2> QED
    BY <1>0, <1>1, <1>2, <2>1 DEF ShownInv, WordsOK, ShownSoFar, ShownAtEnd
<1>3. CASE watched
  <2>1. Held(buffer) /\ IsTip(buffer, text) /\ \A y \in Words : Visible(text \o y) = shown \o Visible(buffer \o y)
    BY <1>1, <1>3 DEF ShownInv, ShownSoFar
  <2>2. Visible(text) = shown \o Visible(buffer)
    <3>1. Visible(text \o <<>>) = shown \o Visible(buffer \o <<>>)
      BY <2>1, EmptyWord
    <3>2. text \o <<>> = text /\ buffer \o <<>> = buffer
      BY <1>0, EmptyWord
    <3> QED
      BY <3>1, <3>2
  <2>3. Visible(buffer) = Flushed /\ Visible(buffer) \in Words
    BY <1>0, <2>1, FlushShows, VisibleIs DEF Flushed
  <2>4. CASE mode = "openai" \/ TextCalls(text) = <<>>
    <3>1. shown' = shown \o Flushed /\ buffer' = <<>>
      BY <1>3, <2>4 DEF Return
    <3>2. shown \o Flushed \in Words
      BY <1>0, <2>3, JoinIs
    <3>3. shown' = Visible(text)
      BY <2>2, <2>3, <3>1
    <3>4. WordsOK'
      BY <1>0, <1>1, <3>1, <3>2, EmptyWord DEF WordsOK
    <3> QED
      BY <1>1, <3>3, <3>4 DEF ShownInv, ShownSoFar, ShownAtEnd
  <2>5. CASE mode # "openai" /\ TextCalls(text) # <<>>
    <3>1. UNCHANGED <<shown, buffer>>
      BY <2>5 DEF Return
    <3>2. shown = Visible(text) \/ HeldBackCut
      <4>1. CASE Visible(buffer) = <<>>
        BY <1>0, <2>2, <4>1, EmptyWord
      <4>2. CASE Visible(buffer) # <<>>
        <5>1. ~Opened(buffer)
          BY <1>0, <4>2, OpenedHides
        <5>2. Half(buffer) /\ Visible(buffer) = buffer
          BY <1>0, <2>1, <5>1, HalfVisible DEF Held
        <5>3. Partial(text) = Len(buffer) /\ Len(buffer) > 0
          BY <1>0, <2>1, <4>2, <5>2, HeldPartial
        <5>4. PICK k \in Nat, l \in Nat : k = Len(shown) /\ l = Len(buffer)
          BY <1>0, WordAt
        <5>5. Visible(text) = shown \o buffer /\ Len(shown \o buffer) = k + l
          BY <1>0, <2>2, <5>2, <5>4, JoinIs
        <5>6. k + l - l = k /\ k \in 0..k
          BY <5>4
        <5>7. SubSeq(shown \o buffer, 1, k) = SubSeq(shown, 1, k)
          BY <1>0, <5>4, <5>6, JoinCut
        <5>8. SubSeq(shown, 1, k) = shown
          BY <1>0, <5>4, SubSeqFull DEF Words
        <5>9. SubSeq(Visible(text), 1, Len(Visible(text)) - Partial(text)) = shown
          BY <5>3, <5>4, <5>5, <5>6, <5>7, <5>8
        <5> QED
          BY <2>5, <5>3, <5>9 DEF HeldBackCut
      <4> QED
        BY <4>1, <4>2
    <3>3. HeldBackCut => HeldBackCut'
      BY <1>1, <3>1 DEF HeldBackCut
    <3> QED
      BY <1>0, <1>1, <3>1, <3>2, <3>3 DEF ShownInv, WordsOK, ShownSoFar, ShownAtEnd
  <2> QED
    BY <2>4, <2>5
<1> QED
  BY <1>2, <1>3, <1>0 DEF WordsOK

LEMMA ShownKeeps ==
    ASSUME ContentsAssumption, ShownInv, [StreamNext]_streamVars
    PROVE  ShownInv'
<1>1. ASSUME NEW n \in 1..Len(left), Text(n) PROVE ShownInv'
  BY <1>1, TextShows
<1>2. ASSUME UNCHANGED <<watched, left, text, buffer, shown, ended>>, mode' = mode \/ ~ended PROVE ShownInv'
  BY <1>2 DEF ShownInv, WordsOK, ShownSoFar, ShownAtEnd, HeldBackCut
<1>3. ASSUME NEW i \in 1..made, Delta(i) \/ Block(i) \/ Start(i) PROVE ShownInv'
  BY <1>2, <1>3 DEF Delta, Block, Start
<1>4. CASE More \/ Stop \/ FallBack
  BY <1>2, <1>4 DEF More, Stop, FallBack
<1>5. CASE Return
  BY <1>5, ReturnShows
<1>6. CASE UNCHANGED streamVars
  BY <1>2, <1>6 DEF streamVars
<1> QED
  BY <1>1, <1>3, <1>4, <1>5, <1>6 DEF StreamNext

(* parse_text_tool_calls: when every block of an answer has calls and none *)
(* is open, what is left of it is what is visible.                         *)
LEMMA AnswerVisible ==
    ASSUME text \in Words,
           Closed(text)
    PROVE  Content = Visible(text)
<1>0. /\ \A n \in DOMAIN Blocks(text) : CallsOf(text, Blocks(text)[n], n) # <<>>
      /\ \A i \in DOMAIN text : Between(text, i) => InBlock(Blocks(text), i)
  BY DEF Closed
<1>1. PICK k \in Nat : k = Len(text) /\ DOMAIN text = 1..k
  BY WordAt
<1>2. CASE TextCalls(text) = <<>>
  <2>1. \A n \in DOMAIN Blocks(text) : FALSE
    BY <1>0, <1>2, TextCallsTold
  <2>2. \A i \in 1..k : ~Between(text, i)
    BY <1>0, <1>1, <2>1 DEF InBlock
  <2>3. Visible(text) = text
    BY <1>1, <2>2, VisiblePlain
  <2> QED
    BY <1>2, <2>3 DEF Content
<1>3. CASE TextCalls(text) # <<>>
  <2>1. \A i \in 1..k : InBlock(Blocks(text), i) <=> Between(text, i)
    BY <1>0, <1>1, InBlockBetween
  <2>2. Cleaned(text) = Visible(text)
    BY <1>1, <2>1 DEF Cleaned, Visible
  <2> QED
    BY <1>3, <2>2 DEF Content
<1> QED
  BY <1>2, <1>3

(* What the user has seen of a response, in every behaviour.               *)
THEOREM ShownInvHolds ==
    ASSUME ContentsAssumption
    PROVE  StreamSpec => []ShownInv
<1>1. StreamInit => ShownInv
  BY NothingShown
<1>2. ShownInv /\ [StreamNext]_streamVars => ShownInv'
  BY ShownKeeps
<1> QED
  BY <1>1, <1>2, PTL DEF StreamSpec

(* TextToolCallStreamFilter and parse_text_tool_calls: for every text and  *)
(* every way to cut it into pieces, the user sees what is outside the      *)
(* blocks of calls, and that is the answer that is returned, and the one   *)
(* that the model is sent back unless the Anthropic provider found calls   *)
(* in the text.                                                            *)
THEOREM ShownIsAnswerHolds ==
    ASSUME ContentsAssumption
    PROVE  StreamSpec => []ShownIsAnswer
<1>1. ShownInv => ShownIsAnswer
  <2> SUFFICES ASSUME ShownInv, ended PROVE ShownIsAnswer
    BY DEF ShownIsAnswer
  <2>1. watched => shown = Visible(text) \/ HeldBackCut
    BY DEF ShownInv, ShownAtEnd
  <2>2. text \in Words
    BY DEF ShownInv, WordsOK
  <2>3. ASSUME Closed(text) PROVE Content = Visible(text)
    BY <2>2, <2>3, AnswerVisible
  <2>4. mode = "openai" \/ TextCalls(text) = <<>> => Resent = Content
    BY DEF Resent, Content
  <2>5. mode # "openai" => Resent = text
    BY DEF Resent
  <2> QED
    BY <2>1, <2>3, <2>4, <2>5 DEF ShownIsAnswer, HeldBackCut
<1> QED
  BY <1>1, ShownInvHolds, PTL

-----------------------------------------------------------------------------
(* How the calls of a response are assembled.                              *)
Called == [id : Nat, args : Seq(Nat \X Nat)]
Got(k, n) == [j \in 1..n |-> <<k, j>>]

CallTypes ==
    /\ mode \in {"openai", "message", "stream"}
    /\ made \in Nat /\ parts \in [1..made -> 0..2] /\ data \in Seq(Called)

\* An entry holds what came of its call.
DataOK ==
    /\ Len(data) <= made
    /\ \A k \in 1..Len(data) : data[k].id \in {0, k} /\ data[k].args = Got(k, parts[k])

\* The call in progress is the next one.
CurrentOK ==
    current # <<>> =>
        \E k \in 1..made :
            /\ mode = "stream" /\ k = Len(data) + 1 /\ parts[k] # 0
            /\ current = <<[id |-> k, args |-> Got(k, parts[k])]>>

\* There is an entry for all that came; only a stream of chunks may leave one out.
Reached == \A i \in 1..made : parts[i] # 0 => i <= Len(data) \/ (current # <<>> /\ i = Len(data) + 1)
InOrder == ~(mode = "openai" /\ watched) => \A i \in 1..Len(data) : parts[i] # 0

CallInv == CallTypes /\ DataOK /\ CurrentOK /\ Reached /\ InOrder

LEMMA GotIs ==
    /\ \A k \in Nat : Got(k, 0) = <<>>
    /\ \A k \in Nat, n \in Nat : Got(k, n) \in Seq(Nat \X Nat) /\ Len(Got(k, n)) = n
    /\ \A k \in Nat, n \in Nat : Append(Got(k, n), <<k, n + 1>>) = Got(k, n + 1)
<1>1. ASSUME NEW k \in Nat PROVE Got(k, 0) = <<>>
  BY DEF Got
<1>2. ASSUME NEW k \in Nat, NEW n \in Nat PROVE Got(k, n) \in Seq(Nat \X Nat) /\ Len(Got(k, n)) = n
  BY DEF Got
<1>3. ASSUME NEW k \in Nat, NEW n \in Nat PROVE Append(Got(k, n), <<k, n + 1>>) = Got(k, n + 1)
  <2>1. PICK s \in Seq(Nat \X Nat) : s = Got(k, n) /\ Len(s) = n
    BY <1>2
  <2>2. \A j \in 1..n : s[j] = <<k, j>>
    BY <2>1 DEF Got
  <2>3. PICK e \in Nat \X Nat : e = <<k, n + 1>>
    <3>1. <<k, n + 1>> \in Nat \X Nat
      OBVIOUS
    <3> QED
      BY <3>1
  <2>4. PICK w \in Seq(Nat \X Nat) : w = Append(s, e) /\ Len(w) = n + 1
    <3>1. Append(s, e) \in Seq(Nat \X Nat) /\ Len(Append(s, e)) = n + 1
      BY <2>1, <2>3
    <3> QED
      BY <3>1
  <2>5. \A j \in 1..(n + 1) : w[j] = IF j = n + 1 THEN e ELSE s[j]
    BY <2>1, <2>4
  <2>6. \A j \in 1..(n + 1) : w[j] = <<k, j>>
    <3> TAKE j \in 1..(n + 1)
    <3>1. CASE j = n + 1
      BY <2>3, <2>5, <3>1
    <3>2. CASE j # n + 1
      <4>1. j \in 1..n
        BY <3>2
      <4> QED
        BY <2>2, <2>5, <3>2, <4>1
    <3> QED
      BY <3>1, <3>2
  <2>7. PICK g \in Seq(Nat \X Nat) : g = Got(k, n + 1) /\ Len(g) = n + 1
    <3>1. n + 1 \in Nat
      OBVIOUS
    <3> QED
      BY <1>2, <3>1
  <2>8. \A j \in 1..(n + 1) : g[j] = <<k, j>>
    BY <2>7 DEF Got
  <2>9. w = g
    BY <2>4, <2>6, <2>7, <2>8, SeqEqual
  <2> QED
    BY <2>1, <2>3, <2>4, <2>7, <2>9
<1> QED
  BY <1>1, <1>2, <1>3

\* One more entry.
LEMMA EntryIs ==
    ASSUME NEW k \in Nat, NEW id \in {0, k}, NEW n \in Nat
    PROVE  [id |-> id, args |-> Got(k, n)] \in Called
BY GotIs DEF Called

LEMMA NothingCalled ==
    ASSUME ContentsAssumption, StreamInit
    PROVE  CallInv
<1>1. MaxCalls \in Nat
  BY DEF ContentsAssumption
<1>2. CallTypes
  BY <1>1 DEF StreamInit, CallTypes
<1>3. DataOK /\ CurrentOK /\ Reached /\ InOrder
  BY <1>1 DEF StreamInit, DataOK, CurrentOK, Reached, InOrder
<1> QED
  BY <1>2, <1>3 DEF CallInv

\* What is added to the entries when the server numbers a call.
Padded(i) == data \o [k \in 1..(IF i > Len(data) THEN i - Len(data) ELSE 0) |-> [id |-> 0, args |-> <<>>]]

LEMMA PaddedIs ==
    ASSUME CallTypes, DataOK, NEW i \in 1..made
    PROVE  /\ Padded(i) \in Seq(Called)
           /\ Len(Padded(i)) = IF i > Len(data) THEN i ELSE Len(data)
           /\ \A k \in 1..Len(Padded(i)) :
                Padded(i)[k] = IF k <= Len(data) THEN data[k] ELSE [id |-> 0, args |-> <<>>]
<1>1. PICK l \in Nat : l = Len(data) /\ data \in Seq(Called)
  BY DEF CallTypes
<1>2. i \in Nat
  BY DEF CallTypes
<1>3. PICK u \in Called : u = [id |-> 0, args |-> <<>>]
  <2>1. [id |-> 0, args |-> Got(0, 0)] \in Called
    BY EntryIs
  <2> QED
    BY <2>1, GotIs
<1>4. PICK m \in Nat : m = IF i > l THEN i - l ELSE 0
  <2>1. (IF i > l THEN i - l ELSE 0) \in Nat
    BY <1>1, <1>2
  <2> QED
    BY <2>1
<1>5. PICK z \in Seq(Called) : z = [k \in 1..m |-> u] /\ Len(z) = m
  <2>1. [k \in 1..m |-> u] \in Seq(Called) /\ Len([k \in 1..m |-> u]) = m
    BY <1>3, <1>4
  <2> QED
    BY <2>1
<1>6. Padded(i) = data \o z
  BY <1>1, <1>3, <1>4, <1>5 DEF Padded
<1>7. l + m = IF i > l THEN i ELSE l
  BY <1>1, <1>2, <1>4
<1>8. data \o z \in Seq(Called) /\ Len(data \o z) = l + m
  BY <1>1, <1>5
<1>9. \A k \in 1..(l + m) : (data \o z)[k] = IF k <= l THEN data[k] ELSE z[k - l]
  BY <1>1, <1>5
<1>10. \A k \in 1..(l + m) : k > l => k - l \in 1..m
  BY <1>1
<1>11. \A k \in 1..(l + m) : (data \o z)[k] = IF k <= l THEN data[k] ELSE u
  <2> TAKE k \in 1..(l + m)
  <2>1. CASE k <= l
    BY <1>9, <2>1
  <2>2. CASE ~(k <= l)
    <3>1. k > l
      BY <1>1, <2>2
    <3>2. PICK j \in 1..m : j = k - l
      BY <1>10, <3>1
    <3>3. z[j] = u
      BY <1>5
    <3> QED
      BY <1>9, <2>2, <3>2, <3>3
  <2> QED
    BY <2>1, <2>2
<1> QED
  BY <1>1, <1>3, <1>6, <1>7, <1>8, <1>11

LEMMA DeltaCalls ==
    ASSUME CallInv, NEW i \in 1..made, Delta(i)
    PROVE  CallInv'
<1>0. CallTypes /\ DataOK /\ CurrentOK /\ Reached /\ InOrder
  BY DEF CallInv
<1>1. made \in Nat /\ parts \in [1..made -> 0..2] /\ i \in Nat
  BY <1>0 DEF CallTypes
<1>2. mode = "openai" /\ watched /\ parts[i] < 2 /\ parts' = [parts EXCEPT ![i] = @ + 1]
      /\ UNCHANGED <<mode, watched, made, current>>
  BY DEF Delta
<1>3. PICK n \in 0..1 : n = parts[i]
  BY <1>1, <1>2
<1>4. parts' \in [1..made -> 0..2] /\ \A k \in 1..made : parts'[k] = IF k = i THEN n + 1 ELSE parts[k]
  BY <1>1, <1>2, <1>3
<1>5. current = <<>>
  BY <1>0, <1>2 DEF CurrentOK
<1>6. PICK p \in Seq(Called) : p = Padded(i)
  BY <1>0, PaddedIs
<1>7. PICK l \in Nat : l = Len(data) /\ l <= made
  BY <1>0 DEF CallTypes, DataOK
<1>8. PICK m \in Nat : m = Len(p) /\ (m = IF i > l THEN i ELSE l) /\ m <= made /\ i \in 1..m
  <2>1. Len(p) = IF i > l THEN i ELSE l
    BY <1>0, <1>6, <1>7, PaddedIs
  <2> QED
    BY <1>1, <1>6, <1>7, <2>1
<1>9. \A k \in 1..m : p[k] = IF k <= l THEN data[k] ELSE [id |-> 0, args |-> <<>>]
  BY <1>0, <1>6, <1>7, <1>8, PaddedIs
<1>10. \A k \in 1..m : p[k].id \in {0, k} /\ p[k].args = Got(k, parts[k])
  <2> TAKE k \in 1..m
  <2>1. CASE k <= l
    <3>1. k \in 1..Len(data) /\ p[k] = data[k]
      BY <1>7, <1>9, <2>1
    <3> QED
      BY <1>0, <3>1 DEF DataOK
  <2>2. CASE ~(k <= l)
    <3>1. k \in 1..made /\ k \in Nat
      BY <1>1, <1>8
    <3>2. parts[k] = 0
      BY <1>0, <1>5, <1>7, <2>2, <3>1 DEF Reached
    <3>3. p[k] = [id |-> 0, args |-> <<>>]
      BY <1>9, <2>2
    <3> QED
      BY <3>1, <3>2, <3>3, GotIs
  <2> QED
    BY <2>1, <2>2
<1>11. PICK e : e = [id |-> IF n = 0 THEN i ELSE p[i].id, args |-> Got(i, n + 1)]
  OBVIOUS
<1>12. e \in Called /\ e.id \in {0, i} /\ e.args = Got(i, n + 1)
  <2>1. (IF n = 0 THEN i ELSE p[i].id) \in {0, i}
    BY <1>8, <1>10
  <2> QED
    BY <1>1, <1>11, <2>1, EntryIs
<1>13. data' = [p EXCEPT ![i] = e]
  <2>1. data' = [p EXCEPT ![i].id = IF parts[i] = 0 THEN i ELSE @,
                          ![i].args = Append(@, <<i, parts[i] + 1>>)]
    BY <1>6 DEF Delta, Entry, Padded
  <2>2. PICK c \in Called : c = p[i] /\ c.args = Got(i, n)
    <3>1. p[i] \in Called
      BY <1>6, <1>8, ElementOfSeq
    <3>2. p[i].args = Got(i, n)
      BY <1>3, <1>8, <1>10
    <3> QED
      BY <3>1, <3>2
  <2>3. Append(Got(i, n), <<i, n + 1>>) = Got(i, n + 1)
    <3>1. n \in Nat
      BY <1>3
    <3> QED
      BY <1>1, <3>1, GotIs
  <2>4. PICK x : x = IF n = 0 THEN i ELSE c.id
    OBVIOUS
  <2>5. PICK y, z : y = c.id /\ z = c.args /\ c = [id |-> y, args |-> z]
    BY DEF Called
  <2>6. PICK w : w = Append(z, <<i, n + 1>>)
    OBVIOUS
  <2>7. [c EXCEPT !.id = x, !.args = Append(@, <<i, n + 1>>)] = e
    <3>1. [c EXCEPT !.id = x] = [id |-> x, args |-> z]
      BY <2>5
    <3>2. [[id |-> x, args |-> z] EXCEPT !.args = w] = [id |-> x, args |-> w]
      OBVIOUS
    <3>3. w = Got(i, n + 1)
      BY <2>2, <2>3, <2>5, <2>6
    <3>4. e = [id |-> x, args |-> w]
      BY <1>11, <2>2, <2>4, <3>3
    <3>5. [id |-> x, args |-> z].args = z
      OBVIOUS
    <3> QED
      BY <2>6, <3>1, <3>2, <3>4, <3>5
  <2>8. data' = [p EXCEPT ![i] = [c EXCEPT !.id = x, !.args = Append(@, <<i, n + 1>>)]]
    BY <1>3, <1>6, <1>8, <2>1, <2>2, <2>4
  <2> QED
    BY <2>7, <2>8
<1>14. data' \in Seq(Called) /\ Len(data') = m /\ \A k \in 1..m : data'[k] = IF k = i THEN e ELSE p[k]
  <2>1. i \in 1..Len(p) /\ e \in Called
    BY <1>8, <1>12
  <2>2. /\ [p EXCEPT ![i] = e] \in Seq(Called) /\ Len([p EXCEPT ![i] = e]) = Len(p)
        /\ \A k \in 1..Len(p) : [p EXCEPT ![i] = e][k] = IF k = i THEN e ELSE p[k]
    BY <1>6, <2>1, ExceptSeq
  <2> QED
    BY <1>8, <1>13, <2>2
<1>15. CallTypes'
  BY <1>0, <1>2, <1>4, <1>14 DEF CallTypes
<1>16. DataOK'
  <2>1. \A k \in 1..m : data'[k].id \in {0, k} /\ data'[k].args = Got(k, parts'[k])
    <3> TAKE k \in 1..m
    <3>1. k \in 1..made
      BY <1>1, <1>8
    <3>2. CASE k = i
      BY <1>4, <1>12, <1>14, <3>1, <3>2
    <3>3. CASE k # i
      BY <1>4, <1>10, <1>14, <3>1, <3>3
    <3> QED
      BY <3>2, <3>3
  <2> QED
    BY <1>2, <1>8, <1>14, <2>1 DEF DataOK
<1>17. CurrentOK' /\ InOrder'
  BY <1>2, <1>5 DEF CurrentOK, InOrder
<1>18. Reached'
  <2>1. ASSUME NEW k \in 1..made, parts'[k] # 0 PROVE k <= m
    <3>1. CASE k = i
      BY <1>8, <3>1
    <3>2. CASE k # i
      BY <1>0, <1>1, <1>4, <1>5, <1>7, <1>8, <2>1, <3>2 DEF Reached
    <3> QED
      BY <3>1, <3>2
  <2> QED
    BY <1>2, <1>14, <2>1 DEF Reached
<1> QED
  BY <1>15, <1>16, <1>17, <1>18 DEF CallInv

\* The next call in a response whose calls come one after the other.
LEMMA NextCall ==
    ASSUME CallInv, current = <<>>, ~(mode = "openai" /\ watched), NEW i \in 1..made,
           parts[i] = 0, \A k \in 1..(i - 1) : parts[k] > 0
    PROVE  i = Len(data) + 1
<1>0. CallTypes /\ DataOK /\ Reached /\ InOrder
  BY DEF CallInv
<1>1. made \in Nat /\ parts \in [1..made -> 0..2] /\ i \in Nat
  BY <1>0 DEF CallTypes
<1>2. PICK l \in Nat : l = Len(data) /\ l <= made
  BY <1>0 DEF CallTypes, DataOK
<1>3. ~(i <= l)
  BY <1>0, <1>1, <1>2 DEF InOrder
<1>4. \A k \in 1..(i - 1) : k <= l
  <2> TAKE k \in 1..(i - 1)
  <2>1. k \in 1..made /\ parts[k] # 0
    BY <1>1
  <2> QED
    BY <1>0, <1>2, <2>1 DEF Reached
<1>5. i # 1 => i - 1 <= l
  BY <1>1, <1>4
<1> QED
  BY <1>1, <1>2, <1>3, <1>5

LEMMA BlockCalls ==
    ASSUME CallInv, NEW i \in 1..made, Block(i)
    PROVE  CallInv'
<1>0. CallTypes /\ DataOK /\ CurrentOK /\ Reached /\ InOrder
  BY DEF CallInv
<1>1. made \in Nat /\ parts \in [1..made -> 0..2] /\ i \in Nat
  BY <1>0 DEF CallTypes
<1>2. mode # "stream" /\ ~(mode = "openai" /\ watched) /\ UNCHANGED <<mode, watched, made, current>>
  BY DEF Block
<1>3. current = <<>>
  BY <1>0, <1>2 DEF CurrentOK
<1>4. PICK l \in Nat : l = Len(data) /\ data \in Seq(Called)
  BY <1>0 DEF CallTypes
<1>5. i = l + 1
  BY <1>2, <1>3, <1>4, NextCall DEF Block
<1>6. PICK n \in 1..2 : parts' = [parts EXCEPT ![i] = n]
        /\ data' = Append(data, [id |-> i, args |-> [k \in 1..n |-> <<i, k>>]])
  <2>1. \A n \in (IF mode = "openai" THEN 1..2 ELSE {2}) : n \in 1..2
    OBVIOUS
  <2> QED
    BY <2>1, Zenon DEF Block
<1>7. PICK id \in {0, i} : id = i
  OBVIOUS
<1>8. PICK e \in Called : e = [id |-> id, args |-> Got(i, n)]
  <2>1. n \in Nat
    BY <1>6
  <2>2. [id |-> id, args |-> Got(i, n)] \in Called
    BY <1>1, <1>7, <2>1, EntryIs
  <2> QED
    BY <2>2
<1>9. data' = Append(data, e)
  BY <1>6, <1>7, <1>8 DEF Got
<1>10. data' \in Seq(Called) /\ Len(data') = l + 1 /\ \A k \in 1..(l + 1) : data'[k] = IF k = l + 1 THEN e ELSE data[k]
  BY <1>4, <1>9
<1>11. parts' \in [1..made -> 0..2] /\ \A k \in 1..made : parts'[k] = IF k = i THEN n ELSE parts[k]
  BY <1>1, <1>6
<1>12. CallTypes'
  BY <1>0, <1>2, <1>10, <1>11 DEF CallTypes
<1>13. DataOK'
  <2>1. \A k \in 1..(l + 1) : data'[k].id \in {0, k} /\ data'[k].args = Got(k, parts'[k])
    <3> TAKE k \in 1..(l + 1)
    <3>1. k \in 1..made
      BY <1>1, <1>5
    <3>2. CASE k = l + 1
      BY <1>5, <1>7, <1>8, <1>10, <1>11, <3>1, <3>2
    <3>3. CASE k # l + 1
      <4>1. k \in 1..Len(data) /\ data'[k] = data[k] /\ parts'[k] = parts[k]
        BY <1>4, <1>5, <1>10, <1>11, <3>1, <3>3
      <4> QED
        BY <1>0, <4>1 DEF DataOK
    <3> QED
      BY <3>2, <3>3
  <2> QED
    BY <1>1, <1>2, <1>5, <1>10, <2>1 DEF DataOK
<1>14. CurrentOK'
  BY <1>2, <1>3 DEF CurrentOK
<1>15. Reached'
  <2>1. ASSUME NEW k \in 1..made, parts'[k] # 0 PROVE k <= l + 1
    <3>1. CASE k = i
      BY <1>5, <3>1
    <3>2. CASE k # i
      BY <1>0, <1>1, <1>3, <1>4, <1>11, <2>1, <3>2 DEF Reached
    <3> QED
      BY <3>1, <3>2
  <2> QED
    BY <1>2, <1>10, <2>1 DEF Reached
<1>16. InOrder'
  <2>1. ASSUME NEW k \in 1..(l + 1) PROVE parts'[k] # 0
    <3>1. k \in 1..made
      BY <1>1, <1>5
    <3>2. CASE k = i
      BY <1>11, <3>1, <3>2
    <3>3. CASE k # i
      <4>1. k \in 1..Len(data)
        BY <1>4, <1>5, <3>3
      <4> QED
        BY <1>0, <1>2, <1>11, <3>1, <3>3, <4>1 DEF InOrder
    <3> QED
      BY <3>2, <3>3
  <2> QED
    BY <1>10, <2>1 DEF InOrder
<1> QED
  BY <1>12, <1>13, <1>14, <1>15, <1>16 DEF CallInv

LEMMA StartCalls ==
    ASSUME CallInv, NEW i \in 1..made, Start(i)
    PROVE  CallInv'
<1>0. CallTypes /\ DataOK /\ CurrentOK /\ Reached /\ InOrder
  BY DEF CallInv
<1>1. made \in Nat /\ parts \in [1..made -> 0..2] /\ i \in Nat
  BY <1>0 DEF CallTypes
<1>2. mode = "stream" /\ current = <<>> /\ UNCHANGED <<mode, watched, made, data>>
  BY DEF Start
<1>3. PICK l \in Nat : l = Len(data) /\ data \in Seq(Called)
  BY <1>0 DEF CallTypes
<1>4. i = l + 1
  BY <1>2, <1>3, NextCall DEF Start
<1>5. parts' \in [1..made -> 0..2] /\ \A k \in 1..made : parts'[k] = IF k = i THEN 1 ELSE parts[k]
  BY <1>1 DEF Start
<1>6. current' = <<[id |-> i, args |-> Got(i, parts'[i])]>>
  <2>1. Got(i, 1) = <<<<i, 1>>>>
    BY <1>1 DEF Got
  <2> QED
    BY <1>5, <2>1 DEF Start
<1>7. CallTypes'
  BY <1>0, <1>2, <1>5 DEF CallTypes
<1>8. DataOK'
  <2>1. \A k \in 1..l : k \in 1..made /\ parts'[k] = parts[k]
    BY <1>1, <1>4, <1>5
  <2> QED
    BY <1>0, <1>2, <1>3, <2>1 DEF DataOK
<1>9. CurrentOK'
  BY <1>2, <1>3, <1>4, <1>5, <1>6 DEF CurrentOK
<1>10. Reached'
  <2>1. current' # <<>>
    BY <1>6
  <2>2. ASSUME NEW k \in 1..made, parts'[k] # 0 PROVE k <= l \/ k = l + 1
    <3>1. CASE k = i
      BY <1>4, <3>1
    <3>2. CASE k # i
      BY <1>0, <1>2, <1>3, <1>5, <2>2, <3>2 DEF Reached
    <3> QED
      BY <3>1, <3>2
  <2> QED
    BY <1>2, <1>3, <2>1, <2>2 DEF Reached
<1>11. InOrder'
  <2>1. \A k \in 1..l : k \in 1..made /\ parts'[k] = parts[k]
    BY <1>1, <1>4, <1>5
  <2> QED
    BY <1>0, <1>2, <1>3, <2>1 DEF InOrder
<1> QED
  BY <1>7, <1>8, <1>9, <1>10, <1>11 DEF CallInv

LEMMA MoreCalls ==
    ASSUME CallInv, More
    PROVE  CallInv'
<1>0. CallTypes /\ DataOK /\ CurrentOK /\ Reached /\ InOrder
  BY DEF CallInv
<1>1. made \in Nat /\ parts \in [1..made -> 0..2]
  BY <1>0 DEF CallTypes
<1>2. current # <<>> /\ UNCHANGED <<mode, watched, made, data>>
  BY DEF More
<1>3. PICK l \in Nat : l = Len(data) /\ data \in Seq(Called)
  BY <1>0 DEF CallTypes
<1>4. PICK i \in 1..made : mode = "stream" /\ i = l + 1 /\ parts[i] # 0
                           /\ current = <<[id |-> i, args |-> Got(i, parts[i])]>>
  BY <1>0, <1>2, <1>3 DEF CurrentOK
<1>5. i \in Nat /\ parts[i] \in 0..2
  BY <1>1
<1>6. PICK c : c = [id |-> i, args |-> Got(i, parts[i])] /\ current = <<c>> /\ current[1] = c
               /\ c.id = i /\ c.args = Got(i, parts[i])
  BY <1>4
<1>7. parts[i] = 1
  <2>1. Len(Got(i, parts[i])) = parts[i]
    <3>1. PICK m \in Nat : m = parts[i]
      BY <1>5
    <3>2. Len(Got(i, m)) = m
      BY <1>5, GotIs
    <3> QED
      BY <3>1, <3>2
  <2> QED
    BY <1>4, <1>5, <1>6, <2>1 DEF More
<1>8. parts' \in [1..made -> 0..2] /\ \A k \in 1..made : parts'[k] = IF k = i THEN 2 ELSE parts[k]
  BY <1>1, <1>6 DEF More
<1>9. current' = <<[id |-> i, args |-> Got(i, 2)]>>
  <2>1. PICK g : g = Got(i, 1)
    OBVIOUS
  <2>2. PICK h : h = Got(i, 2) /\ h = Append(g, <<i, 2>>)
    <3>1. PICK m \in Nat : m = 1 /\ m + 1 = 2
      OBVIOUS
    <3>2. Append(Got(i, m), <<i, m + 1>>) = Got(i, m + 1)
      BY <1>5, GotIs
    <3> QED
      BY <2>1, <3>1, <3>2
  <2>3. c = [id |-> i, args |-> g] /\ c.args = g
    BY <1>6, <1>7, <2>1
  <2>4. [c EXCEPT !.args = h] = [id |-> i, args |-> h]
    BY <2>3
  <2>5. PICK d : d = [id |-> i, args |-> h] /\ d = [c EXCEPT !.args = h]
    BY <2>4
  <2>6. current' = [current EXCEPT ![1] = d]
    BY <1>6, <2>2, <2>3, <2>5 DEF More
  <2>7. [<<c>> EXCEPT ![1] = d] = <<d>>
    OBVIOUS
  <2> QED
    BY <1>6, <2>2, <2>5, <2>6, <2>7
<1>10. CallTypes'
  BY <1>0, <1>2, <1>8 DEF CallTypes
<1>11. \A k \in 1..l : k \in 1..made /\ parts'[k] = parts[k]
  BY <1>1, <1>4, <1>8
<1>12. DataOK'
  BY <1>0, <1>2, <1>3, <1>11 DEF DataOK
<1>13. CurrentOK'
  BY <1>2, <1>3, <1>4, <1>8, <1>9 DEF CurrentOK
<1>14. Reached'
  <2>1. current' # <<>>
    BY <1>9
  <2>2. ASSUME NEW k \in 1..made, parts'[k] # 0 PROVE k <= l \/ k = l + 1
    BY <1>0, <1>3, <1>4, <1>8, <2>2 DEF Reached
  <2> QED
    BY <1>2, <1>3, <2>1, <2>2 DEF Reached
<1>15. InOrder'
  BY <1>0, <1>2, <1>3, <1>11 DEF InOrder
<1> QED
  BY <1>10, <1>12, <1>13, <1>14, <1>15 DEF CallInv

LEMMA StopCalls ==
    ASSUME CallInv, Stop
    PROVE  CallInv'
<1>0. CallTypes /\ DataOK /\ CurrentOK /\ Reached /\ InOrder
  BY DEF CallInv
<1>1. made \in Nat /\ parts \in [1..made -> 0..2]
  BY <1>0 DEF CallTypes
<1>2. current # <<>> /\ current' = <<>> /\ data' = data \o current /\ UNCHANGED <<mode, watched, made, parts>>
  BY DEF Stop
<1>3. PICK l \in Nat : l = Len(data) /\ data \in Seq(Called)
  BY <1>0 DEF CallTypes
<1>4. PICK i \in 1..made : mode = "stream" /\ i = l + 1 /\ parts[i] # 0
                           /\ current = <<[id |-> i, args |-> Got(i, parts[i])]>>
  BY <1>0, <1>2, <1>3 DEF CurrentOK
<1>5. i \in Nat /\ parts[i] \in Nat
  BY <1>1
<1>6. PICK e \in Called : e = [id |-> i, args |-> Got(i, parts[i])]
  <2>1. [id |-> i, args |-> Got(i, parts[i])] \in Called
    BY <1>5, EntryIs
  <2> QED
    BY <2>1
<1>7. data' \in Seq(Called) /\ Len(data') = l + 1 /\ \A k \in 1..(l + 1) : data'[k] = IF k = l + 1 THEN e ELSE data[k]
  <2>1. data' = Append(data, e)
    BY <1>2, <1>3, <1>4, <1>6, AppendIsConcat
  <2> QED
    BY <1>3, <2>1
<1>8. CallTypes'
  BY <1>0, <1>2, <1>7 DEF CallTypes
<1>9. \A k \in 1..(l + 1) : k \in 1..l \/ k = i
  BY <1>4
<1>10. DataOK'
  <2>1. \A k \in 1..(l + 1) : data'[k].id \in {0, k} /\ data'[k].args = Got(k, parts[k])
    <3> TAKE k \in 1..(l + 1)
    <3>1. CASE k = i
      BY <1>4, <1>6, <1>7, <3>1
    <3>2. CASE k \in 1..l /\ k # i
      BY <1>0, <1>3, <1>4, <1>7, <3>2 DEF DataOK
    <3> QED
      BY <1>9, <3>1, <3>2
  <2> QED
    BY <1>2, <1>4, <1>7, <2>1 DEF DataOK
<1>11. CurrentOK'
  BY <1>2 DEF CurrentOK
<1>12. Reached'
  BY <1>0, <1>2, <1>3, <1>4, <1>7 DEF Reached
<1>13. InOrder'
  BY <1>0, <1>2, <1>3, <1>4, <1>7, <1>9 DEF InOrder
<1> QED
  BY <1>8, <1>10, <1>11, <1>12, <1>13 DEF CallInv

LEMMA FallBackCalls ==
    ASSUME CallInv, FallBack
    PROVE  CallInv'
<1>0. CallTypes /\ DataOK /\ CurrentOK /\ Reached /\ InOrder
  BY DEF CallInv
<1>1. mode = "message" /\ mode' = "stream" /\ UNCHANGED <<watched, made, parts, data, current>>
  BY DEF FallBack
<1>2. current = <<>>
  BY <1>0, <1>1 DEF CurrentOK
<1> QED
  BY <1>0, <1>1, <1>2 DEF CallInv, CallTypes, DataOK, CurrentOK, Reached, InOrder

LEMMA CallsKeep ==
    ASSUME CallInv, [StreamNext]_streamVars
    PROVE  CallInv'
<1>1. ASSUME UNCHANGED <<mode, watched, made, parts, data, current>> PROVE CallInv'
  BY <1>1 DEF CallInv, CallTypes, DataOK, CurrentOK, Reached, InOrder
<1>2. ASSUME NEW n \in 1..Len(left), Text(n) PROVE CallInv'
  BY <1>1, <1>2 DEF Text
<1>3. ASSUME NEW i \in 1..made, Delta(i) \/ Block(i) \/ Start(i) PROVE CallInv'
  BY <1>3, DeltaCalls, BlockCalls, StartCalls
<1>4. CASE More \/ Stop \/ FallBack
  BY <1>4, MoreCalls, StopCalls, FallBackCalls
<1>5. CASE Return
  BY <1>1, <1>5 DEF Return
<1>6. CASE UNCHANGED streamVars
  BY <1>1, <1>6 DEF streamVars
<1> QED
  BY <1>2, <1>3, <1>4, <1>5, <1>6 DEF StreamNext

(* How the calls of a response are assembled, in every behaviour.          *)
THEOREM CallInvHolds ==
    ASSUME ContentsAssumption
    PROVE  StreamSpec => []CallInv
<1>1. StreamInit => CallInv
  BY NothingCalled
<1>2. CallInv /\ [StreamNext]_streamVars => CallInv'
  BY CallsKeep
<1> QED
  BY <1>1, <1>2, PTL DEF StreamSpec

LEMMA NativeIs ==
    ASSUME CallInv
    PROVE  /\ Len(NativeCalls) = Len(data) /\ DOMAIN NativeCalls = 1..Len(data)
           /\ \A k \in 1..Len(data) :
                /\ IdAt(k) \in {<<>>, given[k]}
                /\ NativeCalls[k].id = IF IdAt(k) = <<>> THEN <<"call", k>> ELSE IdAt(k)
                /\ (NativeCalls[k].args = "whole") <=> (parts[k] = 2)
<1>0. CallTypes /\ DataOK
  BY DEF CallInv
<1>1. PICK l \in Nat : l = Len(data) /\ DOMAIN data = 1..l /\ l <= made
  BY <1>0 DEF CallTypes, DataOK
<1>2. PICK f : f = [k \in 1..l |->
                      [id |-> IF IdAt(k) = <<>> THEN <<"call", k>> ELSE IdAt(k), args |-> Parsed(data[k].args, k)]]
  OBVIOUS
<1>3. PICK w : w = NativeCalls /\ DOMAIN w = 1..l /\ Len(w) = l
               /\ \A k \in 1..l : /\ w[k].id = IF IdAt(k) = <<>> THEN <<"call", k>> ELSE IdAt(k)
                                 /\ w[k].args = Parsed(data[k].args, k)
  <2>1. f = NativeCalls
    BY <1>1, <1>2 DEF NativeCalls
  <2>2. DOMAIN f = 1..l /\ Len(f) = l
    BY <1>1, <1>2
  <2>3. \A k \in 1..l : /\ f[k].id = IF IdAt(k) = <<>> THEN <<"call", k>> ELSE IdAt(k)
                        /\ f[k].args = Parsed(data[k].args, k)
    BY <1>2
  <2> QED
    BY <2>1, <2>2, <2>3
<1>4. ASSUME NEW k \in 1..l PROVE IdAt(k) \in {<<>>, given[k]}
  <2>1. data[k].id \in {0, k}
    BY <1>0, <1>1 DEF DataOK
  <2> QED
    BY <2>1 DEF IdAt
<1>5. ASSUME NEW k \in 1..l PROVE (w[k].args = "whole") <=> (parts[k] = 2)
  <2>1. data[k].args = Got(k, parts[k])
    BY <1>0, <1>1 DEF DataOK
  <2>2. k \in 1..made /\ k \in Nat
    BY <1>0, <1>1 DEF CallTypes
  <2>3. PICK n \in Nat : n = parts[k]
    BY <1>0, <2>2 DEF CallTypes
  <2>4. (Got(k, n) = Got(k, 2)) <=> (n = 2)
    <3>1. Len(Got(k, n)) = n
      BY <2>2, GotIs
    <3>2. PICK m \in Nat : m = 2
      OBVIOUS
    <3>3. Len(Got(k, m)) = m
      BY <2>2, GotIs
    <3> QED
      BY <3>1, <3>2, <3>3
  <2>5. w[k].args = IF Got(k, n) = Got(k, 2) THEN "whole" ELSE "none"
    <3>1. w[k].args = Parsed(data[k].args, k)
      BY <1>3
    <3>2. w[k].args = Parsed(Got(k, n), k)
      BY <2>1, <2>3, <3>1
    <3>3. Got(k, 2) = [j \in 1..2 |-> <<k, j>>]
      BY DEF Got
    <3> QED
      BY <3>2, <3>3 DEF Parsed
  <2> QED
    BY <2>3, <2>4, <2>5
<1> QED
  BY <1>1, <1>3, <1>4, <1>5

(* The ids that the server gives its calls differ.                         *)
GivenInv ==
    /\ \A k \in 1..made : given[k] = <<>> \/ given[k] \in ServerIds
    /\ \A i, k \in 1..made : i # k /\ given[i] = given[k] => given[i] = <<>>

LEMMA GivenHolds ==
    ASSUME ContentsAssumption
    PROVE  StreamSpec => []GivenInv
<1>1. StreamInit => GivenInv
  <2> SUFFICES ASSUME StreamInit PROVE GivenInv
    OBVIOUS
  <2>1. PICK S : S \subseteq ServerIds \cup {<<>>} /\ given \in [1..made -> S]
    <3>1. given \in [1..made -> IF mode = "openai" THEN ServerIds \cup {<<>>} ELSE ServerIds]
      BY DEF StreamInit
    <3> QED
      BY <3>1
  <2> QED
    BY <2>1 DEF StreamInit, GivenInv
<1>2. GivenInv /\ [StreamNext]_streamVars => GivenInv'
  <2> SUFFICES ASSUME GivenInv, [StreamNext]_streamVars PROVE GivenInv'
    OBVIOUS
  <2>1. UNCHANGED <<made, given>>
    BY DEF StreamNext, streamVars, Text, Delta, Block, Start, More, Stop, FallBack, Return
  <2> QED
    BY <2>1 DEF GivenInv
<1> QED
  BY <1>1, <1>2, PTL DEF StreamSpec

(* No two calls of a response share an id, whoever gave it, but where the  *)
(* server gave one the id that another gets for want of one.               *)
LEMMA IdsDiffer ==
    ASSUME ContentsAssumption, CallInv, GivenInv, text \in Words
    PROVE  \A j, k \in DOMAIN ToolCalls :
               j # k /\ ToolCalls[j].id = ToolCalls[k].id => Clash(j, k) \/ Clash(k, j)
<1>1. PICK l \in Nat : l = Len(data) /\ DOMAIN data = 1..l /\ l <= made /\ made \in Nat
  BY DEF CallInv, CallTypes, DataOK
<1>2. PICK w : w = NativeCalls /\ Len(w) = l /\ DOMAIN w = 1..l
               /\ \A k \in 1..l : /\ w[k].id = IF IdAt(k) = <<>> THEN <<"call", k>> ELSE IdAt(k)
                                 /\ IdAt(k) \in {<<>>, given[k]}
  BY <1>1, NativeIs
<1>3. PICK x \in Seq(TextCall), t \in Nat : x = TextCalls(text) /\ t = Len(Blocks(text)) /\ Told(x, t)
  <2>1. Blocks(text) \in Seq(RightBlocks(text))
    BY BlocksRight
  <2>2. Len(Blocks(text)) \in Nat
    BY <2>1
  <2> QED
    BY <2>2, TextCallsTold
<1>4. PICK m \in Nat : m = Len(x)
  OBVIOUS
<1>5. PICK v : v = ToolCalls /\ DOMAIN v = 1..(l + m)
               /\ \A j \in 1..(l + m) : v[j] = IF j <= l THEN w[j] ELSE x[j - l]
  <2>1. PICK S : S = {w[k] : k \in 1..l} \cup TextCall
    OBVIOUS
  <2>2. w = [k \in 1..l |-> w[k]]
    BY <1>2 DEF NativeCalls
  <2>3. w \in Seq(S)
    BY <2>1, <2>2
  <2>4. x \in Seq(S)
    BY <1>3, <2>1, SeqMonotonic
  <2>5. /\ Len(w \o x) = l + m /\ w \o x \in Seq(S)
        /\ \A j \in 1..(l + m) : (w \o x)[j] = IF j <= l THEN w[j] ELSE x[j - l]
    BY <1>2, <1>4, <2>3, <2>4, ConcatProperties
  <2>6. DOMAIN (w \o x) = 1..(l + m)
    BY <2>5
  <2> QED
    BY <1>2, <1>3, <2>5, <2>6 DEF ToolCalls
<1>6. \A j \in 1..l : v[j].id = IF IdAt(j) = <<>> THEN <<"call", j>> ELSE IdAt(j)
  <2> TAKE j \in 1..l
  <2>1. j \in 1..(l + m) /\ j <= l
    BY <1>1
  <2>2. v[j] = w[j]
    BY <1>5, <2>1
  <2>3. w[j].id = IF IdAt(j) = <<>> THEN <<"call", j>> ELSE IdAt(j)
    BY <1>2
  <2> QED
    BY <2>2, <2>3
<1>7. \A j \in 1..(l + m) : j \notin 1..l => j - l \in 1..m /\ v[j] = x[j - l]
  BY <1>5
<1>8. \A j \in 1..m : \E b, k \in Nat : x[j].id = <<"text-tool", b, k>>
  <2>1. \A j \in 1..Len(x) : \E b \in 1..t, k \in Nat : x[j].id = <<"text-tool", b, k>>
    BY <1>3 DEF Told
  <2>2. \A b \in 1..t : b \in Nat
    BY <1>3
  <2> QED
    BY <1>4, <2>1, <2>2
<1>9. ASSUME NEW j \in 1..(l + m), j \notin 1..l PROVE \E b, k \in Nat : v[j].id = <<"text-tool", b, k>>
  <2>1. PICK a \in 1..m : a = j - l
    BY <1>7, <1>9
  <2>2. v[j] = x[a]
    BY <1>7, <1>9, <2>1
  <2> QED
    BY <1>8, <2>2
<1>10. ASSUME NEW j \in 1..l, NEW k \in 1..l, v[j].id = v[k].id, j # k PROVE Clash(j, k) \/ Clash(k, j)
  <2>1. {j, k} \subseteq DOMAIN data /\ j \in 1..made /\ k \in 1..made
    BY <1>1
  <2>2. CASE IdAt(j) = <<>> /\ IdAt(k) = <<>>
    <3>1. <<"call", j>> = <<"call", k>>
      BY <1>6, <1>10, <2>2
    <3> QED
      BY <1>10, <3>1
  <2>3. CASE IdAt(j) # <<>> /\ IdAt(k) # <<>>
    <3>1. IdAt(j) = given[j] /\ IdAt(k) = given[k]
      BY <1>2, <2>3
    <3>2. given[j] = given[k]
      BY <1>6, <1>10, <2>3, <3>1
    <3> QED
      BY <1>10, <2>1, <2>3, <3>1, <3>2 DEF GivenInv
  <2>4. CASE IdAt(j) = <<>> /\ IdAt(k) # <<>>
    BY <1>6, <1>10, <2>1, <2>4 DEF Clash
  <2>5. CASE IdAt(j) # <<>> /\ IdAt(k) = <<>>
    BY <1>6, <1>10, <2>1, <2>5 DEF Clash
  <2> QED
    BY <2>2, <2>3, <2>4, <2>5
<1>11. ASSUME NEW j \in 1..l, NEW k \in 1..(l + m), k \notin 1..l, v[j].id = v[k].id PROVE FALSE
  <2>1. v[j].id[1] # "text-tool"
    <3>1. CASE IdAt(j) = <<>>
      <4>1. v[j].id = <<"call", j>>
        BY <1>6, <3>1
      <4>2. <<"call", j>>[1] = "call"
        OBVIOUS
      <4> QED
        BY <4>1, <4>2
    <3>2. CASE IdAt(j) # <<>>
      <4>1. j \in 1..made /\ IdAt(j) = given[j]
        <5>1. IdAt(j) \in {<<>>, given[j]}
          BY <1>2
        <5>2. j \in 1..made
          BY <1>1
        <5> QED
          BY <3>2, <5>1, <5>2
      <4>2. given[j] \in ServerIds
        BY <3>2, <4>1 DEF GivenInv
      <4> QED
        BY <1>6, <3>2, <4>1, <4>2 DEF ContentsAssumption
    <3> QED
      BY <3>1, <3>2
  <2>2. v[k].id[1] = "text-tool"
    BY <1>9, <1>11
  <2> QED
    BY <1>11, <2>1, <2>2
<1>12. ASSUME NEW j \in 1..(l + m), NEW k \in 1..(l + m), j \notin 1..l, k \notin 1..l, v[j].id = v[k].id PROVE j = k
  <2>1. PICK a \in 1..m, b \in 1..m : a = j - l /\ b = k - l /\ v[j] = x[a] /\ v[k] = x[b]
    BY <1>7, <1>12
  <2>2. \A i, g \in 1..m : i # g => x[i].id # x[g].id
    BY <1>3, <1>4 DEF Told
  <2>3. x[a].id = x[b].id
    BY <1>12, <2>1
  <2>4. a = b
    BY <2>2, <2>3
  <2> QED
    BY <2>1, <2>4
<1>13. ASSUME NEW j \in 1..(l + m), NEW k \in 1..(l + m), v[j].id = v[k].id, j # k
       PROVE  Clash(j, k) \/ Clash(k, j)
  BY <1>10, <1>11, <1>12, <1>13
<1> QED
  BY <1>5, <1>13

(* The assembly of tool_calls_data: however the parts of the calls come,   *)
(* and wherever the response is cut, each call is returned once, in order, *)
(* with its own arguments, and under an id of its own, unless the server   *)
(* gave that one to another call.                                          *)
THEOREM CallsAsMadeHolds ==
    ASSUME ContentsAssumption
    PROVE  StreamSpec => []CallsAsMade
<1>1. CallInv /\ GivenInv /\ ShownInv => CallsAsMade
  <2> SUFFICES ASSUME CallInv, GivenInv, ShownInv, ended PROVE CallsAsMade
    BY DEF CallsAsMade
  <2>1. Len(NativeCalls) <= made
    BY NativeIs DEF CallInv, DataOK
  <2>2. \A k \in DOMAIN NativeCalls :
           /\ NativeCalls[k].id \in {<<"call", k>>, given[k]}
           /\ (NativeCalls[k].args = "whole") <=> (parts[k] = 2)
    BY NativeIs
  <2>3. current = <<>> => \A i \in 1..made : parts[i] > 0 => i \in DOMAIN NativeCalls
    <3>1. DOMAIN NativeCalls = 1..Len(data)
      BY NativeIs
    <3>2. Len(data) \in Nat /\ made \in Nat /\ parts \in [1..made -> 0..2]
      BY DEF CallInv, CallTypes
    <3> QED
      BY <3>1, <3>2 DEF CallInv, Reached
  <2>4. text \in Words
    BY DEF ShownInv, WordsOK
  <2>5. \A j, k \in DOMAIN ToolCalls :
           j # k /\ ToolCalls[j].id = ToolCalls[k].id => Clash(j, k) \/ Clash(k, j)
    BY <2>4, IdsDiffer
  <2> QED
    BY <2>1, <2>2, <2>3, <2>5 DEF CallsAsMade
<1> QED
  BY <1>1, CallInvHolds, GivenHolds, ShownInvHolds, PTL
=============================================================================
