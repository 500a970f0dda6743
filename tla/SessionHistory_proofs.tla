----------------------- MODULE SessionHistory_proofs -----------------------
(***************************************************************************)
(* Proofs about SessionHistory, for any shapes of response and any bounds. *)
(***************************************************************************)
EXTENDS MessageFormat, ListTheorems
-----------------------------------------------------------------------------
LEMMA MessageTypes ==
    /\ \A t \in Nat : User(t) \in Message
    /\ Notice \in Message /\ Answer \in Message
    /\ \A calls \in Seq(ToolCalls), text \in BOOLEAN : Response(calls, text) \in Message
    /\ \A call \in ToolCalls, size \in Sizes : Result(call, size) \in Message
    /\ \A q \in Seq(Entries), f \in Seq(Facts), b \in BOOLEAN : Summary(q, f, b) \in Message
<1>1. <<>> \in Seq(ToolCalls)
  OBVIOUS
<1> QED
  BY <1>1 DEF Message, User, Notice, Answer, Response, Result, Summary

(* Records of one kind have the fields of that kind. *)
LEMMA KindFields ==
    ASSUME NEW m \in Message
    PROVE  /\ m.kind = "ai" => m \in [kind : {"ai"}, calls : Seq(ToolCalls), text : BOOLEAN]
           /\ m.kind = "tool" => m \in [kind : {"tool"}, call : ToolCalls, size : Sizes]
           /\ m.kind = "summary" =>
                m \in [kind : {"summary"}, requests : Seq(Entries), facts : Seq(Facts), merged : BOOLEAN]
           /\ m.kind = "user" => m \in [kind : {"user"}, turn : Nat]
BY DEF Message

LEMMA TranscriptTypes == Transcripts \subseteq Seq(Message)
<1>1. ASSUME NEW r \in Rounds PROVE RoundMessages(r) \in Seq(Message)
  <2>1. r.calls \in Seq(ToolCalls) /\ r.text \in BOOLEAN /\ r.size \in Sizes
    BY HistoryAssumption
  <2>2. Response(r.calls, r.text) \in Message
    BY <2>1, MessageTypes
  <2>3. [i \in DOMAIN r.calls |-> Result(r.calls[i], IF r.calls[i] = "todo" THEN "small" ELSE r.size)]
           \in Seq(Message)
    <3>1. \A i \in DOMAIN r.calls : r.calls[i] \in ToolCalls
      BY <2>1
    <3>2. \A i \in DOMAIN r.calls :
             Result(r.calls[i], IF r.calls[i] = "todo" THEN "small" ELSE r.size) \in Message
      BY <2>1, <3>1, MessageTypes DEF Sizes
    <3>3. DOMAIN r.calls = 1..Len(r.calls) /\ Len(r.calls) \in Nat
      BY <2>1
    <3> QED
      BY <3>2, <3>3
  <2>4. (IF r.notice THEN <<Notice>> ELSE <<>>) \in Seq(Message)
    BY MessageTypes
  <2> QED
    BY <2>2, <2>3, <2>4 DEF RoundMessages
<1>2. SUFFICES ASSUME NEW n \in 0..MaxRounds, NEW rs \in [1..n -> Rounds]
               PROVE  Append(FlattenSeq([i \in DOMAIN rs |-> RoundMessages(rs[i])]), Answer) \in Seq(Message)
  BY DEF Transcripts
<1>3. n \in Nat
  BY HistoryAssumption
<1>4. [i \in DOMAIN rs |-> RoundMessages(rs[i])] \in Seq(Seq(Message))
  BY <1>1, <1>3
<1>5. FlattenSeq([i \in DOMAIN rs |-> RoundMessages(rs[i])]) \in Seq(Message)
  BY <1>4, FlattenType
<1>6. Answer \in Message
  BY MessageTypes
<1>7. \A t \in Seq(Message) : Append(t, Answer) \in Seq(Message)
  BY <1>6
<1> QED
  BY <1>5, <1>7
-----------------------------------------------------------------------------
(* Cutting old tool outputs changes nothing but them. *)
LEMMA TrimKeeps ==
    ASSUME NEW s \in Seq(Message), NEW chosen, \A i \in chosen \cap DOMAIN s : s[i].kind = "tool"
    PROVE  /\ TrimSizes(s, chosen) \in Seq(Message)
           /\ Len(TrimSizes(s, chosen)) = Len(s)
           /\ \A i \in 1..Len(s) : i \notin chosen => TrimSizes(s, chosen)[i] = s[i]
           /\ \A i \in 1..Len(s) : i \in chosen =>
                 TrimSizes(s, chosen)[i] = [s[i] EXCEPT !.size = "cut"]
<1>1. DOMAIN s = 1..Len(s) /\ Len(s) \in Nat
  OBVIOUS
<1>2. ASSUME NEW i \in DOMAIN s
      PROVE  (IF i \in chosen THEN [s[i] EXCEPT !.size = "cut"] ELSE s[i]) \in Message
  <2>1. s[i] \in Message
    OBVIOUS
  <2>2. CASE i \in chosen
    <3>1. s[i] \in [kind : {"tool"}, call : ToolCalls, size : Sizes]
      BY <2>1, <2>2, KindFields
    <3>2. [s[i] EXCEPT !.size = "cut"] \in [kind : {"tool"}, call : ToolCalls, size : Sizes]
      BY <3>1 DEF Sizes
    <3> QED
      BY <2>2, <3>2 DEF Message
  <2> QED
    BY <2>1, <2>2
<1>3. TrimSizes(s, chosen) = [i \in 1..Len(s) |-> IF i \in chosen THEN [s[i] EXCEPT !.size = "cut"] ELSE s[i]]
  BY <1>1 DEF TrimSizes
<1>4. TrimSizes(s, chosen) \in Seq(Message)
  BY <1>1, <1>2, <1>3
<1>5. Len(TrimSizes(s, chosen)) = Len(s)
  BY <1>1, <1>3, <1>4
<1> QED
  BY <1>3, <1>4, <1>5

LEMMA CutoffRange == ASSUME NEW s \in Seq(Message) PROVE Cutoff(s) \in 0..Len(s)
BY HistoryAssumption DEF Cutoff

LEMMA OldResultsAre ==
    ASSUME NEW s \in Seq(Message), NEW sizes
    PROVE  /\ OldResults(s, sizes) \subseteq 1..Cutoff(s)
           /\ OldResults(s, sizes) \subseteq DOMAIN s
           /\ \A i \in OldResults(s, sizes) : s[i].kind = "tool" /\ s[i].size \in sizes
<1>1. Cutoff(s) \in 0..Len(s) /\ DOMAIN s = 1..Len(s) /\ Len(s) \in Nat
  BY CutoffRange
<1> QED
  BY <1>1 DEF OldResults

LEMMA MergeEndRange ==
    ASSUME NEW s \in Seq(Message)
    PROVE  /\ MergeEnd(s) \in 0..Len(s) /\ MergeEnd(s) <= Cutoff(s)
           /\ MergeEnd(s) > 0 => IsSummary(s[MergeEnd(s)])
<1>1. Cutoff(s) \in 0..Len(s) /\ DOMAIN s = 1..Len(s) /\ Len(s) \in Nat
  BY CutoffRange
<1>2. LatestHuman(s) \in 0..Len(s)
  <2> DEFINE S == {0} \cup {i \in DOMAIN s : IsHuman(s[i])}
  <2>1. S \in SUBSET (0..Len(s)) /\ S # {}
    BY <1>1
  <2>2. LatestHuman(s) = Max(S)
    BY DEF LatestHuman
  <2> HIDE DEF S
  <2> QED
    BY <1>1, <2>1, <2>2, GreatestElement
<1>3. MergeLimit(s) \in 0..Len(s) /\ MergeLimit(s) <= Cutoff(s)
  <2>1. CASE LatestHuman(s) = 0
    BY <1>1, <2>1 DEF MergeLimit
  <2>2. CASE LatestHuman(s) # 0
    <3> DEFINE a == Cutoff(s)
               b == LatestHuman(s) - 1
    <3>1. a \in Nat /\ b \in Nat
      BY <1>1, <1>2, <2>2
    <3> HIDE DEF a, b
    <3>2. \E x \in {a, b} : \A y \in {a, b} : x <= y
      BY <3>1
    <3>3. Min({a, b}) \in {a, b} /\ \A y \in {a, b} : Min({a, b}) <= y
      BY <3>2 DEF Min
    <3>4. MergeLimit(s) = Min({a, b})
      BY <2>2 DEF MergeLimit, a, b
    <3>5. MergeLimit(s) \in Nat /\ MergeLimit(s) <= a
      BY <3>1, <3>3, <3>4
    <3> QED
      BY <1>1, <3>5 DEF a
  <2> QED
    BY <2>1, <2>2
<1>4. CASE MergeEnd(s) = 0
  BY <1>1, <1>4
<1>5. CASE MergeEnd(s) # 0
  <2> DEFINE found == {i \in 1..MergeLimit(s) : IsSummary(s[i])}
  <2>1. found # {} /\ MergeEnd(s) = Max(found)
    BY <1>5 DEF MergeEnd
  <2>2. found \in SUBSET (0..MergeLimit(s))
    BY <1>3
  <2>3. MergeEnd(s) \in found
    <3>1. MergeLimit(s) \in Nat
      BY <1>1, <1>3
    <3> HIDE DEF found
    <3>2. Max(found) \in found
      BY <2>1, <2>2, <3>1, GreatestElement
    <3> QED
      BY <2>1, <3>2
  <2> QED
    BY <1>1, <1>3, <2>3
<1> QED
  BY <1>4, <1>5

(* Where two lists are put together.                                       *)
LEMMA Joined ==
    ASSUME NEW T, NEW s \in Seq(T), NEW b \in Seq(T)
    PROVE  /\ s \o b \in Seq(T) /\ Len(s) \in Nat /\ Len(b) \in Nat
           /\ Len(s \o b) = Len(s) + Len(b) /\ DOMAIN (s \o b) = 1..(Len(s) + Len(b))
           /\ \A i \in 1..Len(s) : (s \o b)[i] = s[i]
           /\ \A j \in 1..Len(b) : (s \o b)[Len(s) + j] = b[j]
           /\ \A i \in 1..(Len(s) + Len(b)) : i \in 1..Len(s) \/ \E j \in 1..Len(b) : i = Len(s) + j
<1>1. s \o b \in Seq(T) /\ Len(s \o b) = Len(s) + Len(b)
      /\ \A i \in 1..Len(s) + Len(b) : (s \o b)[i] = IF i <= Len(s) THEN s[i] ELSE b[i - Len(s)]
  BY ConcatProperties
<1>2. Len(s) \in Nat /\ Len(b) \in Nat
  OBVIOUS
<1>3. DOMAIN (s \o b) = 1..(Len(s) + Len(b))
  BY <1>1, LenProperties
<1>4. ASSUME NEW i \in 1..Len(s) PROVE (s \o b)[i] = s[i]
  <2>1. i \in 1..Len(s) + Len(b) /\ i <= Len(s)
    BY <1>2
  <2> QED
    BY <1>1, <2>1
<1>5. ASSUME NEW j \in 1..Len(b) PROVE (s \o b)[Len(s) + j] = b[j]
  <2>1. Len(s) + j \in 1..Len(s) + Len(b) /\ ~(Len(s) + j <= Len(s)) /\ (Len(s) + j) - Len(s) = j
    BY <1>2
  <2> QED
    BY <1>1, <2>1
<1>6. ASSUME NEW i \in 1..(Len(s) + Len(b)), i \notin 1..Len(s)
      PROVE  \E j \in 1..Len(b) : i = Len(s) + j
  <2>1. i - Len(s) \in 1..Len(b) /\ i = Len(s) + (i - Len(s))
    BY <1>2, <1>6
  <2> QED
    BY <2>1
<1> QED
  BY <1>1, <1>2, <1>3, <1>4, <1>5, <1>6

(* A list can be taken apart where it was put together.                    *)
Halves(t, n, m, t1, t2) ==
    /\ t = t1 \o t2 /\ Len(t1) = n /\ Len(t2) = m
    /\ \A i \in 1..n : t1[i] = t[i]
    /\ \A j \in 1..m : t2[j] = t[n + j]

LEMMA Divided ==
    ASSUME NEW T, NEW t \in Seq(T), NEW n \in Nat, NEW m \in Nat, Len(t) = n + m
    PROVE  \E t1, t2 \in Seq(T) : Halves(t, n, m, t1, t2)
<1> DEFINE t1 == SubSeq(t, 1, n)
           t2 == SubSeq(t, n + 1, n + m)
<1>1. t1 \in Seq(T) /\ Len(t1) = n /\ \A i \in 1..n : t1[i] = t[i]
  OBVIOUS
<1>2. t2 \in Seq(T) /\ Len(t2) = m /\ \A j \in 1..m : t2[j] = t[n + j]
  OBVIOUS
<1>3. t = t1 \o t2
  <2>1. 1 \in 1..Len(t) + 1 /\ n \in (1 - 1)..Len(t) /\ n + m \in n..Len(t)
    OBVIOUS
  <2>2. SubSeq(t, 1, n) \o SubSeq(t, n + 1, n + m) = SubSeq(t, 1, n + m)
    BY <2>1, ConcatAdjacentSubSeq
  <2>3. SubSeq(t, 1, Len(t)) = t
    BY SubSeqFull
  <2> QED
    BY <2>2, <2>3
<1> HIDE DEF t1, t2
<1>4. Halves(t, n, m, t1, t2)
  BY <1>1, <1>2, <1>3 DEF Halves
<1> QED
  BY <1>1, <1>2, <1>4

(* What Only flattens.                                                     *)
LEMMA OnlyType ==
    ASSUME NEW T, NEW s \in Seq(T), NEW passes
    PROVE  FlattenSeq([i \in DOMAIN s |-> IF i \in passes THEN <<s[i]>> ELSE <<>>]) \in Seq(T)
<1>1. DOMAIN s = 1..Len(s) /\ Len(s) \in Nat /\ \A i \in DOMAIN s : s[i] \in T
  OBVIOUS
<1>2. \A x \in T : <<x>> \in Seq(T)
  OBVIOUS
<1>3. <<>> \in Seq(T)
  OBVIOUS
<1>4. \A i \in 1..Len(s) : (IF i \in passes THEN <<s[i]>> ELSE <<>>) \in Seq(T)
  BY <1>1, <1>2, <1>3
<1>5. [i \in DOMAIN s |-> IF i \in passes THEN <<s[i]>> ELSE <<>>] \in Seq(Seq(T))
  BY <1>1, <1>4
<1> QED
  BY <1>5, FlattenType

(* What a list holds, and what lists made of it hold.                      *)
Holds(s, v) == \E k \in 1..Len(s) : s[k] = v

LEMMA HoldsJoined ==
    ASSUME NEW T, NEW s \in Seq(T), NEW b \in Seq(T), NEW v
    PROVE  Holds(s \o b, v) <=> Holds(s, v) \/ Holds(b, v)
<1>1. PICK r \in Seq(T), n \in Nat, m \in Nat : r = s \o b /\ n = Len(s) /\ m = Len(b)
  BY Joined
<1>2. /\ Len(r) = n + m
      /\ \A i \in 1..n : r[i] = s[i]
      /\ \A j \in 1..m : r[n + j] = b[j]
      /\ \A i \in 1..(n + m) : i \in 1..n \/ \E j \in 1..m : i = n + j
  <2>1. /\ Len(s \o b) = Len(s) + Len(b)
        /\ \A i \in 1..Len(s) : (s \o b)[i] = s[i]
        /\ \A j \in 1..Len(b) : (s \o b)[Len(s) + j] = b[j]
        /\ \A i \in 1..(Len(s) + Len(b)) : i \in 1..Len(s) \/ \E j \in 1..Len(b) : i = Len(s) + j
    BY Joined
  <2> QED
    BY <1>1, <2>1, Zenon
<1>3. ASSUME NEW i \in 1..(n + m), r[i] = v PROVE Holds(s, v) \/ Holds(b, v)
  <2>1. CASE i \in 1..n
    BY <1>1, <1>2, <1>3, <2>1 DEF Holds
  <2>2. CASE i \notin 1..n
    <3>1. PICK j \in 1..m : i = n + j
      BY <1>2, <2>2
    <3> QED
      BY <1>1, <1>2, <1>3, <3>1 DEF Holds
  <2> QED
    BY <2>1, <2>2
<1>4. ASSUME NEW i \in 1..n, s[i] = v PROVE Holds(r, v)
  <2>1. i \in 1..(n + m) /\ r[i] = v
    BY <1>2, <1>4
  <2> QED
    BY <1>2, <2>1 DEF Holds
<1>5. ASSUME NEW j \in 1..m, b[j] = v PROVE Holds(r, v)
  <2>1. PICK i \in 1..(n + m) : i = n + j
    OBVIOUS
  <2>2. r[i] = v
    BY <1>2, <1>5, <2>1
  <2> QED
    BY <1>2, <2>2 DEF Holds
<1> QED
  BY <1>1, <1>2, <1>3, <1>4, <1>5 DEF Holds

LEMMA HoldsOne ==
    ASSUME NEW T, NEW e \in T
    PROVE  <<e>> \in Seq(T) /\ \A v : Holds(<<e>>, v) <=> v = e
<1>1. <<e>> \in Seq(T) /\ Len(<<e>>) = 1 /\ <<e>>[1] = e /\ 1..1 = {1}
  OBVIOUS
<1> QED
  BY <1>1 DEF Holds

(* FlattenSeq holds what its lists hold.                                   *)
LEMMA FlattenHolds ==
    ASSUME NEW T, NEW xx \in Seq(Seq(T)), NEW v
    PROVE  Holds(FlattenSeq(xx), v) <=> \E k \in 1..Len(xx) : Holds(xx[k], v)
<1> DEFINE C == {ss \in Seq(Seq(T)) : Holds(FlattenSeq(ss), v) <=> \E k \in 1..Len(ss) : Holds(ss[k], v)}
<1>1. <<>> \in C
  <2>1. FlattenSeq(<<>>) = <<>> /\ <<>> \in Seq(Seq(T)) /\ Len(<<>>) = 0 /\ 1..0 = {}
    BY DEF FlattenSeq
  <2> QED
    BY <2>1 DEF Holds
<1>2. ASSUME NEW ss \in C, NEW e \in Seq(T) PROVE Append(ss, e) \in C
  <2>1. ss \in Seq(Seq(T)) /\ (Holds(FlattenSeq(ss), v) <=> \E k \in 1..Len(ss) : Holds(ss[k], v))
    OBVIOUS
  <2> HIDE DEF C
  <2>2. PICK tt \in Seq(Seq(T)), n \in Nat : tt = Append(ss, e) /\ n = Len(ss)
    <3>1. Append(ss, e) \in Seq(Seq(T)) /\ Len(ss) \in Nat
      BY <2>1, AppendProperties
    <3> QED
      BY <3>1
  <2>3. Len(tt) = n + 1 /\ tt[n + 1] = e /\ \A i \in 1..n : tt[i] = ss[i]
    BY <2>1, <2>2, AppendProperties
  <2>4. PICK f \in Seq(T) : f = FlattenSeq(ss)
    BY <2>1, FlattenType
  <2>5. FlattenSeq(tt) = f \o e
    BY <2>1, <2>2, <2>4, FlattenAppend
  <2>6. Holds(FlattenSeq(tt), v) <=> Holds(f, v) \/ Holds(e, v)
    BY <2>5, HoldsJoined
  <2>7. (\E k \in 1..(n + 1) : Holds(tt[k], v)) <=> (\E k \in 1..n : Holds(ss[k], v)) \/ Holds(e, v)
    <3>1. \A k \in 1..(n + 1) : k \in 1..n \/ k = n + 1
      OBVIOUS
    <3>2. n + 1 \in 1..(n + 1) /\ \A k \in 1..n : k \in 1..(n + 1)
      OBVIOUS
    <3> QED
      BY <2>3, <3>1, <3>2, Zenon
  <2>8. Holds(FlattenSeq(tt), v) <=> \E k \in 1..Len(tt) : Holds(tt[k], v)
    BY <2>1, <2>2, <2>3, <2>4, <2>6, <2>7
  <2> QED
    BY <2>2, <2>8 DEF C
<1>3. C \in SUBSET Seq(Seq(T))
  OBVIOUS
<1> HIDE DEF C
<1>4. C = Seq(Seq(T))
  BY <1>1, <1>2, <1>3, SeqInduction
<1> QED
  BY <1>4 DEF C

(* What _append_unique makes of one entry more.                            *)
LEMMA UniqueAppend ==
    ASSUME NEW T, NEW s \in Seq(T), NEW e \in T
    PROVE  /\ Unique(s) \in Seq(T)
           /\ Unique(Append(s, e)) = Unique(s) \o (IF Holds(s, e) THEN <<>> ELSE <<e>>)
<1>1. PICK r \in Seq(T), n \in Nat : r = Append(s, e) /\ n = Len(s)
  <2>1. Append(s, e) \in Seq(T) /\ Len(s) \in Nat
    BY AppendProperties
  <2> QED
    BY <2>1
<1>2. Len(r) = n + 1 /\ r[n + 1] = e /\ (\A i \in 1..n : r[i] = s[i])
      /\ DOMAIN r = 1..(n + 1) /\ DOMAIN s = 1..n
  BY <1>1, AppendProperties
<1> DEFINE part(x) == [i \in DOMAIN x |-> IF i \in Firsts(x) THEN <<x[i]>> ELSE <<>>]
<1>3. ASSUME NEW x \in Seq(T) PROVE part(x) \in Seq(Seq(T)) /\ Len(part(x)) = Len(x)
  <2>1. PICK m \in Nat : DOMAIN x = 1..m /\ Len(x) = m
    OBVIOUS
  <2>2. \A i \in 1..m : x[i] \in T
    BY <2>1
  <2>3. \A y \in T : <<y>> \in Seq(T)
    OBVIOUS
  <2>4. <<>> \in Seq(T)
    OBVIOUS
  <2>5. \A i \in 1..m : (IF i \in Firsts(x) THEN <<x[i]>> ELSE <<>>) \in Seq(T)
    BY <2>2, <2>3, <2>4
  <2> QED
    BY <2>1, <2>5
<1>4. \A x : Unique(x) = FlattenSeq(part(x))
  BY DEF Unique
<1>5. PICK a, b \in Seq(Seq(T)) : a = part(s) /\ b = part(r)
  BY <1>3
<1>6. \A i \in 1..n : i \in Firsts(r) <=> i \in Firsts(s)
  <2> SUFFICES ASSUME NEW i \in 1..n PROVE i \in Firsts(r) <=> i \in Firsts(s)
    OBVIOUS
  <2>1. i \in DOMAIN r /\ i \in DOMAIN s /\ r[i] = s[i] /\ \A j \in 1..(i - 1) : r[j] = s[j]
    BY <1>2
  <2> QED
    BY <2>1 DEF Firsts
<1>7. n + 1 \in Firsts(r) <=> ~Holds(s, e)
  <2>1. n + 1 \in DOMAIN r /\ (n + 1) - 1 = n
    BY <1>2
  <2> QED
    BY <1>1, <1>2, <2>1 DEF Firsts, Holds
<1>8. PICK l \in Seq(T) : l = IF Holds(s, e) THEN <<>> ELSE <<e>>
  <2>1. <<>> \in Seq(T) /\ <<e>> \in Seq(T)
    OBVIOUS
  <2>2. (IF Holds(s, e) THEN <<>> ELSE <<e>>) \in Seq(T)
    BY <2>1
  <2> QED
    BY <2>2
<1>9. \A i \in 1..n : b[i] = a[i]
  BY <1>2, <1>5, <1>6
<1>10. b[n + 1] = l
  BY <1>2, <1>5, <1>7, <1>8
<1>11. Len(a) = n /\ Len(b) = n + 1
  BY <1>1, <1>2, <1>3, <1>5
<1> HIDE DEF part
<1>12. PICK c \in Seq(Seq(T)) : c = Append(a, l)
  BY AppendProperties
<1>13. Len(c) = n + 1 /\ c[n + 1] = l /\ \A i \in 1..n : c[i] = a[i]
  BY <1>11, <1>12, AppendProperties
<1>14. b = c
  <2>1. \A i \in 1..(n + 1) : i \in 1..n \/ i = n + 1
    OBVIOUS
  <2>2. \A i \in 1..(n + 1) : b[i] = c[i]
    BY <1>9, <1>10, <1>13, <2>1
  <2> QED
    BY <1>11, <1>13, <2>2, SeqEqual
<1>15. FlattenSeq(c) = FlattenSeq(a) \o l /\ FlattenSeq(a) \in Seq(T)
  BY <1>12, FlattenAppend, FlattenType
<1> QED
  BY <1>1, <1>4, <1>5, <1>8, <1>14, <1>15

LEMMA UniqueHolds ==
    ASSUME NEW T, NEW s0 \in Seq(T), NEW v
    PROVE  Unique(s0) \in Seq(T) /\ (Holds(Unique(s0), v) <=> Holds(s0, v))
<1> DEFINE C == {s \in Seq(T) : Unique(s) \in Seq(T) /\ (Holds(Unique(s), v) <=> Holds(s, v))}
<1>1. <<>> \in C
  <2>1. Unique(<<>>) = <<>> /\ <<>> \in Seq(T)
    BY DEF Unique, FlattenSeq
  <2> QED
    BY <2>1
<1>2. ASSUME NEW s \in C, NEW e \in T PROVE Append(s, e) \in C
  <2>1. s \in Seq(T) /\ Unique(s) \in Seq(T) /\ (Holds(Unique(s), v) <=> Holds(s, v))
    OBVIOUS
  <2> HIDE DEF C
  <2>2. PICK u \in Seq(T) : u = Unique(s)
    BY <2>1
  <2>3. Append(s, e) \in Seq(T) /\ Append(s, e) = s \o <<e>> /\ <<e>> \in Seq(T)
    BY <2>1, AppendProperties, AppendIsConcat
  <2>4. Holds(<<e>>, v) <=> v = e
    BY HoldsOne
  <2>5. Holds(s \o <<e>>, v) <=> Holds(s, v) \/ v = e
    BY <2>1, <2>3, <2>4, HoldsJoined
  <2>6. CASE Holds(s, e)
    <3>1. Unique(Append(s, e)) = u
      BY <2>1, <2>2, <2>6, UniqueAppend, ConcatEmptySeq
    <3>2. v = e => Holds(s, v)
      BY <2>6
    <3> QED
      BY <2>1, <2>2, <2>3, <2>5, <3>1, <3>2 DEF C
  <2>7. CASE ~Holds(s, e)
    <3>1. Unique(Append(s, e)) = u \o <<e>>
      BY <2>1, <2>2, <2>7, UniqueAppend
    <3>2. u \o <<e>> \in Seq(T) /\ (Holds(u \o <<e>>, v) <=> Holds(u, v) \/ v = e)
      BY <2>3, <2>4, HoldsJoined, ConcatProperties
    <3> QED
      BY <2>1, <2>2, <2>3, <2>5, <3>1, <3>2 DEF C
  <2> QED
    BY <2>6, <2>7
<1>3. C \in SUBSET Seq(T)
  OBVIOUS
<1> HIDE DEF C
<1>4. C = Seq(T)
  BY <1>1, <1>2, <1>3, SeqInduction
<1> QED
  BY <1>4 DEF C

(* What is listed of a list is listed of every longer one, at its place.   *)
LEMMA UniqueBegins ==
    ASSUME NEW T, NEW s \in Seq(T), NEW t0 \in Seq(T)
    PROVE  /\ Len(Unique(s)) <= Len(Unique(s \o t0))
           /\ \A i \in 1..Len(Unique(s)) : Unique(s \o t0)[i] = Unique(s)[i]
<1>0. PICK u \in Seq(T), n \in Nat : u = Unique(s) /\ n = Len(u)
  BY UniqueHolds
<1> DEFINE C == {t \in Seq(T) : /\ n <= Len(Unique(s \o t))
                                /\ \A i \in 1..n : Unique(s \o t)[i] = u[i]}
<1>1. <<>> \in C
  <2>1. s \o <<>> = s /\ <<>> \in Seq(T)
    BY ConcatEmptySeq
  <2> QED
    BY <1>0, <2>1
<1>2. ASSUME NEW t \in C, NEW e \in T PROVE Append(t, e) \in C
  <2>1. t \in Seq(T) /\ n <= Len(Unique(s \o t)) /\ \A i \in 1..n : Unique(s \o t)[i] = u[i]
    OBVIOUS
  <2> HIDE DEF C
  <2>2. PICK r \in Seq(T) : r = s \o t
    BY <2>1, ConcatProperties
  <2>3. s \o Append(t, e) = Append(r, e) /\ Append(t, e) \in Seq(T)
    <3>0. PICK one \in Seq(T) : one = <<e>>
      BY HoldsOne
    <3>1. Append(t, e) = t \o one /\ Append(r, e) = r \o one
      BY <2>1, <3>0, AppendIsConcat
    <3>2. (s \o t) \o one = s \o (t \o one)
      BY <2>1, ConcatAssociative
    <3>3. Append(t, e) \in Seq(T)
      BY <2>1, AppendProperties
    <3> QED
      BY <2>2, <3>1, <3>2, <3>3
  <2>4. PICK w, l \in Seq(T) : w = Unique(r) /\ l = IF Holds(r, e) THEN <<>> ELSE <<e>>
    <3>1. <<>> \in Seq(T) /\ <<e>> \in Seq(T)
      OBVIOUS
    <3>2. (IF Holds(r, e) THEN <<>> ELSE <<e>>) \in Seq(T)
      BY <3>1
    <3> QED
      BY <3>2, UniqueHolds
  <2>5. Unique(Append(r, e)) = w \o l
    BY <2>4, UniqueAppend
  <2>6. Len(w \o l) = Len(w) + Len(l) /\ Len(w) \in Nat /\ Len(l) \in Nat
        /\ \A i \in 1..Len(w) : (w \o l)[i] = w[i]
    BY Joined
  <2>7. n <= Len(w) /\ \A i \in 1..n : w[i] = u[i]
    BY <2>1, <2>2, <2>4
  <2>8. n <= Len(w \o l) /\ \A i \in 1..n : (w \o l)[i] = u[i]
    BY <2>6, <2>7
  <2> QED
    BY <2>3, <2>5, <2>8 DEF C
<1>3. C \in SUBSET Seq(T)
  OBVIOUS
<1> HIDE DEF C
<1>4. C = Seq(T)
  BY <1>1, <1>2, <1>3, SeqInduction
<1> QED
  BY <1>0, <1>4 DEF C

(* A section of a merged summary: it lists entries of the list only, and   *)
(* an entry is left out only where it is full of entries no later than it. *)
LEMMA ListedIs ==
    ASSUME NEW T, NEW s \in Seq(T)
    PROVE  /\ Listed(s) \in Seq(T)
           /\ \A v : Holds(Listed(s), v) => Holds(s, v)
<1>1. PICK u \in Seq(T), n \in Nat : u = Unique(s) /\ n = Len(u)
  BY UniqueHolds
<1>2. PICK m \in 0..n : Listed(s) = SubSeq(u, 1, m)
  <2>1. PICK m \in Nat : m = Min({n, MaxMerged}) /\ m \in {n, MaxMerged} /\ m <= n /\ m <= MaxMerged
    BY HistoryAssumption, LeastIs
  <2>2. m \in 0..n
    BY <2>1
  <2> QED
    BY <1>1, <2>1, <2>2 DEF Listed
<1>3. SubSeq(u, 1, m) \in Seq(T) /\ Len(SubSeq(u, 1, m)) = m /\ \A i \in 1..m : SubSeq(u, 1, m)[i] = u[i]
  BY <1>1
<1>4. ASSUME NEW v, Holds(Listed(s), v) PROVE Holds(s, v)
  <2>1. PICK i \in 1..m : u[i] = v
    BY <1>2, <1>3, <1>4 DEF Holds
  <2>2. Holds(u, v)
    BY <1>1, <2>1 DEF Holds
  <2> QED
    BY <1>1, <2>2, UniqueHolds
<1> QED
  BY <1>2, <1>3, <1>4

LEMMA ListedFirst ==
    ASSUME NEW T, NEW s \in Seq(T), NEW t \in Seq(T), NEW x, Holds(s, x)
    PROVE  \/ Holds(Listed(s \o t), x)
           \/ Len(Listed(s \o t)) = MaxMerged /\ \A v : Holds(Listed(s \o t), v) => Holds(s, v)
<1>1. PICK r \in Seq(T) : r = s \o t
  BY ConcatProperties
<1>2. PICK u, w \in Seq(T), n \in Nat, k \in Nat : u = Unique(s) /\ w = Unique(r) /\ n = Len(w) /\ k = Len(u)
  <2>1. Unique(s) \in Seq(T) /\ Unique(r) \in Seq(T)
    BY UniqueHolds
  <2>2. Len(Unique(s)) \in Nat /\ Len(Unique(r)) \in Nat
    BY <2>1, LenProperties
  <2> QED
    BY <2>1, <2>2
<1>3. k <= n /\ \A i \in 1..k : w[i] = u[i]
  BY <1>1, <1>2, UniqueBegins
<1>4. PICK m \in Nat : m = Min({n, MaxMerged}) /\ m \in {n, MaxMerged} /\ m <= n /\ m <= MaxMerged
  BY HistoryAssumption, LeastIs
<1>5. PICK l \in Seq(T) : l = Listed(r) /\ Len(l) = m /\ \A i \in 1..m : l[i] = w[i]
  <2>1. Listed(r) = SubSeq(w, 1, m)
    BY <1>2, <1>4 DEF Listed
  <2>0. w \in Seq(T) /\ n = Len(w) /\ m \in 0..n
    BY <1>2, <1>4
  <2>2. SubSeq(w, 1, m) \in Seq(T) /\ Len(SubSeq(w, 1, m)) = m /\ \A i \in 1..m : SubSeq(w, 1, m)[i] = w[i]
    BY <2>0
  <2> QED
    BY <2>1, <2>2
<1>6. PICK i \in 1..k : u[i] = x
  <2>1. Holds(u, x)
    BY <1>2, UniqueHolds
  <2> QED
    BY <1>2, <2>1 DEF Holds
<1>7. CASE i <= m
  <2>1. i \in 1..m /\ l[i] = x
    BY <1>3, <1>5, <1>6, <1>7
  <2> QED
    BY <1>1, <1>5, <2>1 DEF Holds
<1>8. CASE ~(i <= m)
  <2>1. m = MaxMerged /\ m <= k
    BY <1>3, <1>4, <1>6, <1>8
  <2>2. ASSUME NEW v, Holds(l, v) PROVE Holds(s, v)
    <3>1. PICK j \in 1..m : l[j] = v
      BY <1>5, <2>2 DEF Holds
    <3>2. j \in 1..k /\ u[j] = v
      BY <1>3, <1>5, <2>1, <3>1
    <3>3. Holds(u, v)
      BY <1>2, <3>2 DEF Holds
    <3> QED
      BY <1>2, <3>3, UniqueHolds
  <2> QED
    BY <1>1, <1>5, <2>1, <2>2
<1> QED
  BY <1>7, <1>8

(* What a merged summary is put together from.                             *)
LEMMA FactsOfType ==
    ASSUME NEW m \in Message
    PROVE  /\ FactsOf(m) \in Seq(Facts) /\ RequestsOf(m) \in Seq(Entries)
           /\ \A v : Holds(FactsOf(m), v) <=> \E f \in Facts : Records(m, f) /\ v = Preview[f]
<1>1. RequestsOf(m) \in Seq(Entries)
  <2>1. \A n \in Nat : <<"request", n>> \in Entries /\ <<"notice", n>> \in Entries /\ <<"merged", n>> \in Entries
    BY DEF Entries
  <2>2. CASE m.kind = "summary"
    <3>1. m.requests \in Seq(Entries) /\ m.merged \in BOOLEAN
      BY <2>2, KindFields
    <3>2. <<<<"merged", 0>>>> \in Seq(Entries)
      <4>1. PICK entry \in Entries : entry = <<"merged", 0>>
        BY <2>1
      <4>2. <<entry>> \in Seq(Entries)
        OBVIOUS
      <4> QED
        BY <4>1, <4>2
    <3> QED
      BY <2>2, <3>1, <3>2 DEF RequestsOf, ReadBack
  <2>3. CASE m.kind = "user"
    <3>1. m.turn \in Nat
      BY <2>3, KindFields
    <3>2. PICK entry \in Entries : entry = <<"request", m.turn>>
      BY <2>1, <3>1
    <3>3. <<entry>> \in Seq(Entries)
      OBVIOUS
    <3> QED
      BY <2>3, <3>2, <3>3 DEF RequestsOf
  <2>4. CASE m.kind = "notice"
    <3>1. PICK entry \in Entries : entry = <<"notice", 0>>
      BY <2>1
    <3>2. <<entry>> \in Seq(Entries)
      OBVIOUS
    <3> QED
      BY <2>4, <3>1, <3>2 DEF RequestsOf
  <2>5. CASE m.kind \notin {"summary", "user", "notice"}
    BY <2>5 DEF RequestsOf
  <2> QED
    BY <2>2, <2>3, <2>4, <2>5
<1>2. CASE IsSummary(m)
  <2>1. PICK f \in Seq(Facts) : f = m.facts
    BY <1>2, KindFields DEF IsSummary
  <2>2. PICK n \in Nat : DOMAIN f = 1..n /\ Len(f) = n
    OBVIOUS
  <2>3. FactsOf(m) = [k \in 1..n |-> Preview[f[k]]]
    BY <1>2, <2>1, <2>2 DEF FactsOf
  <2>4. \A k \in 1..n : f[k] \in Facts /\ Preview[f[k]] \in Facts
    BY <2>2, HistoryAssumption
  <2>5. PICK p \in Seq(Facts) : p = FactsOf(m) /\ Len(p) = n /\ \A k \in 1..n : p[k] = Preview[f[k]]
    <3>1. [k \in 1..n |-> Preview[f[k]]] \in Seq(Facts)
      BY <2>4
    <3> QED
      BY <2>3, <3>1
  <2>6. \A g : Records(m, g) <=> \E k \in 1..n : f[k] = g
    BY <1>2, <2>1, <2>2 DEF Records, Range
  <2>7. ASSUME NEW v PROVE Holds(p, v) <=> \E g \in Facts : Records(m, g) /\ v = Preview[g]
    BY <2>4, <2>5, <2>6 DEF Holds
  <2> QED
    BY <1>1, <2>5, <2>7
<1>3. CASE ~IsSummary(m)
  <2>1. FactsOf(m) = <<>> /\ <<>> \in Seq(Facts) /\ 1..Len(<<>>) = {}
    BY <1>3 DEF FactsOf
  <2> QED
    BY <1>1, <1>3, <2>1 DEF Holds, Records
<1> QED
  BY <1>2, <1>3

LEMMA MergedSummaryType ==
    ASSUME NEW s \in Seq(Message)
    PROVE  MergedSummary(s) \in Message
<1>1. PICK n \in Nat : DOMAIN s = 1..n /\ \A i \in 1..n : s[i] \in Message
  OBVIOUS
<1>2. /\ [i \in DOMAIN s |-> RequestsOf(s[i])] \in Seq(Seq(Entries))
      /\ [i \in DOMAIN s |-> FactsOf(s[i])] \in Seq(Seq(Facts))
  <2>1. \A i \in 1..n : FactsOf(s[i]) \in Seq(Facts) /\ RequestsOf(s[i]) \in Seq(Entries)
    BY <1>1, FactsOfType
  <2> QED
    BY <1>1, <2>1
<1>3. /\ FlattenSeq([i \in DOMAIN s |-> RequestsOf(s[i])]) \in Seq(Entries)
      /\ FlattenSeq([i \in DOMAIN s |-> FactsOf(s[i])]) \in Seq(Facts)
  BY <1>2, FlattenType
<1> QED
  BY <1>3, ListedIs, MessageTypes DEF MergedSummary

(* A merged history: the summary, then what came after the merge end. *)
LEMMA MergedIs ==
    ASSUME NEW s \in Seq(Message), MergeEnd(s) > 0
    PROVE  /\ Merged(s) \in Seq(Message)
           /\ Len(Merged(s)) = 1 + (Len(s) - MergeEnd(s))
           /\ Merged(s)[1] = MergedSummary(SubSeq(s, 1, MergeEnd(s)))
           /\ \A i \in (MergeEnd(s) + 1)..Len(s) : Merged(s)[1 + (i - MergeEnd(s))] = s[i]
<1> DEFINE e == MergeEnd(s)
           old == SubSeq(s, 1, e)
           new == SubSeq(s, e + 1, Len(s))
           summary == MergedSummary(old)
<1>1. e \in 1..Len(s) /\ Len(s) \in Nat
  BY MergeEndRange
<1>2. old \in Seq(Message) /\ new \in Seq(Message) /\ Len(new) = Len(s) - e
  BY <1>1
<1>3. \A i \in 1..(Len(s) - e) : new[i] = s[i + e]
  BY <1>1
<1>4. summary \in Message
  BY <1>2, MergedSummaryType
<1>5. Merged(s) = <<summary>> \o new
  BY DEF Merged
<1> HIDE DEF summary, old, new, e
<1>6. <<summary>> \in Seq(Message) /\ Len(<<summary>>) = 1 /\ <<summary>>[1] = summary
  BY <1>4
<1>9. PICK one \in Seq(Message) : one = <<summary>> /\ Len(one) = 1 /\ one[1] = summary
  BY <1>6
<1>10. one \o new \in Seq(Message) /\ Len(one \o new) = 1 + Len(new) /\ (one \o new)[1] = one[1]
  <2> SUFFICES ASSUME NEW t \in Seq(Message)
               PROVE  one \o t \in Seq(Message) /\ Len(one \o t) = 1 + Len(t) /\ (one \o t)[1] = one[1]
    BY <1>2
  <2>1. one \o t \in Seq(Message)
    BY <1>9
  <2>2. Len(one \o t) = 1 + Len(t)
    BY <1>9
  <2>3. 1 <= Len(one) + Len(t) /\ 1 \in DOMAIN one
    BY <1>9
  <2>4. (one \o t)[1] = one[1]
    BY <1>9, <2>3
  <2> QED
    BY <2>1, <2>2, <2>4
<1>7. Merged(s) \in Seq(Message) /\ Len(Merged(s)) = 1 + Len(new) /\ Merged(s)[1] = summary
  BY <1>5, <1>9, <1>10
<1>8. ASSUME NEW i \in (e + 1)..Len(s) PROVE Merged(s)[1 + (i - e)] = s[i]
  <2>1. i - e \in 1..(Len(s) - e) /\ (i - e) + e = i /\ i - e \in Nat
    BY <1>1
  <2>2. (<<summary>> \o new)[1 + (i - e)] = new[i - e]
    BY <1>2, <1>6, <2>1
  <2> QED
    BY <1>3, <1>5, <2>1, <2>2
<1> QED
  BY <1>2, <1>7, <1>8 DEF summary, old, e

(* Reducing a turn keeps what came before it. *)
LEMMA CompactedKeeps ==
    ASSUME NEW s \in Seq(Message), NEW start \in Nat
    PROVE  /\ Compacted(s, start) \in Seq(Message)
           /\ start <= Len(s) =>
                /\ Len(Compacted(s, start)) >= start
                /\ \A i \in 1..start : Compacted(s, start)[i] = s[i]
<1>1. CASE start >= Len(s)
  BY <1>1 DEF Compacted
<1>2. CASE start < Len(s)
  <2> DEFINE begin == SubSeq(s, 1, start)
             end == After(s, start)
             kept == Only(end, LAMBDA m : ~IsTodoArtifact(m))
             rest == [i \in DOMAIN kept |-> WithoutTodo(kept[i])]
             pruned == begin \o rest
             later == After(pruned, start)
             summaries == Only(later, IsSummary)
  <2>1. begin \in Seq(Message) /\ Len(begin) = start /\ \A i \in 1..start : begin[i] = s[i]
    BY <1>2
  <2>2. end \in Seq(Message)
    BY <1>2 DEF After
  <2>3. kept \in Seq(Message)
    <3> HIDE DEF end
    <3> DEFINE passes == {i \in DOMAIN end : ~IsTodoArtifact(end[i])}
    <3>1. FlattenSeq([i \in DOMAIN end |-> IF i \in passes THEN <<end[i]>> ELSE <<>>]) \in Seq(Message)
      BY <2>2, OnlyType
    <3>2. [i \in DOMAIN end |-> IF i \in passes THEN <<end[i]>> ELSE <<>>]
             = [i \in DOMAIN end |-> IF ~IsTodoArtifact(end[i]) THEN <<end[i]>> ELSE <<>>]
      OBVIOUS
    <3> HIDE DEF passes
    <3> QED
      BY <3>1, <3>2 DEF Only
  <2>4. rest \in Seq(Message)
    <3> HIDE DEF kept
    <3>1. ASSUME NEW m \in Message PROVE WithoutTodo(m) \in Message
      <4>1. CASE m.kind = "ai"
        <5>1. m \in [kind : {"ai"}, calls : Seq(ToolCalls), text : BOOLEAN]
          BY <4>1, KindFields
        <5>2. PICK calls \in Seq(ToolCalls) : calls = m.calls
          BY <5>1
        <5>3. WithoutTodoCalls(m.calls) \in Seq(ToolCalls)
          <6> DEFINE passes == {i \in DOMAIN calls : calls[i] # "todo"}
          <6>1. FlattenSeq([i \in DOMAIN calls |-> IF i \in passes THEN <<calls[i]>> ELSE <<>>])
                   \in Seq(ToolCalls)
            BY OnlyType
          <6>2. [i \in DOMAIN calls |-> IF i \in passes THEN <<calls[i]>> ELSE <<>>]
                   = [i \in DOMAIN calls |-> IF calls[i] # "todo" THEN <<calls[i]>> ELSE <<>>]
            OBVIOUS
          <6> HIDE DEF passes
          <6> QED
            BY <5>2, <6>1, <6>2 DEF WithoutTodoCalls, Only
        <5>4. [m EXCEPT !.calls = WithoutTodoCalls(m.calls)]
                \in [kind : {"ai"}, calls : Seq(ToolCalls), text : BOOLEAN]
          BY <5>1, <5>3
        <5> QED
          BY <4>1, <5>4 DEF WithoutTodo, Message
      <4> QED
        BY <4>1 DEF WithoutTodo
    <3> QED
      BY <2>3, <3>1
  <2>5. pruned \in Seq(Message) /\ Len(pruned) >= start /\ \A i \in 1..start : pruned[i] = s[i]
    <3> HIDE DEF begin, rest
    <3> QED
      BY <2>1, <2>4
  <2>6. Prune(s, start) = pruned
    BY DEF Prune
  <2> HIDE DEF pruned
  <2>7. later \in Seq(Message)
    BY <2>5 DEF After
  <2>8. summaries \in Seq(Message)
    <3> HIDE DEF later
    <3> DEFINE passes == {i \in DOMAIN later : IsSummary(later[i])}
    <3>1. FlattenSeq([i \in DOMAIN later |-> IF i \in passes THEN <<later[i]>> ELSE <<>>]) \in Seq(Message)
      BY <2>7, OnlyType
    <3>2. [i \in DOMAIN later |-> IF i \in passes THEN <<later[i]>> ELSE <<>>]
             = [i \in DOMAIN later |-> IF IsSummary(later[i]) THEN <<later[i]>> ELSE <<>>]
      OBVIOUS
    <3> HIDE DEF passes
    <3> QED
      BY <3>1, <3>2 DEF Only
  <2>9. Compacted(s, start) = IF summaries = <<>> THEN pruned ELSE SubSeq(pruned, 1, start) \o summaries
    BY <1>2, <2>6 DEF Compacted, Collapse
  <2> HIDE DEF summaries
  <2>10. SubSeq(pruned, 1, start) \in Seq(Message) /\ Len(SubSeq(pruned, 1, start)) = start
         /\ \A i \in 1..start : SubSeq(pruned, 1, start)[i] = s[i]
    BY <2>5
  <2> QED
    BY <2>5, <2>8, <2>9, <2>10
<1> QED
  BY <1>1, <1>2
-----------------------------------------------------------------------------
(* Beginnings and ends of lists, position by position.                     *)
Begins(s, t) == Len(s) <= Len(t) /\ \A i \in 1..Len(s) : t[i] = s[i]

LEMMA BeginsIsPrefix ==
    ASSUME NEW s \in Seq(Message), NEW t \in Seq(Message)
    PROVE  IsPrefix(s, t) <=> Begins(s, t)
<1>1. Len(s) \in Nat /\ Len(t) \in Nat
  OBVIOUS
<1>2. ASSUME Len(s) <= Len(t)
      PROVE  (SubSeq(s, 1, Len(s)) = SubSeq(t, 1, Len(s))) <=> (\A i \in 1..Len(s) : t[i] = s[i])
  <2> DEFINE a == SubSeq(s, 1, Len(s))
             b == SubSeq(t, 1, Len(s))
  <2>1. a = [i \in 1..Len(s) |-> s[i]] /\ b = [i \in 1..Len(s) |-> t[i]]
    BY <1>1, <1>2
  <2> HIDE DEF a, b
  <2>2. a = b <=> \A i \in 1..Len(s) : t[i] = s[i]
    BY <2>1
  <2> QED
    BY <2>2 DEF a, b
<1> QED
  BY <1>2 DEF IsPrefix, Begins

LEMMA SuffixIf ==
    ASSUME NEW s \in Seq(Message), NEW t \in Seq(Message), Len(s) <= Len(t),
           \A i \in 1..Len(s) : t[(Len(t) - Len(s)) + i] = s[i]
    PROVE  IsSuffix(s, t)
<1> DEFINE a == Reverse(s)
           b == Reverse(t)
<1>1. Len(s) \in Nat /\ Len(t) \in Nat
  OBVIOUS
<1>2. a \in Seq(Message) /\ b \in Seq(Message) /\ Len(a) = Len(s) /\ Len(b) = Len(t)
  BY <1>1 DEF Reverse
<1>3. (\A i \in 1..Len(s) : a[i] = s[(Len(s) - i) + 1]) /\ (\A i \in 1..Len(t) : b[i] = t[(Len(t) - i) + 1])
  BY <1>1 DEF Reverse
<1>4. ASSUME NEW i \in 1..Len(s) PROVE a[i] = b[i]
  <2>1. (Len(s) - i) + 1 \in 1..Len(s) /\ i \in 1..Len(t)
        /\ (Len(t) - Len(s)) + ((Len(s) - i) + 1) = (Len(t) - i) + 1
    BY <1>1
  <2> QED
    BY <1>3, <2>1
<1> HIDE DEF a, b
<1>5. Begins(a, b)
  BY <1>2, <1>4 DEF Begins
<1>6. IsPrefix(a, b)
  BY <1>2, <1>5, BeginsIsPrefix
<1> QED
  BY <1>6 DEF IsSuffix, a, b

LEMMA RecentIs ==
    ASSUME NEW s \in Seq(Message)
    PROVE  /\ Recent(s) \in Seq(Message) /\ Len(Recent(s)) = Len(s) - Cutoff(s)
           /\ \A i \in 1..(Len(s) - Cutoff(s)) : Recent(s)[i] = s[Cutoff(s) + i]
<1>1. Cutoff(s) \in 0..Len(s) /\ Len(s) \in Nat
  BY CutoffRange
<1> QED
  BY <1>1 DEF Recent

(* A list that grows keeps its old tool outputs, and gets more of them. *)
LEMMA OldStaysOld ==
    ASSUME NEW s \in Seq(Message), NEW t \in Seq(Message), IsPrefix(s, t), NEW sizes
    PROVE  OldResults(s, sizes) \subseteq OldResults(t, sizes)
<1>1. Begins(s, t)
  BY BeginsIsPrefix
<1>2. Len(s) \in Nat /\ Len(t) \in Nat /\ Len(s) <= Len(t)
  BY <1>1 DEF Begins
<1>3. Cutoff(s) <= Cutoff(t) /\ Cutoff(s) <= Len(s) /\ Cutoff(s) \in Nat /\ Cutoff(t) \in Nat
  BY <1>2, HistoryAssumption DEF Cutoff
<1>4. \A i \in 1..Cutoff(s) : i \in 1..Cutoff(t) /\ t[i] = s[i]
  BY <1>1, <1>2, <1>3 DEF Begins
<1> QED
  BY <1>4 DEF OldResults

LEMMA OffersAre ==
    ASSUME NEW s \in Seq(Message)
    PROVE  /\ Offers(s) \subseteq SUBSET Nat
           /\ \A chosen \in Offers(s) : chosen \subseteq OldResults(s, {"big", "small"})
<1>1. OldResults(s, {"big"}) \subseteq OldResults(s, {"big", "small"})
  BY DEF OldResults
<1>2. OldResults(s, {"big", "small"}) \subseteq Nat
  BY CutoffRange DEF OldResults
<1> QED
  BY <1>1, <1>2 DEF Offers

(* A transcript after the input; one more message after a list. *)
LEMMA Extended ==
    ASSUME NEW s \in Seq(Message)
    PROVE  /\ \A t \in Seq(Message) : s \o t \in Seq(Message) /\ Begins(s, s \o t)
           /\ \A m \in Message : Append(s, m) \in Seq(Message) /\ Begins(s, Append(s, m))
<1>1. ASSUME NEW t \in Seq(Message) PROVE s \o t \in Seq(Message) /\ Begins(s, s \o t)
  <2>1. s \o t \in Seq(Message) /\ Len(s \o t) = Len(s) + Len(t) /\ Len(s) \in Nat /\ Len(t) \in Nat
    OBVIOUS
  <2>2. \A i \in 1..Len(s) : (s \o t)[i] = s[i]
    OBVIOUS
  <2> QED
    BY <2>1, <2>2 DEF Begins
<1>2. ASSUME NEW m \in Message PROVE Append(s, m) \in Seq(Message) /\ Begins(s, Append(s, m))
  <2>1. Append(s, m) \in Seq(Message) /\ Len(Append(s, m)) = Len(s) + 1 /\ Len(s) \in Nat
    OBVIOUS
  <2>2. \A i \in 1..Len(s) : Append(s, m)[i] = s[i]
    OBVIOUS
  <2> QED
    BY <2>1, <2>2 DEF Begins
<1> QED
  BY <1>1, <1>2
-----------------------------------------------------------------------------
(* What the open screen offers are still old tool outputs where it saw     *)
(* them, unless they were replaced.                                        *)
ScreenInv ==
    offers # {} /\ ~replaced =>
        \A chosen \in offers : chosen \subseteq OldResults(messages, {"big", "small"})

(* The list about to be installed continues the one it was computed from,  *)
(* while that is the history.                                              *)
ManualInv ==
    manual # <<>> /\ ~stale => Continues(messages, manual) /\ Len(manual) = Len(messages)

(* The request is the last message until the graph begins, and from then   *)
(* on the history continues what the graph was given, unless a list        *)
(* computed from an earlier history was installed.                         *)
TurnInv ==
    ~overtaken =>
        /\ at \in {"counting", "merging", "merged"} =>
              messages # <<>> /\ messages[Len(messages)] = User(turn)
        /\ at \in {"running", "compacting"} => Continues(input, messages)

Inv == TypeOK /\ ScreenInv /\ ManualInv /\ TurnInv

LEMMA CutTwice ==
    ASSUME NEW m \in Message, m.kind = "tool"
    PROVE  /\ [m EXCEPT !.size = "cut"].kind = "tool" /\ [m EXCEPT !.size = "cut"].call = m.call
           /\ [[m EXCEPT !.size = "cut"] EXCEPT !.size = "cut"] = [m EXCEPT !.size = "cut"]
<1>1. m \in [kind : {"tool"}, call : ToolCalls, size : Sizes]
  BY KindFields
<1> QED
  BY <1>1

LEMMA ContinuesIs ==
    ASSUME NEW s \in Seq(Message), NEW t \in Seq(Message)
    PROVE  /\ Begins(s, t) => Continues(s, t)
           /\ \A u \in Seq(Message) : Continues(s, t) /\ Continues(t, u) => Continues(s, u)
<1>0. Len(s) \in Nat /\ Len(t) \in Nat /\ DOMAIN s = 1..Len(s) /\ DOMAIN t = 1..Len(t)
  OBVIOUS
<1>1. Begins(s, t) => Continues(s, t)
  BY <1>0 DEF Begins, Continues
<1>2. ASSUME NEW u \in Seq(Message), Continues(s, t), Continues(t, u) PROVE Continues(s, u)
  <2>1. Len(s) <= Len(u)
    BY <1>0, <1>2 DEF Continues
  <2>2. ASSUME NEW i \in DOMAIN s
        PROVE  u[i] = s[i] \/ (s[i].kind = "tool" /\ u[i] = [s[i] EXCEPT !.size = "cut"])
    <3>1. i \in DOMAIN t /\ s[i] \in Message
      BY <1>0, <1>2 DEF Continues
    <3>2. t[i] = s[i] \/ (s[i].kind = "tool" /\ t[i] = [s[i] EXCEPT !.size = "cut"])
      BY <1>2 DEF Continues
    <3>3. u[i] = t[i] \/ (t[i].kind = "tool" /\ u[i] = [t[i] EXCEPT !.size = "cut"])
      BY <1>2, <3>1 DEF Continues
    <3>4. CASE t[i] = s[i]
      BY <3>3, <3>4
    <3>5. CASE s[i].kind = "tool" /\ t[i] = [s[i] EXCEPT !.size = "cut"]
      BY <3>1, <3>3, <3>5, CutTwice
    <3> QED
      BY <3>2, <3>4, <3>5
  <2> QED
    BY <2>1, <2>2 DEF Continues
<1> QED
  BY <1>1, <1>2

LEMMA TrimContinues ==
    ASSUME NEW s \in Seq(Message), NEW chosen, \A i \in chosen \cap DOMAIN s : s[i].kind = "tool"
    PROVE  Continues(s, TrimSizes(s, chosen))
<1>1. PICK t \in Seq(Message) : t = TrimSizes(s, chosen)
  BY TrimKeeps
<1>2. /\ Len(t) = Len(s) /\ DOMAIN s = 1..Len(s) /\ Len(s) \in Nat
      /\ \A i \in 1..Len(s) : i \notin chosen => t[i] = s[i]
      /\ \A i \in 1..Len(s) : i \in chosen => t[i] = [s[i] EXCEPT !.size = "cut"]
  BY <1>1, TrimKeeps
<1>3. ASSUME NEW i \in DOMAIN s
      PROVE  t[i] = s[i] \/ (s[i].kind = "tool" /\ t[i] = [s[i] EXCEPT !.size = "cut"])
  BY <1>2
<1>4. Len(s) <= Len(t)
  BY <1>2
<1> QED
  BY <1>1, <1>3, <1>4 DEF Continues

LEMMA TaskSummaryType ==
    ASSUME TypeOK, NEW facts \in TaskFacts
    PROVE  Summary(<<<<"goal", turn>>>>, facts, FALSE) \in Message
<1>1. <<"goal", turn>> \in Entries
  BY DEF TypeOK, Entries
<1>2. PICK entry \in Entries : entry = <<"goal", turn>>
  BY <1>1
<1>3. <<entry>> \in Seq(Entries) /\ facts \in Seq(Facts)
  BY HistoryAssumption
<1> QED
  BY <1>2, <1>3, MessageTypes

(* The list that a turn leaves, by the way it ends. *)
LEMMA TurnEndTypes ==
    ASSUME TypeOK
    PROVE  /\ \A new \in Transcripts :
                /\ input \o new \in Seq(Message) /\ Begins(input, input \o new)
                /\ \A facts \in TaskFacts :
                     LET s == Append(input \o new, Summary(<<<<"goal", turn>>>>, facts, FALSE))
                     IN  s \in Seq(Message) /\ Begins(input, s)
           /\ Append(messages, Answer) \in Seq(Message) /\ Begins(messages, Append(messages, Answer))
           /\ Append(messages, User(turn + 1)) \in Seq(Message)
           /\ Compacted(messages, Len(input)) \in Seq(Message)
           /\ Begins(input, messages) => Begins(input, Compacted(messages, Len(input)))
<1> USE DEF TypeOK
<1>1. ASSUME NEW new \in Transcripts
      PROVE  /\ input \o new \in Seq(Message) /\ Begins(input, input \o new)
             /\ \A facts \in TaskFacts :
                  LET s == Append(input \o new, Summary(<<<<"goal", turn>>>>, facts, FALSE))
                  IN  s \in Seq(Message) /\ Begins(input, s)
  <2>1. new \in Seq(Message)
    BY TranscriptTypes
  <2>2. input \o new \in Seq(Message) /\ Begins(input, input \o new)
    BY <2>1, Extended
  <2>4. PICK t \in Seq(Message) : t = input \o new
    BY <2>2
  <2>6. \A u, v, w \in Seq(Message) : Begins(u, v) /\ Begins(v, w) => Begins(u, w)
    BY DEF Begins
  <2>7. ASSUME NEW facts \in TaskFacts
        PROVE  LET s == Append(t, Summary(<<<<"goal", turn>>>>, facts, FALSE))
               IN  s \in Seq(Message) /\ Begins(input, s)
    <3>1. PICK m \in Message : m = Summary(<<<<"goal", turn>>>>, facts, FALSE)
      BY TaskSummaryType
    <3>2. Append(t, m) \in Seq(Message) /\ Begins(t, Append(t, m))
      BY Extended
    <3> QED
      BY <2>2, <2>4, <2>6, <3>1, <3>2
  <2> QED
    BY <2>2, <2>4, <2>7
<1>2. Append(messages, Answer) \in Seq(Message) /\ Begins(messages, Append(messages, Answer))
      /\ Append(messages, User(turn + 1)) \in Seq(Message)
  BY Extended, MessageTypes
<1>3. Len(input) \in Nat
  OBVIOUS
<1>4. Compacted(messages, Len(input)) \in Seq(Message)
      /\ (Begins(input, messages) => Begins(input, Compacted(messages, Len(input))))
  BY <1>3, CompactedKeeps DEF Begins
<1> QED
  BY <1>1, <1>2, <1>4

LEMMA TrimTypes ==
    ASSUME TypeOK
    PROVE  /\ Trimmed(messages) \in Seq(Message)
           /\ \A chosen : TrimSizes(messages, Compressible(chosen, messages)) \in Seq(Message)
BY OldResultsAre, TrimKeeps DEF Trimmed, Compressible, TypeOK

(* Initially there are no messages. *)
LEMMA InvInit == Init => Inv
<1> SUFFICES ASSUME Init PROVE Inv
  OBVIOUS
<1>1. TypeOK
  <2>1. <<>> \in Seq(Message)
    OBVIOUS
  <2>2. {persist, unsaved, replaced, stale, overtaken, misplaced} \subseteq BOOLEAN
    BY Zenon DEF Init
  <2>3. offers \subseteq SUBSET Nat
    BY DEF Init
  <2> QED
    BY <2>1, <2>2, <2>3 DEF Init, TypeOK
<1>2. ScreenInv /\ ManualInv /\ TurnInv
  BY DEF Init, ScreenInv, ManualInv, TurnInv
<1> QED
  BY <1>1, <1>2 DEF Inv

USE DEF turnVars, manualVars, diskVars, screen, overlap

(* Every step leaves lists of messages. *)
LEMMA TypeStep == TypeOK /\ [Next]_vars => TypeOK'
<1> SUFFICES ASSUME TypeOK, [Next]_vars PROVE TypeOK'
  OBVIOUS
<1>0. \A s : s \in Seq(Message) /\ Save(s) =>
         disk' \in Seq(Message) /\ persist' \in BOOLEAN /\ unsaved' \in BOOLEAN
  BY DEF Save, TypeOK
<1>a. Watch => /\ replaced' \in BOOLEAN /\ offers' = offers
               /\ stale' \in BOOLEAN /\ overtaken' \in BOOLEAN /\ misplaced' \in BOOLEAN
  BY DEF Watch, TypeOK
<1>b. <<>> \in Seq(Message)
  OBVIOUS
<1> USE DEF TypeOK
<1>1. CASE UNCHANGED vars
  BY <1>1 DEF vars
<1>2. CASE Send
  <2>1. messages' \in Seq(Message)
    BY <1>2, TurnEndTypes DEF Send
  <2>2. turn' \in Nat
    BY <1>2 DEF Send
  <2> QED
    BY <1>2, <1>a, <2>1, <2>2 DEF Send
<1>3. CASE CompressContext
  BY <1>3, <1>a, TrimTypes DEF CompressContext
<1>4. CASE MergeSummaries
  BY <1>4, <1>a, MergedIs DEF MergeSummaries
<1>5. CASE StartGraph
  BY <1>5, <1>a DEF StartGraph
<1>6. CASE EndUnplanned
  BY <1>6, <1>a, <1>0, <1>b, TurnEndTypes DEF EndUnplanned, Settle
<1>7. CASE EndPlanned
  BY <1>7, <1>a, TurnEndTypes DEF EndPlanned
<1>8. CASE Compact
  BY <1>8, <1>a, <1>0, <1>b, TurnEndTypes DEF Compact, Settle
<1>9. CASE StopTurn
  BY <1>9, <1>a, <1>0, <1>b, TurnEndTypes DEF StopTurn, Settle
<1>10. CASE CutOff
  BY <1>10, <1>a, <1>b DEF CutOff
<1>11. CASE Clear
  BY <1>11, <1>a, <1>0, <1>b DEF Clear, Settle
<1>12. CASE Restart
  <2>4. messages' = disk \/ messages' = <<>>
    BY <1>12, Zenon DEF Restart
  <2>5. restarts' \in Nat
    BY <1>12 DEF Restart
  <2>1. messages' \in Seq(Message) /\ restarts' \in Nat
    BY <1>b, <2>4, <2>5
  <2>2. {persist', unsaved', replaced', stale', overtaken', misplaced'} \subseteq BOOLEAN
    <3>1. misplaced' \in BOOLEAN
      BY <1>12 DEF Restart
    <3> QED
      BY <1>12, <3>1, Zenon DEF Restart
  <2>3. offers' \subseteq SUBSET Nat
    BY <1>12 DEF Restart
  <2> QED
    BY <1>12, <1>b, <2>1, <2>2, <2>3 DEF Restart
<1>13. CASE OpenScreen
  BY <1>13, OffersAre DEF OpenScreen
<1>14. CASE CloseScreen
  BY <1>14 DEF CloseScreen
<1>15. CASE StartManual
  BY <1>15, TrimTypes DEF StartManual
<1>16. CASE FinishManual
  BY <1>16, <1>0, <1>b, OffersAre DEF FinishManual
<1> QED
  BY <1>1, <1>2, <1>3, <1>4, <1>5, <1>6, <1>7, <1>8, <1>9, <1>10, <1>11, <1>12, <1>13, <1>14,
     <1>15, <1>16 DEF Next

(* Every step keeps the screen's offers where they are, or notes that they *)
(* are not.                                                                *)
LEMMA ScreenStep == TypeOK /\ TypeOK' /\ ScreenInv /\ [Next]_vars => ScreenInv'
<1> SUFFICES ASSUME TypeOK, TypeOK', ScreenInv, [Next]_vars PROVE ScreenInv'
  OBVIOUS
<1>1. ASSUME Watch PROVE ScreenInv'
  <2> SUFFICES ASSUME offers' # {}, ~replaced', NEW chosen \in offers'
               PROVE  chosen \subseteq OldResults(messages', {"big", "small"})
    BY DEF ScreenInv
  <2>1. offers # {} /\ chosen \in offers /\ ~replaced /\ IsPrefix(messages, messages')
    BY <1>1 DEF Watch
  <2>2. chosen \subseteq OldResults(messages, {"big", "small"})
    BY <2>1 DEF ScreenInv
  <2>3. messages \in Seq(Message) /\ messages' \in Seq(Message)
    BY DEF TypeOK
  <2> QED
    BY <2>1, <2>2, <2>3, OldStaysOld
<1>2. CASE OpenScreen
  BY <1>2, OffersAre DEF OpenScreen, ScreenInv, TypeOK
<1>3. CASE FinishManual
  BY <1>3, OffersAre DEF FinishManual, ScreenInv, TypeOK
<1>4. CASE Restart \/ CloseScreen \/ StartManual \/ UNCHANGED vars
  BY <1>4 DEF Restart, CloseScreen, StartManual, vars, ScreenInv
<1>5. CASE Send \/ CompressContext \/ MergeSummaries \/ StartGraph \/ EndUnplanned \/ EndPlanned
           \/ Compact \/ StopTurn \/ CutOff \/ Clear
  BY <1>1, <1>5 DEF Send, CompressContext, MergeSummaries, StartGraph, EndUnplanned, EndPlanned,
                    Compact, StopTurn, CutOff, Clear
<1> QED
  BY <1>2, <1>3, <1>4, <1>5 DEF Next

(* Which steps watch the screen and the list about to be installed, and    *)
(* leave the latter alone.                                                 *)
LEMMA Watched ==
    ASSUME Send \/ CompressContext \/ MergeSummaries \/ StartGraph \/ EndUnplanned \/ EndPlanned
           \/ Compact \/ StopTurn \/ CutOff \/ Clear
    PROVE  Watch /\ manual' = manual
BY DEF Send, CompressContext, MergeSummaries, StartGraph, EndUnplanned, EndPlanned,
       Compact, StopTurn, CutOff, Clear

LEMMA ManualStep == TypeOK /\ TypeOK' /\ ManualInv /\ [Next]_vars => ManualInv'
<1> SUFFICES ASSUME TypeOK, TypeOK', ManualInv, [Next]_vars, manual' # <<>>, ~stale'
             PROVE  Continues(messages', manual') /\ Len(manual') = Len(messages')
  BY DEF ManualInv
<1>1. CASE Watch /\ manual' = manual
  <2>1. manual # <<>> /\ ~stale /\ messages' = messages
    BY <1>1 DEF Watch
  <2> QED
    BY <1>1, <2>1 DEF ManualInv
<1>2. CASE OpenScreen \/ CloseScreen \/ UNCHANGED vars
  BY <1>2 DEF OpenScreen, CloseScreen, vars, ManualInv
<1>3. CASE StartManual
  <2>1. PICK chosen : manual' = TrimSizes(messages, Compressible(chosen, messages)) /\ messages' = messages
    BY <1>3 DEF StartManual
  <2>2. messages \in Seq(Message)
    BY DEF TypeOK
  <2>3. \A i \in Compressible(chosen, messages) \cap DOMAIN messages : messages[i].kind = "tool"
    BY <2>2, OldResultsAre DEF Compressible
  <2> QED
    BY <2>1, <2>2, <2>3, TrimKeeps, TrimContinues
<1>4. CASE FinishManual \/ Restart
  BY <1>4 DEF FinishManual, Restart
<1> QED
  BY <1>1, <1>2, <1>3, <1>4, Watched DEF Next

(* The last message of the history is a request, and stays where it is.    *)
LEMMA RequestStays ==
    ASSUME NEW s \in Seq(Message), s # <<>>, s[Len(s)].kind = "user"
    PROVE  /\ \A t \in Seq(Message) : Continues(s, t) /\ Len(t) = Len(s) => t # <<>> /\ t[Len(t)] = s[Len(s)]
           /\ MergeEnd(s) > 0 => Merged(s) # <<>> /\ Merged(s)[Len(Merged(s))] = s[Len(s)]
<1>1. Len(s) \in Nat /\ Len(s) >= 1 /\ Len(s) \in DOMAIN s
  OBVIOUS
<1>2. ASSUME NEW t \in Seq(Message), Continues(s, t), Len(t) = Len(s)
      PROVE  t # <<>> /\ t[Len(t)] = s[Len(s)]
  <2>1. t[Len(s)] = s[Len(s)]
    BY <1>1, <1>2 DEF Continues
  <2>2. t # <<>>
    BY <1>1, <1>2
  <2> QED
    BY <1>2, <2>1, <2>2
<1>3. ASSUME MergeEnd(s) > 0 PROVE Merged(s) # <<>> /\ Merged(s)[Len(Merged(s))] = s[Len(s)]
  <2>1. PICK e \in 1..Len(s) : e = MergeEnd(s) /\ IsSummary(s[e])
    BY <1>3, MergeEndRange
  <2>2. e # Len(s)
    BY <2>1 DEF IsSummary
  <2>3. PICK t \in Seq(Message) : t = Merged(s)
    BY <1>3, MergedIs
  <2>4. Len(t) = 1 + (Len(s) - e) /\ \A i \in (e + 1)..Len(s) : t[1 + (i - e)] = s[i]
    BY <1>3, <2>1, <2>3, MergedIs
  <2>5. Len(s) \in (e + 1)..Len(s)
    BY <1>1, <2>1, <2>2
  <2>6. t[Len(t)] = s[Len(s)] /\ t # <<>>
    <3>1. t[1 + (Len(s) - e)] = s[Len(s)]
      BY <2>4, <2>5
    <3>2. Len(t) # 0
      BY <1>1, <2>1, <2>4
    <3> QED
      BY <2>4, <3>1, <3>2
  <2> QED
    BY <2>3, <2>6
<1> QED
  BY <1>2, <1>3

LEMMA TurnStep == TypeOK /\ TypeOK' /\ ManualInv /\ TurnInv /\ [Next]_vars => TurnInv'
<1> SUFFICES ASSUME TypeOK, TypeOK', ManualInv, TurnInv, [Next]_vars, ~overtaken' PROVE TurnInv'
  BY DEF TurnInv
<1>0. messages \in Seq(Message) /\ input \in Seq(Message) /\ manual \in Seq(Message)
      /\ messages' \in Seq(Message) /\ turn \in Nat
  BY DEF TypeOK
<1>1. CASE Send
  <2>1. messages' = Append(messages, User(turn + 1)) /\ turn' = turn + 1 /\ at' = "counting"
    BY <1>1 DEF Send
  <2>2. messages' # <<>> /\ messages'[Len(messages')] = User(turn')
    BY <1>0, <2>1, MessageTypes, AppendProperties
  <2> QED
    BY <2>1, <2>2 DEF TurnInv
<1>2. CASE CompressContext
  <2>1. at = "counting" /\ at' = "merging" /\ messages' = Trimmed(messages) /\ turn' = turn /\ ~overtaken
    BY <1>2 DEF CompressContext, Watch
  <2>2. messages # <<>> /\ messages[Len(messages)] = User(turn)
    BY <2>1 DEF TurnInv
  <2>3. messages[Len(messages)].kind = "user"
    BY <2>2 DEF User
  <2>4. Continues(messages, messages') /\ Len(messages') = Len(messages)
    BY <1>0, <2>1, OldResultsAre, TrimKeeps, TrimContinues DEF Trimmed
  <2> QED
    BY <1>0, <2>1, <2>2, <2>3, <2>4, RequestStays DEF TurnInv
<1>3. CASE MergeSummaries
  <2>1. at = "merging" /\ at' = "merged" /\ messages' = Merged(messages) /\ turn' = turn /\ ~overtaken
        /\ MergeEnd(messages) > 0
    BY <1>3 DEF MergeSummaries, Watch
  <2>2. messages # <<>> /\ messages[Len(messages)] = User(turn)
    BY <2>1 DEF TurnInv
  <2>3. messages[Len(messages)].kind = "user"
    BY <2>2 DEF User
  <2> QED
    BY <1>0, <2>1, <2>2, <2>3, RequestStays DEF TurnInv
<1>4. CASE StartGraph
  <2>1. at' = "running" /\ input' = messages /\ messages' = messages
    BY <1>4 DEF StartGraph
  <2>2. Begins(messages, messages)
    BY <1>0 DEF Begins
  <2> QED
    BY <1>0, <2>1, <2>2, ContinuesIs DEF TurnInv
<1>5. CASE EndUnplanned \/ Compact \/ StopTurn \/ CutOff \/ Clear \/ Restart
  <2>1. at' = "idle"
    BY <1>5 DEF EndUnplanned, Compact, StopTurn, CutOff, Clear, Settle, Restart
  <2> QED
    BY <2>1 DEF TurnInv
<1>6. CASE EndPlanned
  <2>1. at' = "compacting" /\ input' = input
    BY <1>6 DEF EndPlanned
  <2>2. Begins(input, messages')
    BY <1>6, TurnEndTypes DEF EndPlanned
  <2> QED
    BY <1>0, <2>1, <2>2, ContinuesIs DEF TurnInv
<1>7. CASE OpenScreen \/ CloseScreen \/ StartManual \/ UNCHANGED vars
  BY <1>7 DEF OpenScreen, CloseScreen, StartManual, vars, TurnInv
<1>8. CASE FinishManual
  <2>1. messages' = manual /\ manual # <<>> /\ at' = at /\ turn' = turn /\ input' = input
        /\ ~overtaken /\ (~stale \/ at = "idle")
    BY <1>8 DEF FinishManual
  <2>2. CASE at = "idle"
    BY <2>1, <2>2 DEF TurnInv
  <2>3. CASE ~stale
    <3>1. Continues(messages, messages') /\ Len(messages') = Len(messages)
      BY <2>1, <2>3 DEF ManualInv
    <3>2. CASE at \in {"counting", "merging", "merged"}
      <4>1. messages # <<>> /\ messages[Len(messages)] = User(turn)
        BY <2>1, <3>2 DEF TurnInv
      <4>2. messages[Len(messages)].kind = "user"
        BY <4>1 DEF User
      <4>3. messages' # <<>> /\ messages'[Len(messages')] = User(turn)
        BY <1>0, <3>1, <4>1, <4>2, RequestStays
      <4> QED
        BY <2>1, <3>2, <4>3 DEF TurnInv
    <3>3. CASE at \in {"running", "compacting"}
      <4>1. Continues(input, messages)
        BY <2>1, <3>3 DEF TurnInv
      <4>2. Continues(input, messages')
        BY <1>0, <3>1, <4>1, ContinuesIs
      <4> QED
        BY <2>1, <3>3, <4>2 DEF TurnInv
    <3>4. CASE at \notin {"counting", "merging", "merged", "running", "compacting"}
      BY <2>1, <3>4 DEF TurnInv
    <3> QED
      BY <3>2, <3>3, <3>4
  <2> QED
    BY <2>1, <2>2, <2>3
<1> QED
  BY <1>1, <1>2, <1>3, <1>4, <1>5, <1>6, <1>7, <1>8 DEF Next

(* Every reachable state satisfies the invariant. *)
LEMMA InvHolds == Spec => []Inv
<1>1. Inv /\ [Next]_vars => Inv'
  <2> HIDE DEF turnVars, manualVars, diskVars, screen, overlap
  <2> QED
    BY TypeStep, ScreenStep, ManualStep, TurnStep DEF Inv
<1> QED
  BY InvInit, <1>1, PTL DEF Spec
-----------------------------------------------------------------------------
(* Session: the history, what the graph is given, what is about to be      *)
(* installed and what is on disk are lists of messages at all times.       *)
THEOREM HistoryTypeCorrect == Spec => []TypeOK
<1>1. Inv => TypeOK
  BY DEF Inv
<1> QED
  BY InvHolds, <1>1, PTL

(* Session.send and _save_messages, whatever overlaps: between turns the   *)
(* session file holds the history, unless a turn was cut off since the     *)
(* last save or saving has failed.                                         *)
THEOREM SavedWhenAtRest == Spec => []SavedAtRest
<1>1. Init => SavedAtRest
  BY DEF Init, SavedAtRest
<1>2. SavedAtRest /\ [Next]_vars => SavedAtRest'
  <2> SUFFICES ASSUME SavedAtRest, [Next]_vars PROVE SavedAtRest'
    OBVIOUS
  <2> USE DEF SavedAtRest
  <2>0. \A s : messages' = s /\ Save(s) => SavedAtRest'
    BY DEF Save
  <2>1. CASE EndUnplanned \/ Compact \/ StopTurn \/ Clear
    BY <2>0, <2>1 DEF EndUnplanned, Compact, StopTurn, Clear, Settle
  <2>2. CASE FinishManual
    BY <2>0, <2>2 DEF FinishManual
  <2>3. CASE Send \/ CompressContext \/ MergeSummaries \/ StartGraph \/ EndPlanned \/ CutOff
    BY <2>3 DEF Send, CompressContext, MergeSummaries, StartGraph, EndPlanned, CutOff
  <2>4. CASE Restart \/ OpenScreen \/ CloseScreen \/ StartManual \/ UNCHANGED vars
    BY <2>4 DEF Restart, OpenScreen, CloseScreen, StartManual, vars
  <2> QED
    BY <2>1, <2>2, <2>3, <2>4 DEF Next
<1> QED
  BY <1>1, <1>2, PTL DEF Spec

(* Which steps of Session.send compress, merge, and end a turn. *)
LEMMA WhichSteps ==
    ASSUME [Next]_vars
    PROVE  /\ at' # at /\ at' \in {"merging", "merged"} => CompressContext \/ MergeSummaries
           /\ at = "merging" /\ at' = "merged" => MergeSummaries
           /\ at' = "idle" /\ at \in {"running", "compacting"} =>
                (EndUnplanned /\ at = "running") \/ (StopTurn /\ at = "running")
                  \/ (Compact /\ at = "compacting") \/ CutOff \/ Restart
           /\ at' = "running" /\ at # "running" => StartGraph
           /\ manual = <<>> /\ manual' # <<>> => StartManual
BY DEF Next, vars, Send, CompressContext, MergeSummaries, StartGraph, EndUnplanned, EndPlanned,
       Compact, StopTurn, CutOff, Clear, Restart, OpenScreen, CloseScreen, StartManual, FinishManual,
       Settle

(* ContextCompressor and the merging of summaries, for histories of any    *)
(* length: the newest KeepRecent messages are left as they were.           *)
THEOREM RecentAreKept == Spec => RecentKept
<1>1. TypeOK /\ [Next]_vars =>
        [at' # at /\ at' \in {"merging", "merged"} => IsSuffix(Recent(messages), messages')]_vars
  <2> SUFFICES ASSUME TypeOK, [Next]_vars, at' # at, at' \in {"merging", "merged"}
               PROVE  IsSuffix(Recent(messages), messages')
    OBVIOUS
  <2> DEFINE c == Cutoff(messages)
  <2>0. messages \in Seq(Message) /\ Len(messages) \in Nat /\ c \in 0..Len(messages)
    BY CutoffRange DEF TypeOK
  <2>1. /\ Recent(messages) \in Seq(Message) /\ Len(Recent(messages)) = Len(messages) - c
        /\ \A i \in 1..(Len(messages) - c) : Recent(messages)[i] = messages[c + i]
    BY <2>0, RecentIs
  <2>2. CASE CompressContext
    <3> DEFINE t == Trimmed(messages)
    <3>1. messages' = t
      BY <2>2 DEF CompressContext
    <3>2. t \in Seq(Message) /\ Len(t) = Len(messages)
          /\ \A i \in 1..Len(messages) : i \notin OldResults(messages, {"big"}) => t[i] = messages[i]
      BY <2>0, OldResultsAre, TrimKeeps DEF Trimmed
    <3> HIDE DEF t
    <3>3. \A i \in (c + 1)..Len(messages) : i \notin OldResults(messages, {"big"})
      BY <2>0, OldResultsAre
    <3> HIDE DEF c
    <3>4. ASSUME NEW i \in 1..Len(Recent(messages))
          PROVE  t[(Len(t) - Len(Recent(messages))) + i] = Recent(messages)[i]
      <4>1. (Len(t) - Len(Recent(messages))) + i = c + i /\ c + i \in (c + 1)..Len(messages)
            /\ c + i \in 1..Len(messages)
        BY <2>0, <2>1, <3>2
      <4> QED
        BY <2>1, <3>2, <3>3, <4>1
    <3>5. Len(Recent(messages)) <= Len(t)
      BY <2>0, <2>1, <3>2
    <3> QED
      BY <2>1, <3>1, <3>2, <3>4, <3>5, SuffixIf
  <2>3. CASE MergeSummaries
    <3> DEFINE t == Merged(messages)
               e == MergeEnd(messages)
    <3>1. messages' = t /\ e > 0
      BY <2>3 DEF MergeSummaries
    <3>2. e \in 1..Len(messages) /\ e <= c
      BY <2>0, <3>1, MergeEndRange
    <3>3. t \in Seq(Message) /\ Len(t) = 1 + (Len(messages) - e)
          /\ \A i \in (e + 1)..Len(messages) : t[1 + (i - e)] = messages[i]
      BY <2>0, <3>1, MergedIs
    <3> HIDE DEF t, e, c
    <3>4. ASSUME NEW i \in 1..Len(Recent(messages))
          PROVE  t[(Len(t) - Len(Recent(messages))) + i] = Recent(messages)[i]
      <4>1. (Len(t) - Len(Recent(messages))) + i = 1 + ((c + i) - e)
            /\ c + i \in (e + 1)..Len(messages)
        BY <2>0, <2>1, <3>2, <3>3
      <4> QED
        BY <2>1, <3>3, <4>1
    <3>5. Len(Recent(messages)) <= Len(t)
      BY <2>0, <2>1, <3>2, <3>3
    <3> QED
      BY <2>1, <3>1, <3>3, <3>4, <3>5, SuffixIf
  <2> QED
    BY <2>2, <2>3, WhichSteps
<1>2. Spec => [][Next]_vars
  BY PTL DEF Spec
<1> QED
  BY <1>1, <1>2, HistoryTypeCorrect, PTL DEF RecentKept

(* Session.send, whatever overlaps the turn: the user's request is the     *)
(* last that the model is given, and however the turn ends, the            *)
(* conversation it was given is the beginning of the history afterwards,   *)
(* but for outputs that were cut by hand; unless the process restarted, or *)
(* a list computed from an earlier history was installed.                  *)
THEOREM HistoryIsKept == Spec => HistoryKept
<1>1. Inv /\ [Next]_vars =>
        [/\ at' = "running" /\ at # "running" => overtaken \/ Last(input') = User(turn)
         /\ at' = "idle" /\ at \in {"running", "compacting"} =>
               restarts' # restarts \/ overtaken \/ Continues(input, messages')]_vars
  <2> SUFFICES ASSUME Inv, [Next]_vars, ~overtaken
               PROVE  /\ at' = "running" /\ at # "running" => Last(input') = User(turn)
                      /\ at' = "idle" /\ at \in {"running", "compacting"} =>
                            restarts' # restarts \/ Continues(input, messages')
    OBVIOUS
  <2>0. messages \in Seq(Message) /\ input \in Seq(Message) /\ restarts \in Nat /\ TypeOK
    BY DEF Inv, TypeOK
  <2>1. ASSUME at' = "running", at # "running" PROVE Last(input') = User(turn)
    <3>1. at \in {"counting", "merging", "merged"} /\ input' = messages
      BY <2>1, WhichSteps DEF StartGraph
    <3> QED
      BY <3>1 DEF Inv, TurnInv, Last
  <2>2. ASSUME at' = "idle", at \in {"running", "compacting"}, restarts' = restarts
        PROVE  Continues(input, messages')
    <3>1. Continues(input, messages)
      BY <2>2 DEF Inv, TurnInv
    <3>2. CASE EndUnplanned
      <4>1. messages' \in Seq(Message) /\ Begins(input, messages')
        BY <2>0, <3>2, TurnEndTypes DEF EndUnplanned, Settle
      <4> QED
        BY <2>0, <4>1, ContinuesIs
    <3>3. CASE StopTurn
      <4>1. messages' \in Seq(Message) /\ Begins(messages, messages')
        BY <2>0, <3>3, TurnEndTypes DEF StopTurn, Settle
      <4> QED
        BY <2>0, <3>1, <4>1, ContinuesIs
    <3>4. CASE Compact
      <4>1. messages' = Compacted(messages, Len(input)) /\ Len(input) \in Nat
        BY <2>0, <3>4 DEF Compact, Settle
      <4>2. Len(input) <= Len(messages)
        BY <3>1 DEF Continues
      <4>3. /\ messages' \in Seq(Message) /\ Len(messages') >= Len(input)
            /\ \A i \in 1..Len(input) : messages'[i] = messages[i]
        BY <2>0, <4>1, <4>2, CompactedKeeps
      <4> QED
        BY <2>0, <3>1, <4>1, <4>3 DEF Continues
    <3>5. CASE CutOff
      BY <3>1, <3>5 DEF CutOff
    <3>6. ~Restart
      BY <2>0, <2>2 DEF Restart
    <3> QED
      BY <2>2, <3>2, <3>3, <3>4, <3>5, <3>6, WhichSteps
  <2> QED
    BY <2>1, <2>2
<1>2. Spec => [][Next]_vars
  BY PTL DEF Spec
<1> QED
  BY <1>1, <1>2, InvHolds, PTL DEF HistoryKept

(* build_merged_task_summary_memory, for any histories, any cap on a       *)
(* section and any way of cutting an entry: a merged summary records       *)
(* nothing but what the summaries it replaces recorded, and leaves out     *)
(* only what it has no room for after entries as old or older.             *)
THEOREM MergingKeepsFacts == Spec => MergeKeepsFacts
<1>1. TypeOK /\ [Next]_vars =>
        [at = "merging" /\ at' = "merged" =>
           /\ \A j \in DOMAIN messages', f \in Facts : Records(messages'[j], f) =>
                 \E i \in DOMAIN messages, g \in Facts : Records(messages[i], g) /\ f \in {g, Preview[g]}
           /\ \A i \in DOMAIN messages, f \in Facts : Records(messages[i], f) =>
                 \/ \E j \in DOMAIN messages' : \E g \in {f, Preview[f]} : Records(messages'[j], g)
                 \/ /\ Len(messages'[1].facts) = MaxMerged
                    /\ \A g \in Range(messages'[1].facts) :
                         \E j \in 1..i, h \in Facts : Records(messages[j], h) /\ g = Preview[h]]_vars
  <2> SUFFICES ASSUME TypeOK, [Next]_vars, at = "merging", at' = "merged"
               PROVE  /\ \A j \in DOMAIN messages', f \in Facts : Records(messages'[j], f) =>
                            \E i \in DOMAIN messages, g \in Facts :
                               Records(messages[i], g) /\ f \in {g, Preview[g]}
                      /\ \A i \in DOMAIN messages, f \in Facts : Records(messages[i], f) =>
                            \/ \E j \in DOMAIN messages' : \E g \in {f, Preview[f]} : Records(messages'[j], g)
                            \/ /\ Len(messages'[1].facts) = MaxMerged
                               /\ \A g \in Range(messages'[1].facts) :
                                    \E j \in 1..i, h \in Facts : Records(messages[j], h) /\ g = Preview[h]
    OBVIOUS
  <2>0. MergeEnd(messages) > 0 /\ messages' = Merged(messages) /\ messages \in Seq(Message)
    BY WhichSteps DEF MergeSummaries, TypeOK
  <2>1. PICK n \in Nat, e \in Nat :
           /\ n = Len(messages) /\ e = MergeEnd(messages) /\ e \in 1..n /\ DOMAIN messages = 1..n
    BY <2>0, MergeEndRange
  <2>2. PICK t \in Seq(Message) : t = messages'
    BY <2>0, MergedIs
  <2>3. PICK old \in Seq(Message) : old = SubSeq(messages, 1, e)
    <3>1. SubSeq(messages, 1, e) \in Seq(Message)
      BY <2>0, <2>1
    <3> QED
      BY <3>1
  <2>4. Len(old) = e /\ DOMAIN old = 1..e /\ \A i \in 1..e : old[i] = messages[i] /\ messages[i] \in Message
    BY <2>0, <2>1, <2>3
  <2>5. /\ DOMAIN t = 1..(1 + (n - e)) /\ t[1] = MergedSummary(old)
        /\ \A i \in (e + 1)..n : t[1 + (i - e)] = messages[i]
    BY <2>0, <2>1, <2>2, <2>3, MergedIs
  <2>6. PICK ss \in Seq(Seq(Facts)) :
           ss = [i \in DOMAIN old |-> FactsOf(old[i])] /\ Len(ss) = e
           /\ \A i \in 1..e : ss[i] = FactsOf(messages[i])
    <3>1. \A i \in 1..e : FactsOf(old[i]) \in Seq(Facts) /\ FactsOf(old[i]) = FactsOf(messages[i])
      BY <2>4, FactsOfType
    <3> DEFINE ss == [i \in 1..e |-> FactsOf(old[i])]
    <3>2. ss \in Seq(Seq(Facts)) /\ Len(ss) = e /\ \A i \in 1..e : ss[i] = FactsOf(messages[i])
      BY <3>1
    <3>3. ss = [i \in DOMAIN old |-> FactsOf(old[i])]
      BY <2>4
    <3> HIDE DEF ss
    <3> QED
      BY <3>2, <3>3
  <2>7. PICK all, l \in Seq(Facts) : all = FlattenSeq(ss) /\ l = Listed(all)
    BY FlattenType, ListedIs
  <2>8. IsSummary(t[1]) /\ t[1].facts = l /\ \A f : Records(t[1], f) <=> Holds(l, f)
    <3>1. IsSummary(t[1]) /\ t[1].facts = l
      BY <2>5, <2>6, <2>7 DEF MergedSummary, Summary, IsSummary
    <3>2. DOMAIN l = 1..Len(l)
      OBVIOUS
    <3> QED
      BY <3>1, <3>2 DEF Records, Range, Holds
  <2>9. \A f : Holds(l, f) => Holds(all, f)
    BY <2>7, ListedIs
  <2>10. ASSUME NEW i \in 1..e, NEW f, Holds(ss[i], f)
         PROVE  \E g \in Facts : Records(messages[i], g) /\ f = Preview[g]
    <3>1. messages[i] \in Message /\ ss[i] = FactsOf(messages[i])
      BY <2>4, <2>6
    <3> QED
      BY <2>10, <3>1, FactsOfType
  <2>11. ASSUME NEW j \in 1..(1 + (n - e)), NEW f \in Facts, Records(t[j], f)
         PROVE  \E i \in 1..n, g \in Facts : Records(messages[i], g) /\ f \in {g, Preview[g]}
    <3>1. CASE j = 1
      <4>1. Holds(all, f)
        BY <2>8, <2>9, <2>11, <3>1
      <4>2. PICK i \in 1..e : Holds(ss[i], f)
        BY <2>6, <2>7, <4>1, FlattenHolds
      <4>3. PICK g \in Facts : Records(messages[i], g) /\ f = Preview[g]
        BY <2>10, <4>2
      <4>4. i \in 1..n
        BY <2>1
      <4> QED
        BY <4>3, <4>4
    <3>2. CASE j # 1
      <4>1. PICK i \in (e + 1)..n : j = 1 + (i - e)
        <5>1. (j - 1) + e \in (e + 1)..n /\ j = 1 + (((j - 1) + e) - e)
          BY <2>1, <3>2
        <5> QED
          BY <5>1
      <4>2. messages[i] = t[j] /\ i \in 1..n
        BY <2>1, <2>5, <4>1
      <4> QED
        BY <2>11, <4>2
    <3> QED
      BY <3>1, <3>2
  <2>12. ASSUME NEW i \in 1..n, NEW f \in Facts, Records(messages[i], f)
         PROVE  \/ \E j \in 1..(1 + (n - e)) : \E g \in {f, Preview[f]} : Records(t[j], g)
                \/ /\ Len(l) = MaxMerged
                   /\ \A g \in Range(l) :
                        \E j \in 1..i, h \in Facts : Records(messages[j], h) /\ g = Preview[h]
    <3>1. CASE ~(i <= e)
      <4>1. PICK j \in 1..(1 + (n - e)) : j = 1 + (i - e) /\ i \in (e + 1)..n
        BY <2>1, <3>1
      <4>2. t[j] = messages[i]
        BY <2>5, <4>1
      <4> QED
        BY <2>12, <4>2
    <3>2. CASE i <= e
      <4>1. PICK m \in Nat : e = i + m
        <5>1. e - i \in Nat /\ e = i + (e - i)
          BY <3>2
        <5> QED
          BY <5>1
      <4>2. PICK x, y \in Seq(Seq(Facts)) : Halves(ss, i, m, x, y)
        <5>1. Len(ss) = i + m /\ i \in Nat
          BY <2>6, <4>1
        <5> QED
          BY <5>1, Divided
      <4>3. ss = x \o y /\ Len(x) = i /\ \A k \in 1..i : x[k] = ss[k]
        BY <4>2 DEF Halves
      <4>4. PICK p, q \in Seq(Facts) : p = FlattenSeq(x) /\ q = FlattenSeq(y) /\ all = p \o q
        <5>1. FlattenSeq(x) \in Seq(Facts) /\ FlattenSeq(y) \in Seq(Facts)
          BY FlattenType
        <5>2. FlattenSeq(x \o y) = FlattenSeq(x) \o FlattenSeq(y)
          BY FlattenSplit
        <5> QED
          BY <2>7, <4>3, <5>1, <5>2
      <4>5. Holds(x[i], Preview[f])
        <5>1. ss[i] = FactsOf(messages[i]) /\ messages[i] \in Message /\ i \in 1..i
          BY <2>4, <2>6, <3>2
        <5> QED
          BY <2>12, <4>3, <5>1, FactsOfType
      <4>6. Holds(p, Preview[f])
        <5>1. i \in 1..Len(x)
          BY <4>3
        <5> QED
          BY <4>4, <4>5, <5>1, FlattenHolds
      <4>7. CASE Holds(l, Preview[f])
        <5>1. Records(t[1], Preview[f]) /\ 1 \in 1..(1 + (n - e))
          BY <2>1, <2>8, <4>7
        <5> QED
          BY <5>1
      <4>8. CASE Len(l) = MaxMerged /\ \A v : Holds(l, v) => Holds(p, v)
        <5>1. ASSUME NEW g \in Range(l)
              PROVE  \E j \in 1..i, h \in Facts : Records(messages[j], h) /\ g = Preview[h]
          <6>1. Holds(l, g)
            <7>1. DOMAIN l = 1..Len(l)
              OBVIOUS
            <7> QED
              BY <7>1 DEF Range, Holds
          <6>2. PICK k \in 1..i : Holds(x[k], g)
            BY <4>3, <4>4, <4>8, <6>1, FlattenHolds
          <6>3. k \in 1..e /\ Holds(ss[k], g)
            BY <3>2, <4>3, <6>2
          <6> QED
            BY <2>10, <6>3
        <5> QED
          BY <4>8, <5>1
      <4> QED
        BY <2>7, <4>4, <4>6, <4>7, <4>8, ListedFirst
    <3> QED
      BY <3>1, <3>2
  <2>13. /\ DOMAIN messages = 1..n /\ DOMAIN messages' = 1..(1 + (n - e))
         /\ messages' = t /\ messages'[1].facts = l
    BY <2>1, <2>2, <2>5, <2>8
  <2>14. \A j \in DOMAIN messages', f \in Facts : Records(messages'[j], f) =>
            \E i \in DOMAIN messages, g \in Facts : Records(messages[i], g) /\ f \in {g, Preview[g]}
    BY <2>11, <2>13, Zenon
  <2>15. \A i \in DOMAIN messages, f \in Facts : Records(messages[i], f) =>
            \/ \E j \in DOMAIN messages' : \E g \in {f, Preview[f]} : Records(messages'[j], g)
            \/ /\ Len(messages'[1].facts) = MaxMerged
               /\ \A g \in Range(messages'[1].facts) :
                    \E j \in 1..i, h \in Facts : Records(messages[j], h) /\ g = Preview[h]
    <3> SUFFICES ASSUME NEW i \in DOMAIN messages, NEW f \in Facts, Records(messages[i], f)
                 PROVE  \/ \E j \in DOMAIN messages' : \E g \in {f, Preview[f]} : Records(messages'[j], g)
                        \/ /\ Len(messages'[1].facts) = MaxMerged
                           /\ \A g \in Range(messages'[1].facts) :
                                \E j \in 1..i, h \in Facts : Records(messages[j], h) /\ g = Preview[h]
      OBVIOUS
    <3>1. i \in 1..n
      BY <2>13
    <3>2. CASE \E j \in 1..(1 + (n - e)) : \E g \in {f, Preview[f]} : Records(t[j], g)
      <4>1. PICK j \in 1..(1 + (n - e)), g \in {f, Preview[f]} : Records(t[j], g)
        BY <3>2
      <4>2. j \in DOMAIN messages' /\ Records(messages'[j], g)
        BY <2>13, <4>1
      <4> QED
        BY <4>2
    <3>3. CASE /\ Len(l) = MaxMerged
               /\ \A g \in Range(l) :
                    \E j \in 1..i, h \in Facts : Records(messages[j], h) /\ g = Preview[h]
      <4>1. Len(messages'[1].facts) = MaxMerged /\ Range(messages'[1].facts) = Range(l)
        BY <2>13, <3>3
      <4> QED
        BY <3>3, <4>1
    <3> QED
      BY <2>12, <3>1, <3>2, <3>3
  <2> QED
    BY <2>14, <2>15
<1>2. Spec => [][Next]_vars
  BY PTL DEF Spec
<1> QED
  BY <1>1, <1>2, HistoryTypeCorrect, PTL DEF MergeKeepsFacts

(* MessageTokenManagerScreen and compress_message_context, however long    *)
(* the screen has been open: what is cut by hand is what was offered, all  *)
(* of it and nothing else, unless it was replaced; and never the newest    *)
(* messages.                                                               *)
THEOREM ManualIsAsChosen == Spec => ManualAsChosen
<1>1. Inv /\ [Next]_vars =>
        [manual = <<>> /\ manual' # <<>> =>
           /\ Len(manual') = Len(messages) /\ Recent(manual') = Recent(messages)
           /\ replaced \/ Differing(messages, manual') \in offers]_vars
  <2> SUFFICES ASSUME Inv, [Next]_vars, manual = <<>>, manual' # <<>>
               PROVE  /\ Len(manual') = Len(messages) /\ Recent(manual') = Recent(messages)
                      /\ replaced \/ Differing(messages, manual') \in offers
    OBVIOUS
  <2>0. messages \in Seq(Message) /\ Len(messages) \in Nat /\ DOMAIN messages = 1..Len(messages)
    BY DEF Inv, TypeOK
  <2>1. PICK chosen \in offers : manual' = TrimSizes(messages, Compressible(chosen, messages))
    BY WhichSteps DEF StartManual
  <2> DEFINE cut == Compressible(chosen, messages)
             t == TrimSizes(messages, cut)
  <2>2. /\ cut \subseteq OldResults(messages, {"big", "small"}) /\ cut \subseteq 1..Cutoff(messages)
        /\ cut \subseteq DOMAIN messages
        /\ \A i \in cut : messages[i].kind = "tool" /\ messages[i].size \in {"big", "small"}
    BY <2>0, OldResultsAre DEF Compressible
  <2> HIDE DEF cut
  <2>3. /\ t \in Seq(Message) /\ Len(t) = Len(messages)
        /\ \A i \in 1..Len(messages) : i \notin cut => t[i] = messages[i]
        /\ \A i \in 1..Len(messages) : i \in cut => t[i] = [messages[i] EXCEPT !.size = "cut"]
    BY <2>0, <2>2, TrimKeeps
  <2>4. manual' = t
    BY <2>1 DEF cut
  <2> HIDE DEF t
  <2>5. Cutoff(t) = Cutoff(messages) /\ Cutoff(messages) \in 0..Len(messages)
    BY <2>0, <2>3, CutoffRange DEF Cutoff
  <2>6. Recent(t) = Recent(messages)
    <3>1. \A i \in (Cutoff(messages) + 1)..Len(messages) : t[i] = messages[i]
      BY <2>0, <2>2, <2>3, <2>5
    <3>2. \A i \in 1..(Len(messages) - Cutoff(messages)) : Recent(t)[i] = Recent(messages)[i]
      <4> SUFFICES ASSUME NEW i \in 1..(Len(messages) - Cutoff(messages))
                   PROVE  Recent(t)[i] = Recent(messages)[i]
        OBVIOUS
      <4>1. Cutoff(messages) + i \in (Cutoff(messages) + 1)..Len(messages)
        BY <2>0, <2>5
      <4>2. Recent(messages)[i] = messages[Cutoff(messages) + i]
        BY <2>0, RecentIs
      <4>3. Len(t) - Cutoff(t) = Len(messages) - Cutoff(messages)
        BY <2>3, <2>5
      <4>4. Recent(t)[i] = t[Cutoff(t) + i]
        BY <2>3, <4>3, RecentIs
      <4> QED
        BY <2>5, <3>1, <4>1, <4>2, <4>4
    <3>3. \A a, b \in Seq(Message) : Len(a) = Len(b) /\ (\A i \in 1..Len(a) : a[i] = b[i]) => a = b
      OBVIOUS
    <3>4. /\ Recent(t) \in Seq(Message) /\ Len(Recent(t)) = Len(messages) - Cutoff(messages)
          /\ Recent(messages) \in Seq(Message) /\ Len(Recent(messages)) = Len(messages) - Cutoff(messages)
      BY <2>0, <2>3, <2>5, RecentIs
    <3> QED
      BY <3>2, <3>3, <3>4
  <2>7. ASSUME ~replaced PROVE Differing(messages, t) \in offers
    <3>1. chosen \subseteq OldResults(messages, {"big", "small"})
      BY <2>1, <2>7 DEF Inv, ScreenInv
    <3>2. cut = chosen
      BY <3>1 DEF cut, Compressible
    <3>3. ASSUME NEW i \in cut PROVE t[i] # messages[i]
      <4>1. messages[i] \in [kind : {"tool"}, call : ToolCalls, size : Sizes]
        BY <2>0, <2>2, KindFields
      <4>2. messages[i].size # "cut" /\ t[i].size = "cut"
        BY <2>0, <2>2, <2>3, <4>1
      <4> QED
        BY <4>2
    <3>4. Differing(messages, t) = cut
      BY <2>0, <2>2, <2>3, <3>3 DEF Differing
    <3> QED
      BY <3>2, <3>4
  <2> QED
    BY <2>3, <2>4, <2>6, <2>7
<1>2. Spec => [][Next]_vars
  BY PTL DEF Spec
<1> QED
  BY <1>1, <1>2, InvHolds, PTL DEF ManualAsChosen
-----------------------------------------------------------------------------
(* A list in which only the first two are not empty. *)
LEMMA FlattenTwo ==
    ASSUME NEW T, NEW a \in Seq(T), NEW b \in Seq(T), NEW ss \in Seq(Seq(T)), Len(ss) >= 2,
           ss[1] = a, ss[2] = b, \A i \in 3..Len(ss) : ss[i] = <<>>
    PROVE  FlattenSeq(ss) = a \o b
<1>1. PICK f : Flattens(f, ss, Len(ss)) /\ FlattenSeq(ss) = f[Len(ss)]
  <2>1. ss # <<>>
    OBVIOUS
  <2> QED
    BY <2>1, FlattenIs
<1>2. \A i \in 1..Len(ss) : f[i] = IF i = 1 THEN ss[i] ELSE f[i - 1] \o ss[i]
  BY <1>1 DEF Flattens
<1>3. Len(ss) \in Nat /\ a \o b \in Seq(T)
  OBVIOUS
<1> DEFINE S == {n \in Nat : n + 2 <= Len(ss) => f[n + 2] = a \o b}
<1>4. 0 \in S
  <2>1. f[1] = a
    BY <1>2, <1>3
  <2>2. 2 \in 1..Len(ss) /\ 2 # 1 /\ 2 - 1 = 1 /\ 0 + 2 = 2
    BY <1>3
  <2>3. f[2] = f[1] \o ss[2]
    BY <1>2, <2>2
  <2> QED
    BY <2>1, <2>2, <2>3
<1>5. ASSUME NEW n \in S PROVE n + 1 \in S
  <2> SUFFICES ASSUME (n + 1) + 2 <= Len(ss) PROVE f[(n + 1) + 2] = a \o b
    OBVIOUS
  <2>1. n \in Nat /\ n + 2 <= Len(ss) /\ (n + 1) + 2 \in 3..Len(ss) /\ (n + 1) + 2 \in 1..Len(ss)
        /\ (n + 1) + 2 # 1 /\ ((n + 1) + 2) - 1 = n + 2
    BY <1>3
  <2>2. f[(n + 1) + 2] = f[n + 2] \o <<>>
    BY <1>2, <2>1
  <2>3. f[n + 2] = a \o b
    BY <2>1
  <2> QED
    BY <1>3, <2>2, <2>3, ConcatEmptySeq
<1>6. S \in SUBSET Nat
  OBVIOUS
<1> HIDE DEF S
<1>7. S = Nat
  BY <1>4, <1>5, <1>6, SetInduction
<1>8. Len(ss) - 2 \in S /\ (Len(ss) - 2) + 2 = Len(ss)
  BY <1>3, <1>7
<1> QED
  BY <1>1, <1>8 DEF S
-----------------------------------------------------------------------------
(* Histories that a service accepts, as they come about: a request, a      *)
(* summary or a reminder, an answer, or a response with the results of its *)
(* calls, one after another.                                               *)
Exchanged ==
    {b \in Seq(Message) :
        /\ b # <<>> /\ b[1].kind = "ai" /\ Len(b) = 1 + Len(b[1].calls)
        /\ b[1].text \/ b[1].calls # <<>>
        /\ \A k \in 1..Len(b[1].calls) : b[1 + k].kind = "tool" /\ b[1 + k].call = b[1].calls[k]}

Block == {<<m>> : m \in {x \in Message : IsHuman(x)}} \cup Exchanged

Grows(C) == <<>> \in C /\ \A s \in C, b \in Block : s \o b \in C

Conversations == {s \in Seq(Message) : \A C \in SUBSET Seq(Message) : Grows(C) => s \in C}

LEMMA BlockType ==
    ASSUME NEW b \in Block
    PROVE  b \in Seq(Message) /\ Len(b) \in Nat /\ Len(b) >= 1 /\ b # <<>> /\ b[1].kind # "tool"
<1>1. CASE b \in Exchanged
  BY <1>1 DEF Exchanged
<1>2. CASE b \in {<<m>> : m \in {x \in Message : IsHuman(x)}}
  <2>1. PICK m \in Message : IsHuman(m) /\ b = <<m>>
    BY <1>2
  <2>2. <<m>> \in Seq(Message) /\ Len(<<m>>) = 1 /\ <<m>>[1] = m
    OBVIOUS
  <2> QED
    BY <2>1, <2>2 DEF IsHuman
<1> QED
  BY <1>1, <1>2 DEF Block

LEMMA ConversationsGrow == Conversations \subseteq Seq(Message) /\ Grows(Conversations)
<1>1. ASSUME NEW s \in Conversations, NEW b \in Block PROVE s \o b \in Conversations
  <2>1. s \in Seq(Message) /\ b \in Seq(Message) /\ s \o b \in Seq(Message)
    BY BlockType, ConcatProperties DEF Conversations
  <2>2. ASSUME NEW C \in SUBSET Seq(Message), Grows(C) PROVE s \o b \in C
    BY <2>2 DEF Conversations, Grows
  <2> QED
    BY <2>1, <2>2 DEF Conversations
<1>2. <<>> \in Conversations
  BY DEF Conversations, Grows
<1> QED
  BY <1>1, <1>2 DEF Conversations, Grows

LEMMA ConversationInduction ==
    ASSUME NEW C \in SUBSET Seq(Message), Grows(C)
    PROVE  Conversations \subseteq C
BY DEF Conversations
-----------------------------------------------------------------------------
(* What becomes of a conversation on its way to the services.              *)
ProviderMessages ==
    [role : {"user", "assistant"}, text : BOOLEAN, calls : Seq(ToolCalls), results : Seq(ToolCalls)]
OpenAIMessages ==
    [role : {"user"}] \cup [role : {"tool"}, call : ToolCalls]
      \cup [role : {"assistant"}, text : BOOLEAN, calls : Seq(ToolCalls)]

LEMMA MinIs ==
    ASSUME NEW S \in SUBSET Nat, NEW x \in S, \A y \in S : x <= y
    PROVE  Min(S) = x
<1>1. Min(S) \in S /\ \A y \in S : Min(S) <= y
  <2>1. \E z \in S : \A y \in S : z <= y
    OBVIOUS
  <2> QED
    BY <2>1 DEF Min
<1>2. Min(S) \in Nat /\ x \in Nat /\ x <= Min(S) /\ Min(S) <= x
  BY <1>1
<1> QED
  BY <1>2

(* The results of a response end where the next message of another kind    *)
(* stands, or with the list.                                               *)
LEMMA ResultsFromKept ==
    ASSUME NEW s \in Seq(Message), NEW b \in Block, NEW i \in 1..Len(s)
    PROVE  ResultsFrom(s \o b, i) = ResultsFrom(s, i)
<1>1. b \in Seq(Message) /\ Len(b) \in Nat /\ Len(b) >= 1 /\ b[1].kind # "tool"
  BY BlockType
<1>2. PICK n \in Nat : n = Len(s)
  OBVIOUS
<1>3. PICK t \in Seq(Message) : t = s \o b
  BY <1>1, ConcatProperties
<1>4. /\ Len(t) = n + Len(b) /\ DOMAIN s = 1..n /\ DOMAIN t = 1..(n + Len(b))
      /\ \A j \in 1..n : t[j] = s[j]
      /\ t[n + 1] = b[1]
  <2>1. Len(t) = n + Len(b) /\ \A j \in 1..(n + Len(b)) : t[j] = IF j <= n THEN s[j] ELSE b[j - n]
    BY <1>1, <1>2, <1>3, ConcatProperties
  <2>2. n + 1 \in 1..(n + Len(b)) /\ ~(n + 1 <= n) /\ (n + 1) - n = 1
    BY <1>1
  <2>3. t[n + 1] = b[1]
    BY <2>1, <2>2
  <2>4. \A j \in 1..n : j \in 1..(n + Len(b)) /\ j <= n
    BY <1>1
  <2>5. DOMAIN s = 1..n /\ DOMAIN t = 1..(n + Len(b))
    BY <1>2, <2>1
  <2> QED
    BY <2>1, <2>3, <2>4, <2>5
<1> DEFINE others == {j \in DOMAIN s : j > i /\ s[j].kind # "tool"}
           othersAfter == {j \in DOMAIN t : j > i /\ t[j].kind # "tool"}
           last == IF others = {} THEN Len(s) ELSE Min(others) - 1
           lastAfter == IF othersAfter = {} THEN Len(t) ELSE Min(othersAfter) - 1
<1>5. others \in SUBSET Nat /\ othersAfter \in SUBSET Nat /\ i \in 1..n /\ i \in Nat
  BY <1>2, <1>4
<1>6. last = lastAfter /\ last \in Nat /\ last <= n
  <2>1. CASE others = {}
    <3>1. n + 1 \in othersAfter /\ \A j \in othersAfter : n + 1 <= j
      <4>1. n + 1 \in othersAfter
        BY <1>1, <1>4, <1>5
      <4>2. \A j \in 1..n : ~(j > i /\ s[j].kind # "tool")
        BY <1>4, <2>1
      <4>3. ASSUME NEW j \in othersAfter PROVE n + 1 <= j
        <5>1. j \notin 1..n
          BY <1>4, <4>2
        <5> QED
          BY <1>4, <5>1
      <4> QED
        BY <4>1, <4>3
    <3> HIDE DEF others, othersAfter
    <3>2. Min(othersAfter) = n + 1
      BY <1>5, <3>1, MinIs
    <3> QED
      BY <1>2, <2>1, <3>1, <3>2
  <2>2. CASE others # {}
    <3>1. PICK x \in others : \A y \in others : x <= y
      <4> HIDE DEF others, othersAfter
      <4> QED
        BY <1>5, <2>2, LeastElement
    <3>2. x \in 1..n /\ x > i /\ s[x].kind # "tool"
      BY <1>4
    <3>3. x \in othersAfter
      BY <1>1, <1>4, <3>2
    <3>4. ASSUME NEW j \in othersAfter PROVE x <= j
      <4>1. CASE j \in 1..n
        BY <1>4, <3>1, <4>1
      <4>2. CASE j \notin 1..n
        BY <1>4, <3>2, <4>2
      <4> QED
        BY <4>1, <4>2
    <3> HIDE DEF others, othersAfter
    <3>5. Min(others) = x /\ Min(othersAfter) = x
      BY <1>5, <3>1, <3>3, <3>4, MinIs
    <3> QED
      BY <2>2, <3>2, <3>3, <3>5
  <2> QED
    BY <2>1, <2>2
<1> HIDE DEF last, lastAfter
<1>7. ResultsFrom(s, i) = [k \in 1..(last - i + 1) |-> s[i + k - 1].call]
  BY DEF ResultsFrom, last
<1>8. ResultsFrom(t, i) = [k \in 1..(lastAfter - i + 1) |-> t[i + k - 1].call]
  BY DEF ResultsFrom, lastAfter
<1>9. ASSUME NEW k \in 1..(last - i + 1) PROVE t[i + k - 1].call = s[i + k - 1].call
  <2>1. i + k - 1 \in 1..n
    BY <1>5, <1>6
  <2> QED
    BY <1>4, <2>1
<1> QED
  BY <1>3, <1>6, <1>7, <1>8, <1>9
-----------------------------------------------------------------------------
Provided(s) == [i \in DOMAIN s |-> ProviderMessage(s, i)]

FromAssistant(m) == [role |-> "assistant", text |-> m.text, calls |-> m.calls, results |-> <<>>]

LEMMA ProviderMessageIs ==
    ASSUME NEW s \in Seq(Message), NEW i \in DOMAIN s
    PROVE  /\ IsHuman(s[i]) \/ s[i].kind = "ai" \/ s[i].kind = "tool"
           /\ IsHuman(s[i]) => ProviderMessage(s, i) = <<UserMessage>>
           /\ s[i].kind = "ai" => ProviderMessage(s, i) = <<FromAssistant(s[i])>>
           /\ s[i].kind = "tool" /\ i > 1 /\ s[i - 1].kind = "tool" => ProviderMessage(s, i) = <<>>
           /\ s[i].kind = "tool" /\ ~(i > 1 /\ s[i - 1].kind = "tool") =>
                ProviderMessage(s, i) = <<ResultsMessage(ResultsFrom(s, i))>>
<1>1. s[i] \in Message
  OBVIOUS
<1>2. IsHuman(s[i]) \/ s[i].kind = "ai" \/ s[i].kind = "tool"
  BY <1>1 DEF Message, IsHuman
<1> QED
  BY <1>2 DEF ProviderMessage, IsHuman, CallBlocks, FromAssistant

LEMMA BlockIs ==
    ASSUME NEW b \in Block
    PROVE  \/ Len(b) = 1 /\ IsHuman(b[1])
           \/ /\ b[1].kind = "ai" /\ b[1].text \in BOOLEAN /\ b[1].calls \in Seq(ToolCalls)
              /\ Len(b) = 1 + Len(b[1].calls) /\ (b[1].text \/ b[1].calls # <<>>)
              /\ \A k \in 1..Len(b[1].calls) : b[1 + k].kind = "tool" /\ b[1 + k].call = b[1].calls[k]
<1>1. CASE b \in {<<m>> : m \in {x \in Message : IsHuman(x)}}
  <2>1. PICK m \in Message : IsHuman(m) /\ b = <<m>>
    BY <1>1
  <2>2. <<m>> \in Seq(Message) /\ Len(<<m>>) = 1 /\ <<m>>[1] = m
    OBVIOUS
  <2> QED
    BY <2>1, <2>2
<1>2. CASE b \in Exchanged
  <2>1. b[1] \in Message /\ b[1].kind = "ai"
    BY <1>2 DEF Exchanged
  <2> QED
    BY <1>2, <2>1, KindFields DEF Exchanged
<1> QED
  BY <1>1, <1>2 DEF Block

(* The results in a block are those of its response.                       *)
LEMMA ResultsOfBlock ==
    ASSUME NEW s \in Seq(Message), NEW b \in Block, NEW j \in 2..Len(b)
    PROVE  ResultsFrom(s \o b, Len(s) + j) = [k \in 1..(Len(b) - j + 1) |-> b[j + k - 1].call]
<1>1. b \in Seq(Message) /\ Len(b) \in Nat /\ Len(s) \in Nat
  BY BlockType
<1>2. \A k \in 2..Len(b) : b[k].kind = "tool"
  <2>1. Len(b) # 1
    <3>1. PICK l \in Nat : l = Len(b)
      BY <1>1
    <3>2. j \in 2..l
      BY <3>1
    <3> QED
      BY <3>1, <3>2
  <2>2. /\ Len(b) = 1 + Len(b[1].calls) /\ b[1].calls \in Seq(ToolCalls)
        /\ \A k \in 1..Len(b[1].calls) : b[1 + k].kind = "tool"
    BY <2>1, BlockIs
  <2> SUFFICES ASSUME NEW k \in 2..Len(b) PROVE b[k].kind = "tool"
    OBVIOUS
  <2>3. k - 1 \in 1..Len(b[1].calls) /\ 1 + (k - 1) = k
    BY <1>1, <2>2
  <2> QED
    BY <2>2, <2>3
<1>3. PICK t \in Seq(Message), n \in Nat : t = s \o b /\ n = Len(s)
  BY <1>1, Joined
<1>4. /\ Len(t) = n + Len(b) /\ DOMAIN t = 1..(n + Len(b))
      /\ \A x \in 1..Len(b) : t[n + x] = b[x]
      /\ \A i \in 1..(n + Len(b)) : i \in 1..n \/ \E x \in 1..Len(b) : i = n + x
  BY <1>1, <1>3, Joined
<1>5. {x \in DOMAIN t : x > n + j /\ t[x].kind # "tool"} = {}
  <2> SUFFICES ASSUME NEW x \in DOMAIN t, x > n + j PROVE t[x].kind = "tool"
    OBVIOUS
  <2>1. PICK k \in 1..Len(b) : x = n + k
    BY <1>1, <1>4
  <2>2. k \in 2..Len(b)
    BY <1>1, <2>1
  <2> QED
    BY <1>2, <1>4, <2>1, <2>2
<1>6. ResultsFrom(t, n + j) = [k \in 1..(Len(t) - (n + j) + 1) |-> t[(n + j) + k - 1].call]
  BY <1>5 DEF ResultsFrom
<1>7. Len(t) - (n + j) + 1 = Len(b) - j + 1
  BY <1>1, <1>4
<1>8. ASSUME NEW k \in 1..(Len(b) - j + 1) PROVE t[(n + j) + k - 1].call = b[j + k - 1].call
  <2>1. j + k - 1 \in 1..Len(b) /\ (n + j) + k - 1 = n + (j + k - 1)
    BY <1>1
  <2> QED
    BY <1>4, <2>1
<1> QED
  BY <1>3, <1>6, <1>7, <1>8
-----------------------------------------------------------------------------
LEMMA ProvidedJoined ==
    ASSUME NEW s \in Seq(Message), NEW b \in Block,
           Provided(s) \in Seq(Seq(ProviderMessages)), Provided(b) \in Seq(Seq(ProviderMessages))
    PROVE  Provided(s \o b) = Provided(s) \o Provided(b)
<1>1. b \in Seq(Message) /\ b[1].kind # "tool"
  BY BlockType
<1>2. PICK t \in Seq(Message), n \in Nat, m \in Nat : t = s \o b /\ n = Len(s) /\ m = Len(b)
  BY <1>1, Joined
<1>3. /\ DOMAIN s = 1..n /\ DOMAIN b = 1..m /\ DOMAIN t = 1..(n + m)
      /\ \A i \in 1..n : t[i] = s[i]
      /\ \A j \in 1..m : t[n + j] = b[j]
      /\ \A i \in 1..(n + m) : i \in 1..n \/ \E j \in 1..m : i = n + j
  BY <1>1, <1>2, Joined
<1>4. PICK p, q \in Seq(Seq(ProviderMessages)) : p = Provided(s) /\ q = Provided(b)
  OBVIOUS
<1>5. /\ DOMAIN p = 1..n /\ DOMAIN q = 1..m
      /\ \A i \in 1..n : p[i] = ProviderMessage(s, i)
      /\ \A j \in 1..m : q[j] = ProviderMessage(b, j)
  BY <1>3, <1>4 DEF Provided
<1>6. Len(p) = n /\ Len(q) = m
  BY <1>2, <1>5, LenProperties
<1>7. ASSUME NEW i \in 1..n PROVE ProviderMessage(t, i) = ProviderMessage(s, i)
  <2>1. i \in DOMAIN s /\ i \in DOMAIN t /\ t[i] = s[i] /\ (i > 1 => t[i - 1] = s[i - 1])
    BY <1>3
  <2>2. ResultsFrom(t, i) = ResultsFrom(s, i)
    BY <1>2, ResultsFromKept
  <2> QED
    BY <2>1, <2>2 DEF ProviderMessage, CallBlocks
<1>8. ASSUME NEW j \in 1..m PROVE ProviderMessage(t, n + j) = ProviderMessage(b, j)
  <2>1. n + j \in DOMAIN t /\ j \in DOMAIN b /\ t[n + j] = b[j]
    BY <1>3
  <2>2. CASE b[j].kind # "tool"
    <3>1. t[n + j].kind # "tool"
      BY <2>1, <2>2
    <3> QED
      BY <1>1, <2>1, <2>2, <3>1, ProviderMessageIs
  <2>3. CASE b[j].kind = "tool"
    <3>1. j # 1 /\ j \in 2..m
      BY <1>1, <2>3
    <3>2. j - 1 \in 1..m /\ (n + j) - 1 = n + (j - 1) /\ n + j > 1 /\ j > 1
      BY <3>1
    <3>3. t[(n + j) - 1] = b[j - 1]
      BY <1>3, <3>2
    <3>4. ResultsFrom(t, n + j) = [k \in 1..(m - j + 1) |-> b[j + k - 1].call]
      BY <1>2, <3>1, ResultsOfBlock
    <3>5. <<>> \o b = b /\ Len(<<>>) = 0 /\ <<>> \in Seq(Message)
      BY <1>1, ConcatEmptySeq
    <3>6. j \in 2..Len(b)
      BY <1>2, <3>1
    <3>7. ResultsFrom(<<>> \o b, Len(<<>>) + j) = [k \in 1..(Len(b) - j + 1) |-> b[j + k - 1].call]
      BY <3>5, <3>6, ResultsOfBlock
    <3>9. 0 + j = j
      OBVIOUS
    <3>8. ResultsFrom(b, j) = ResultsFrom(t, n + j)
      BY <1>2, <3>4, <3>5, <3>7, <3>9
    <3> QED
      BY <2>1, <2>3, <3>2, <3>3, <3>8 DEF ProviderMessage, CallBlocks
  <2> QED
    BY <2>2, <2>3
<1>9. /\ p \o q \in Seq(Seq(ProviderMessages)) /\ DOMAIN (p \o q) = 1..(n + m)
      /\ \A i \in 1..n : (p \o q)[i] = p[i]
      /\ \A j \in 1..m : (p \o q)[n + j] = q[j]
  <2>1. /\ p \o q \in Seq(Seq(ProviderMessages)) /\ DOMAIN (p \o q) = 1..(Len(p) + Len(q))
        /\ \A i \in 1..Len(p) : (p \o q)[i] = p[i]
        /\ \A j \in 1..Len(q) : (p \o q)[Len(p) + j] = q[j]
    BY Joined
  <2> QED
    BY <1>6, <2>1
<1>10. PICK r \in Seq(Seq(ProviderMessages)) : r = p \o q
  BY <1>9
<1>11. ASSUME NEW i \in 1..(n + m) PROVE r[i] = ProviderMessage(t, i)
  <2>1. CASE i \in 1..n
    BY <1>5, <1>7, <1>9, <1>10, <2>1
  <2>2. CASE i \notin 1..n
    <3>1. PICK j \in 1..m : i = n + j
      BY <1>3, <2>2
    <3> QED
      BY <1>5, <1>8, <1>9, <1>10, <3>1
  <2> QED
    BY <2>1, <2>2
<1>12. r = [i \in 1..(n + m) |-> r[i]]
  <2>1. DOMAIN r = 1..(n + m)
    BY <1>9, <1>10
  <2>2. r = [i \in DOMAIN r |-> r[i]]
    OBVIOUS
  <2> QED
    BY <2>1, <2>2
<1>13. Provided(t) = [i \in 1..(n + m) |-> ProviderMessage(t, i)]
  BY <1>3 DEF Provided
<1>14. Provided(t) = r
  BY <1>11, <1>12, <1>13
<1> QED
  BY <1>2, <1>4, <1>10, <1>14

(* What a block is sent as: one message, or two if it holds results.       *)
LEMMA BlockProvided ==
    ASSUME NEW b \in Block
    PROVE  /\ Provided(b) \in Seq(Seq(ProviderMessages))
           /\ \/ Len(b) = 1 /\ ToProvider(b) = <<UserMessage>>
              \/ \E c \in Seq(ToolCalls), x \in BOOLEAN :
                   LET a == [role |-> "assistant", text |-> x, calls |-> c, results |-> <<>>]
                   IN /\ Len(b) = 1 + Len(c) /\ (x \/ c # <<>>)
                      /\ ToProvider(b) = IF c = <<>> THEN <<a>> ELSE <<a>> \o <<ResultsMessage(c)>>
<1>1. b \in Seq(Message) /\ Len(b) \in Nat /\ Len(b) >= 1 /\ DOMAIN b = 1..Len(b)
  BY BlockType
<1>2. /\ UserMessage \in ProviderMessages
      /\ \A c \in Seq(ToolCalls) : ResultsMessage(c) \in ProviderMessages
      /\ \A c \in Seq(ToolCalls), x \in BOOLEAN :
           [role |-> "assistant", text |-> x, calls |-> c, results |-> <<>>] \in ProviderMessages
  <2>1. <<>> \in Seq(ToolCalls)
    OBVIOUS
  <2> QED
    BY <2>1 DEF UserMessage, ResultsMessage, ProviderMessages
<1>3. ToProvider(b) = FlattenSeq(Provided(b)) /\ Provided(b) = [i \in 1..Len(b) |-> ProviderMessage(b, i)]
  BY <1>1 DEF ToProvider, Provided
<1>4. CASE Len(b) = 1 /\ IsHuman(b[1])
  <2>1. ProviderMessage(b, 1) = <<UserMessage>>
    BY <1>1, <1>4, ProviderMessageIs
  <2>2. <<UserMessage>> \in Seq(ProviderMessages)
    BY <1>2
  <2>3. PICK e \in Seq(ProviderMessages) : e = <<UserMessage>>
    BY <2>2
  <2>4. Provided(b) = <<e>>
    BY <1>3, <1>4, <2>1, <2>3
  <2>5. <<e>> \in Seq(Seq(ProviderMessages)) /\ FlattenSeq(<<e>>) = e
    BY FlattenOne
  <2> QED
    BY <1>3, <1>4, <2>3, <2>4, <2>5
<1>5. ASSUME b[1].kind = "ai", b[1].text \in BOOLEAN, b[1].calls \in Seq(ToolCalls),
             Len(b) = 1 + Len(b[1].calls), b[1].text \/ b[1].calls # <<>>,
             \A k \in 1..Len(b[1].calls) : b[1 + k].kind = "tool" /\ b[1 + k].call = b[1].calls[k]
      PROVE  /\ Provided(b) \in Seq(Seq(ProviderMessages))
             /\ \E c \in Seq(ToolCalls), x \in BOOLEAN :
                  LET a == [role |-> "assistant", text |-> x, calls |-> c, results |-> <<>>]
                  IN /\ Len(b) = 1 + Len(c) /\ (x \/ c # <<>>)
                     /\ ToProvider(b) = IF c = <<>> THEN <<a>> ELSE <<a>> \o <<ResultsMessage(c)>>
  <2>1. PICK c \in Seq(ToolCalls), x \in BOOLEAN : c = b[1].calls /\ x = b[1].text
    BY <1>5
  <2>2. PICK a \in ProviderMessages :
          a = [role |-> "assistant", text |-> x, calls |-> c, results |-> <<>>]
    BY <1>2
  <2>3. ProviderMessage(b, 1) = <<a>>
    BY <1>1, <1>5, <2>1, <2>2, ProviderMessageIs DEF FromAssistant
  <2>4. <<a>> \in Seq(ProviderMessages)
    OBVIOUS
  <2>5. CASE c = <<>>
    <3>1. Len(b) = 1
      BY <1>5, <2>1, <2>5
    <3>2. PICK e \in Seq(ProviderMessages) : e = <<a>>
      BY <2>4
    <3>3. Provided(b) = <<e>>
      BY <1>3, <2>3, <3>1, <3>2
    <3>4. <<e>> \in Seq(Seq(ProviderMessages)) /\ FlattenSeq(<<e>>) = e
      BY FlattenOne
    <3> QED
      BY <1>3, <1>5, <2>1, <2>2, <2>5, <3>2, <3>3, <3>4
  <2>6. CASE c # <<>>
    <3>1. PICK n \in Nat : n = Len(c) /\ n >= 1 /\ Len(b) = 1 + n
      BY <1>5, <2>1, <2>6
    <3>2. \A i \in 2..(1 + n) : b[i].kind = "tool"
      <4> SUFFICES ASSUME NEW i \in 2..(1 + n) PROVE b[i].kind = "tool"
        OBVIOUS
      <4>1. i - 1 \in 1..n /\ 1 + (i - 1) = i
        BY <3>1
      <4> QED
        BY <1>5, <2>1, <3>1, <4>1
    <3>3. ResultsFrom(b, 2) = c
      <4>1. <<>> \o b = b /\ Len(<<>>) = 0 /\ <<>> \in Seq(Message)
        BY <1>1, ConcatEmptySeq
      <4>2. 2 \in 2..Len(b)
        BY <1>1, <3>1
      <4>3. ResultsFrom(<<>> \o b, Len(<<>>) + 2) = [k \in 1..(Len(b) - 2 + 1) |-> b[2 + k - 1].call]
        BY <4>1, <4>2, ResultsOfBlock
      <4>4. 0 + 2 = 2 /\ Len(b) - 2 + 1 = n
        BY <3>1
      <4>5. ResultsFrom(b, 2) = [k \in 1..n |-> b[2 + k - 1].call]
        BY <4>1, <4>3, <4>4
      <4>6. \A k \in 1..n : 2 + k - 1 = 1 + k
        BY <3>1
      <4>7. \A k \in 1..n : b[2 + k - 1].call = c[k]
        BY <1>5, <2>1, <3>1, <4>6
      <4>8. c = [k \in 1..n |-> c[k]]
        BY <3>1
      <4> QED
        BY <4>5, <4>7, <4>8
    <3>4. 2 \in DOMAIN b /\ b[2].kind = "tool" /\ b[2 - 1].kind # "tool"
      <4>1. 2 \in 1..(1 + n) /\ 2 \in 2..(1 + n) /\ 2 - 1 = 1
        BY <3>1
      <4> QED
        BY <1>1, <1>5, <3>1, <3>2, <4>1
    <3>5. ProviderMessage(b, 2) = <<ResultsMessage(c)>>
      BY <1>1, <3>3, <3>4, ProviderMessageIs
    <3>6. ASSUME NEW i \in 3..(1 + n) PROVE ProviderMessage(b, i) = <<>>
      <4>1. i \in DOMAIN b /\ i > 1 /\ i \in 2..(1 + n) /\ i - 1 \in 2..(1 + n)
        BY <1>1, <3>1
      <4>2. b[i].kind = "tool" /\ b[i - 1].kind = "tool"
        BY <3>2, <4>1
      <4> QED
        BY <1>1, <4>1, <4>2, ProviderMessageIs
    <3>7. PICK r \in ProviderMessages : r = ResultsMessage(c)
      BY <1>2
    <3>8. <<r>> \in Seq(ProviderMessages) /\ <<>> \in Seq(ProviderMessages)
      OBVIOUS
    <3>9. \A i \in 1..(1 + n) : ProviderMessage(b, i) \in Seq(ProviderMessages)
      <4> SUFFICES ASSUME NEW i \in 1..(1 + n) PROVE ProviderMessage(b, i) \in Seq(ProviderMessages)
        OBVIOUS
      <4>1. i = 1 \/ i = 2 \/ i \in 3..(1 + n)
        BY <3>1
      <4>2. i = 1 => ProviderMessage(b, i) \in Seq(ProviderMessages)
        BY <2>3, <2>4
      <4>3. i = 2 => ProviderMessage(b, i) \in Seq(ProviderMessages)
        BY <3>5, <3>7, <3>8
      <4> QED
        BY <3>6, <3>8, <4>1, <4>2, <4>3
    <3>10. Provided(b) \in Seq(Seq(ProviderMessages)) /\ Len(Provided(b)) = 1 + n
           /\ \A i \in 1..(1 + n) : Provided(b)[i] = ProviderMessage(b, i)
      <4>1. Provided(b) = [i \in 1..(1 + n) |-> ProviderMessage(b, i)]
        BY <1>3, <3>1
      <4>2. Provided(b) \in Seq(Seq(ProviderMessages))
        BY <3>1, <3>9, <4>1
      <4> QED
        BY <3>1, <4>1, <4>2
    <3>11. PICK u, v \in Seq(ProviderMessages), ss \in Seq(Seq(ProviderMessages)) :
             u = <<a>> /\ v = <<r>> /\ ss = Provided(b)
      BY <2>4, <3>8, <3>10
    <3>12. Len(ss) >= 2 /\ ss[1] = u /\ ss[2] = v /\ \A i \in 3..Len(ss) : ss[i] = <<>>
      <4>1. Len(ss) = 1 + n /\ \A i \in 1..(1 + n) : ss[i] = ProviderMessage(b, i)
        BY <3>10, <3>11
      <4>2. 1 \in 1..(1 + n) /\ 2 \in 1..(1 + n) /\ 1 + n >= 2
            /\ \A i \in 3..(1 + n) : i \in 1..(1 + n)
        BY <3>1
      <4>3. ss[1] = u
        BY <2>3, <3>11, <4>1, <4>2
      <4>4. ss[2] = v
        BY <3>5, <3>7, <3>11, <4>1, <4>2
      <4>5. \A i \in 3..(1 + n) : ss[i] = <<>>
        BY <3>6, <4>1, <4>2
      <4> QED
        BY <4>1, <4>2, <4>3, <4>4, <4>5
    <3>13. FlattenSeq(ss) = u \o v
      BY <3>12, FlattenTwo
    <3>14. ToProvider(b) = <<a>> \o <<ResultsMessage(c)>>
      BY <1>3, <3>7, <3>11, <3>13
    <3> QED
      BY <1>5, <2>1, <2>2, <2>6, <3>10, <3>14
  <2> QED
    BY <2>5, <2>6
<1> QED
  BY <1>4, <1>5, BlockIs
-----------------------------------------------------------------------------
(* The second conversion.                                                  *)
LEMMA ConvertedType ==
    ASSUME NEW p \in ProviderMessages
    PROVE  Converted(p) \in Seq(OpenAIMessages)
<1>1. /\ p.results \in Seq(ToolCalls) /\ p.calls \in Seq(ToolCalls) /\ p.text \in BOOLEAN
      /\ p.role \in {"user", "assistant"}
  BY DEF ProviderMessages
<1>2. CASE p.results # <<>>
  <2>1. PICK c \in Seq(ToolCalls) : c = p.results
    BY <1>1
  <2>2. \A k \in DOMAIN c : [role |-> "tool", call |-> c[k]] \in OpenAIMessages
    BY DEF OpenAIMessages
  <2>3. DOMAIN c = 1..Len(c) /\ Len(c) \in Nat
    OBVIOUS
  <2>4. [k \in DOMAIN c |-> [role |-> "tool", call |-> c[k]]] \in Seq(OpenAIMessages)
    BY <2>2, <2>3
  <2> QED
    BY <1>2, <2>1, <2>4 DEF Converted
<1>3. CASE p.results = <<>> /\ p.role = "user"
  <2>1. [role |-> "user"] \in OpenAIMessages
    BY DEF OpenAIMessages
  <2> QED
    BY <1>3, <2>1 DEF Converted
<1>4. CASE p.results = <<>> /\ p.role # "user"
  <2>1. [role |-> "assistant", text |-> p.text, calls |-> p.calls] \in OpenAIMessages
    BY <1>1 DEF OpenAIMessages
  <2> QED
    BY <1>4, <2>1 DEF Converted
<1> QED
  BY <1>2, <1>3, <1>4

LEMMA ToOpenAIJoined ==
    ASSUME NEW p \in Seq(ProviderMessages), NEW q \in Seq(ProviderMessages)
    PROVE  /\ ToOpenAI(p) \in Seq(OpenAIMessages) /\ ToOpenAI(q) \in Seq(OpenAIMessages)
           /\ ToOpenAI(p \o q) = ToOpenAI(p) \o ToOpenAI(q)
<1> DEFINE conv(x) == [i \in DOMAIN x |-> Converted(x[i])]
<1>1. ASSUME NEW x \in Seq(ProviderMessages)
      PROVE  /\ conv(x) \in Seq(Seq(OpenAIMessages)) /\ Len(conv(x)) = Len(x)
             /\ \A i \in 1..Len(x) : conv(x)[i] = Converted(x[i])
             /\ ToOpenAI(x) = FlattenSeq(conv(x))
  <2>1. DOMAIN x = 1..Len(x) /\ Len(x) \in Nat /\ \A i \in DOMAIN x : x[i] \in ProviderMessages
    OBVIOUS
  <2>2. \A i \in DOMAIN x : Converted(x[i]) \in Seq(OpenAIMessages)
    BY <2>1, ConvertedType
  <2>3. conv(x) \in Seq(Seq(OpenAIMessages)) /\ Len(conv(x)) = Len(x)
    BY <2>1, <2>2
  <2>4. \A i \in 1..Len(x) : conv(x)[i] = Converted(x[i])
    BY <2>1
  <2> QED
    BY <2>3, <2>4 DEF ToOpenAI
<1> HIDE DEF conv
<1>2. PICK pq \in Seq(ProviderMessages) : pq = p \o q
  BY ConcatProperties
<1>3. PICK a, b, c \in Seq(Seq(OpenAIMessages)) : a = conv(p) /\ b = conv(q) /\ c = conv(pq)
  BY <1>1
<1>4. PICK n, m \in Nat : n = Len(p) /\ m = Len(q)
  OBVIOUS
<1>5. /\ Len(pq) = n + m
      /\ \A i \in 1..n : pq[i] = p[i]
      /\ \A j \in 1..m : pq[n + j] = q[j]
      /\ \A i \in 1..(n + m) : i \in 1..n \/ \E j \in 1..m : i = n + j
  BY <1>2, <1>4, Joined
<1>6. /\ Len(a) = n /\ Len(b) = m /\ Len(c) = n + m
      /\ \A i \in 1..n : a[i] = Converted(p[i])
      /\ \A i \in 1..m : b[i] = Converted(q[i])
      /\ \A i \in 1..(n + m) : c[i] = Converted(pq[i])
  BY <1>1, <1>3, <1>4, <1>5
<1>7. PICK d \in Seq(Seq(OpenAIMessages)) : d = a \o b
  BY ConcatProperties
<1>8. /\ Len(d) = n + m
      /\ \A i \in 1..n : d[i] = a[i]
      /\ \A j \in 1..m : d[n + j] = b[j]
  <2>1. /\ Len(a \o b) = Len(a) + Len(b)
        /\ \A i \in 1..Len(a) : (a \o b)[i] = a[i]
        /\ \A j \in 1..Len(b) : (a \o b)[Len(a) + j] = b[j]
    BY Joined
  <2> QED
    BY <1>6, <1>7, <2>1
<1>9. ASSUME NEW i \in 1..(n + m) PROVE c[i] = d[i]
  <2>1. CASE i \in 1..n
    BY <1>5, <1>6, <1>8, <2>1
  <2>2. CASE i \notin 1..n
    <3>1. PICK j \in 1..m : i = n + j
      BY <1>5, <2>2
    <3>2. c[i] = Converted(pq[i]) /\ pq[i] = q[j] /\ d[i] = b[j] /\ b[j] = Converted(q[j])
      BY <1>5, <1>6, <1>8, <3>1
    <3> QED
      BY <3>2
  <2> QED
    BY <2>1, <2>2
<1>10. c = d
  <2>1. Len(c) = Len(d) /\ \A i \in 1..Len(c) : c[i] = d[i]
    BY <1>6, <1>8, <1>9
  <2> QED
    BY <2>1, SeqEqual
<1>11. FlattenSeq(a \o b) = FlattenSeq(a) \o FlattenSeq(b)
  BY FlattenSplit
<1>12. FlattenSeq(a) \in Seq(OpenAIMessages) /\ FlattenSeq(b) \in Seq(OpenAIMessages)
  BY FlattenType
<1>13. ToOpenAI(p) = FlattenSeq(a) /\ ToOpenAI(q) = FlattenSeq(b) /\ ToOpenAI(pq) = FlattenSeq(c)
  BY <1>1, <1>3
<1> QED
  BY <1>2, <1>7, <1>10, <1>11, <1>12, <1>13
-----------------------------------------------------------------------------
(* Two lists that are accepted are accepted one after the other.           *)
LEMMA AnthropicAcceptsJoined ==
    ASSUME NEW p \in Seq(ProviderMessages), NEW q \in Seq(ProviderMessages),
           AnthropicAccepts(p), AnthropicAccepts(q)
    PROVE  AnthropicAccepts(p \o q)
<1>1. PICK r \in Seq(ProviderMessages), n \in Nat, m \in Nat : r = p \o q /\ n = Len(p) /\ m = Len(q)
  BY Joined
<1>2. /\ Len(r) = n + m /\ DOMAIN r = 1..(n + m) /\ DOMAIN p = 1..n /\ DOMAIN q = 1..m
      /\ \A i \in 1..n : r[i] = p[i]
      /\ \A j \in 1..m : r[n + j] = q[j]
      /\ \A i \in 1..(n + m) : i \in 1..n \/ \E j \in 1..m : i = n + j
  BY <1>1, Joined
<1>3. SUFFICES ASSUME NEW i \in 1..(n + m)
               PROVE  /\ r[i].calls # <<>> => i < Len(r) /\ r[i + 1].results = r[i].calls
                      /\ r[i].results # <<>> => i > 1 /\ r[i - 1].calls = r[i].results
                      /\ r[i].role = "assistant" => r[i].text \/ r[i].calls # <<>>
  BY <1>1, <1>2 DEF AnthropicAccepts
<1>4. CASE i \in 1..n
  <2>1. /\ p[i].calls # <<>> => i < n /\ p[i + 1].results = p[i].calls
        /\ p[i].results # <<>> => i > 1 /\ p[i - 1].calls = p[i].results
        /\ p[i].role = "assistant" => p[i].text \/ p[i].calls # <<>>
    BY <1>1, <1>2, <1>4 DEF AnthropicAccepts
  <2>2. r[i] = p[i] /\ (i < n => r[i + 1] = p[i + 1] /\ i < n + m) /\ (i > 1 => r[i - 1] = p[i - 1])
    BY <1>2, <1>4
  <2> QED
    BY <1>2, <2>1, <2>2
<1>5. CASE i \notin 1..n
  <2>1. PICK j \in 1..m : i = n + j
    BY <1>2, <1>5
  <2>2. /\ q[j].calls # <<>> => j < m /\ q[j + 1].results = q[j].calls
        /\ q[j].results # <<>> => j > 1 /\ q[j - 1].calls = q[j].results
        /\ q[j].role = "assistant" => q[j].text \/ q[j].calls # <<>>
    BY <1>1, <1>2 DEF AnthropicAccepts
  <2>3. r[i] = q[j]
    BY <1>2, <2>1
  <2>4. ASSUME j < m PROVE r[i + 1] = q[j + 1] /\ i < n + m
    <3>1. PICK k \in 1..m : k = j + 1 /\ i + 1 = n + k /\ i < n + m
      BY <2>1, <2>4
    <3>2. r[n + k] = q[k]
      BY <1>2
    <3> QED
      BY <3>1, <3>2
  <2>5. ASSUME j > 1 PROVE r[i - 1] = q[j - 1] /\ i > 1
    <3>1. PICK k \in 1..m : k = j - 1 /\ i - 1 = n + k /\ i > 1
      BY <2>1, <2>5
    <3> QED
      BY <1>2, <3>1
  <2> QED
    BY <1>2, <2>2, <2>3, <2>4, <2>5
<1> QED
  BY <1>4, <1>5

LEMMA OpenAIAcceptsJoined ==
    ASSUME NEW p \in Seq(OpenAIMessages), NEW q \in Seq(OpenAIMessages),
           OpenAIAccepts(p), OpenAIAccepts(q)
    PROVE  OpenAIAccepts(p \o q)
<1>1. PICK r \in Seq(OpenAIMessages), n \in Nat, m \in Nat : r = p \o q /\ n = Len(p) /\ m = Len(q)
  BY Joined
<1>2. /\ Len(r) = n + m /\ DOMAIN r = 1..(n + m) /\ DOMAIN p = 1..n /\ DOMAIN q = 1..m
      /\ \A i \in 1..n : r[i] = p[i]
      /\ \A j \in 1..m : r[n + j] = q[j]
      /\ \A i \in 1..(n + m) : i \in 1..n \/ \E j \in 1..m : i = n + j
  BY <1>1, Joined
<1>5. \A i \in 1..n : p[i].role = "assistant" => \A j \in DOMAIN p[i].calls :
         i + j <= n /\ p[i + j].role = "tool" /\ p[i + j].call = p[i].calls[j]
  <2>1. \A i \in DOMAIN p : p[i].role = "assistant" => \A j \in DOMAIN p[i].calls :
          i + j <= Len(p) /\ p[i + j].role = "tool" /\ p[i + j].call = p[i].calls[j]
    BY Zenon DEF OpenAIAccepts
  <2> QED
    BY <1>1, <1>2, <2>1
<1>6. \A i \in 1..m : q[i].role = "assistant" => \A j \in DOMAIN q[i].calls :
         i + j <= m /\ q[i + j].role = "tool" /\ q[i + j].call = q[i].calls[j]
  <2>1. \A i \in DOMAIN q : q[i].role = "assistant" => \A j \in DOMAIN q[i].calls :
          i + j <= Len(q) /\ q[i + j].role = "tool" /\ q[i + j].call = q[i].calls[j]
    BY Zenon DEF OpenAIAccepts
  <2> QED
    BY <1>1, <1>2, <2>1
<1>0. \A x \in OpenAIMessages : x.role = "assistant" => x.calls \in Seq(ToolCalls)
  BY DEF OpenAIMessages
<1>3. ASSUME NEW i \in 1..(n + m), r[i].role = "assistant", NEW j \in DOMAIN r[i].calls
      PROVE  i + j <= n + m /\ r[i + j].role = "tool" /\ r[i + j].call = r[i].calls[j]
  <2>0. j \in Nat /\ j >= 1
    <3>1. PICK c \in Seq(ToolCalls) : c = r[i].calls
      BY <1>0, <1>2, <1>3
    <3>2. j \in DOMAIN c
      BY <3>1
    <3> QED
      BY <3>2
  <2>1. CASE i \in 1..n
    <3>1. r[i] = p[i]
      BY <1>2, <2>1
    <3>2. i + j <= n /\ p[i + j].role = "tool" /\ p[i + j].call = p[i].calls[j]
      BY <1>3, <1>5, <2>1, <3>1
    <3>3. i + j \in 1..n /\ i + j <= n + m
      BY <2>0, <2>1, <3>2
    <3> QED
      BY <1>2, <3>1, <3>2, <3>3
  <2>2. CASE i \notin 1..n
    <3>1. PICK k \in 1..m : i = n + k
      BY <1>2, <2>2
    <3>2. r[i] = q[k]
      BY <1>2, <3>1
    <3>3. k + j <= m /\ q[k + j].role = "tool" /\ q[k + j].call = q[k].calls[j]
      BY <1>3, <1>6, <3>1, <3>2
    <3>4. k + j \in 1..m /\ i + j = n + (k + j) /\ i + j <= n + m
      BY <2>0, <3>1, <3>3
    <3> QED
      BY <1>2, <3>2, <3>3, <3>4
  <2> QED
    BY <2>1, <2>2
<1>4. ASSUME NEW k \in 1..(n + m), r[k].role = "tool"
      PROVE  \E i \in 1..(k - 1) : r[i].role = "assistant" /\ k - i \in DOMAIN r[i].calls
  <2>1. CASE k \in 1..n
    <3>1. PICK i \in 1..(k - 1) : p[i].role = "assistant" /\ k - i \in DOMAIN p[i].calls
      BY <1>2, <1>4, <2>1 DEF OpenAIAccepts
    <3>2. r[i] = p[i]
      BY <1>2, <2>1
    <3> QED
      BY <3>1, <3>2
  <2>2. CASE k \notin 1..n
    <3>1. PICK j \in 1..m : k = n + j
      BY <1>2, <2>2
    <3>2. q[j].role = "tool"
      BY <1>2, <1>4, <3>1
    <3>3. PICK i \in 1..(j - 1) : q[i].role = "assistant" /\ j - i \in DOMAIN q[i].calls
      BY <1>2, <3>2 DEF OpenAIAccepts
    <3>4. i \in 1..m /\ n + i \in 1..(k - 1) /\ k - (n + i) = j - i
      BY <3>1
    <3>5. r[n + i] = q[i]
      BY <1>2, <3>4
    <3>6. PICK h : h = n + i
      OBVIOUS
    <3>7. h \in 1..(k - 1) /\ r[h].role = "assistant" /\ k - h \in DOMAIN r[h].calls
      <4>1. h \in 1..(k - 1) /\ k - h = j - i
        BY <3>4, <3>6
      <4>2. r[h] = q[i]
        BY <3>5, <3>6
      <4> QED
        BY <3>3, <4>1, <4>2, Zenon
    <3> QED
      BY <3>7
  <2> QED
    BY <2>1, <2>2
<1>7. OpenAIAccepts(r)
  <2>1. DOMAIN r = 1..(n + m) /\ Len(r) = n + m
    BY <1>2
  <2>2. \A i \in DOMAIN r : r[i].role = "assistant" =>
          \A j \in DOMAIN r[i].calls :
             i + j <= Len(r) /\ r[i + j].role = "tool" /\ r[i + j].call = r[i].calls[j]
    BY <1>3, <2>1, Zenon
  <2>3. \A k \in DOMAIN r : r[k].role = "tool" =>
          \E i \in 1..(k - 1) : r[i].role = "assistant" /\ k - i \in DOMAIN r[i].calls
    BY <1>4, <2>1, Zenon
  <2> QED
    BY <2>2, <2>3, Zenon DEF OpenAIAccepts
<1> QED
  BY <1>1, <1>7

LEMMA ToOpenAIOne ==
    ASSUME NEW p \in ProviderMessages
    PROVE  <<p>> \in Seq(ProviderMessages) /\ ToOpenAI(<<p>>) = Converted(p)
<1>1. PICK e \in Seq(OpenAIMessages) : e = Converted(p)
  BY ConvertedType
<1>2. DOMAIN <<p>> = {1} /\ <<p>>[1] = p
  OBVIOUS
<1>3. [i \in DOMAIN <<p>> |-> Converted(<<p>>[i])] = <<e>>
  BY <1>1, <1>2
<1>4. FlattenSeq(<<e>>) = e
  BY FlattenOne
<1> QED
  BY <1>1, <1>3, <1>4 DEF ToOpenAI

Formed(s) ==
    /\ Provided(s) \in Seq(Seq(ProviderMessages)) /\ ToProvider(s) \in Seq(ProviderMessages)
    /\ AnthropicAccepts(ToProvider(s))
    /\ OpenAIAccepts(ToOpenAI(ToProvider(s)))
    /\ Len(ToOpenAI(ToProvider(s))) = Len(s)

LEMMA BlockAccepted == ASSUME NEW b \in Block PROVE Formed(b)
<1>0. /\ UserMessage \in ProviderMessages
      /\ \A c \in Seq(ToolCalls) : ResultsMessage(c) \in ProviderMessages
      /\ \A c \in Seq(ToolCalls), x \in BOOLEAN :
           [role |-> "assistant", text |-> x, calls |-> c, results |-> <<>>] \in ProviderMessages
  <2>1. <<>> \in Seq(ToolCalls)
    OBVIOUS
  <2> QED
    BY <2>1 DEF UserMessage, ResultsMessage, ProviderMessages
<1>1. Provided(b) \in Seq(Seq(ProviderMessages))
  BY BlockProvided
<1>2. CASE Len(b) = 1 /\ ToProvider(b) = <<UserMessage>>
  <2>1. PICK u \in ProviderMessages : u = UserMessage
    BY <1>0
  <2>2. <<u>> \in Seq(ProviderMessages) /\ ToOpenAI(<<u>>) = Converted(u)
    BY ToOpenAIOne
  <2>3. Converted(u) = <<[role |-> "user"]>>
    BY <2>1 DEF UserMessage, Converted
  <2>4. AnthropicAccepts(<<u>>)
    BY <2>1 DEF UserMessage, AnthropicAccepts
  <2>5. OpenAIAccepts(<<[role |-> "user"]>>) /\ Len(<<[role |-> "user"]>>) = 1
    BY DEF OpenAIAccepts
  <2> QED
    BY <1>1, <1>2, <2>1, <2>2, <2>3, <2>4, <2>5 DEF Formed
<1>3. ASSUME NEW c \in Seq(ToolCalls), NEW x \in BOOLEAN, NEW a,
             a = [role |-> "assistant", text |-> x, calls |-> c, results |-> <<>>],
             Len(b) = 1 + Len(c), x \/ c # <<>>,
             ToProvider(b) = IF c = <<>> THEN <<a>> ELSE <<a>> \o <<ResultsMessage(c)>>
      PROVE  Formed(b)
  <2>1. a \in ProviderMessages
    BY <1>0, <1>3
  <2>2. <<a>> \in Seq(ProviderMessages) /\ ToOpenAI(<<a>>) = Converted(a)
    BY <2>1, ToOpenAIOne
  <2> DEFINE o == [role |-> "assistant", text |-> x, calls |-> c]
  <2>3. Converted(a) = <<o>>
    BY <1>3 DEF Converted
  <2>4. CASE c = <<>>
    <3>1. AnthropicAccepts(<<a>>)
      BY <1>3, <2>4 DEF AnthropicAccepts
    <3>2. OpenAIAccepts(<<o>>) /\ Len(<<o>>) = 1 /\ Len(b) = 1
      BY <1>3, <2>4 DEF OpenAIAccepts
    <3> QED
      BY <1>1, <1>3, <2>2, <2>3, <2>4, <3>1, <3>2 DEF Formed
  <2>5. CASE c # <<>>
    <3>1. PICK n \in Nat : n = Len(c) /\ n >= 1 /\ Len(b) = 1 + n /\ DOMAIN c = 1..n
      BY <1>3, <2>5
    <3>2. PICK r \in ProviderMessages : r = ResultsMessage(c)
      BY <1>0
    <3>3. <<r>> \in Seq(ProviderMessages) /\ ToOpenAI(<<r>>) = Converted(r)
      BY ToOpenAIOne
    <3>4. PICK u \in Seq(OpenAIMessages) : u = Converted(r)
      BY ConvertedType
    <3>5. Len(u) = n /\ \A k \in 1..n : u[k].role = "tool" /\ u[k].call = c[k]
      <4>1. u = [k \in 1..n |-> [role |-> "tool", call |-> c[k]]]
        BY <2>5, <3>1, <3>2, <3>4 DEF ResultsMessage, Converted
      <4>2. DOMAIN u = 1..n
        BY <4>1
      <4> QED
        BY <3>1, <4>1, <4>2, LenProperties
    <3>6. PICK v \in Seq(OpenAIMessages) : v = <<o>>
      <4>1. o \in OpenAIMessages
        BY DEF OpenAIMessages
      <4> HIDE DEF o
      <4>2. <<o>> \in Seq(OpenAIMessages)
        BY <4>1
      <4> QED
        BY <4>2
    <3>7. Len(v) = 1 /\ v[1].role = "assistant" /\ v[1].calls = c
      BY <3>6
    <3> HIDE DEF o
    <3>8. PICK w \in Seq(OpenAIMessages) : w = v \o u
      BY ConcatProperties
    <3>9. /\ Len(w) = 1 + n /\ DOMAIN w = 1..(1 + n)
          /\ w[1].role = "assistant" /\ w[1].calls = c
          /\ \A k \in 1..n : w[1 + k].role = "tool" /\ w[1 + k].call = c[k]
      <4>1. /\ Len(w) = Len(v) + Len(u) /\ DOMAIN w = 1..(Len(v) + Len(u))
            /\ \A i \in 1..Len(v) : w[i] = v[i]
            /\ \A j \in 1..Len(u) : w[Len(v) + j] = u[j]
        BY <3>8, Joined
      <4>2. 1 \in 1..1 /\ w[1] = v[1]
        BY <3>7, <4>1
      <4> QED
        BY <3>5, <3>7, <4>1, <4>2
    <3>10. OpenAIAccepts(w)
      <4>1. ASSUME NEW i \in 2..(1 + n) PROVE w[i].role = "tool" /\ i - 1 \in 1..n
        <5>1. PICK k \in 1..n : i = 1 + k
          <6>1. i - 1 \in 1..n /\ i = 1 + (i - 1)
            BY <3>1
          <6> QED
            BY <6>1
        <5>2. w[1 + k].role = "tool"
          BY <3>9
        <5>3. i - 1 = k
          BY <5>1
        <5> QED
          BY <5>1, <5>2, <5>3
      <4>2. ASSUME NEW i \in DOMAIN w, w[i].role = "assistant", NEW j \in DOMAIN w[i].calls
            PROVE  i + j <= Len(w) /\ w[i + j].role = "tool" /\ w[i + j].call = w[i].calls[j]
        <5>1. i = 1
          BY <3>1, <3>9, <4>1, <4>2
        <5>2. j \in 1..n
          BY <3>1, <3>9, <4>2, <5>1
        <5> QED
          BY <3>1, <3>9, <5>1, <5>2
      <4>3. ASSUME NEW k \in DOMAIN w, w[k].role = "tool"
            PROVE  \E i \in 1..(k - 1) : w[i].role = "assistant" /\ k - i \in DOMAIN w[i].calls
        <5>1. k # 1
          BY <3>9, <4>3
        <5>2. k \in 2..(1 + n) /\ 1 \in 1..(k - 1)
          BY <3>1, <3>9, <5>1
        <5>3. k - 1 \in 1..n
          BY <4>1, <5>2
        <5> QED
          BY <3>1, <3>9, <5>2, <5>3
      <4> QED
        BY <4>2, <4>3, Zenon DEF OpenAIAccepts
    <3>11. ToOpenAI(<<a>> \o <<r>>) = w
      BY <2>2, <2>3, <3>3, <3>4, <3>6, <3>8, ToOpenAIJoined
    <3>12. PICK p \in Seq(ProviderMessages) : p = <<a>> \o <<r>>
      BY <2>2, <3>3, ConcatProperties
    <3>13. Len(p) = 2 /\ DOMAIN p = {1, 2} /\ p[1] = a /\ p[2] = r
      <4>1. /\ Len(<<a>>) = 1 /\ Len(<<r>>) = 1 /\ <<a>>[1] = a /\ <<r>>[1] = r
            /\ <<a>> \in Seq(ProviderMessages) /\ <<r>> \in Seq(ProviderMessages)
        BY <2>2, <3>3
      <4>2. /\ Len(p) = Len(<<a>>) + Len(<<r>>) /\ DOMAIN p = 1..(Len(<<a>>) + Len(<<r>>))
            /\ \A i \in 1..Len(<<a>>) : p[i] = <<a>>[i]
            /\ \A j \in 1..Len(<<r>>) : p[Len(<<a>>) + j] = <<r>>[j]
        BY <3>12, <4>1, Joined
      <4>3. Len(p) = 2 /\ DOMAIN p = 1..2 /\ p[1] = a /\ p[1 + 1] = r
        BY <4>1, <4>2
      <4> QED
        BY <4>3
    <3>14. /\ a.calls = c /\ a.results = <<>> /\ a.role = "assistant"
           /\ r.calls = <<>> /\ r.results = c /\ r.role = "user"
      BY <1>3, <3>2 DEF ResultsMessage
    <3>15. AnthropicAccepts(p)
      <4> SUFFICES ASSUME NEW i \in DOMAIN p
                   PROVE  /\ p[i].calls # <<>> => i < Len(p) /\ p[i + 1].results = p[i].calls
                          /\ p[i].results # <<>> => i > 1 /\ p[i - 1].calls = p[i].results
                          /\ p[i].role = "assistant" => p[i].text \/ p[i].calls # <<>>
        BY DEF AnthropicAccepts
      <4>1. CASE i = 1
        BY <2>5, <3>13, <3>14, <4>1
      <4>2. CASE i = 2
        BY <2>5, <3>13, <3>14, <4>2
      <4> QED
        BY <3>13, <4>1, <4>2
    <3>16. ToProvider(b) = p
      BY <1>3, <2>5, <3>2, <3>12
    <3> QED
      BY <1>1, <3>1, <3>9, <3>10, <3>11, <3>12, <3>15, <3>16 DEF Formed
  <2> QED
    BY <2>4, <2>5
<1> QED
  BY <1>2, <1>3, BlockProvided

(* Both services accept every conversation, with every message in it.      *)
LEMMA ConversationAccepted == ASSUME NEW s \in Conversations PROVE Formed(s)
<1> DEFINE C == {t \in Seq(Message) : Formed(t)}
<1>1. <<>> \in C
  <2>1. Provided(<<>>) = <<>> /\ ToProvider(<<>>) = <<>>
    BY DEF Provided, ToProvider, FlattenSeq
  <2>2. ToOpenAI(<<>>) = <<>>
    BY DEF ToOpenAI, FlattenSeq
  <2>3. AnthropicAccepts(<<>>) /\ OpenAIAccepts(<<>>)
    BY DEF AnthropicAccepts, OpenAIAccepts
  <2>4. <<>> \in Seq(Seq(ProviderMessages)) /\ <<>> \in Seq(ProviderMessages) /\ <<>> \in Seq(Message)
    OBVIOUS
  <2> QED
    BY <2>1, <2>2, <2>3, <2>4 DEF Formed
<1>2. ASSUME NEW t \in C, NEW b \in Block PROVE t \o b \in C
  <2>1. t \in Seq(Message) /\ Formed(t) /\ Formed(b) /\ b \in Seq(Message)
    BY BlockAccepted, BlockType
  <2> HIDE DEF C
  <2>2. PICK x, y \in Seq(Seq(ProviderMessages)) : x = Provided(t) /\ y = Provided(b)
    BY <2>1 DEF Formed
  <2>3. Provided(t \o b) = x \o y
    BY <2>1, <2>2, ProvidedJoined
  <2>4. x \o y \in Seq(Seq(ProviderMessages)) /\ FlattenSeq(x \o y) = FlattenSeq(x) \o FlattenSeq(y)
    BY ConcatProperties, FlattenSplit
  <2>5. \A u : ToProvider(u) = FlattenSeq(Provided(u))
    BY DEF ToProvider, Provided
  <2>6. PICK p, q \in Seq(ProviderMessages) : p = ToProvider(t) /\ q = ToProvider(b)
    BY <2>1 DEF Formed
  <2>7. ToProvider(t \o b) = p \o q
    BY <2>2, <2>3, <2>4, <2>5, <2>6
  <2>8. p \o q \in Seq(ProviderMessages) /\ AnthropicAccepts(p \o q)
    BY <2>1, <2>6, AnthropicAcceptsJoined, ConcatProperties DEF Formed
  <2>9. PICK v, w \in Seq(OpenAIMessages) : v = ToOpenAI(p) /\ w = ToOpenAI(q) /\ ToOpenAI(p \o q) = v \o w
    BY ToOpenAIJoined
  <2>10. OpenAIAccepts(v) /\ OpenAIAccepts(w) /\ Len(v) = Len(t) /\ Len(w) = Len(b)
    BY <2>1, <2>6, <2>9 DEF Formed
  <2>11. OpenAIAccepts(v \o w)
    BY <2>10, OpenAIAcceptsJoined
  <2>12. Len(v \o w) = Len(v) + Len(w) /\ Len(t \o b) = Len(t) + Len(b) /\ t \o b \in Seq(Message)
    BY <2>1, Joined
  <2>13. Formed(t \o b)
    BY <2>3, <2>4, <2>7, <2>8, <2>9, <2>10, <2>11, <2>12 DEF Formed
  <2> QED
    BY <2>12, <2>13 DEF C
<1>3. C \in SUBSET Seq(Message)
  OBVIOUS
<1> HIDE DEF C
<1>4. Conversations \subseteq C
  BY <1>1, <1>2, <1>3, ConversationInduction DEF Grows
<1> QED
  BY <1>4 DEF C
-----------------------------------------------------------------------------
(* What Session does to a conversation leaves one.                         *)
LEMMA ConversationsJoined ==
    ASSUME NEW s \in Conversations, NEW t \in Conversations
    PROVE  s \o t \in Conversations
<1> DEFINE C == {u \in Seq(Message) : s \o u \in Conversations}
<1>0. s \in Seq(Message)
  BY ConversationsGrow
<1>1. <<>> \in C
  <2>1. s \o <<>> = s /\ <<>> \in Seq(Message)
    BY <1>0, ConcatEmptySeq
  <2> QED
    BY <2>1
<1>2. ASSUME NEW u \in C, NEW b \in Block PROVE u \o b \in C
  <2>1. u \in Seq(Message) /\ s \o u \in Conversations /\ b \in Seq(Message)
    BY BlockType
  <2> HIDE DEF C
  <2>2. (s \o u) \o b \in Conversations
    BY <2>1, ConversationsGrow DEF Grows
  <2>3. (s \o u) \o b = s \o (u \o b) /\ u \o b \in Seq(Message)
    BY <1>0, <2>1, ConcatAssociative, ConcatProperties
  <2> QED
    BY <2>2, <2>3 DEF C
<1>3. C \in SUBSET Seq(Message)
  OBVIOUS
<1> HIDE DEF C
<1>4. Conversations \subseteq C
  BY <1>1, <1>2, <1>3, ConversationInduction DEF Grows
<1> QED
  BY <1>4 DEF C

LEMMA BlocksConverse == Block \subseteq Conversations
<1> SUFFICES ASSUME NEW b \in Block PROVE b \in Conversations
  OBVIOUS
<1>1. <<>> \o b \in Conversations
  BY ConversationsGrow DEF Grows
<1>2. <<>> \o b = b
  BY BlockType, ConcatEmptySeq
<1> QED
  BY <1>1, <1>2

LEMMA OneMoreConverses ==
    ASSUME NEW s \in Conversations, NEW m \in Message, IsHuman(m) \/ m = Answer
    PROVE  Append(s, m) \in Conversations
<1>1. <<m>> \in Block
  <2>1. CASE IsHuman(m)
    BY <2>1 DEF Block
  <2>2. CASE m = Answer
    <3>1. <<m>> \in Seq(Message) /\ Len(<<m>>) = 1 /\ <<m>>[1] = m /\ <<m>> # <<>>
      OBVIOUS
    <3>2. m.kind = "ai" /\ m.calls = <<>> /\ m.text = TRUE
      BY <2>2 DEF Answer, Response
    <3>3. <<m>> \in Exchanged
      BY <3>1, <3>2 DEF Exchanged
    <3> QED
      BY <3>3 DEF Block
  <2> QED
    BY <2>1, <2>2
<1>2. s \o <<m>> \in Conversations
  BY <1>1, ConversationsGrow DEF Grows
<1>3. Append(s, m) = s \o <<m>>
  BY ConversationsGrow, AppendIsConcat
<1> QED
  BY <1>2, <1>3

LEMMA FlattenedConverse ==
    ASSUME NEW ss \in Seq(Conversations)
    PROVE  FlattenSeq(ss) \in Conversations
<1> DEFINE C == {tt \in Seq(Conversations) : FlattenSeq(tt) \in Conversations}
<1>1. <<>> \in C
  <2>1. FlattenSeq(<<>>) = <<>> /\ <<>> \in Seq(Conversations)
    BY DEF FlattenSeq
  <2> QED
    BY <2>1, ConversationsGrow DEF Grows
<1>2. ASSUME NEW tt \in C, NEW e \in Conversations PROVE Append(tt, e) \in C
  <2>1. tt \in Seq(Conversations) /\ FlattenSeq(tt) \in Conversations
    OBVIOUS
  <2>2. tt \in Seq(Seq(Message)) /\ e \in Seq(Message)
    BY <2>1, ConversationsGrow, SeqMonotonic
  <2>3. FlattenSeq(Append(tt, e)) = FlattenSeq(tt) \o e
    BY <2>2, FlattenAppend
  <2>4. FlattenSeq(tt) \o e \in Conversations
    BY <2>1, ConversationsJoined
  <2>5. Append(tt, e) \in Seq(Conversations)
    BY <2>1, AppendProperties
  <2> QED
    BY <2>3, <2>4, <2>5
<1>3. C \in SUBSET Seq(Conversations)
  OBVIOUS
<1> HIDE DEF C
<1>4. C = Seq(Conversations)
  BY <1>1, <1>2, <1>3, SeqInduction
<1> QED
  BY <1>4 DEF C

(* A response and the results of its calls.                                *)
LEMMA ExchangeIsBlock ==
    ASSUME NEW m \in Message, NEW u \in Seq(Message), m.kind = "ai", m.text \/ m.calls # <<>>,
           Len(u) = Len(m.calls),
           \A k \in 1..Len(u) : u[k].kind = "tool" /\ u[k].call = m.calls[k]
    PROVE  <<m>> \o u \in Block
<1>1. <<m>> \in Seq(Message) /\ Len(<<m>>) = 1 /\ <<m>>[1] = m
  OBVIOUS
<1>2. PICK b \in Seq(Message), n \in Nat : b = <<m>> \o u /\ n = Len(u)
  BY <1>1, Joined
<1>3. /\ Len(b) = Len(<<m>>) + Len(u)
      /\ \A i \in 1..Len(<<m>>) : b[i] = <<m>>[i]
      /\ \A j \in 1..Len(u) : b[Len(<<m>>) + j] = u[j]
  BY <1>1, <1>2, Joined
<1>4. Len(b) = 1 + n /\ b[1] = m /\ b # <<>>
  <2>1. 1 \in 1..1
    OBVIOUS
  <2>2. b[1] = m /\ Len(b) = 1 + n
    BY <1>1, <1>2, <1>3, <2>1
  <2>3. b # <<>>
    BY <1>2, <2>2
  <2> QED
    BY <2>2, <2>3
<1>5. \A k \in 1..n : b[1 + k] = u[k]
  BY <1>1, <1>2, <1>3
<1>6. b \in Exchanged
  <2>1. b[1].kind = "ai" /\ (b[1].text \/ b[1].calls # <<>>) /\ Len(b[1].calls) = n
    BY <1>2, <1>4
  <2>2. ASSUME NEW k \in 1..n PROVE b[1 + k].kind = "tool" /\ b[1 + k].call = b[1].calls[k]
    <3>1. b[1 + k] = u[k] /\ b[1].calls = m.calls
      BY <1>4, <1>5
    <3> QED
      BY <1>2, <3>1
  <2> QED
    BY <1>4, <2>1, <2>2 DEF Exchanged
<1> QED
  BY <1>2, <1>6 DEF Block

LEMMA TranscriptsConverse == Transcripts \subseteq Conversations
<1>1. ASSUME NEW r \in Rounds PROVE RoundMessages(r) \in Conversations
  <2>1. r.calls \in Seq(ToolCalls) /\ r.calls # <<>> /\ r.text \in BOOLEAN /\ r.size \in Sizes
    BY HistoryAssumption
  <2>2. PICK m \in Message : m = Response(r.calls, r.text)
    BY <2>1, MessageTypes
  <2>3. m.kind = "ai" /\ m.calls = r.calls
    BY <2>2 DEF Response
  <2>4. PICK c \in Seq(ToolCalls), n \in Nat : c = r.calls /\ n = Len(c) /\ DOMAIN c = 1..n
    BY <2>1
  <2> DEFINE size(i) == IF c[i] = "todo" THEN "small" ELSE r.size
             u == [i \in 1..n |-> Result(c[i], size(i))]
  <2>5. \A i \in 1..n : Result(c[i], size(i)) \in Message
    BY <2>1, <2>4, MessageTypes DEF Sizes
  <2>6. u \in Seq(Message) /\ Len(u) = n
    BY <2>4, <2>5
  <2>7. \A k \in 1..n : u[k].kind = "tool" /\ u[k].call = c[k]
    BY DEF Result
  <2>8. RoundMessages(r) = (<<m>> \o u) \o (IF r.notice THEN <<Notice>> ELSE <<>>)
    BY <2>2, <2>4 DEF RoundMessages
  <2> HIDE DEF u
  <2>9. <<m>> \o u \in Conversations
    BY <2>1, <2>3, <2>4, <2>6, <2>7, ExchangeIsBlock, BlocksConverse
  <2>10. (IF r.notice THEN <<Notice>> ELSE <<>>) \in Conversations
    <3>1. <<Notice>> \in Block
      BY MessageTypes DEF Block, IsHuman, Notice
    <3> QED
      BY <3>1, BlocksConverse, ConversationsGrow DEF Grows
  <2> QED
    BY <2>8, <2>9, <2>10, ConversationsJoined
<1>2. SUFFICES ASSUME NEW n \in 0..MaxRounds, NEW rs \in [1..n -> Rounds]
               PROVE  Append(FlattenSeq([i \in DOMAIN rs |-> RoundMessages(rs[i])]), Answer)
                        \in Conversations
  BY DEF Transcripts
<1>3. n \in Nat
  BY HistoryAssumption
<1>4. [i \in DOMAIN rs |-> RoundMessages(rs[i])] \in Seq(Conversations)
  BY <1>1, <1>3
<1>5. FlattenSeq([i \in DOMAIN rs |-> RoundMessages(rs[i])]) \in Conversations
  BY <1>4, FlattenedConverse
<1> QED
  BY <1>5, MessageTypes, OneMoreConverses
-----------------------------------------------------------------------------
(* A list that differs in the sizes of results only.                       *)
Similar(s, t) ==
    /\ Len(s) = Len(t)
    /\ \A i \in 1..Len(s) :
          IF s[i].kind = "tool" THEN t[i].kind = "tool" /\ t[i].call = s[i].call ELSE t[i] = s[i]

LEMMA SimilarBlock ==
    ASSUME NEW b \in Block, NEW t \in Seq(Message), Similar(b, t)
    PROVE  t \in Block
<1>1. b \in Seq(Message) /\ b[1].kind # "tool"
  BY BlockType
<1>2. PICK m \in Nat : m = Len(b) /\ m = Len(t) /\ m >= 1
  BY BlockType DEF Similar
<1>3. t[1] = b[1]
  BY <1>1, <1>2 DEF Similar
<1>4. CASE b \in {<<m1>> : m1 \in {x \in Message : IsHuman(x)}}
  <2>1. Len(b) = 1
    BY <1>4
  <2>2. \A i \in 1..Len(b) : b[i] = t[i]
    <3>1. \A i \in 1..Len(b) : i = 1
      BY <2>1
    <3> QED
      BY <1>3, <3>1
  <2>3. b = t
    BY <1>1, <1>2, <2>2, SeqEqual
  <2> QED
    BY <2>3
<1>5. CASE b \in Exchanged
  <2>1. /\ b[1].kind = "ai" /\ m = 1 + Len(b[1].calls) /\ (b[1].text \/ b[1].calls # <<>>)
        /\ \A k \in 1..Len(b[1].calls) : b[1 + k].kind = "tool" /\ b[1 + k].call = b[1].calls[k]
    BY <1>2, <1>5 DEF Exchanged
  <2>2. b[1].calls \in Seq(ToolCalls)
    <3>1. b[1] \in Message
      <4>1. 1 \in 1..Len(b)
        BY <1>2
      <4> QED
        BY <1>1, <4>1, ElementOfSeq
    <3> QED
      BY <2>1, <3>1, KindFields
  <2>3. ASSUME NEW k \in 1..Len(b[1].calls)
        PROVE  t[1 + k].kind = "tool" /\ t[1 + k].call = b[1].calls[k]
    <3>1. PICK i \in 1..m : i = 1 + k
      BY <1>2, <2>1, <2>2
    <3>2. b[i].kind = "tool" /\ b[i].call = b[1].calls[k]
      BY <2>1, <3>1
    <3>3. t[i].kind = "tool" /\ t[i].call = b[i].call
      BY <1>2, <3>2 DEF Similar
    <3> QED
      BY <3>1, <3>2, <3>3
  <2>4. t # <<>>
    BY <1>2
  <2>5. t \in Exchanged
    BY <1>2, <1>3, <2>1, <2>3, <2>4 DEF Exchanged
  <2> QED
    BY <2>5 DEF Block
<1> QED
  BY <1>4, <1>5 DEF Block

LEMMA SimilarConverses ==
    ASSUME NEW s0 \in Conversations, NEW t0 \in Seq(Message), Similar(s0, t0)
    PROVE  t0 \in Conversations
<1> DEFINE C == {s \in Seq(Message) : \A t \in Seq(Message) : Similar(s, t) => t \in Conversations}
<1>1. <<>> \in C
  <2>1. ASSUME NEW t \in Seq(Message), Similar(<<>>, t) PROVE t \in Conversations
    <3>1. t = <<>>
      BY <2>1 DEF Similar
    <3> QED
      BY <3>1, ConversationsGrow DEF Grows
  <2>2. <<>> \in Seq(Message)
    OBVIOUS
  <2> QED
    BY <2>1, <2>2
<1>2. ASSUME NEW s \in C, NEW b \in Block PROVE s \o b \in C
  <2>1. s \in Seq(Message) /\ b \in Seq(Message)
    BY BlockType
  <2>2. ASSUME NEW t \in Seq(Message), Similar(s, t) PROVE t \in Conversations
    BY <2>2
  <2> HIDE DEF C
  <2>3. ASSUME NEW t \in Seq(Message), Similar(s \o b, t) PROVE t \in Conversations
    <3>1. PICK r \in Seq(Message), n \in Nat, m \in Nat : r = s \o b /\ n = Len(s) /\ m = Len(b)
      BY <2>1, Joined
    <3>2. /\ Len(r) = n + m
          /\ \A i \in 1..n : r[i] = s[i]
          /\ \A j \in 1..m : r[n + j] = b[j]
      BY <2>1, <3>1, Joined
    <3>3. /\ Len(t) = n + m
          /\ \A i \in 1..(n + m) :
               IF r[i].kind = "tool" THEN t[i].kind = "tool" /\ t[i].call = r[i].call ELSE t[i] = r[i]
      BY <2>3, <3>1, <3>2 DEF Similar
    <3>4. PICK t1, t2 \in Seq(Message) : Halves(t, n, m, t1, t2)
      <4>1. Len(t) = n + m
        BY <3>3
      <4> QED
        BY <4>1, Divided
    <3>8. Similar(s, t1)
      <4>1. \A i \in 1..n : i \in 1..(n + m)
        OBVIOUS
      <4>2. ASSUME NEW i \in 1..n
            PROVE  IF s[i].kind = "tool" THEN t1[i].kind = "tool" /\ t1[i].call = s[i].call
                   ELSE t1[i] = s[i]
        <5>1. r[i] = s[i] /\ t1[i] = t[i]
          BY <3>2, <3>4 DEF Halves
        <5> QED
          BY <3>3, <4>1, <5>1
      <4> QED
        BY <3>1, <3>4, <4>2 DEF Similar, Halves
    <3>9. Similar(b, t2)
      <4>1. ASSUME NEW j \in 1..m
            PROVE  IF b[j].kind = "tool" THEN t2[j].kind = "tool" /\ t2[j].call = b[j].call
                   ELSE t2[j] = b[j]
        <5>1. PICK i \in 1..(n + m) : i = n + j
          OBVIOUS
        <5>2. r[i] = b[j] /\ t2[j] = t[i]
          BY <3>2, <3>4, <5>1 DEF Halves
        <5> QED
          BY <3>3, <5>2
      <4> QED
        BY <3>1, <3>4, <4>1 DEF Similar, Halves
    <3>10. t1 \in Conversations /\ t2 \in Block
      BY <2>2, <3>8, <3>9, SimilarBlock
    <3> QED
      BY <3>4, <3>10, ConversationsGrow DEF Grows, Halves
  <2>4. s \o b \in Seq(Message)
    BY <2>1, ConcatProperties
  <2> QED
    BY <2>3, <2>4 DEF C
<1>3. C \in SUBSET Seq(Message)
  OBVIOUS
<1> HIDE DEF C
<1>4. Conversations \subseteq C
  BY <1>1, <1>2, <1>3, ConversationInduction DEF Grows
<1> QED
  BY <1>4 DEF C

LEMMA TrimConverses ==
    ASSUME NEW s \in Conversations, NEW chosen, \A i \in chosen \cap DOMAIN s : s[i].kind = "tool"
    PROVE  TrimSizes(s, chosen) \in Conversations
<1>1. s \in Seq(Message)
  BY ConversationsGrow
<1>2. PICK t \in Seq(Message) : t = TrimSizes(s, chosen)
  BY <1>1, TrimKeeps
<1>3. /\ Len(t) = Len(s) /\ DOMAIN s = 1..Len(s)
      /\ \A i \in 1..Len(s) : i \notin chosen => t[i] = s[i]
      /\ \A i \in 1..Len(s) : i \in chosen => t[i] = [s[i] EXCEPT !.size = "cut"]
  BY <1>1, <1>2, TrimKeeps
<1>4. ASSUME NEW i \in 1..Len(s)
      PROVE  IF s[i].kind = "tool" THEN t[i].kind = "tool" /\ t[i].call = s[i].call ELSE t[i] = s[i]
  <2>1. CASE i \in chosen
    <3>1. s[i] \in Message /\ s[i].kind = "tool"
      BY <1>1, <1>3, <2>1
    <3>2. s[i] \in [kind : {"tool"}, call : ToolCalls, size : Sizes]
      BY <3>1, KindFields
    <3>3. [s[i] EXCEPT !.size = "cut"].kind = s[i].kind /\ [s[i] EXCEPT !.size = "cut"].call = s[i].call
      BY <3>2
    <3> QED
      BY <1>3, <2>1, <3>1, <3>3
  <2>2. CASE i \notin chosen
    BY <1>3, <2>2
  <2> QED
    BY <2>1, <2>2
<1>5. Similar(s, t)
  BY <1>3, <1>4 DEF Similar
<1> QED
  BY <1>2, <1>5, SimilarConverses
-----------------------------------------------------------------------------
LEMMA HumanIsAlone ==
    ASSUME NEW b \in Block, NEW j \in 1..Len(b), IsHuman(b[j])
    PROVE  Len(b) = 1
<1> SUFFICES ASSUME Len(b) # 1 PROVE FALSE
  OBVIOUS
<1>1. /\ b[1].kind = "ai" /\ b[1].calls \in Seq(ToolCalls) /\ Len(b) = 1 + Len(b[1].calls)
      /\ \A k \in 1..Len(b[1].calls) : b[1 + k].kind = "tool"
  BY BlockIs
<1>2. PICK n \in Nat : n = Len(b[1].calls)
  BY <1>1
<1>3. j # 1
  BY <1>1 DEF IsHuman
<1>4. PICK k \in 1..n : j = 1 + k
  <2>1. j \in 1..(1 + n)
    BY <1>1, <1>2
  <2>2. j - 1 \in 1..n /\ j = 1 + (j - 1)
    BY <1>3, <2>1
  <2> QED
    BY <2>2
<1>5. b[j].kind = "tool"
  BY <1>1, <1>2, <1>4
<1> QED
  BY <1>5 DEF IsHuman

LEMMA HalvesJoined ==
    ASSUME NEW T, NEW s \in Seq(T), NEW b \in Seq(T)
    PROVE  s \o b \in Seq(T) /\ Halves(s \o b, Len(s), Len(b), s, b)
BY Joined DEF Halves

IsRest(x, t, e, n) ==
    /\ x = SubSeq(t, e + 1, n) /\ Len(x) = n - e
    /\ \A i \in 1..(n - e) : x[i] = t[e + i]

LEMMA RestIs ==
    ASSUME NEW T, NEW t \in Seq(T), NEW n \in Nat, NEW e \in 0..n, Len(t) = n
    PROVE  \E x \in Seq(T) : IsRest(x, t, e, n)
<1> DEFINE x == SubSeq(t, e + 1, n)
<1>1. PICK m \in Nat : n = e + m
  <2>1. n - e \in Nat /\ n = e + (n - e)
    OBVIOUS
  <2> QED
    BY <2>1
<1>2. x \in Seq(T) /\ Len(x) = m /\ \A i \in 1..m : x[i] = t[e + i]
  BY <1>1
<1>3. n - e = m
  BY <1>1
<1> QED
  BY <1>2, <1>3 DEF IsRest

LEMMA RestJoined ==
    ASSUME NEW T, NEW s \in Seq(T), NEW b \in Seq(T), NEW e \in 1..Len(s)
    PROVE  SubSeq(s \o b, e + 1, Len(s) + Len(b)) = SubSeq(s, e + 1, Len(s)) \o b
<1>1. PICK r \in Seq(T), n \in Nat, m \in Nat : r = s \o b /\ n = Len(s) /\ m = Len(b)
  BY Joined
<1>2. Halves(r, n, m, s, b) /\ Len(r) = n + m /\ e \in 0..n /\ e \in 0..(n + m)
  <2>1. Halves(r, n, m, s, b)
    BY <1>1, HalvesJoined
  <2>2. Len(r) = n + m
    BY <1>1, Joined
  <2> QED
    BY <1>1, <2>1, <2>2
<1>3. PICK x \in Seq(T) : IsRest(x, r, e, n + m)
  <2>1. n + m \in Nat
    OBVIOUS
  <2> QED
    BY <1>2, <2>1, RestIs
<1>4. PICK v \in Seq(T) : IsRest(v, s, e, n)
  <2>1. Len(s) = n
    BY <1>1
  <2> QED
    BY <1>2, <2>1, RestIs
<1>5. PICK y \in Seq(T), l \in Nat : y = v \o b /\ l = Len(v)
  BY <1>4, Joined
<1>6. Halves(y, l, m, v, b) /\ Len(y) = l + m
  <2>1. Halves(y, l, m, v, b)
    BY <1>1, <1>5, HalvesJoined
  <2>2. Len(y) = l + m
    BY <1>1, <1>5, Joined
  <2> QED
    BY <2>1, <2>2
<1>7. l + m = n + m - e /\ l = n - e /\ e \in 1..n /\ Len(x) = l + m
  BY <1>1, <1>3, <1>4, <1>5 DEF IsRest
<1>8. ASSUME NEW i \in 1..Len(x) PROVE x[i] = y[i]
  <2>1. i \in 1..(l + m) /\ x[i] = r[e + i]
    BY <1>3, <1>7 DEF IsRest
  <2>2. CASE i \in 1..l
    <3>1. e + i \in 1..n
      BY <1>7, <2>2
    <3> QED
      BY <1>2, <1>4, <1>6, <1>7, <2>1, <2>2, <3>1 DEF Halves, IsRest
  <2>3. CASE i \notin 1..l
    <3>1. PICK j \in 1..m : i = l + j
      <4>1. i - l \in 1..m /\ i = l + (i - l)
        BY <2>1, <2>3
      <4> QED
        BY <4>1
    <3>2. e + i = n + j
      BY <1>7, <3>1
    <3> QED
      BY <1>2, <1>6, <2>1, <3>1, <3>2 DEF Halves
  <2> QED
    BY <2>2, <2>3
<1>9. x = y
  BY <1>3, <1>6, <1>7, <1>8, SeqEqual
<1> QED
  BY <1>1, <1>3, <1>4, <1>5, <1>9 DEF IsRest

(* What follows a summary is a conversation of its own.                    *)
LEMMA RestConverses ==
    ASSUME NEW s0 \in Conversations, NEW e0 \in 1..Len(s0), IsHuman(s0[e0])
    PROVE  SubSeq(s0, e0 + 1, Len(s0)) \in Conversations
<1> DEFINE C == {s \in Seq(Message) : \A e \in 1..Len(s) :
                    IsHuman(s[e]) => SubSeq(s, e + 1, Len(s)) \in Conversations}
<1>1. <<>> \in C
  <2>1. <<>> \in Seq(Message) /\ 1..Len(<<>>) = {}
    OBVIOUS
  <2> QED
    BY <2>1
<1>2. ASSUME NEW s \in C, NEW b \in Block PROVE s \o b \in C
  <2>1. s \in Seq(Message) /\ b \in Seq(Message)
    BY BlockType
  <2>2. ASSUME NEW e \in 1..Len(s), IsHuman(s[e])
        PROVE  SubSeq(s, e + 1, Len(s)) \in Conversations
    BY <2>2
  <2> HIDE DEF C
  <2>3. PICK r \in Seq(Message), n \in Nat, m \in Nat : r = s \o b /\ n = Len(s) /\ m = Len(b)
    BY <2>1, Joined
  <2>4. /\ Len(r) = n + m
        /\ \A i \in 1..n : r[i] = s[i]
        /\ \A j \in 1..m : r[n + j] = b[j]
        /\ \A i \in 1..(n + m) : i \in 1..n \/ \E j \in 1..m : i = n + j
    BY <2>1, <2>3, Joined
  <2>5. ASSUME NEW e \in 1..n, IsHuman(r[e])
        PROVE  SubSeq(r, e + 1, n + m) \in Conversations
    <3>1. PICK v \in Conversations : v = SubSeq(s, e + 1, n)
      BY <2>2, <2>3, <2>4, <2>5
    <3>2. SubSeq(r, e + 1, n + m) = v \o b
      BY <2>1, <2>3, <2>4, <3>1, RestJoined
    <3> QED
      BY <3>2, ConversationsGrow DEF Grows
  <2>6. ASSUME NEW j \in 1..m, IsHuman(r[n + j])
        PROVE  SubSeq(r, (n + j) + 1, n + m) \in Conversations
    <3>1. IsHuman(b[j])
      BY <2>4, <2>6
    <3>2. m = 1
      BY <2>3, <3>1, HumanIsAlone
    <3>3. SubSeq(r, (n + j) + 1, n + m) = <<>>
      BY <2>4, <3>2
    <3> QED
      BY <3>3, ConversationsGrow DEF Grows
  <2>7. ASSUME NEW e \in 1..Len(r), IsHuman(r[e])
        PROVE  SubSeq(r, e + 1, Len(r)) \in Conversations
    BY <2>4, <2>5, <2>6, <2>7
  <2> QED
    BY <2>3, <2>7 DEF C
<1>3. C \in SUBSET Seq(Message)
  OBVIOUS
<1> HIDE DEF C
<1>4. Conversations \subseteq C
  BY <1>1, <1>2, <1>3, ConversationInduction DEF Grows
<1> QED
  BY <1>4 DEF C

LEMMA MergedConverses ==
    ASSUME NEW s \in Conversations, MergeEnd(s) > 0
    PROVE  Merged(s) \in Conversations
<1>1. s \in Seq(Message)
  BY ConversationsGrow
<1>2. PICK e \in 1..Len(s) : e = MergeEnd(s) /\ IsSummary(s[e])
  <2>1. MergeEnd(s) \in 0..Len(s) /\ IsSummary(s[MergeEnd(s)])
    BY <1>1, MergeEndRange
  <2> QED
    BY <2>1
<1>3. SubSeq(s, e + 1, Len(s)) \in Conversations
  BY <1>2, RestConverses DEF IsHuman, IsSummary
<1>4. PICK m \in Message : m = MergedSummary(SubSeq(s, 1, e)) /\ IsHuman(m)
  <2>1. MergedSummary(SubSeq(s, 1, e)) \in Message
    <3>1. Merged(s) \in Seq(Message) /\ Len(Merged(s)) = 1 + (Len(s) - e)
          /\ Merged(s)[1] = MergedSummary(SubSeq(s, 1, e))
      BY <1>1, <1>2, MergedIs
    <3>2. 1 \in 1..Len(Merged(s))
      BY <1>2, <3>1
    <3> QED
      BY <3>1, <3>2, ElementOfSeq
  <2> QED
    BY <2>1 DEF MergedSummary, Summary, IsHuman
<1>5. <<m>> \in Conversations
  BY <1>4, BlocksConverse DEF Block
<1> QED
  BY <1>2, <1>3, <1>4, <1>5, ConversationsJoined DEF Merged

LEMMA SummariesConverse ==
    ASSUME NEW t \in Seq(Message)
    PROVE  Only(t, IsSummary) \in Conversations
<1> DEFINE ss == [i \in DOMAIN t |-> IF IsSummary(t[i]) THEN <<t[i]>> ELSE <<>>]
<1>1. ASSUME NEW i \in DOMAIN t PROVE ss[i] \in Conversations
  <2>1. t[i] \in Message
    OBVIOUS
  <2>2. CASE IsSummary(t[i])
    <3>1. <<t[i]>> \in Block
      BY <2>1, <2>2 DEF Block, IsSummary, IsHuman
    <3> QED
      BY <2>2, <3>1, BlocksConverse
  <2>3. CASE ~IsSummary(t[i])
    BY <2>3, ConversationsGrow DEF Grows
  <2> QED
    BY <2>2, <2>3
<1>2. PICK n \in Nat : DOMAIN t = 1..n
  OBVIOUS
<1>3. ss \in Seq(Conversations)
  BY <1>1, <1>2
<1>4. Only(t, IsSummary) = FlattenSeq(ss)
  BY DEF Only
<1> HIDE DEF ss
<1> QED
  BY <1>3, <1>4, FlattenedConverse
-----------------------------------------------------------------------------
(* What Only keeps, for a set that passes the test.                        *)
Keeping(s, A) == FlattenSeq([i \in DOMAIN s |-> IF s[i] \in A THEN <<s[i]>> ELSE <<>>])

LEMMA KeepingType ==
    ASSUME NEW T, NEW A, NEW s \in Seq(T)
    PROVE  Keeping(s, A) \in Seq(T \cap A)
<1> DEFINE ss == [i \in DOMAIN s |-> IF s[i] \in A THEN <<s[i]>> ELSE <<>>]
<1>1. ASSUME NEW i \in DOMAIN s PROVE ss[i] \in Seq(T \cap A)
  <2>1. s[i] \in T
    OBVIOUS
  <2>2. <<>> \in Seq(T \cap A) /\ \A x \in T \cap A : <<x>> \in Seq(T \cap A)
    OBVIOUS
  <2>3. ss[i] = IF s[i] \in A THEN <<s[i]>> ELSE <<>>
    OBVIOUS
  <2> HIDE DEF ss
  <2> QED
    BY <2>1, <2>2, <2>3
<1>2. PICK n \in Nat : DOMAIN s = 1..n
  OBVIOUS
<1>3. ss \in Seq(Seq(T \cap A))
  BY <1>1, <1>2
<1> HIDE DEF ss
<1>4. Keeping(s, A) = FlattenSeq(ss)
  BY DEF Keeping, ss
<1> QED
  BY <1>3, <1>4, FlattenType

LEMMA KeepingJoined ==
    ASSUME NEW T, NEW A, NEW s \in Seq(T), NEW b \in Seq(T)
    PROVE  Keeping(s \o b, A) = Keeping(s, A) \o Keeping(b, A)
<1> DEFINE ss(x) == [i \in DOMAIN x |-> IF x[i] \in A THEN <<x[i]>> ELSE <<>>]
<1>1. ASSUME NEW x \in Seq(T) PROVE ss(x) \in Seq(Seq(T)) /\ Len(ss(x)) = Len(x)
  <2>1. ASSUME NEW i \in DOMAIN x PROVE ss(x)[i] \in Seq(T)
    <3>1. x[i] \in T
      OBVIOUS
    <3> QED
      BY <3>1
  <2>2. PICK n \in Nat : DOMAIN x = 1..n /\ Len(x) = n
    OBVIOUS
  <2> QED
    BY <2>1, <2>2
<1>2. PICK r \in Seq(T), n \in Nat, m \in Nat : r = s \o b /\ n = Len(s) /\ m = Len(b)
  BY Joined
<1>3. Halves(r, n, m, s, b) /\ Len(r) = n + m
  BY <1>2, HalvesJoined, Joined
<1>4. \A i \in 1..(n + m) : ss(r)[i] = IF r[i] \in A THEN <<r[i]>> ELSE <<>>
  BY <1>3
<1>5. /\ \A i \in 1..n : ss(s)[i] = IF s[i] \in A THEN <<s[i]>> ELSE <<>>
      /\ \A i \in 1..m : ss(b)[i] = IF b[i] \in A THEN <<b[i]>> ELSE <<>>
  BY <1>2
<1>6. PICK x, y, z \in Seq(Seq(T)) : x = ss(s) /\ y = ss(b) /\ z = ss(r)
  BY <1>1
<1>7. Len(x) = n /\ Len(y) = m /\ Len(z) = n + m
  BY <1>1, <1>2, <1>3, <1>6
<1> HIDE DEF ss
<1>8. PICK w \in Seq(Seq(T)) : w = x \o y
  BY Joined
<1>9. Halves(w, n, m, x, y) /\ Len(w) = n + m
  BY <1>7, <1>8, HalvesJoined, Joined
<1>10. ASSUME NEW i \in 1..Len(w) PROVE w[i] = z[i]
  <2>1. i \in 1..(n + m)
    BY <1>9
  <2>2. CASE i \in 1..n
    <3>1. r[i] = s[i] /\ w[i] = x[i]
      BY <1>3, <1>9, <2>2 DEF Halves
    <3> QED
      BY <1>4, <1>5, <1>6, <2>1, <2>2, <3>1
  <2>3. CASE i \notin 1..n
    <3>1. PICK j \in 1..m : i = n + j
      <4>1. i - n \in 1..m /\ i = n + (i - n)
        BY <2>1, <2>3
      <4> QED
        BY <4>1
    <3>2. r[i] = b[j] /\ w[i] = y[j]
      BY <1>3, <1>9, <3>1 DEF Halves
    <3> QED
      BY <1>4, <1>5, <1>6, <2>1, <3>1, <3>2
  <2> QED
    BY <2>2, <2>3
<1>11. w = z
  BY <1>7, <1>9, <1>10, SeqEqual
<1>12. FlattenSeq(w) = FlattenSeq(x) \o FlattenSeq(y)
  BY <1>8, FlattenSplit
<1>13. Keeping(s, A) = FlattenSeq(x) /\ Keeping(b, A) = FlattenSeq(y) /\ Keeping(r, A) = FlattenSeq(z)
  BY <1>6 DEF Keeping, ss
<1> QED
  BY <1>2, <1>11, <1>12, <1>13

LEMMA KeepingOne ==
    ASSUME NEW T, NEW A, NEW e \in T
    PROVE  Keeping(<<e>>, A) = IF e \in A THEN <<e>> ELSE <<>>
<1>1. PICK x \in Seq(T) : x = IF e \in A THEN <<e>> ELSE <<>>
  <2>1. <<e>> \in Seq(T) /\ <<>> \in Seq(T)
    OBVIOUS
  <2>2. (IF e \in A THEN <<e>> ELSE <<>>) \in Seq(T)
    BY <2>1
  <2> QED
    BY <2>2
<1>2. [i \in DOMAIN <<e>> |-> IF <<e>>[i] \in A THEN <<(<<e>>[i])>> ELSE <<>>] = <<x>>
  BY <1>1
<1>3. FlattenSeq(<<x>>) = x
  BY FlattenOne
<1> QED
  BY <1>1, <1>2, <1>3 DEF Keeping

LEMMA KeepingAppend ==
    ASSUME NEW T, NEW A, NEW s \in Seq(T), NEW e \in T
    PROVE  Keeping(Append(s, e), A) = IF e \in A THEN Append(Keeping(s, A), e) ELSE Keeping(s, A)
<1>1. Append(s, e) = s \o <<e>> /\ <<e>> \in Seq(T)
  BY AppendIsConcat
<1>2. Keeping(s \o <<e>>, A) = Keeping(s, A) \o Keeping(<<e>>, A)
  BY <1>1, KeepingJoined
<1>3. PICK k \in Seq(T \cap A) : k = Keeping(s, A)
  BY KeepingType
<1>4. CASE e \in A
  <2>1. Append(k, e) = k \o <<e>>
    BY <1>4, AppendIsConcat
  <2> QED
    BY <1>1, <1>2, <1>3, <1>4, <2>1, KeepingOne
<1>5. CASE e \notin A
  <2>1. k \o <<>> = k
    BY ConcatEmptySeq
  <2> QED
    BY <1>1, <1>2, <1>3, <1>5, <2>1, KeepingOne
<1> QED
  BY <1>4, <1>5

(* Something passes, and something is left.                                *)
LEMMA KeepingSome ==
    ASSUME NEW T, NEW A, NEW s0 \in Seq(T), NEW i0 \in 1..Len(s0), s0[i0] \in A
    PROVE  Keeping(s0, A) # <<>>
<1> DEFINE C == {s \in Seq(T) : (\E i \in 1..Len(s) : s[i] \in A) => Keeping(s, A) # <<>>}
<1>1. <<>> \in C
  <2>1. <<>> \in Seq(T) /\ 1..Len(<<>>) = {}
    OBVIOUS
  <2> QED
    BY <2>1
<1>2. ASSUME NEW s \in C, NEW e \in T PROVE Append(s, e) \in C
  <2>1. s \in Seq(T) /\ ((\E i \in 1..Len(s) : s[i] \in A) => Keeping(s, A) # <<>>)
    OBVIOUS
  <2> HIDE DEF C
  <2>2. PICK r \in Seq(T), n \in Nat : r = Append(s, e) /\ n = Len(s)
    <3>1. Append(s, e) \in Seq(T) /\ Len(s) \in Nat
      BY <2>1, AppendProperties
    <3> QED
      BY <3>1
  <2>3. Len(r) = n + 1 /\ r[n + 1] = e /\ \A i \in 1..n : r[i] = s[i]
    BY <2>1, <2>2, AppendProperties
  <2>4. PICK k \in Seq(T \cap A) : k = Keeping(s, A)
    BY <2>1, KeepingType
  <2>5. ASSUME NEW i \in 1..(n + 1), r[i] \in A PROVE Keeping(r, A) # <<>>
    <3>1. CASE e \in A
      <4>1. Append(k, e) # <<>>
        BY <3>1, AppendProperties
      <4> QED
        BY <2>1, <2>2, <2>4, <3>1, <4>1, KeepingAppend
    <3>2. CASE e \notin A
      <4>1. i \in 1..n
        BY <2>3, <2>5, <3>2
      <4>2. Keeping(s, A) # <<>>
        BY <2>1, <2>2, <2>3, <2>5, <4>1
      <4> QED
        BY <2>1, <2>2, <3>2, <4>2, KeepingAppend
    <3> QED
      BY <3>1, <3>2
  <2> QED
    BY <2>2, <2>3, <2>5 DEF C
<1>3. C \in SUBSET Seq(T)
  OBVIOUS
<1> HIDE DEF C
<1>4. C = Seq(T)
  BY <1>1, <1>2, <1>3, SeqInduction
<1> QED
  BY <1>4 DEF C
-----------------------------------------------------------------------------
(* Calls and their results lose what is about todos in step.               *)
NotTodo == {m \in Message : ~IsTodoArtifact(m)}
Work == {c \in ToolCalls : c # "todo"}

LEMMA OnlyIsKeeping ==
    /\ \A s \in Seq(Message) : Only(s, LAMBDA m : ~IsTodoArtifact(m)) = Keeping(s, NotTodo)
    /\ \A c \in Seq(ToolCalls) : WithoutTodoCalls(c) = Keeping(c, Work)
<1>1. ASSUME NEW s \in Seq(Message)
      PROVE  Only(s, LAMBDA m : ~IsTodoArtifact(m)) = Keeping(s, NotTodo)
  <2>1. \A i \in DOMAIN s : s[i] \in NotTodo <=> ~IsTodoArtifact(s[i])
    BY DEF NotTodo
  <2>2. Only(s, LAMBDA m : ~IsTodoArtifact(m)) =
          FlattenSeq([i \in DOMAIN s |-> IF ~IsTodoArtifact(s[i]) THEN <<s[i]>> ELSE <<>>])
    BY DEF Only
  <2>3. [i \in DOMAIN s |-> IF ~IsTodoArtifact(s[i]) THEN <<s[i]>> ELSE <<>>]
          = [i \in DOMAIN s |-> IF s[i] \in NotTodo THEN <<s[i]>> ELSE <<>>]
    BY <2>1
  <2> QED
    BY <2>2, <2>3 DEF Keeping
<1>2. ASSUME NEW c \in Seq(ToolCalls) PROVE WithoutTodoCalls(c) = Keeping(c, Work)
  <2>1. \A i \in DOMAIN c : c[i] \in Work <=> c[i] # "todo"
    BY DEF Work
  <2>2. WithoutTodoCalls(c) =
          FlattenSeq([i \in DOMAIN c |-> IF c[i] # "todo" THEN <<c[i]>> ELSE <<>>])
    BY DEF WithoutTodoCalls, Only
  <2>3. [i \in DOMAIN c |-> IF c[i] # "todo" THEN <<c[i]>> ELSE <<>>]
          = [i \in DOMAIN c |-> IF c[i] \in Work THEN <<c[i]>> ELSE <<>>]
    BY <2>1
  <2> QED
    BY <2>2, <2>3 DEF Keeping
<1> QED
  BY <1>1, <1>2

Answers(u, c) ==
    /\ Len(u) = Len(c)
    /\ \A k \in 1..Len(c) : u[k].kind = "tool" /\ u[k].call = c[k]

LEMMA AnswersAppend ==
    ASSUME NEW u \in Seq(Message), NEW c \in Seq(ToolCalls), NEW x \in Message, NEW e \in ToolCalls
    PROVE  Answers(Append(u, x), Append(c, e)) <=>
             Answers(u, c) /\ x.kind = "tool" /\ x.call = e
<1>1. PICK v \in Seq(Message), d \in Seq(ToolCalls), n \in Nat, m \in Nat :
         v = Append(u, x) /\ d = Append(c, e) /\ n = Len(u) /\ m = Len(c)
  <2>1. Append(u, x) \in Seq(Message) /\ Append(c, e) \in Seq(ToolCalls)
        /\ Len(u) \in Nat /\ Len(c) \in Nat
    BY AppendProperties
  <2> QED
    BY <2>1
<1>2. Len(v) = n + 1 /\ v[n + 1] = x /\ \A i \in 1..n : v[i] = u[i]
  BY <1>1, AppendProperties
<1>3. Len(d) = m + 1 /\ d[m + 1] = e /\ \A i \in 1..m : d[i] = c[i]
  BY <1>1, AppendProperties
<1>4. ASSUME Answers(v, d) PROVE Answers(u, c) /\ x.kind = "tool" /\ x.call = e
  <2>1. n = m /\ \A k \in 1..(m + 1) : v[k].kind = "tool" /\ v[k].call = d[k]
    BY <1>2, <1>3, <1>4 DEF Answers
  <2>2. m + 1 \in 1..(m + 1) /\ \A k \in 1..m : k \in 1..(m + 1)
    OBVIOUS
  <2> QED
    BY <1>1, <1>2, <1>3, <2>1, <2>2 DEF Answers
<1>5. ASSUME Answers(u, c), x.kind = "tool", x.call = e PROVE Answers(v, d)
  <2>1. n = m /\ \A k \in 1..m : u[k].kind = "tool" /\ u[k].call = c[k]
    BY <1>1, <1>5 DEF Answers
  <2>2. ASSUME NEW k \in 1..(m + 1) PROVE v[k].kind = "tool" /\ v[k].call = d[k]
    <3>1. CASE k \in 1..m
      BY <1>2, <1>3, <2>1, <3>1
    <3>2. CASE k = m + 1
      BY <1>2, <1>3, <1>5, <2>1, <3>2
    <3> QED
      BY <3>1, <3>2
  <2> QED
    BY <1>2, <1>3, <2>1, <2>2 DEF Answers
<1> QED
  BY <1>1, <1>4, <1>5

LEMMA AnswersKept ==
    ASSUME NEW c0 \in Seq(ToolCalls), NEW u0 \in Seq(Message), Answers(u0, c0)
    PROVE  Answers(Keeping(u0, NotTodo), Keeping(c0, Work))
<1> DEFINE C == {c \in Seq(ToolCalls) : \A u \in Seq(Message) :
                    Answers(u, c) => Answers(Keeping(u, NotTodo), Keeping(c, Work))}
<1>1. <<>> \in C
  <2>1. ASSUME NEW u \in Seq(Message), Answers(u, <<>>)
        PROVE  Answers(Keeping(u, NotTodo), Keeping(<<>>, Work))
    <3>1. u = <<>>
      BY <2>1 DEF Answers
    <3>2. \A A : Keeping(<<>>, A) = <<>>
      BY DEF Keeping, FlattenSeq
    <3> QED
      BY <2>1, <3>1, <3>2
  <2>2. <<>> \in Seq(ToolCalls)
    OBVIOUS
  <2> QED
    BY <2>1, <2>2
<1>2. ASSUME NEW c \in C, NEW e \in ToolCalls PROVE Append(c, e) \in C
  <2>1. c \in Seq(ToolCalls)
    OBVIOUS
  <2>2. ASSUME NEW u \in Seq(Message), Answers(u, c)
        PROVE  Answers(Keeping(u, NotTodo), Keeping(c, Work))
    BY <2>2
  <2> HIDE DEF C
  <2>3. ASSUME NEW u \in Seq(Message), Answers(u, Append(c, e))
        PROVE  Answers(Keeping(u, NotTodo), Keeping(Append(c, e), Work))
    <3>1. u # <<>>
      <4>1. Len(u) = Len(c) + 1 /\ Len(c) \in Nat
        BY <2>1, <2>3, AppendProperties DEF Answers
      <4> QED
        BY <4>1
    <3>2. PICK v \in Seq(Message), x \in Message : u = Append(v, x)
      BY <3>1, SequenceEmptyOrAppend
    <3>3. Answers(v, c) /\ x.kind = "tool" /\ x.call = e
      BY <2>1, <2>3, <3>2, AnswersAppend
    <3>4. PICK p \in Seq(Message), q \in Seq(ToolCalls) :
             p = Keeping(v, NotTodo) /\ q = Keeping(c, Work) /\ Answers(p, q)
      <4>1. Keeping(v, NotTodo) \in Seq(Message \cap NotTodo) /\ Keeping(c, Work) \in Seq(ToolCalls \cap Work)
        BY <2>1, KeepingType
      <4>2. Keeping(v, NotTodo) \in Seq(Message) /\ Keeping(c, Work) \in Seq(ToolCalls)
        BY <4>1, SeqMonotonic
      <4> QED
        BY <2>2, <3>3, <4>2
    <3>5. Keeping(u, NotTodo) = IF x \in NotTodo THEN Append(p, x) ELSE p
      BY <3>2, <3>4, KeepingAppend
    <3>6. Keeping(Append(c, e), Work) = IF e \in Work THEN Append(q, e) ELSE q
      BY <2>1, <3>4, KeepingAppend
    <3>7. x \in NotTodo <=> e \in Work
      BY <3>3 DEF NotTodo, Work, IsTodoArtifact
    <3>8. Answers(Append(p, x), Append(q, e))
      BY <3>3, <3>4, AnswersAppend
    <3> QED
      BY <3>4, <3>5, <3>6, <3>7, <3>8
  <2>4. Append(c, e) \in Seq(ToolCalls)
    BY <2>1, AppendProperties
  <2> QED
    BY <2>3, <2>4 DEF C
<1>3. C \in SUBSET Seq(ToolCalls)
  OBVIOUS
<1> HIDE DEF C
<1>4. C = Seq(ToolCalls)
  BY <1>1, <1>2, <1>3, SeqInduction
<1> QED
  BY <1>4 DEF C
-----------------------------------------------------------------------------
(* What a completed task leaves of a conversation is one.                  *)
Mapped(x) == [i \in DOMAIN x |-> WithoutTodo(x[i])]
Pruned(t) == Mapped(Keeping(t, NotTodo))

LEMMA WithoutTodoType ==
    ASSUME NEW m \in Message
    PROVE  /\ WithoutTodo(m) \in Message
           /\ m.kind # "ai" => WithoutTodo(m) = m
           /\ m.kind = "ai" => /\ WithoutTodo(m).kind = "ai" /\ WithoutTodo(m).text = m.text
                               /\ WithoutTodo(m).calls = Keeping(m.calls, Work)
<1>1. CASE m.kind = "ai"
  <2>1. m \in [kind : {"ai"}, calls : Seq(ToolCalls), text : BOOLEAN]
    BY <1>1, KindFields
  <2>2. PICK c \in Seq(ToolCalls) : c = Keeping(m.calls, Work)
    <3>1. Keeping(m.calls, Work) \in Seq(ToolCalls \cap Work)
      BY <2>1, KeepingType
    <3>2. Keeping(m.calls, Work) \in Seq(ToolCalls)
      BY <3>1, SeqMonotonic
    <3> QED
      BY <3>2
  <2>3. WithoutTodo(m) = [m EXCEPT !.calls = c]
    BY <1>1, <2>1, <2>2, OnlyIsKeeping DEF WithoutTodo
  <2>4. /\ [m EXCEPT !.calls = c] \in [kind : {"ai"}, calls : Seq(ToolCalls), text : BOOLEAN]
        /\ [m EXCEPT !.calls = c].text = m.text /\ [m EXCEPT !.calls = c].calls = c
    BY <2>1
  <2> QED
    BY <1>1, <2>2, <2>3, <2>4 DEF Message
<1>2. CASE m.kind # "ai"
  BY <1>2 DEF WithoutTodo
<1> QED
  BY <1>1, <1>2

LEMMA MappedType ==
    ASSUME NEW x \in Seq(Message)
    PROVE  Mapped(x) \in Seq(Message) /\ Len(Mapped(x)) = Len(x)
           /\ \A i \in 1..Len(x) : Mapped(x)[i] = WithoutTodo(x[i])
<1>1. PICK n \in Nat : DOMAIN x = 1..n /\ Len(x) = n
  OBVIOUS
<1>2. \A i \in 1..n : WithoutTodo(x[i]) \in Message
  BY <1>1, WithoutTodoType
<1> QED
  BY <1>1, <1>2 DEF Mapped

LEMMA MappedJoined ==
    ASSUME NEW s \in Seq(Message), NEW b \in Seq(Message)
    PROVE  Mapped(s \o b) = Mapped(s) \o Mapped(b)
<1>1. PICK r \in Seq(Message), n \in Nat, m \in Nat : r = s \o b /\ n = Len(s) /\ m = Len(b)
  BY Joined
<1>2. Halves(r, n, m, s, b) /\ Len(r) = n + m
  BY <1>1, HalvesJoined, Joined
<1>3. PICK x, y, z \in Seq(Message) : x = Mapped(s) /\ y = Mapped(b) /\ z = Mapped(r)
  BY MappedType
<1>4. /\ Len(x) = n /\ Len(y) = m /\ Len(z) = n + m
      /\ \A i \in 1..n : x[i] = WithoutTodo(s[i])
      /\ \A i \in 1..m : y[i] = WithoutTodo(b[i])
      /\ \A i \in 1..(n + m) : z[i] = WithoutTodo(r[i])
  <2>1. Len(x) = n /\ \A i \in 1..n : x[i] = WithoutTodo(s[i])
    BY <1>1, <1>3, MappedType
  <2>2. Len(y) = m /\ \A i \in 1..m : y[i] = WithoutTodo(b[i])
    BY <1>1, <1>3, MappedType
  <2>3. Len(z) = n + m /\ \A i \in 1..(n + m) : z[i] = WithoutTodo(r[i])
    BY <1>2, <1>3, MappedType
  <2> QED
    BY <2>1, <2>2, <2>3
<1>5. PICK w \in Seq(Message) : w = x \o y
  BY Joined
<1>6. Halves(w, n, m, x, y) /\ Len(w) = n + m
  BY <1>4, <1>5, HalvesJoined, Joined
<1>7. ASSUME NEW i \in 1..Len(w) PROVE w[i] = z[i]
  <2>1. i \in 1..(n + m)
    BY <1>6
  <2>2. CASE i \in 1..n
    <3>1. r[i] = s[i] /\ w[i] = x[i]
      BY <1>2, <1>6, <2>2 DEF Halves
    <3> QED
      BY <1>4, <2>1, <2>2, <3>1
  <2>3. CASE i \notin 1..n
    <3>1. PICK j \in 1..m : i = n + j
      <4>1. i - n \in 1..m /\ i = n + (i - n)
        BY <2>1, <2>3
      <4> QED
        BY <4>1
    <3>2. r[i] = b[j] /\ w[i] = y[j]
      BY <1>2, <1>6, <3>1 DEF Halves
    <3> QED
      BY <1>4, <2>1, <3>1, <3>2
  <2> QED
    BY <2>2, <2>3
<1>8. w = z
  BY <1>4, <1>6, <1>7, SeqEqual
<1> QED
  BY <1>1, <1>3, <1>5, <1>8

LEMMA KeptType ==
    ASSUME NEW t \in Seq(Message)
    PROVE  Keeping(t, NotTodo) \in Seq(Message)
<1>1. Keeping(t, NotTodo) \in Seq(Message \cap NotTodo)
  BY KeepingType
<1> QED
  BY <1>1, SeqMonotonic

LEMMA PrunedJoined ==
    ASSUME NEW s \in Seq(Message), NEW b \in Seq(Message)
    PROVE  Pruned(s \o b) = Pruned(s) \o Pruned(b)
<1>1. Keeping(s \o b, NotTodo) = Keeping(s, NotTodo) \o Keeping(b, NotTodo)
  BY KeepingJoined
<1> QED
  BY <1>1, KeptType, MappedJoined DEF Pruned

LEMMA PrunedOne ==
    ASSUME NEW m \in Message
    PROVE  Pruned(<<m>>) = IF IsTodoArtifact(m) THEN <<>> ELSE <<WithoutTodo(m)>>
<1>1. Keeping(<<m>>, NotTodo) = IF IsTodoArtifact(m) THEN <<>> ELSE <<m>>
  BY KeepingOne DEF NotTodo
<1>2. Mapped(<<>>) = <<>> /\ Mapped(<<m>>) = <<WithoutTodo(m)>>
  BY DEF Mapped
<1> QED
  BY <1>1, <1>2 DEF Pruned

LEMMA ResultsPruned ==
    ASSUME NEW u \in Seq(Message), NEW c \in Seq(ToolCalls), Answers(u, c)
    PROVE  Pruned(u) \in Seq(Message) /\ Answers(Pruned(u), Keeping(c, Work))
<1>1. PICK k \in Seq(Message) : k = Keeping(u, NotTodo)
  BY KeptType
<1>2. PICK d \in Seq(ToolCalls) : d = Keeping(c, Work)
  <2>1. Keeping(c, Work) \in Seq(ToolCalls \cap Work)
    BY KeepingType
  <2>2. Keeping(c, Work) \in Seq(ToolCalls)
    BY <2>1, SeqMonotonic
  <2> QED
    BY <2>2
<1>3. Answers(k, d)
  BY <1>1, <1>2, AnswersKept
<1>4. PICK v \in Seq(Message) : v = Mapped(k) /\ Len(v) = Len(k)
                                /\ \A i \in 1..Len(k) : v[i] = WithoutTodo(k[i])
  BY MappedType
<1>5. ASSUME NEW i \in 1..Len(k) PROVE v[i] = k[i]
  <2>1. k[i] \in Message /\ k[i].kind = "tool"
    BY <1>3, ElementOfSeq DEF Answers
  <2> QED
    BY <1>4, <2>1, WithoutTodoType
<1>6. v = k
  BY <1>4, <1>5, SeqEqual
<1> QED
  BY <1>1, <1>2, <1>3, <1>4, <1>6 DEF Pruned

LEMMA ExchangePruned ==
    ASSUME NEW m \in Message, m.kind = "ai", m.text \/ m.calls # <<>>,
           NEW u \in Seq(Message), Answers(u, m.calls)
    PROVE  Pruned(<<m>> \o u) \in Conversations
<1>1. m.calls \in Seq(ToolCalls) /\ m.text \in BOOLEAN
  BY KindFields
<1>2. PICK c \in Seq(ToolCalls), d \in Seq(ToolCalls) : c = m.calls /\ d = Keeping(c, Work)
  <2>1. Keeping(m.calls, Work) \in Seq(ToolCalls \cap Work)
    BY <1>1, KeepingType
  <2>2. Keeping(m.calls, Work) \in Seq(ToolCalls)
    BY <2>1, SeqMonotonic
  <2> QED
    BY <1>1, <2>2
<1>3. PICK v \in Seq(Message) : v = Pruned(u) /\ Answers(v, d)
  BY <1>2, ResultsPruned
<1>4. Pruned(<<m>> \o u) = Pruned(<<m>>) \o v
  <2>1. <<m>> \in Seq(Message)
    OBVIOUS
  <2> QED
    BY <1>3, <2>1, PrunedJoined
<1>5. CASE IsTodoArtifact(m)
  <2>1. Range(c) = {"todo"}
    BY <1>2, <1>5 DEF IsTodoArtifact
  <2>2. c \in Seq({"todo"})
    <3>1. \A i \in DOMAIN c : c[i] = "todo"
      BY <2>1 DEF Range
    <3>2. Len(c) \in Nat /\ DOMAIN c = 1..Len(c) /\ c = [i \in 1..Len(c) |-> c[i]]
      OBVIOUS
    <3>3. \A i \in 1..Len(c) : c[i] \in {"todo"}
      BY <3>1, <3>2
    <3>4. [i \in 1..Len(c) |-> c[i]] \in Seq({"todo"})
      BY <3>2, <3>3
    <3> QED
      BY <3>2, <3>4
  <2>3. d \in Seq({"todo"} \cap Work)
    BY <1>2, <2>2, KeepingType
  <2>4. {"todo"} \cap Work = {}
    BY DEF Work
  <2>5. d = <<>>
    BY <2>3, <2>4
  <2>6. v = <<>>
    BY <1>3, <2>5 DEF Answers
  <2>7. Pruned(<<m>>) = <<>>
    BY <1>5, PrunedOne
  <2> QED
    BY <1>4, <2>6, <2>7, ConcatEmptySeq, ConversationsGrow DEF Grows
<1>6. CASE ~IsTodoArtifact(m)
  <2>1. PICK w \in Message : w = WithoutTodo(m) /\ w.kind = "ai" /\ w.text = m.text /\ w.calls = d
    BY <1>2, WithoutTodoType
  <2>2. Pruned(<<m>>) = <<w>>
    BY <1>6, <2>1, PrunedOne
  <2>3. w.text \/ w.calls # <<>>
    <3> SUFFICES ASSUME ~m.text PROVE d # <<>>
      BY <1>1, <2>1
    <3>1. c # <<>> /\ Range(c) # {"todo"}
      BY <1>2, <1>6 DEF IsTodoArtifact
    <3>2. PICK i \in 1..Len(c) : c[i] # "todo"
      <4>1. PICK n \in Nat : Len(c) = n /\ DOMAIN c = 1..n /\ n >= 1
        BY <3>1
      <4>2. 1 \in 1..n
        BY <4>1
      <4>3. ASSUME \A i \in 1..n : c[i] = "todo" PROVE FALSE
        BY <3>1, <4>1, <4>2, <4>3 DEF Range
      <4> QED
        BY <4>1, <4>3
    <3>3. c[i] \in Work
      <4>1. c[i] \in ToolCalls
        BY ElementOfSeq
      <4> QED
        BY <3>2, <4>1 DEF Work
    <3> QED
      BY <1>2, <3>3, KeepingSome
  <2>4. Len(v) = Len(w.calls) /\ \A k \in 1..Len(v) : v[k].kind = "tool" /\ v[k].call = w.calls[k]
    BY <1>3, <2>1 DEF Answers
  <2>5. <<w>> \o v \in Block
    BY <2>1, <2>3, <2>4, ExchangeIsBlock
  <2> QED
    BY <1>4, <2>2, <2>5, BlocksConverse
<1> QED
  BY <1>5, <1>6

LEMMA BlockPruned == ASSUME NEW b \in Block PROVE Pruned(b) \in Conversations
<1>1. CASE Len(b) = 1 /\ IsHuman(b[1])
  <2>1. PICK m \in Message : m = b[1]
    <3>1. b \in Seq(Message) /\ 1 \in 1..Len(b)
      BY <1>1, BlockType
    <3> QED
      BY <3>1, ElementOfSeq
  <2>2. b = <<m>>
    BY <1>1, <2>1, BlockType
  <2>3. WithoutTodo(m) = m /\ IsHuman(m)
    BY <1>1, <2>1, WithoutTodoType DEF IsHuman
  <2>4. <<m>> \in Conversations /\ <<>> \in Conversations
    BY <2>3, BlocksConverse, ConversationsGrow DEF Block, Grows
  <2> QED
    BY <2>2, <2>3, <2>4, PrunedOne
<1>2. CASE /\ b[1].kind = "ai" /\ b[1].calls \in Seq(ToolCalls)
           /\ Len(b) = 1 + Len(b[1].calls) /\ (b[1].text \/ b[1].calls # <<>>)
           /\ \A k \in 1..Len(b[1].calls) : b[1 + k].kind = "tool" /\ b[1 + k].call = b[1].calls[k]
  <2>1. PICK c \in Seq(ToolCalls), n \in Nat : c = b[1].calls /\ n = Len(c) /\ Len(b) = 1 + n
    BY <1>2
  <2>2. b \in Seq(Message) /\ 1 \in Nat
    BY BlockType
  <2>3. PICK h \in Seq(Message), u \in Seq(Message) : Halves(b, 1, n, h, u)
    BY <2>1, <2>2, Divided
  <2>4. PICK m \in Message : m = b[1] /\ h = <<m>>
    <3>1. Len(h) = 1 /\ h[1] = b[1]
      <4>1. Len(h) = 1 /\ \A i \in 1..1 : h[i] = b[i]
        BY <2>3 DEF Halves
      <4>2. 1 \in 1..1
        OBVIOUS
      <4> QED
        BY <4>1, <4>2
    <3>2. h[1] \in Message
      <4>1. 1 \in 1..Len(h)
        BY <3>1
      <4> QED
        BY <4>1, ElementOfSeq
    <3> QED
      BY <3>1, <3>2
  <2>5. b = <<m>> \o u
    BY <2>3, <2>4 DEF Halves
  <2>6. Answers(u, m.calls)
    BY <1>2, <2>1, <2>3, <2>4 DEF Halves, Answers
  <2> QED
    BY <1>2, <2>4, <2>5, <2>6, ExchangePruned
<1> QED
  BY <1>1, <1>2, BlockIs
-----------------------------------------------------------------------------
LEMMA ConversationPruned == ASSUME NEW s \in Conversations PROVE Pruned(s) \in Conversations
<1> DEFINE C == {t \in Seq(Message) : Pruned(t) \in Conversations}
<1>1. <<>> \in C
  <2>1. Pruned(<<>>) = <<>> /\ <<>> \in Seq(Message)
    BY DEF Pruned, Mapped, Keeping, FlattenSeq
  <2> QED
    BY <2>1, ConversationsGrow DEF Grows
<1>2. ASSUME NEW t \in C, NEW b \in Block PROVE t \o b \in C
  <2>1. t \in Seq(Message) /\ Pruned(t) \in Conversations /\ b \in Seq(Message)
    BY BlockType
  <2>2. Pruned(t \o b) \in Conversations
    BY <2>1, PrunedJoined, BlockPruned, ConversationsJoined
  <2>3. t \o b \in Seq(Message)
    BY <2>1, ConcatProperties
  <2> QED
    BY <2>2, <2>3
<1>3. C \in SUBSET Seq(Message)
  OBVIOUS
<1> HIDE DEF C
<1>4. Conversations \subseteq C
  BY <1>1, <1>2, <1>3, ConversationInduction DEF Grows
<1> QED
  BY <1>4 DEF C

(* What stands after the beginning of a list.                              *)
LEMMA AfterIs ==
    ASSUME NEW s \in Seq(Message), NEW t \in Seq(Message)
    PROVE  SubSeq(s \o t, 1, Len(s)) = s /\ After(s \o t, Len(s)) = t
<1>1. PICK r \in Seq(Message), n \in Nat, m \in Nat : r = s \o t /\ n = Len(s) /\ m = Len(t)
  BY Joined
<1>2. Halves(r, n, m, s, t) /\ Len(r) = n + m
  BY <1>1, HalvesJoined, Joined
<1>3. PICK u \in Seq(Message), v \in Seq(Message) :
         /\ u = SubSeq(r, 1, n) /\ Len(u) = n
         /\ \A i \in 1..n : u[i] = r[i]
         /\ v = SubSeq(r, n + 1, n + m) /\ Len(v) = m
         /\ \A j \in 1..m : v[j] = r[n + j]
  <2> DEFINE u == SubSeq(r, 1, n)
             v == SubSeq(r, n + 1, n + m)
  <2>1. u \in Seq(Message) /\ Len(u) = n /\ \A i \in 1..n : u[i] = r[i]
    BY <1>2
  <2>2. v \in Seq(Message) /\ Len(v) = m /\ \A j \in 1..m : v[j] = r[n + j]
    BY <1>2
  <2> QED
    BY <2>1, <2>2
<1>4. u = s
  <2>1. \A i \in 1..Len(u) : u[i] = s[i]
    BY <1>2, <1>3 DEF Halves
  <2> QED
    BY <1>1, <1>3, <2>1, SeqEqual
<1>5. v = t
  <2>1. \A i \in 1..Len(v) : v[i] = t[i]
    BY <1>2, <1>3 DEF Halves
  <2> QED
    BY <1>1, <1>3, <2>1, SeqEqual
<1> QED
  BY <1>1, <1>2, <1>3, <1>4, <1>5 DEF After

LEMMA CompactedConverses ==
    ASSUME NEW s \in Conversations, NEW t \in Conversations
    PROVE  Compacted(s \o t, Len(s)) \in Conversations
<1>1. s \in Seq(Message) /\ t \in Seq(Message)
  BY ConversationsGrow
<1>2. PICK p \in Conversations : p = Pruned(t)
  BY ConversationPruned
<1>3. Prune(s \o t, Len(s)) = s \o p
  <2>1. Only(t, LAMBDA m : ~IsTodoArtifact(m)) = Keeping(t, NotTodo)
    BY <1>1, OnlyIsKeeping
  <2>2. Prune(s \o t, Len(s)) = s \o Mapped(Keeping(t, NotTodo))
    BY <1>1, <2>1, AfterIs DEF Prune, Mapped
  <2> QED
    BY <1>2, <2>2 DEF Pruned
<1>4. PICK q \in Conversations : q = Only(p, IsSummary)
  <2>1. p \in Seq(Message)
    BY ConversationsGrow
  <2> QED
    BY <2>1, SummariesConverse
<1>5. Collapse(s \o p, Len(s)) = IF q = <<>> THEN s \o p ELSE s \o q
  <2>1. p \in Seq(Message)
    BY ConversationsGrow
  <2> QED
    BY <1>1, <1>4, <2>1, AfterIs DEF Collapse
<1>6. s \o t \in Conversations /\ s \o p \in Conversations /\ s \o q \in Conversations
  BY ConversationsJoined
<1> QED
  BY <1>3, <1>5, <1>6 DEF Compacted
-----------------------------------------------------------------------------
(* Every list the session holds is a conversation, and what a planned turn *)
(* has added to the one it was given is one of its own until it is         *)
(* reduced; unless a turn was reduced at a position of another list.       *)
FormInv ==
    ~misplaced =>
        /\ messages \in Conversations /\ input \in Conversations
        /\ manual \in Conversations /\ disk \in Conversations
        /\ at = "compacting" =>
              \/ Len(messages) <= Len(input)
              \/ \E s, t \in Conversations : Len(s) = Len(input) /\ messages = s \o t

(* A list of which outputs are cut falls into conversations where the      *)
(* list did.                                                               *)
LEMMA ContinuesSimilar ==
    ASSUME NEW s \in Seq(Message), NEW t \in Seq(Message), Continues(s, t), Len(t) = Len(s)
    PROVE  Similar(s, t)
<1>1. DOMAIN s = 1..Len(s)
  OBVIOUS
<1>2. ASSUME NEW i \in 1..Len(s)
      PROVE  IF s[i].kind = "tool" THEN t[i].kind = "tool" /\ t[i].call = s[i].call ELSE t[i] = s[i]
  <2>1. s[i] \in Message
    BY <1>1
  <2>2. t[i] = s[i] \/ (s[i].kind = "tool" /\ t[i] = [s[i] EXCEPT !.size = "cut"])
    BY <1>1 DEF Continues
  <2> QED
    BY <2>1, <2>2, CutTwice
<1> QED
  BY <1>2 DEF Similar

LEMMA SimilarDivides ==
    ASSUME NEW s \in Conversations, NEW t \in Conversations, NEW r \in Seq(Message), Similar(s \o t, r)
    PROVE  \E u, v \in Conversations : Len(u) = Len(s) /\ r = u \o v
<1>1. PICK w \in Seq(Message), n \in Nat, m \in Nat : w = s \o t /\ n = Len(s) /\ m = Len(t)
  BY ConversationsGrow, Joined
<1>2. /\ Len(w) = n + m
      /\ \A i \in 1..n : w[i] = s[i]
      /\ \A j \in 1..m : w[n + j] = t[j]
  BY <1>1, ConversationsGrow, Joined
<1>3. /\ Len(r) = n + m
      /\ \A i \in 1..(n + m) :
           IF w[i].kind = "tool" THEN r[i].kind = "tool" /\ r[i].call = w[i].call ELSE r[i] = w[i]
  BY <1>1, <1>2 DEF Similar
<1>4. PICK u, v \in Seq(Message) : Halves(r, n, m, u, v)
  <2>1. Len(r) = n + m
    BY <1>3
  <2> QED
    BY <2>1, Divided
<1>5. Similar(s, u)
  <2>1. ASSUME NEW i \in 1..n
        PROVE  IF s[i].kind = "tool" THEN u[i].kind = "tool" /\ u[i].call = s[i].call ELSE u[i] = s[i]
    <3>1. w[i] = s[i] /\ u[i] = r[i] /\ i \in 1..(n + m)
      BY <1>2, <1>4 DEF Halves
    <3> QED
      BY <1>3, <3>1
  <2> QED
    BY <1>1, <1>4, <2>1 DEF Similar, Halves
<1>6. Similar(t, v)
  <2>1. ASSUME NEW j \in 1..m
        PROVE  IF t[j].kind = "tool" THEN v[j].kind = "tool" /\ v[j].call = t[j].call ELSE v[j] = t[j]
    <3>1. PICK i \in 1..(n + m) : i = n + j
      OBVIOUS
    <3>2. w[i] = t[j] /\ v[j] = r[i]
      BY <1>2, <1>4, <3>1 DEF Halves
    <3> QED
      BY <1>3, <3>2
  <2> QED
    BY <1>1, <1>4, <2>1 DEF Similar, Halves
<1>7. u \in Conversations /\ v \in Conversations
  BY <1>5, <1>6, SimilarConverses
<1>8. r = u \o v /\ Len(u) = n
  BY <1>4 DEF Halves
<1> QED
  BY <1>1, <1>7, <1>8

LEMMA FormStep == Inv /\ Inv' /\ FormInv /\ [Next]_vars => FormInv'
<1> SUFFICES ASSUME Inv, Inv', FormInv, [Next]_vars, ~misplaced' PROVE FormInv'
  BY DEF FormInv
<1>00. ~misplaced
  BY DEF Next, vars, Send, CompressContext, MergeSummaries, StartGraph, EndUnplanned, EndPlanned,
         Compact, StopTurn, CutOff, Clear, Restart, OpenScreen, CloseScreen, StartManual, FinishManual,
         Watch
<1>0. /\ messages \in Conversations /\ input \in Conversations
      /\ manual \in Conversations /\ disk \in Conversations
      /\ at = "compacting" =>
            \/ Len(messages) <= Len(input)
            \/ \E s, t \in Conversations : Len(s) = Len(input) /\ messages = s \o t
  BY <1>00 DEF FormInv
<1>1. /\ \A s : Save(s) => disk' = s \/ disk' = disk
      /\ <<>> \in Conversations /\ messages \in Seq(Message) /\ input \in Seq(Message)
      /\ manual \in Seq(Message) /\ TypeOK
  BY ConversationsGrow DEF Save, Grows, Inv, TypeOK
<1>3. ASSUME NEW s \in Conversations, Settle(s), UNCHANGED manual PROVE FormInv'
  BY <1>0, <1>1, <1>3 DEF Settle, FormInv
<1>4. CASE UNCHANGED vars
  BY <1>0, <1>4 DEF vars, FormInv
<1>5. CASE Send
  <2>1. User(turn + 1) \in Message /\ IsHuman(User(turn + 1))
    BY MessageTypes DEF Inv, TypeOK, IsHuman, User
  <2>2. messages' \in Conversations
    BY <1>0, <1>5, <2>1, OneMoreConverses DEF Send
  <2> QED
    BY <1>0, <1>5, <2>2 DEF Send, FormInv
<1>6. CASE CompressContext
  <2>1. Trimmed(messages) \in Conversations
    <3>1. \A i \in OldResults(messages, {"big"}) : messages[i].kind = "tool"
      BY DEF OldResults
    <3> QED
      BY <1>0, <3>1, TrimConverses DEF Trimmed
  <2> QED
    BY <1>0, <1>6, <2>1 DEF CompressContext, FormInv
<1>7. CASE MergeSummaries
  BY <1>0, <1>7, MergedConverses DEF MergeSummaries, FormInv
<1>8. CASE StartGraph
  BY <1>0, <1>8 DEF StartGraph, FormInv
<1>9. CASE EndUnplanned
  <2>1. PICK new \in Transcripts : Settle(input \o new)
    BY <1>9 DEF EndUnplanned
  <2>2. input \o new \in Conversations
    BY <1>0, TranscriptsConverse, ConversationsJoined
  <2> QED
    BY <1>3, <1>9, <2>1, <2>2 DEF EndUnplanned
<1>10. CASE EndPlanned
  <2>1. PICK new \in Transcripts, facts \in TaskFacts :
           messages' = Append(input \o new, Summary(<<<<"goal", turn>>>>, facts, FALSE))
    BY <1>10 DEF EndPlanned
  <2>2. PICK m \in Message : m = Summary(<<<<"goal", turn>>>>, facts, FALSE) /\ IsHuman(m)
    BY <1>1, TaskSummaryType DEF Summary, IsHuman
  <2>3. PICK t \in Conversations : t = Append(new, m)
    BY <2>2, TranscriptsConverse, OneMoreConverses
  <2>4. messages' = input \o t
    <3>1. Append(new, m) = new \o <<m>> /\ Append(input \o new, m) = (input \o new) \o <<m>>
          /\ new \in Seq(Message) /\ input \in Seq(Message) /\ <<m>> \in Seq(Message)
      <4>1. new \in Seq(Message) /\ input \in Seq(Message)
        BY TranscriptTypes DEF Inv, TypeOK
      <4>2. input \o new \in Seq(Message)
        BY <4>1, ConcatProperties
      <4> QED
        BY <4>1, <4>2, AppendIsConcat
    <3>2. (input \o new) \o <<m>> = input \o (new \o <<m>>)
      BY <3>1, ConcatAssociative
    <3> QED
      BY <2>1, <2>2, <2>3, <3>1, <3>2
  <2>5. messages' \in Conversations
    BY <1>0, <2>4, ConversationsJoined
  <2> QED
    BY <1>0, <1>10, <2>3, <2>4, <2>5 DEF EndPlanned, FormInv
<1>11. CASE Compact
  <2>1. Compacted(messages, Len(input)) \in Conversations
    <3>1. CASE Len(messages) <= Len(input)
      <4>1. Compacted(messages, Len(input)) = messages
        BY <1>1, <3>1 DEF Compacted
      <4> QED
        BY <1>0, <4>1
    <3>2. CASE \E s, t \in Conversations : Len(s) = Len(input) /\ messages = s \o t
      <4>1. PICK s, t \in Conversations : Len(s) = Len(input) /\ messages = s \o t
        BY <3>2
      <4>2. Compacted(s \o t, Len(s)) \in Conversations
        BY CompactedConverses
      <4> QED
        BY <4>1, <4>2
    <3> QED
      BY <1>0, <1>11, <3>1, <3>2 DEF Compact
  <2> QED
    BY <1>3, <1>11, <2>1 DEF Compact
<1>12. CASE StopTurn
  <2>1. Append(messages, Answer) \in Conversations
    BY <1>0, MessageTypes, OneMoreConverses
  <2> QED
    BY <1>3, <1>12, <2>1 DEF StopTurn
<1>13. CASE CutOff
  BY <1>0, <1>1, <1>13 DEF CutOff, FormInv
<1>14. CASE Clear
  BY <1>1, <1>3, <1>14 DEF Clear
<1>15. CASE Restart
  <2>1. messages' = disk \/ messages' = <<>>
    BY <1>15, Zenon DEF Restart
  <2> QED
    BY <1>0, <1>1, <1>15, <2>1 DEF Restart, FormInv
<1>16. CASE OpenScreen \/ CloseScreen
  BY <1>0, <1>16 DEF OpenScreen, CloseScreen, FormInv
<1>17. CASE StartManual
  <2>1. \A chosen : TrimSizes(messages, Compressible(chosen, messages)) \in Conversations
    <3>1. \A i \in OldResults(messages, {"big", "small"}) : messages[i].kind = "tool"
      BY DEF OldResults
    <3> QED
      BY <1>0, <3>1, TrimConverses DEF Compressible
  <2>2. manual' \in Conversations
    BY <1>17, <2>1 DEF StartManual
  <2> QED
    BY <1>0, <1>17, <2>2 DEF StartManual, FormInv
<1>18. CASE FinishManual
  <2>1. messages' = manual /\ manual' = <<>> /\ input' = input /\ at' = at /\ manual # <<>>
        /\ (disk' = manual \/ disk' = disk)
    BY <1>1, <1>18 DEF FinishManual
  <2>2. ASSUME at = "compacting"
        PROVE  \/ Len(manual) <= Len(input)
               \/ \E s, t \in Conversations : Len(s) = Len(input) /\ manual = s \o t
    <3>1. CASE stale
      <4>1. ~(Len(manual) > Len(input))
        BY <1>18, <2>2, <3>1 DEF FinishManual
      <4> QED
        BY <1>1, <4>1
    <3>2. CASE ~stale
      <4>1. Continues(messages, manual) /\ Len(manual) = Len(messages)
        BY <2>1, <3>2 DEF Inv, ManualInv
      <4>2. CASE Len(messages) <= Len(input)
        BY <4>1, <4>2
      <4>3. CASE \E s, t \in Conversations : Len(s) = Len(input) /\ messages = s \o t
        <5>1. PICK s, t \in Conversations : Len(s) = Len(input) /\ messages = s \o t
          BY <4>3
        <5>2. Similar(s \o t, manual)
          BY <1>1, <4>1, <5>1, ContinuesSimilar
        <5>3. \E u, v \in Conversations : Len(u) = Len(s) /\ manual = u \o v
          BY <1>1, <5>2, SimilarDivides
        <5> QED
          BY <5>1, <5>3
      <4> QED
        BY <1>0, <2>2, <4>2, <4>3
    <3> QED
      BY <3>1, <3>2
  <2> QED
    BY <1>0, <1>1, <2>1, <2>2 DEF FormInv
<1> QED
  BY <1>4, <1>5, <1>6, <1>7, <1>8, <1>9, <1>10, <1>11, <1>12, <1>13, <1>14, <1>15, <1>16, <1>17,
     <1>18 DEF Next

(* messages_to_provider_format and _convert_messages, for histories of any *)
(* length and whatever overlaps: the next request is one that both         *)
(* services accept, with every message in it, in memory, before the graph, *)
(* about to be installed and on disk; unless a list computed from an       *)
(* earlier history was installed just before the turn was reduced.         *)
THEOREM HistoryIsAccepted == Spec => []ProviderAccepts
<1>1. Init => FormInv
  <2>1. <<>> \in Conversations
    BY ConversationsGrow DEF Grows
  <2> QED
    BY <2>1 DEF Init, FormInv
<1>2. FormInv => ProviderAccepts
  <2> SUFFICES ASSUME FormInv, ~misplaced, NEW s \in {messages, input, manual, disk}
               PROVE  Accepted(s)
    BY DEF ProviderAccepts
  <2>1. s \in Conversations
    BY DEF FormInv
  <2> QED
    BY <2>1, ConversationAccepted DEF Accepted, Formed
<1> HIDE DEF turnVars, manualVars, diskVars, screen, overlap
<1>3. Spec => []FormInv
  <2>1. Inv /\ Inv' /\ FormInv /\ [Next]_vars => FormInv'
    BY FormStep
  <2> QED
    BY <1>1, <2>1, InvHolds, PTL DEF Spec
<1> QED
  BY <1>2, <1>3, PTL
=============================================================================
