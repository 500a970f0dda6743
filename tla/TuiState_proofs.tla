-------------------------- MODULE TuiState_proofs --------------------------
(***************************************************************************)
(* What the timeline of the terminal interface shows, for every number of  *)
(* events and turns and every length of the timeline: each piece of text   *)
(* once, a model call as running only while it runs, and the summary of a  *)
(* turn that changed files.                                                *)
(*                                                                         *)
(* Three invariants, each on the one before: WaitInv (which rows are open, *)
(* and who runs), SummaryInv (what the rows of the turn tell), TextInv     *)
(* (what they show).  An event reaches the rows through Applied, and all   *)
(* that is needed of it is said once: it changes rows in place, or it      *)
(* drops and alters rows in a way that Comes, Calms and Keeps describe,    *)
(* and then adds to the end (AppliedElse).                                 *)
(***************************************************************************)
EXTENDS TuiState, ListTheorems
-----------------------------------------------------------------------------
(* Rows, and lists of rows that come from another by dropping some.        *)
Kinds ==
    {"user", "agent_thinking", "text", "wait", "llm_note", "thinking_start", "thinking_delta",
     "thinking_end", "tool_start", "tool_result", "tool_end", "note", "summary"}
Statuses ==
    {"none", "running", "completed", "retrying", "timeout", "failed",
     "write", "other", "diff", "blank", "plain", "preview"}
Row == [by : Sessions, kind : Kinds, status : Statuses, text : Seq(Nat), left : BOOLEAN]

LEMMA EventType ==
    ASSUME NEW s \in Sessions, NEW kind \in Kinds, NEW status \in Statuses, NEW words \in Seq(Nat)
    PROVE  /\ Event(s, kind, status, words) \in Row
           /\ Event(s, kind, status, words).by = s /\ Event(s, kind, status, words).kind = kind
           /\ Event(s, kind, status, words).status = status
           /\ Event(s, kind, status, words).text = words /\ ~Event(s, kind, status, words).left
BY DEF Event, Row

Transient(r) == r.kind = "agent_thinking"

(* A row whose status may have changed, if it shows a model call.          *)
Like(r, o) ==
    /\ r.by = o.by /\ r.kind = o.kind /\ (o.left => r.left)
    /\ r.kind # "wait" => r.status = o.status

(* Row i of new is row f[i] of old.                                        *)
Comes(f, new, old) ==
    /\ f \in [DOMAIN new -> DOMAIN old]
    /\ \A i \in DOMAIN new : i <= f[i] /\ Like(new[i], old[f[i]])
    /\ \A i, j \in DOMAIN new : i < j => f[i] < f[j]

\* No call is shown as running that was not.
Calms(f, new, old) == \A i \in DOMAIN new : new[i].status \in {old[f[i]].status, "completed"}

\* Every row stays, the transient ones apart, and the first rows stay where they are.
Keeps(f, new, old) ==
    /\ \A k \in DOMAIN old : ~Transient(old[k]) => \E i \in DOMAIN new : f[i] = k
    /\ \A n \in DOMAIN old : (\A k \in 1..n : ~Transient(old[k])) => n \in DOMAIN new /\ f[n] = n

LEMMA LikeItself == \A r : Like(r, r)
BY DEF Like

LEMMA RowAt ==
    ASSUME NEW rows \in Seq(Row)
    PROVE  /\ DOMAIN rows = 1..Len(rows) /\ Len(rows) \in Nat
           /\ \A i \in DOMAIN rows :
                /\ i \in Nat /\ rows[i] \in Row
                /\ rows[i].by \in Sessions /\ rows[i].kind \in Kinds /\ rows[i].status \in Statuses
                /\ rows[i].text \in Seq(Nat) /\ rows[i].left \in BOOLEAN
<1>1. \A i \in DOMAIN rows : rows[i] \in Row
  BY ElementOfSeq
<1>2. DOMAIN rows = 1..Len(rows) /\ Len(rows) \in Nat
  BY LenProperties
<1> QED
  BY <1>1, <1>2 DEF Row

\* The same list, its statuses apart.
LEMMA ComesInPlace ==
    ASSUME NEW new \in Seq(Row), NEW old \in Seq(Row), DOMAIN new = DOMAIN old,
           \A i \in DOMAIN new : Like(new[i], old[i])
    PROVE  /\ Comes([i \in DOMAIN old |-> i], new, old)
           /\ Keeps([i \in DOMAIN old |-> i], new, old)
           /\ (\A i \in DOMAIN new : new[i].status \in {old[i].status, "completed"})
                => Calms([i \in DOMAIN old |-> i], new, old)
<1>1. DOMAIN old = 1..Len(old) /\ Len(old) \in Nat
  BY RowAt
<1>2. \A i \in DOMAIN old : i \in Nat
  BY <1>1
<1> QED
  BY <1>1, <1>2 DEF Comes, Keeps, Calms

LEMMA ComesOver ==
    ASSUME NEW new \in Seq(Row), NEW mid \in Seq(Row), NEW old \in Seq(Row), NEW f, NEW g,
           Comes(f, new, mid), Comes(g, mid, old)
    PROVE  /\ Comes([i \in DOMAIN new |-> g[f[i]]], new, old)
           /\ Calms(f, new, mid) /\ Calms(g, mid, old) => Calms([i \in DOMAIN new |-> g[f[i]]], new, old)
           /\ Keeps(f, new, mid) /\ Keeps(g, mid, old) => Keeps([i \in DOMAIN new |-> g[f[i]]], new, old)
<1> DEFINE h == [i \in DOMAIN new |-> g[f[i]]]
<1>0. /\ DOMAIN new = 1..Len(new) /\ Len(new) \in Nat /\ DOMAIN mid = 1..Len(mid) /\ Len(mid) \in Nat
      /\ DOMAIN old = 1..Len(old) /\ Len(old) \in Nat
  BY RowAt
<1>1. \A i \in DOMAIN new : f[i] \in DOMAIN mid /\ g[f[i]] \in DOMAIN old /\ h[i] = g[f[i]]
  BY DEF Comes
<1>2. ASSUME NEW i \in DOMAIN new
      PROVE  i <= h[i] /\ Like(new[i], old[h[i]])
  <2>1. i <= f[i] /\ f[i] <= g[f[i]]
    BY <1>1 DEF Comes
  <2>2. Like(new[i], mid[f[i]]) /\ Like(mid[f[i]], old[g[f[i]]])
    BY <1>1 DEF Comes
  <2>3. Like(new[i], old[g[f[i]]])
    BY <2>2 DEF Like
  <2> QED
    BY <1>0, <1>1, <2>1, <2>3
<1>3. ASSUME NEW i \in DOMAIN new, NEW j \in DOMAIN new, i < j PROVE h[i] < h[j]
  <2>1. f[i] < f[j]
    BY <1>3 DEF Comes
  <2> QED
    BY <1>1, <2>1 DEF Comes
<1>4. Comes(h, new, old)
  BY <1>1, <1>2, <1>3 DEF Comes
<1>5. ASSUME Calms(f, new, mid), Calms(g, mid, old) PROVE Calms(h, new, old)
  BY <1>1, <1>5 DEF Calms
<1>6. ASSUME Keeps(f, new, mid), Keeps(g, mid, old) PROVE Keeps(h, new, old)
  <2>1. ASSUME NEW k \in DOMAIN old, ~Transient(old[k]) PROVE \E i \in DOMAIN new : h[i] = k
    <3>1. PICK j \in DOMAIN mid : g[j] = k
      BY <1>6, <2>1 DEF Keeps
    <3>2. mid[j].kind = old[k].kind
      BY <3>1 DEF Comes, Like
    <3>3. PICK i \in DOMAIN new : f[i] = j
      BY <1>6, <2>1, <3>2 DEF Keeps, Transient
    <3> QED
      BY <1>1, <3>1, <3>3
  <2>2. ASSUME NEW n \in DOMAIN old, \A k \in 1..n : ~Transient(old[k])
        PROVE  n \in DOMAIN new /\ h[n] = n
    <3>1. \A k \in 1..n : k \in DOMAIN old /\ \A l \in 1..k : l \in 1..n
      BY <1>0
    <3>2. \A k \in 1..n : k \in DOMAIN mid /\ g[k] = k
      BY <1>6, <2>2, <3>1 DEF Keeps
    <3>3. \A k \in 1..n : mid[k].kind = old[k].kind
      BY <3>2 DEF Comes, Like
    <3>4. \A k \in 1..n : ~Transient(mid[k])
      BY <2>2, <3>3 DEF Transient
    <3>5. n \in 1..n
      BY <1>0
    <3>6. n \in DOMAIN new /\ f[n] = n
      BY <1>6, <3>2, <3>4, <3>5 DEF Keeps
    <3> QED
      BY <1>1, <3>2, <3>5, <3>6
  <2> QED
    BY <2>1, <2>2 DEF Keeps
<1> QED
  BY <1>4, <1>5, <1>6
-----------------------------------------------------------------------------
(* _remove_transient_items.                                                *)
Lasted(rows) == [i \in DOMAIN rows |-> IF rows[i].kind = "agent_thinking" THEN <<>> ELSE <<rows[i]>>]

LEMMA LastedType ==
    ASSUME NEW rows \in Seq(Row)
    PROVE  Lasted(rows) \in Seq(Seq(Row)) /\ Lasting(rows) = FlattenSeq(Lasted(rows)) /\ Lasting(rows) \in Seq(Row)
<1>1. DOMAIN rows = 1..Len(rows) /\ Len(rows) \in Nat /\ \A i \in DOMAIN rows : rows[i] \in Row
  BY RowAt
<1>2. \A i \in 1..Len(rows) : (IF rows[i].kind = "agent_thinking" THEN <<>> ELSE <<rows[i]>>) \in Seq(Row)
  BY <1>1
<1>3. Lasted(rows) \in Seq(Seq(Row))
  BY <1>1, <1>2 DEF Lasted
<1>4. Lasting(rows) = FlattenSeq(Lasted(rows))
  BY DEF Lasted, Lasting
<1> QED
  BY <1>3, <1>4, FlattenType

LEMMA LastingAppend ==
    ASSUME NEW rows \in Seq(Row), NEW r \in Row
    PROVE  Lasting(Append(rows, r)) = IF Transient(r) THEN Lasting(rows) ELSE Append(Lasting(rows), r)
<1>1. PICK more \in Seq(Row) : more = Append(rows, r)
  BY AppendProperties
<1>2. /\ Len(more) = Len(rows) + 1 /\ more[Len(rows) + 1] = r /\ Len(rows) \in Nat
      /\ \A i \in 1..Len(rows) : more[i] = rows[i]
  BY <1>1, AppendProperties
<1>3. DOMAIN more = 1..(Len(rows) + 1) /\ DOMAIN rows = 1..Len(rows)
  BY <1>2, RowAt
<1> DEFINE one == IF r.kind = "agent_thinking" THEN <<>> ELSE <<r>>
<1>4. one \in Seq(Row)
  OBVIOUS
<1>5. Lasted(more) = Append(Lasted(rows), one)
  <2>1. PICK longer \in Seq(Seq(Row)) : longer = Append(Lasted(rows), one)
    BY <1>4, LastedType, AppendProperties
  <2>2. Len(Lasted(rows)) = Len(rows)
    BY <1>2, <1>3, LastedType, LenProperties DEF Lasted
  <2>3. /\ Len(longer) = Len(rows) + 1 /\ longer[Len(rows) + 1] = one
        /\ \A i \in 1..Len(rows) : longer[i] = Lasted(rows)[i]
    BY <1>4, <2>1, <2>2, LastedType, AppendProperties
  <2>4. Lasted(more) \in Seq(Seq(Row)) /\ Len(Lasted(more)) = Len(rows) + 1
    BY <1>2, <1>3, LastedType, LenProperties DEF Lasted
  <2>5. ASSUME NEW i \in 1..(Len(rows) + 1) PROVE Lasted(more)[i] = longer[i]
    <3>1. CASE i = Len(rows) + 1
      BY <1>2, <1>3, <2>3, <3>1 DEF Lasted
    <3>2. CASE i # Len(rows) + 1
      <4>1. i \in 1..Len(rows)
        BY <1>2, <3>2
      <4> QED
        BY <1>2, <1>3, <2>3, <4>1 DEF Lasted
    <3> QED
      BY <3>1, <3>2
  <2> QED
    BY <2>1, <2>3, <2>4, <2>5, SeqEqual
<1>6. Lasting(more) = Lasting(rows) \o one
  <2>1. Lasting(more) = FlattenSeq(Lasted(more)) /\ Lasting(rows) = FlattenSeq(Lasted(rows))
    BY LastedType
  <2>2. Lasted(rows) \in Seq(Seq(Row))
    BY LastedType
  <2> HIDE DEF one
  <2>3. FlattenSeq(Append(Lasted(rows), one)) = FlattenSeq(Lasted(rows)) \o one
    BY <1>4, <2>2, FlattenAppend
  <2> QED
    BY <1>5, <2>1, <2>3
<1>7. Lasting(rows) \in Seq(Row)
  BY LastedType
<1>8. CASE Transient(r)
  BY <1>1, <1>6, <1>7, <1>8, ConcatEmptySeq DEF Transient
<1>9. CASE ~Transient(r)
  BY <1>1, <1>6, <1>7, <1>9, AppendIsConcat DEF Transient
<1> QED
  BY <1>8, <1>9

LEMMA LastingEmpty == Lasting(<<>>) = <<>>
<1>1. Lasted(<<>>) = <<>>
  BY DEF Lasted
<1> QED
  BY <1>1 DEF Lasting, Lasted, FlattenSeq

(* Where the rows that stay come from.                                     *)
LEMMA LastingComes ==
    ASSUME NEW rows \in Seq(Row)
    PROVE  \E f : /\ Comes(f, Lasting(rows), rows) /\ Calms(f, Lasting(rows), rows)
                  /\ Keeps(f, Lasting(rows), rows)
                  /\ \A i \in DOMAIN Lasting(rows) : Lasting(rows)[i] = rows[f[i]] /\ ~Transient(Lasting(rows)[i])
<1> DEFINE From(f, new, old) ==
              /\ Comes(f, new, old) /\ Calms(f, new, old) /\ Keeps(f, new, old)
              /\ \A i \in DOMAIN new : new[i] = old[f[i]] /\ ~Transient(new[i])
           C == {x \in Seq(Row) : \E f : From(f, Lasting(x), x)}
<1>1. <<>> \in C
  <2>1. From([i \in {} |-> i], <<>>, <<>>)
    BY DEF Comes, Calms, Keeps
  <2> QED
    BY <2>1, LastingEmpty
<1>2. ASSUME NEW x \in C, NEW r \in Row PROVE Append(x, r) \in C
  <2>1. PICK f : From(f, Lasting(x), x)
    OBVIOUS
  <2>2. x \in Seq(Row) /\ Lasting(x) \in Seq(Row) /\ Append(x, r) \in Seq(Row)
    BY LastedType, AppendProperties
  <2>3. PICK l \in Seq(Row), y \in Seq(Row), n \in Nat, m \in Nat :
          l = Lasting(x) /\ y = Append(x, r) /\ n = Len(x) /\ m = Len(l)
    BY <2>2, LenProperties
  <2>4. /\ DOMAIN x = 1..n /\ DOMAIN y = 1..(n + 1) /\ y[n + 1] = r /\ DOMAIN l = 1..m
        /\ \A i \in 1..n : y[i] = x[i]
    BY <2>2, <2>3, AppendProperties, RowAt
  <2>5. /\ f \in [1..m -> 1..n]
        /\ \A i \in 1..m : i <= f[i] /\ l[i] = x[f[i]] /\ ~Transient(l[i])
        /\ \A i, j \in 1..m : i < j => f[i] < f[j]
    BY <2>1, <2>3, <2>4 DEF Comes
  <2>6. /\ \A k \in 1..n : ~Transient(x[k]) => \E i \in 1..m : f[i] = k
        /\ \A k \in 1..n : (\A a \in 1..k : ~Transient(x[a])) => k \in 1..m /\ f[k] = k
    BY <2>1, <2>3, <2>4 DEF Keeps
  <2>7. CASE Transient(r)
    <3>1. Lasting(y) = l
      BY <2>2, <2>3, <2>7, LastingAppend
    <3>2. \A i \in 1..m : f[i] \in 1..(n + 1) /\ f[i] \in 1..n /\ l[i] = y[f[i]]
      BY <2>4, <2>5
    <3>3. f \in [1..m -> 1..(n + 1)]
      BY <2>5, <3>2
    <3>4. Comes(f, l, y) /\ Calms(f, l, y)
      BY <2>4, <2>5, <3>2, <3>3 DEF Comes, Calms, Like
    <3>5. \A k \in 1..(n + 1) : ~Transient(y[k]) => \E i \in 1..m : f[i] = k
      <4>1. ASSUME NEW k \in 1..(n + 1), ~Transient(y[k]) PROVE k \in 1..n /\ y[k] = x[k]
        BY <2>4, <2>7, <4>1
      <4> QED
        BY <2>6, <4>1
    <3>6. \A k \in 1..(n + 1) : (\A a \in 1..k : ~Transient(y[a])) => k \in 1..m /\ f[k] = k
      <4>1. ASSUME NEW k \in 1..(n + 1), \A a \in 1..k : ~Transient(y[a])
            PROVE  k \in 1..n /\ \A a \in 1..k : ~Transient(x[a])
        <5>1. k \in 1..k
          OBVIOUS
        <5>2. k # n + 1
          BY <2>4, <2>7, <4>1, <5>1
        <5>3. k \in 1..n /\ \A a \in 1..k : a \in 1..n
          BY <5>2
        <5> QED
          BY <2>4, <4>1, <5>3
      <4> QED
        BY <2>6, <4>1
    <3>7. Keeps(f, l, y)
      BY <2>4, <3>5, <3>6 DEF Keeps
    <3>8. From(f, l, y)
      BY <2>4, <2>5, <3>2, <3>4, <3>7
    <3> QED
      <4>1. \E h : From(h, Lasting(y), y)
        BY <3>1, <3>8
      <4> QED
        BY <2>3, <4>1
  <2>8. CASE ~Transient(r)
    <3>1. Lasting(y) = Append(l, r)
      BY <2>2, <2>3, <2>8, LastingAppend
    <3>2. PICK k \in Seq(Row) : k = Append(l, r)
      BY AppendProperties
    <3>3. /\ DOMAIN k = 1..(m + 1) /\ k[m + 1] = r /\ \A i \in 1..m : k[i] = l[i]
      BY <2>3, <2>4, <3>2, AppendProperties, RowAt
    <3> DEFINE g == [i \in 1..(m + 1) |-> IF i = m + 1 THEN n + 1 ELSE f[i]]
    <3>4. \A i \in 1..(m + 1) : i # m + 1 => i \in 1..m
      OBVIOUS
    <3>5. m <= n
      <4>1. CASE m = 0
        BY <4>1
      <4>2. CASE m # 0
        <5>1. m \in 1..m
          BY <4>2
        <5> QED
          BY <2>5, <5>1
      <4> QED
        BY <4>1, <4>2
    <3>6. \A i \in 1..(m + 1) : g[i] \in 1..(n + 1) /\ i <= g[i] /\ k[i] = y[g[i]] /\ ~Transient(k[i])
      <4>1. ASSUME NEW i \in 1..(m + 1)
            PROVE  g[i] \in 1..(n + 1) /\ i <= g[i] /\ k[i] = y[g[i]] /\ ~Transient(k[i])
        <5>1. CASE i = m + 1
          BY <2>4, <2>8, <3>3, <3>5, <5>1
        <5>2. CASE i # m + 1
          <6>1. i \in 1..m /\ g[i] = f[i] /\ f[i] \in 1..n
            BY <2>5, <3>4, <5>2
          <6>2. i <= f[i] /\ l[i] = x[f[i]] /\ ~Transient(l[i])
            BY <2>5, <6>1
          <6> QED
            BY <2>4, <3>3, <6>1, <6>2
        <5> QED
          BY <5>1, <5>2
      <4> QED
        BY <4>1
    <3>7. \A i, j \in 1..(m + 1) : i < j => g[i] < g[j]
      <4>1. ASSUME NEW i \in 1..(m + 1), NEW j \in 1..(m + 1), i < j PROVE g[i] < g[j]
        <5>1. i \in 1..m /\ g[i] = f[i] /\ f[i] \in 1..n
          BY <2>5, <3>4, <4>1
        <5>2. CASE j = m + 1
          BY <5>1, <5>2
        <5>3. CASE j # m + 1
          BY <2>5, <3>4, <4>1, <5>1, <5>3
        <5> QED
          BY <5>2, <5>3
      <4> QED
        BY <4>1
    <3>8. g \in [1..(m + 1) -> 1..(n + 1)]
      BY <3>6
    <3>9. \A a \in 1..m : g[a] = f[a] /\ a \in 1..(m + 1)
      OBVIOUS
    <3>10. g[m + 1] = n + 1 /\ m + 1 \in 1..(m + 1)
      OBVIOUS
    <3> HIDE DEF g
    <3>11. Comes(g, k, y) /\ Calms(g, k, y)
      BY <2>4, <3>3, <3>6, <3>7, <3>8 DEF Comes, Calms, Like
    <3>12. \A b \in 1..(n + 1) : ~Transient(y[b]) => \E i \in 1..(m + 1) : g[i] = b
      <4>1. ASSUME NEW b \in 1..(n + 1), ~Transient(y[b]) PROVE \E i \in 1..(m + 1) : g[i] = b
        <5>1. CASE b = n + 1
          BY <3>10, <5>1
        <5>2. CASE b # n + 1
          <6>1. b \in 1..n /\ y[b] = x[b]
            BY <2>4, <5>2
          <6>2. PICK i \in 1..m : f[i] = b
            BY <2>6, <4>1, <6>1
          <6> QED
            BY <3>9, <6>2
        <5> QED
          BY <5>1, <5>2
      <4> QED
        BY <4>1
    <3>13. \A b \in 1..(n + 1) : (\A a \in 1..b : ~Transient(y[a])) => b \in 1..(m + 1) /\ g[b] = b
      <4> SUFFICES ASSUME NEW b \in 1..(n + 1), \A a \in 1..b : ~Transient(y[a])
                   PROVE  b \in 1..(m + 1) /\ g[b] = b
        OBVIOUS
      <4>1. \A a \in 1..n : a \in 1..b => y[a] = x[a] /\ ~Transient(x[a])
        BY <2>4
      <4>2. CASE b # n + 1
        <5>1. b \in 1..n /\ \A a \in 1..b : a \in 1..n
          BY <4>2
        <5>2. b \in 1..m /\ f[b] = b
          BY <2>6, <4>1, <5>1
        <5> QED
          BY <3>9, <5>2
      <4>3. CASE b = n + 1
        <5>1. CASE n = 0
          <6>1. m = 0
            BY <3>5, <5>1
          <6> QED
            BY <3>10, <4>3, <5>1, <6>1
        <5>2. CASE n # 0
          <6>1. n \in 1..n /\ \A a \in 1..n : a \in 1..b
            BY <4>3, <5>2
          <6>2. n \in 1..m
            BY <2>6, <4>1, <6>1
          <6>3. n = m
            BY <3>5, <6>2
          <6> QED
            BY <3>10, <4>3, <6>3
        <5> QED
          BY <5>1, <5>2
      <4> QED
        BY <4>2, <4>3
    <3>14. Keeps(g, k, y)
      BY <2>4, <3>3, <3>12, <3>13 DEF Keeps
    <3>15. From(g, k, y)
      BY <2>4, <3>3, <3>6, <3>11, <3>14
    <3> QED
      <4>1. From(g, Lasting(y), y)
        BY <3>1, <3>2, <3>15
      <4>2. \E h : From(h, Lasting(y), y)
        BY <4>1
      <4> QED
        BY <2>3, <4>2
  <2> QED
    BY <2>7, <2>8
<1>3. C \in SUBSET Seq(Row)
  OBVIOUS
<1> HIDE DEF C
<1>4. C = Seq(Row)
  BY <1>1, <1>2, <1>3, SeqInduction
<1> QED
  BY <1>4 DEF C
-----------------------------------------------------------------------------
(* timeline[-MAX_TIMELINE_ITEMS:] *)
LEMMA RecentIs ==
    ASSUME TimelineAssumption, NEW rows \in Seq(Row)
    PROVE  /\ Recent(rows) \in Seq(Row)
           /\ Len(rows) <= MaxItems => Recent(rows) = rows
           /\ \E d \in Nat : /\ Len(rows) = Len(Recent(rows)) + d
                             /\ \A i \in 1..Len(Recent(rows)) : Recent(rows)[i] = rows[i + d]
                             /\ d # 0 => Len(Recent(rows)) = MaxItems
<1>0. MaxItems \in Nat /\ MaxItems > 1 /\ Len(rows) \in Nat
  BY LenProperties DEF TimelineAssumption
<1>1. CASE Len(rows) <= MaxItems
  <2>1. Recent(rows) = rows
    BY <1>1 DEF Recent
  <2> QED
    BY <1>0, <2>1
<1>2. CASE ~(Len(rows) <= MaxItems)
  <2> DEFINE d == Len(rows) - MaxItems
  <2>1. d \in Nat /\ d + 1 \in 1..Len(rows) /\ Len(rows) \in 1..Len(rows) /\ d + 1 <= Len(rows) + 1
    BY <1>0, <1>2
  <2>2. Recent(rows) = SubSeq(rows, d + 1, Len(rows))
    BY <1>2 DEF Recent
  <2>3. PICK part : part = SubSeq(rows, d + 1, Len(rows))
    OBVIOUS
  <2>4. /\ part \in Seq(Row) /\ Len(part) = Len(rows) - (d + 1) + 1
        /\ \A i \in 1..(Len(rows) - (d + 1) + 1) : part[i] = rows[(d + 1) + i - 1]
    BY <2>1, <2>3, SubSeqProperties
  <2>5. Len(rows) - (d + 1) + 1 = MaxItems /\ \A i \in 1..MaxItems : (d + 1) + i - 1 = i + d
    BY <1>0
  <2>6. Recent(rows) = part
    BY <2>2, <2>3
  <2>7. Recent(rows) \in Seq(Row) /\ Len(Recent(rows)) = MaxItems
        /\ \A i \in 1..MaxItems : Recent(rows)[i] = rows[i + d]
    BY <2>4, <2>5, <2>6
  <2>8. Len(rows) = MaxItems + d
    BY <1>0
  <2> HIDE DEF d
  <2> QED
    BY <1>2, <2>1, <2>7, <2>8
<1> QED
  BY <1>1, <1>2

LEMMA RecentComes ==
    ASSUME TimelineAssumption, NEW rows \in Seq(Row)
    PROVE  \E f : Comes(f, Recent(rows), rows) /\ Calms(f, Recent(rows), rows)
<1>1. PICK d \in Nat : /\ Len(rows) = Len(Recent(rows)) + d
                       /\ \A i \in 1..Len(Recent(rows)) : Recent(rows)[i] = rows[i + d]
  BY RecentIs
<1>2. PICK new \in Seq(Row) : new = Recent(rows)
  BY RecentIs
<1>3. PICK n \in Nat, m \in Nat : n = Len(rows) /\ m = Len(new)
  BY LenProperties
<1>4. DOMAIN rows = 1..n /\ DOMAIN new = 1..m /\ n = m + d /\ \A i \in 1..m : new[i] = rows[i + d]
  BY <1>1, <1>2, <1>3, RowAt
<1> DEFINE f == [i \in 1..m |-> i + d]
<1>5. f \in [1..m -> 1..n] /\ (\A i \in 1..m : i <= f[i] /\ f[i] = i + d)
      /\ \A i, j \in 1..m : i < j => f[i] < f[j]
  BY <1>4
<1> HIDE DEF f
<1>6. Comes(f, new, rows) /\ Calms(f, new, rows)
  BY <1>4, <1>5 DEF Comes, Calms, Like
<1> QED
  BY <1>2, <1>6
-----------------------------------------------------------------------------
(* The rows that show a model call of s as running, those that end its     *)
(* turn to be shown so, and those whose status an event of s may set.      *)
Open == {"running", "retrying", "timeout", "failed"}
Spins(r, s) == r.by = s /\ r.kind = "wait" /\ ~r.left /\ r.status \in {"running", "retrying"}
Turns(r, s) == r.by = s /\ r.kind \in Turning
Waits(r, s) == r.by = s /\ r.kind = "wait" /\ r.status \in Open

\* Only the newest row of s can be one that spins.
Newest(rows, s) ==
    \A i, j \in DOMAIN rows : i < j /\ Spins(rows[i], s) => ~Turns(rows[j], s) /\ ~Waits(rows[j], s)
Still(rows, s) == \A i \in DOMAIN rows : ~Spins(rows[i], s)

LEMMA SpinsComes ==
    ASSUME NEW new \in Seq(Row), NEW old \in Seq(Row), NEW f, Comes(f, new, old), Calms(f, new, old), NEW s
    PROVE  /\ Newest(old, s) => Newest(new, s)
           /\ Still(old, s) => Still(new, s)
<1>1. \A i \in DOMAIN new : f[i] \in DOMAIN old
  BY DEF Comes
<1>2. ASSUME NEW i \in DOMAIN new
      PROVE  /\ Spins(new[i], s) => Spins(old[f[i]], s)
             /\ Turns(new[i], s) => Turns(old[f[i]], s)
             /\ Waits(new[i], s) => Waits(old[f[i]], s)
  <2>1. Like(new[i], old[f[i]]) /\ new[i].status \in {old[f[i]].status, "completed"}
    BY DEF Comes, Calms
  <2> QED
    BY <2>1 DEF Like, Spins, Turns, Waits, Open
<1>3. ASSUME Newest(old, s) PROVE Newest(new, s)
  <2> SUFFICES ASSUME NEW i \in DOMAIN new, NEW j \in DOMAIN new, i < j, Spins(new[i], s)
               PROVE  ~Turns(new[j], s) /\ ~Waits(new[j], s)
    BY DEF Newest
  <2>1. f[i] < f[j]
    BY DEF Comes
  <2> QED
    BY <1>1, <1>2, <1>3, <2>1 DEF Newest
<1>4. ASSUME Still(old, s) PROVE Still(new, s)
  BY <1>1, <1>2, <1>4 DEF Still
<1> QED
  BY <1>3, <1>4

LEMMA SpinsAppend ==
    ASSUME NEW rows \in Seq(Row), NEW r \in Row, NEW s
    PROVE  /\ Newest(rows, s) /\ (Turns(r, s) \/ Waits(r, s) => Still(rows, s))
                => Newest(Append(rows, r), s)
           /\ Still(rows, s) /\ ~Spins(r, s) => Still(Append(rows, r), s)
<1>1. PICK n \in Nat, new \in Seq(Row) : n = Len(rows) /\ new = Append(rows, r)
  BY AppendProperties, LenProperties
<1>2. /\ DOMAIN rows = 1..n /\ DOMAIN new = 1..(n + 1) /\ new[n + 1] = r
      /\ \A i \in 1..n : new[i] = rows[i]
  BY <1>1, AppendProperties, RowAt
<1>3. ASSUME Newest(rows, s), Turns(r, s) \/ Waits(r, s) => Still(rows, s) PROVE Newest(new, s)
  <2> SUFFICES ASSUME NEW i \in DOMAIN new, NEW j \in DOMAIN new, i < j, Spins(new[i], s)
               PROVE  ~Turns(new[j], s) /\ ~Waits(new[j], s)
    BY DEF Newest
  <2>1. i \in 1..n /\ new[i] = rows[i] /\ (j # n + 1 => j \in 1..n)
    BY <1>2
  <2>2. CASE j = n + 1
    BY <1>2, <1>3, <2>1, <2>2 DEF Still
  <2>3. CASE j # n + 1
    <3>1. j \in 1..n /\ new[j] = rows[j]
      BY <1>2, <2>1, <2>3
    <3> QED
      BY <1>2, <1>3, <2>1, <3>1 DEF Newest
  <2> QED
    BY <2>2, <2>3
<1>4. ASSUME Still(rows, s), ~Spins(r, s) PROVE Still(new, s)
  <2> SUFFICES ASSUME NEW i \in DOMAIN new PROVE ~Spins(new[i], s)
    BY DEF Still
  <2>1. i # n + 1 => i \in 1..n
    BY <1>2
  <2> QED
    BY <1>2, <1>4, <2>1 DEF Still
<1> QED
  BY <1>1, <1>3, <1>4

LEMMA LatestWaitIs ==
    ASSUME NEW rows \in Seq(Row), NEW s, NEW statuses, NEW i \in LatestWait(rows, s, statuses)
    PROVE  /\ i \in DOMAIN rows /\ rows[i].by = s /\ rows[i].kind = "wait" /\ rows[i].status \in statuses
           /\ \A j \in DOMAIN rows : i < j =>
                ~Turns(rows[j], s) /\ ~(rows[j].by = s /\ rows[j].kind = "wait" /\ rows[j].status \in statuses)
<1> DEFINE waits == {k \in DOMAIN rows : rows[k].by = s /\ rows[k].kind = "wait" /\ rows[k].status \in statuses}
           turns == {k \in DOMAIN rows : rows[k].by = s /\ rows[k].kind \in Turning}
<1>1. i \in waits /\ \A j \in waits \cup turns : j <= i
  BY DEF LatestWait
<1>2. ASSUME NEW j \in DOMAIN rows, i < j PROVE j \notin waits /\ j \notin turns
  <2>1. i \in Nat /\ j \in Nat
    BY <1>1, RowAt
  <2> QED
    BY <1>1, <1>2, <2>1
<1> QED
  BY <1>1, <1>2 DEF Turns

\* A row that spins is the latest wait.
LEMMA SpinsIsLatest ==
    ASSUME NEW rows \in Seq(Row), NEW s, Newest(rows, s), NEW i \in DOMAIN rows, Spins(rows[i], s),
           NEW statuses \in SUBSET Open, {"running", "retrying"} \subseteq statuses
    PROVE  i \in LatestWait(rows, s, statuses)
<1> DEFINE waits == {k \in DOMAIN rows : rows[k].by = s /\ rows[k].kind = "wait" /\ rows[k].status \in statuses}
           turns == {k \in DOMAIN rows : rows[k].by = s /\ rows[k].kind \in Turning}
<1>1. i \in waits
  BY DEF Spins
<1>2. ASSUME NEW j \in waits \cup turns PROVE j <= i
  <2>1. i \in Nat /\ j \in Nat /\ j \in DOMAIN rows
    BY RowAt
  <2>2. Turns(rows[j], s) \/ Waits(rows[j], s)
    BY DEF Turns, Waits
  <2>3. ~(i < j)
    BY <2>1, <2>2 DEF Newest
  <2> QED
    BY <2>1, <2>3
<1> QED
  BY <1>1, <1>2 DEF LatestWait

WithOne(r, status) == [r EXCEPT !.status = status]

LEMMA WithOneType ==
    ASSUME NEW r \in Row, NEW status \in Statuses
    PROVE  /\ WithOne(r, status) \in Row /\ WithOne(r, status).status = status
           /\ WithOne(r, status).by = r.by /\ WithOne(r, status).kind = r.kind
           /\ WithOne(r, status).text = r.text /\ WithOne(r, status).left = r.left
BY DEF WithOne, Row

LEMMA WithStatusIs ==
    ASSUME NEW rows \in Seq(Row), NEW found, NEW status \in Statuses,
           \A i \in DOMAIN rows : i \in found => rows[i].kind = "wait"
    PROVE  /\ WithStatus(rows, found, status) \in Seq(Row)
           /\ DOMAIN WithStatus(rows, found, status) = DOMAIN rows
           /\ Len(WithStatus(rows, found, status)) = Len(rows)
           /\ \A i \in DOMAIN rows :
                /\ Like(WithStatus(rows, found, status)[i], rows[i])
                /\ WithStatus(rows, found, status)[i].text = rows[i].text
                /\ i \in found => WithStatus(rows, found, status)[i].status = status
                /\ i \notin found => WithStatus(rows, found, status)[i] = rows[i]
<1>1. DOMAIN rows = 1..Len(rows) /\ Len(rows) \in Nat /\ \A i \in DOMAIN rows : rows[i] \in Row
  BY RowAt
<1>2. WithStatus(rows, found, status) = [i \in DOMAIN rows |-> IF i \in found THEN WithOne(rows[i], status) ELSE rows[i]]
  BY DEF WithStatus, WithOne
<1>3. PICK new : new = [i \in DOMAIN rows |-> IF i \in found THEN WithOne(rows[i], status) ELSE rows[i]]
  OBVIOUS
<1>4. ASSUME NEW i \in DOMAIN rows
      PROVE  /\ new[i] \in Row /\ Like(new[i], rows[i]) /\ new[i].text = rows[i].text
             /\ i \in found => new[i].status = status
             /\ i \notin found => new[i] = rows[i]
  <2>1. CASE i \in found
    BY <1>1, <1>3, <2>1, WithOneType DEF Like
  <2>2. CASE i \notin found
    BY <1>1, <1>3, <2>2 DEF Like
  <2> QED
    BY <2>1, <2>2
<1>5. new \in Seq(Row) /\ DOMAIN new = DOMAIN rows /\ Len(new) = Len(rows)
  <2>1. new = [i \in 1..Len(rows) |-> new[i]] /\ \A i \in 1..Len(rows) : new[i] \in Row
    BY <1>1, <1>3, <1>4
  <2>2. new \in Seq(Row)
    BY <1>1, <2>1
  <2> QED
    BY <1>1, <1>3, <2>2, LenProperties
<1> QED
  BY <1>2, <1>3, <1>4, <1>5

LEMMA CompletedIs ==
    ASSUME NEW rows \in Seq(Row), NEW s
    PROVE  /\ Completed(rows, s) \in Seq(Row) /\ DOMAIN Completed(rows, s) = DOMAIN rows
           /\ \A i \in DOMAIN rows : /\ Like(Completed(rows, s)[i], rows[i])
                                     /\ Completed(rows, s)[i].text = rows[i].text
                                     /\ Completed(rows, s)[i].status \in {rows[i].status, "completed"}
           /\ Newest(rows, s) => Still(Completed(rows, s), s)
<1> DEFINE found == LatestWait(rows, s, {"running", "retrying", "timeout"})
<1>1. \A i \in DOMAIN rows : i \in found => rows[i].kind = "wait"
  BY LatestWaitIs
<1>c. PICK over \in Statuses : over = "completed"
  BY DEF Statuses
<1>0. Completed(rows, s) = WithStatus(rows, found, over)
  BY <1>c DEF Completed
<1> HIDE DEF found
<1>2. PICK new \in Seq(Row) : new = Completed(rows, s)
  BY <1>0, <1>1, WithStatusIs
<1>3. /\ DOMAIN new = DOMAIN rows
      /\ \A i \in DOMAIN rows : /\ Like(new[i], rows[i]) /\ new[i].text = rows[i].text
                                /\ i \in found => new[i].status = "completed"
                                /\ i \notin found => new[i] = rows[i]
  BY <1>0, <1>1, <1>2, <1>c, WithStatusIs
<1>4. \A i \in DOMAIN rows : new[i].status \in {rows[i].status, "completed"}
  BY <1>3
<1>5. ASSUME Newest(rows, s) PROVE Still(new, s)
  <2> SUFFICES ASSUME NEW i \in DOMAIN new, Spins(new[i], s) PROVE FALSE
    BY DEF Still
  <2>1. i \notin found
    BY <1>3 DEF Spins
  <2>2. Spins(rows[i], s)
    BY <1>3, <2>1
  <2>3. i \in found
    BY <1>3, <1>5, <2>2, SpinsIsLatest DEF found, Open
  <2> QED
    BY <2>1, <2>3
<1> QED
  BY <1>2, <1>3, <1>4, <1>5

(* The status of a call is kept in its waiting row. *)
LEMMA NotedNewest ==
    ASSUME NEW rows \in Seq(Row), NEW by, NEW s, NEW status \in Statuses, Newest(rows, s)
    PROVE  /\ Newest(WithStatus(rows, LatestWait(rows, by, Open), status), s)
           /\ s # by /\ Still(rows, s) => Still(WithStatus(rows, LatestWait(rows, by, Open), status), s)
<1> DEFINE found == LatestWait(rows, by, Open)
<1>1. \A i \in DOMAIN rows : i \in found => rows[i].kind = "wait"
  BY LatestWaitIs
<1>2. PICK new \in Seq(Row) : new = WithStatus(rows, found, status)
  BY <1>1, WithStatusIs
<1>3. /\ DOMAIN new = DOMAIN rows
      /\ \A i \in DOMAIN rows : Like(new[i], rows[i]) /\ (i \notin found => new[i] = rows[i])
  BY <1>1, <1>2, WithStatusIs
<1>4. \A i \in found : /\ i \in DOMAIN rows /\ rows[i].by = by /\ Waits(rows[i], by)
                       /\ \A j \in DOMAIN rows : i < j => ~Turns(rows[j], by) /\ ~Waits(rows[j], by)
  BY LatestWaitIs DEF Waits
<1> HIDE DEF found
<1>5. ASSUME NEW i \in DOMAIN rows, i \in found, s # by PROVE ~Spins(new[i], s)
  BY <1>3, <1>4, <1>5 DEF Spins, Like
<1>6. Newest(new, s)
  <2> SUFFICES ASSUME NEW i \in DOMAIN new, NEW j \in DOMAIN new, i < j, Spins(new[i], s)
               PROVE  ~Turns(new[j], s) /\ ~Waits(new[j], s)
    BY DEF Newest
  <2>1. i \in DOMAIN rows /\ j \in DOMAIN rows
    BY <1>3
  <2>2. ~Turns(rows[j], s) /\ ~Waits(rows[j], s)
    <3>1. CASE i \in found
      <4>1. s = by
        BY <1>5, <2>1, <3>1
      <4> QED
        BY <1>4, <2>1, <3>1, <4>1
    <3>2. CASE i \notin found
      <4>1. Spins(rows[i], s)
        BY <1>3, <2>1, <3>2
      <4> QED
        BY <2>1, <4>1 DEF Newest
    <3> QED
      BY <3>1, <3>2
  <2>3. CASE j \in found
    <3>1. s # by
      BY <1>4, <2>2, <2>3
    <3>2. new[j].by # s
      BY <1>3, <1>4, <2>1, <2>3, <3>1 DEF Like
    <3> QED
      BY <3>2 DEF Turns, Waits
  <2>4. CASE j \notin found
    BY <1>3, <2>1, <2>2, <2>4
  <2> QED
    BY <2>3, <2>4
<1>7. ASSUME s # by, Still(rows, s) PROVE Still(new, s)
  <2> SUFFICES ASSUME NEW i \in DOMAIN new PROVE ~Spins(new[i], s)
    BY DEF Still
  <2>1. CASE i \in found
    BY <1>3, <1>5, <1>7, <2>1
  <2>2. CASE i \notin found
    BY <1>3, <1>7, <2>2 DEF Still
  <2> QED
    BY <2>1, <2>2
<1> QED
  BY <1>2, <1>6, <1>7 DEF found
-----------------------------------------------------------------------------
(* The text that a list of rows shows under a session.                     *)
PieceOf(r, s) == IF r.kind = "text" /\ r.by = s THEN r.text ELSE <<>>
Pieces(rows, s) == [i \in DOMAIN rows |-> PieceOf(rows[i], s)]
ShownIn(rows, s) == FlattenSeq(Pieces(rows, s))

LEMMA ShownType ==
    ASSUME NEW rows \in Seq(Row), NEW s
    PROVE  /\ Pieces(rows, s) \in Seq(Seq(Nat)) /\ Len(Pieces(rows, s)) = Len(rows)
           /\ ShownIn(rows, s) \in Seq(Nat)
<1>1. DOMAIN rows = 1..Len(rows) /\ Len(rows) \in Nat /\ \A i \in DOMAIN rows : rows[i].text \in Seq(Nat)
  BY RowAt
<1>2. \A i \in 1..Len(rows) : PieceOf(rows[i], s) \in Seq(Nat)
  BY <1>1 DEF PieceOf
<1>3. Pieces(rows, s) \in Seq(Seq(Nat))
  BY <1>1, <1>2 DEF Pieces
<1>4. Len(Pieces(rows, s)) = Len(rows)
  BY <1>1, <1>3, LenProperties DEF Pieces
<1> QED
  BY <1>3, <1>4, FlattenType DEF ShownIn

LEMMA PieceOfType ==
    ASSUME NEW r \in Row, NEW s
    PROVE  PieceOf(r, s) \in Seq(Nat)
<1>1. r.text \in Seq(Nat)
  BY DEF Row
<1> QED
  BY <1>1 DEF PieceOf

LEMMA ShownAppend ==
    ASSUME NEW rows \in Seq(Row), NEW r \in Row, NEW s
    PROVE  ShownIn(Append(rows, r), s) = ShownIn(rows, s) \o PieceOf(r, s)
<1>1. PICK more \in Seq(Row), n \in Nat : more = Append(rows, r) /\ n = Len(rows)
  BY AppendProperties, LenProperties
<1>2. /\ Len(more) = n + 1 /\ more[n + 1] = r /\ DOMAIN more = 1..(n + 1) /\ DOMAIN rows = 1..n
      /\ \A i \in 1..n : more[i] = rows[i]
  BY <1>1, AppendProperties, RowAt
<1>3. PICK one \in Seq(Nat) : one = PieceOf(r, s)
  BY PieceOfType
<1>4. PICK ps \in Seq(Seq(Nat)) : ps = Pieces(rows, s) /\ Len(ps) = n
  BY <1>1, ShownType
<1>0. PICK longer \in Seq(Seq(Nat)) : longer = Append(ps, one)
  BY AppendProperties
<1>5. /\ longer = Append(ps, one) /\ Len(longer) = n + 1 /\ longer[n + 1] = one
      /\ \A i \in 1..n : longer[i] = ps[i]
  BY <1>0, <1>4, AppendProperties
<1>6. PICK qs \in Seq(Seq(Nat)) : qs = Pieces(more, s) /\ Len(qs) = n + 1
  BY <1>2, ShownType
<1>7. ASSUME NEW i \in 1..(n + 1) PROVE qs[i] = longer[i]
  <2>1. CASE i = n + 1
    BY <1>2, <1>3, <1>5, <1>6, <2>1 DEF Pieces
  <2>2. CASE i # n + 1
    <3>1. i \in 1..n
      BY <2>2
    <3> QED
      BY <1>2, <1>4, <1>5, <1>6, <3>1 DEF Pieces
  <2> QED
    BY <2>1, <2>2
<1>8. qs = longer
  BY <1>5, <1>6, <1>7, SeqEqual
<1>9. FlattenSeq(Append(ps, one)) = FlattenSeq(ps) \o one
  BY FlattenAppend
<1> QED
  BY <1>1, <1>3, <1>4, <1>5, <1>6, <1>8, <1>9 DEF ShownIn

LEMMA ShownSilent ==
    ASSUME NEW rows \in Seq(Row), NEW r \in Row, NEW s, PieceOf(r, s) = <<>>
    PROVE  ShownIn(Append(rows, r), s) = ShownIn(rows, s)
<1>1. PICK shown \in Seq(Nat) : shown = ShownIn(rows, s)
  BY ShownType
<1>2. shown \o <<>> = shown
  BY ConcatEmptySeq
<1> QED
  BY <1>1, <1>2, ShownAppend

LEMMA ShownAlike ==
    ASSUME NEW new, NEW old, DOMAIN new = DOMAIN old,
           \A i \in DOMAIN old : Like(new[i], old[i]) /\ new[i].text = old[i].text,
           NEW s
    PROVE  ShownIn(new, s) = ShownIn(old, s)
<1>1. \A i \in DOMAIN old : PieceOf(new[i], s) = PieceOf(old[i], s)
  BY DEF Like, PieceOf
<1>2. Pieces(new, s) = Pieces(old, s)
  BY <1>1 DEF Pieces
<1> QED
  BY <1>2 DEF ShownIn

LEMMA ShownLasting ==
    ASSUME NEW rows \in Seq(Row), NEW s
    PROVE  ShownIn(Lasting(rows), s) = ShownIn(rows, s)
<1> DEFINE C == {x \in Seq(Row) : ShownIn(Lasting(x), s) = ShownIn(x, s)}
<1>1. <<>> \in C
  BY LastingEmpty
<1>2. ASSUME NEW x \in C, NEW r \in Row PROVE Append(x, r) \in C
  <2>1. x \in Seq(Row) /\ Lasting(x) \in Seq(Row) /\ Append(x, r) \in Seq(Row)
        /\ ShownIn(Lasting(x), s) = ShownIn(x, s)
    BY LastedType, AppendProperties
  <2>2. ShownIn(Append(x, r), s) = ShownIn(x, s) \o PieceOf(r, s)
    BY <2>1, ShownAppend
  <2>3. CASE Transient(r)
    <3>1. PieceOf(r, s) = <<>>
      BY <2>3 DEF PieceOf, Transient
    <3>2. ShownIn(x, s) \o <<>> = ShownIn(x, s)
      BY <2>1, ShownType, ConcatEmptySeq
    <3>3. Lasting(Append(x, r)) = Lasting(x)
      BY <2>1, <2>3, LastingAppend
    <3> QED
      BY <2>1, <2>2, <3>1, <3>2, <3>3
  <2>4. CASE ~Transient(r)
    <3>1. Lasting(Append(x, r)) = Append(Lasting(x), r)
      BY <2>1, <2>4, LastingAppend
    <3>2. ShownIn(Append(Lasting(x), r), s) = ShownIn(Lasting(x), s) \o PieceOf(r, s)
      BY <2>1, ShownAppend
    <3> QED
      BY <2>1, <2>2, <3>1, <3>2
  <2> QED
    BY <2>3, <2>4
<1>3. C \in SUBSET Seq(Row)
  OBVIOUS
<1> HIDE DEF C
<1>4. C = Seq(Row)
  BY <1>1, <1>2, <1>3, SeqInduction
<1> QED
  BY <1>4 DEF C

(* Text that is merged into the last row.                                  *)
Longer(r, words) == [r EXCEPT !.text = r.text \o words]
Merged(rows, words) == [rows EXCEPT ![Len(rows)].text = @ \o words]

LEMMA LongerType ==
    ASSUME NEW r \in Row, NEW words \in Seq(Nat)
    PROVE  /\ Longer(r, words) \in Row /\ Like(Longer(r, words), r)
           /\ Longer(r, words).status = r.status /\ Longer(r, words).text = r.text \o words
<1>1. r.text \in Seq(Nat)
  BY DEF Row
<1>2. r.text \o words \in Seq(Nat)
  BY <1>1, ConcatProperties
<1>3. PICK t \in Seq(Nat) : t = r.text \o words
  BY <1>2
<1>4. [r EXCEPT !.text = t] \in Row
  BY DEF Row
<1>5. [r EXCEPT !.text = t].text = t /\ [r EXCEPT !.text = t].by = r.by /\ [r EXCEPT !.text = t].kind = r.kind
      /\ [r EXCEPT !.text = t].left = r.left /\ [r EXCEPT !.text = t].status = r.status
  BY DEF Row
<1> QED
  BY <1>3, <1>4, <1>5 DEF Longer, Like

LEMMA MergedIs ==
    ASSUME NEW rows \in Seq(Row), rows # <<>>, NEW words \in Seq(Nat)
    PROVE  /\ Merged(rows, words) \in Seq(Row) /\ DOMAIN Merged(rows, words) = DOMAIN rows
           /\ \A i \in DOMAIN rows : /\ Like(Merged(rows, words)[i], rows[i])
                                     /\ Merged(rows, words)[i].status = rows[i].status
                                     /\ i # Len(rows) => Merged(rows, words)[i] = rows[i]
           /\ Len(rows) \in DOMAIN rows
           /\ Merged(rows, words)[Len(rows)] = Longer(rows[Len(rows)], words)
<1>1. PICK n \in Nat : n = Len(rows)
  BY LenProperties
<1>2. DOMAIN rows = 1..n /\ n # 0 /\ \A i \in DOMAIN rows : rows[i] \in Row
  BY <1>1, RowAt, EmptySeq
<1>3. n \in 1..n
  BY <1>2
<1>4. Merged(rows, words) = [rows EXCEPT ![n] = Longer(rows[n], words)]
  BY <1>1 DEF Merged, Longer
<1>5. PICK new : new = [rows EXCEPT ![n] = Longer(rows[n], words)]
  OBVIOUS
<1>6. DOMAIN new = 1..n /\ new[n] = Longer(rows[n], words) /\ \A i \in 1..n : i # n => new[i] = rows[i]
  BY <1>2, <1>3, <1>5
<1>7. ASSUME NEW i \in 1..n
      PROVE  new[i] \in Row /\ Like(new[i], rows[i]) /\ new[i].status = rows[i].status
  <2>1. CASE i = n
    BY <1>2, <1>6, <2>1, LongerType
  <2>2. CASE i # n
    BY <1>2, <1>6, <2>2 DEF Like
  <2> QED
    BY <2>1, <2>2
<1>8. new \in Seq(Row)
  <2>1. new = [i \in 1..n |-> new[i]]
    BY <1>2, <1>5
  <2> QED
    BY <1>1, <1>7, <2>1
<1> QED
  BY <1>1, <1>2, <1>3, <1>4, <1>5, <1>6, <1>7, <1>8

LEMMA WordsAssociative ==
    ASSUME NEW x \in Seq(Nat), NEW y \in Seq(Nat), NEW z \in Seq(Nat)
    PROVE  (x \o y) \o z = x \o (y \o z)
<1> DEFINE J(a, b) == a \o b
<1>1. \A S : \A s, t, u \in Seq(S) : J(J(s, t), u) = J(s, J(t, u))
  BY ConcatAssociative
<1> HIDE DEF J
<1>2. J(J(x, y), z) = J(x, J(y, z))
  BY <1>1
<1> QED
  BY <1>2 DEF J

LEMMA ShownMerged ==
    ASSUME NEW rows \in Seq(Row), rows # <<>>, NEW words \in Seq(Nat), NEW s
    PROVE  ShownIn(Merged(rows, words), s) =
             ShownIn(rows, s) \o PieceOf([rows[Len(rows)] EXCEPT !.text = words], s)
<1>1. PICK first \in Seq(Row), r \in Row : rows = Append(first, r)
  BY SequenceEmptyOrAppend
<1>2. PICK n \in Nat : n = Len(first)
  BY LenProperties
<1>3. Len(rows) = n + 1 /\ rows[n + 1] = r /\ \A i \in 1..n : rows[i] = first[i]
  BY <1>1, <1>2, AppendProperties
<1>4. PICK long \in Row : long = Longer(r, words)
  BY LongerType
<1>0. PICK new \in Seq(Row) : new = Append(first, long)
  BY AppendProperties
<1>5. /\ new = Append(first, long) /\ Len(new) = n + 1 /\ new[n + 1] = long
      /\ \A i \in 1..n : new[i] = first[i]
  BY <1>0, <1>2, AppendProperties
<1>6. PICK merged \in Seq(Row) : merged = Merged(rows, words) /\ DOMAIN merged = DOMAIN rows
  BY MergedIs
<1>7. Len(merged) = n + 1
  BY <1>3, <1>6, RowAt, LenProperties
<1>8. ASSUME NEW i \in 1..(n + 1) PROVE merged[i] = new[i]
  <2>1. DOMAIN rows = 1..(n + 1)
    BY <1>3, RowAt
  <2>2. CASE i = n + 1
    BY <1>3, <1>4, <1>5, <1>6, <2>2, MergedIs
  <2>3. CASE i # n + 1
    <3>1. i \in 1..n /\ i \in DOMAIN rows /\ i # Len(rows)
      BY <1>3, <2>1, <2>3
    <3>2. merged[i] = rows[i]
      BY <1>6, <3>1, MergedIs
    <3> QED
      BY <1>3, <1>5, <3>1, <3>2
  <2> QED
    BY <2>2, <2>3
<1>9. merged = new
  BY <1>5, <1>7, <1>8, SeqEqual
<1>10. ShownIn(rows, s) = ShownIn(first, s) \o PieceOf(r, s)
  BY <1>1, ShownAppend
<1>11. ShownIn(merged, s) = ShownIn(first, s) \o PieceOf(long, s)
  BY <1>5, <1>9, ShownAppend
<1>12. /\ long.text = r.text \o words /\ long.kind = r.kind /\ long.by = r.by /\ r.text \in Seq(Nat)
  BY <1>4, LongerType DEF Like, Row
<1>13. [r EXCEPT !.text = words].kind = r.kind /\ [r EXCEPT !.text = words].by = r.by
       /\ [r EXCEPT !.text = words].text = words
  BY DEF Row
<1>14. ShownIn(first, s) \in Seq(Nat)
  BY ShownType
<1>15. CASE r.kind = "text" /\ r.by = s
  <2>1. PieceOf(long, s) = r.text \o words /\ PieceOf(r, s) = r.text
        /\ PieceOf([r EXCEPT !.text = words], s) = words
    BY <1>12, <1>13, <1>15 DEF PieceOf
  <2>2. (ShownIn(first, s) \o r.text) \o words = ShownIn(first, s) \o (r.text \o words)
    <3>1. PICK a \in Seq(Nat), b \in Seq(Nat) : a = ShownIn(first, s) /\ b = r.text
      BY <1>12, <1>14
    <3>2. (a \o b) \o words = a \o (b \o words)
      BY WordsAssociative, Zenon
    <3> QED
      BY <3>1, <3>2
  <2> QED
    BY <1>3, <1>6, <1>10, <1>11, <2>1, <2>2
<1>16. CASE ~(r.kind = "text" /\ r.by = s)
  <2>1. PieceOf(long, s) = <<>> /\ PieceOf(r, s) = <<>> /\ PieceOf([r EXCEPT !.text = words], s) = <<>>
    BY <1>12, <1>13, <1>16 DEF PieceOf
  <2>2. ShownIn(first, s) \o <<>> = ShownIn(first, s)
    BY <1>14, ConcatEmptySeq
  <2> QED
    BY <1>3, <1>6, <1>10, <1>11, <2>1, <2>2
<1> QED
  BY <1>15, <1>16
-----------------------------------------------------------------------------
(* What apply_event makes of a list: it sets the status of the waiting row *)
(* of a call; or rows of the list are dropped or completed, and then one   *)
(* or two rows are added or the text of the last row grows.                *)
Sets(rows, e) == e.kind \in {"wait", "llm_note"} /\ LatestWait(rows, e.by, Open) # {}
Thought(e) == Event(e.by, "thinking_end", "none", <<>>)
Done(rows, e) == IF e.kind \in Turning \ {"user"} THEN Completed(rows, e.by) ELSE rows

Based(f, base, rows, e) ==
    /\ Comes(f, base, rows) /\ Calms(f, base, rows) /\ Keeps(f, base, rows)
    /\ e.kind \in Turning \ {"user"} /\ Newest(rows, e.by) => Still(base, e.by)
    /\ \A s \in Sessions : ShownIn(base, s) = ShownIn(rows, s)

Grows(base, new, e) ==
    \/ new = Append(base, e)
    \/ new = Append(Append(base, Thought(e)), e)
    \/ /\ base # <<>> /\ new = Merged(base, e.text)
       /\ \/ e.kind = "text" /\ base[Len(base)].kind = "text" /\ base[Len(base)].by = e.by
          \/ e.kind = "thinking_delta" /\ base[Len(base)].kind # "text"

LEMMA ThoughtType ==
    ASSUME NEW e \in Row
    PROVE  Thought(e) \in Row /\ Thought(e).kind = "thinking_end" /\ Thought(e).by = e.by
<1>1. "thinking_end" \in Kinds /\ "none" \in Statuses /\ e.by \in Sessions /\ <<>> \in Seq(Nat)
  BY DEF Kinds, Statuses, Row
<1> QED
  BY <1>1 DEF Thought, Event, Row

LEMMA DoneIs ==
    ASSUME NEW rows \in Seq(Row), NEW e \in Row
    PROVE  Done(rows, e) \in Seq(Row) /\ \E f : Based(f, Done(rows, e), rows, e)
<1>1. PICK new : new = Done(rows, e)
  OBVIOUS
<1>2. /\ new \in Seq(Row) /\ DOMAIN new = DOMAIN rows
      /\ \A i \in DOMAIN rows : /\ Like(new[i], rows[i]) /\ new[i].text = rows[i].text
                                /\ new[i].status \in {rows[i].status, "completed"}
      /\ e.kind \in Turning \ {"user"} /\ Newest(rows, e.by) => Still(new, e.by)
  <2>1. CASE e.kind \in Turning \ {"user"}
    <3>1. new = Completed(rows, e.by)
      BY <1>1, <2>1 DEF Done
    <3> QED
      BY <3>1, CompletedIs
  <2>2. CASE e.kind \notin Turning \ {"user"}
    <3>1. new = rows
      BY <1>1, <2>2 DEF Done
    <3> QED
      BY <2>2, <3>1, LikeItself
  <2> QED
    BY <2>1, <2>2
<1>3. PICK f : f = [i \in DOMAIN rows |-> i]
  OBVIOUS
<1>4. Comes(f, new, rows) /\ Calms(f, new, rows) /\ Keeps(f, new, rows)
  BY <1>2, <1>3, ComesInPlace
<1>5. \A s \in Sessions : ShownIn(new, s) = ShownIn(rows, s)
  BY <1>2, ShownAlike
<1>6. Based(f, new, rows, e)
  BY <1>2, <1>4, <1>5 DEF Based
<1> QED
  BY <1>1, <1>2, <1>6

LEMMA BasedLasting ==
    ASSUME NEW rows \in Seq(Row), NEW e \in Row, NEW done \in Seq(Row), NEW f, Based(f, done, rows, e)
    PROVE  \E g : Based(g, Lasting(done), rows, e)
<1>1. PICK l \in Seq(Row) : l = Lasting(done)
  BY LastedType
<1>2. PICK h : Comes(h, l, done) /\ Calms(h, l, done) /\ Keeps(h, l, done)
  BY <1>1, LastingComes
<1>3. PICK g : g = [i \in DOMAIN l |-> f[h[i]]]
  OBVIOUS
<1>4. Comes(g, l, rows) /\ Calms(g, l, rows) /\ Keeps(g, l, rows)
  BY <1>2, <1>3, ComesOver DEF Based
<1>5. Still(done, e.by) => Still(l, e.by)
  BY <1>2, SpinsComes
<1>6. \A s \in Sessions : ShownIn(l, s) = ShownIn(rows, s)
  BY <1>1, ShownLasting DEF Based
<1>7. Based(g, l, rows, e)
  BY <1>4, <1>5, <1>6 DEF Based
<1> QED
  BY <1>1, <1>7

LEMMA AppliedSets ==
    ASSUME NEW rows, NEW e, Sets(rows, e)
    PROVE  Applied(rows, e) = WithStatus(rows, LatestWait(rows, e.by, Open), e.status)
BY DEF Applied, Sets, Open, Turning

LEMMA AppliedElse ==
    ASSUME NEW rows \in Seq(Row), NEW e \in Row, ~Sets(rows, e)
    PROVE  \E base \in Seq(Row) : \E f : Based(f, base, rows, e) /\ Grows(base, Applied(rows, e), e)
<1>0. PICK done \in Seq(Row) : done = Done(rows, e)
  BY DoneIs
<1>1. PICK f : done = Done(rows, e) /\ Based(f, done, rows, e)
  BY <1>0, DoneIs
<1>2. PICK closed : closed = Closed(done, e)
  OBVIOUS
<1>3. PICK kept : kept = IF e.kind \in {"agent_thinking", "thinking_delta", "text"} THEN closed ELSE Lasting(closed)
  OBVIOUS
<1>4. Applied(rows, e) = IF Continues(kept, e) THEN Merged(kept, e.text) ELSE Append(kept, e)
  <2>1. e.kind \in {"wait", "llm_note"} => done = rows /\ LatestWait(done, e.by, {"running", "retrying", "timeout", "failed"}) = {}
    BY <1>1 DEF Done, Sets, Turning, Open
  <2> QED
    BY <1>1, <1>2, <1>3, <2>1 DEF Applied, Done, Merged
<1>5. PICK th \in Row : th = Thought(e) /\ th.kind = "thinking_end"
  BY ThoughtType
<1>6. \/ closed = done
      \/ closed = Append(done, th) /\ e.kind \in {"tool_start", "tool_result", "text", "wait", "llm_note"}
  BY <1>2, <1>5 DEF Closed, Thought
<1>7. CASE e.kind \in {"agent_thinking", "thinking_delta", "text"}
  <2>1. kept = closed
    BY <1>3, <1>7
  <2>2. CASE closed = done
    <3>1. Grows(done, Applied(rows, e), e)
      BY <1>4, <2>1, <2>2 DEF Continues, Grows, Last
    <3> QED
      BY <1>1, <3>1
  <2>3. CASE closed = Append(done, th) /\ e.kind = "text"
    <3>1. PICK n \in Nat, more \in Seq(Row) : n = Len(done) /\ more = Append(done, th)
      BY AppendProperties, LenProperties
    <3>2. Len(more) = n + 1 /\ more[n + 1] = th
      BY <3>1, AppendProperties
    <3>3. Last(kept).kind = "thinking_end"
      BY <1>5, <2>1, <2>3, <3>1, <3>2 DEF Last
    <3>4. Applied(rows, e) = Append(kept, e)
      BY <1>4, <2>3, <3>3 DEF Continues
    <3>5. Grows(done, Applied(rows, e), e)
      BY <1>5, <2>1, <2>3, <3>4 DEF Grows
    <3> QED
      BY <1>1, <3>5
  <2> QED
    BY <1>6, <1>7, <2>2, <2>3
<1>8. CASE e.kind \notin {"agent_thinking", "thinking_delta", "text"}
  <2>1. kept = Lasting(closed) /\ Applied(rows, e) = Append(kept, e)
    BY <1>3, <1>4, <1>8 DEF Continues
  <2>0. PICK l \in Seq(Row) : l = Lasting(done)
    BY LastedType
  <2>2. PICK g : l = Lasting(done) /\ Based(g, l, rows, e)
    BY <1>1, <2>0, BasedLasting
  <2>3. CASE closed = done
    <3>1. Grows(l, Applied(rows, e), e)
      BY <2>1, <2>2, <2>3 DEF Grows
    <3> QED
      BY <2>2, <3>1
  <2>4. CASE closed = Append(done, th)
    <3>1. Lasting(closed) = Append(l, th)
      BY <1>5, <2>2, <2>4, LastingAppend DEF Transient
    <3>2. Grows(l, Applied(rows, e), e)
      BY <1>5, <2>1, <3>1 DEF Grows
    <3> QED
      BY <2>2, <3>2
  <2> QED
    BY <1>6, <2>3, <2>4
<1> QED
  BY <1>7, <1>8
-----------------------------------------------------------------------------
(* What apply_event keeps.                                                 *)
LEMMA GrowsType ==
    ASSUME NEW base \in Seq(Row), NEW e \in Row, NEW new, Grows(base, new, e)
    PROVE  /\ new \in Seq(Row)
           /\ Append(base, Thought(e)) \in Seq(Row)
<1>1. e.text \in Seq(Nat)
  BY DEF Row
<1>2. PICK th \in Row : th = Thought(e)
  BY ThoughtType
<1>3. PICK more \in Seq(Row) : more = Append(base, th)
  BY AppendProperties
<1>4. Append(base, e) \in Seq(Row) /\ Append(more, e) \in Seq(Row)
  BY AppendProperties
<1>5. base # <<>> => Merged(base, e.text) \in Seq(Row)
  BY <1>1, MergedIs
<1> QED
  BY <1>2, <1>3, <1>4, <1>5 DEF Grows

LEMMA SetsIs ==
    ASSUME NEW rows \in Seq(Row), NEW e \in Row, Sets(rows, e)
    PROVE  /\ Applied(rows, e) \in Seq(Row) /\ DOMAIN Applied(rows, e) = DOMAIN rows
           /\ \A i \in DOMAIN rows :
                Like(Applied(rows, e)[i], rows[i]) /\ Applied(rows, e)[i].text = rows[i].text
<1>1. Applied(rows, e) = WithStatus(rows, LatestWait(rows, e.by, Open), e.status)
  BY AppliedSets
<1>2. \A i \in DOMAIN rows : i \in LatestWait(rows, e.by, Open) => rows[i].kind = "wait"
  BY LatestWaitIs
<1>3. e.status \in Statuses
  BY DEF Row
<1> QED
  BY <1>1, <1>2, <1>3, WithStatusIs

LEMMA AppliedType ==
    ASSUME NEW rows \in Seq(Row), NEW e \in Row
    PROVE  Applied(rows, e) \in Seq(Row)
<1>1. CASE Sets(rows, e)
  BY <1>1, SetsIs
<1>2. CASE ~Sets(rows, e)
  BY <1>2, AppliedElse, GrowsType
<1> QED
  BY <1>1, <1>2

LEMMA MergedSpins ==
    ASSUME NEW base \in Seq(Row), base # <<>>, NEW words \in Seq(Nat), NEW s
    PROVE  /\ Newest(base, s) => Newest(Merged(base, words), s)
           /\ Still(base, s) => Still(Merged(base, words), s)
<1>1. PICK new \in Seq(Row) : new = Merged(base, words)
  BY MergedIs
<1>2. DOMAIN new = DOMAIN base /\ \A i \in DOMAIN base : Like(new[i], base[i]) /\ new[i].status = base[i].status
  BY <1>1, MergedIs
<1>3. PICK f : f = [i \in DOMAIN base |-> i]
  OBVIOUS
<1>4. Comes(f, new, base) /\ Calms(f, new, base)
  BY <1>2, <1>3, ComesInPlace
<1> QED
  BY <1>1, <1>4, SpinsComes

LEMMA AppliedNewest ==
    ASSUME NEW rows \in Seq(Row), NEW e \in Row, e.kind # "user", NEW s, Newest(rows, s)
    PROVE  Newest(Applied(rows, e), s)
<1>0. e.status \in Statuses /\ e.text \in Seq(Nat)
  BY DEF Row
<1>1. CASE Sets(rows, e)
  BY <1>0, <1>1, AppliedSets, NotedNewest
<1>2. CASE ~Sets(rows, e)
  <2>1. PICK base \in Seq(Row) : \E f : Based(f, base, rows, e) /\ Grows(base, Applied(rows, e), e)
    BY <1>2, AppliedElse
  <2>2. PICK f : Based(f, base, rows, e)
    BY <2>1
  <2>3. Newest(base, s) /\ (Still(rows, s) => Still(base, s))
    BY <2>2, SpinsComes DEF Based
  <2>4. ASSUME Turns(e, s) \/ Waits(e, s) PROVE Still(base, s)
    <3>1. e.by = s
      BY <2>4 DEF Turns, Waits
    <3>2. CASE Turns(e, s)
      <4>1. e.kind \in Turning \ {"user"}
        BY <3>2 DEF Turns
      <4> QED
        BY <2>2, <3>1, <4>1 DEF Based
    <3>3. CASE Waits(e, s)
      <4>1. LatestWait(rows, s, Open) = {}
        BY <1>2, <3>1, <3>3 DEF Sets, Waits
      <4>2. {"running", "retrying"} \subseteq Open
        BY DEF Open
      <4>3. Still(rows, s)
        BY <4>1, <4>2, SpinsIsLatest DEF Still
      <4> QED
        BY <2>3, <4>3
    <3> QED
      BY <2>4, <3>2, <3>3
  <2>5. PICK th \in Row : th = Thought(e) /\ th.kind = "thinking_end"
    BY ThoughtType
  <2>6. ~Turns(th, s) /\ ~Waits(th, s) /\ ~Spins(th, s)
    BY <2>5 DEF Turns, Waits, Spins, Turning
  <2>7. PICK more \in Seq(Row) : more = Append(base, th)
    BY AppendProperties
  <2>8. Newest(more, s) /\ (Still(base, s) => Still(more, s))
    BY <2>3, <2>6, <2>7, SpinsAppend
  <2>9. Newest(Append(base, e), s) /\ Newest(Append(more, e), s)
    BY <2>3, <2>4, <2>8, SpinsAppend
  <2>10. base # <<>> => Newest(Merged(base, e.text), s)
    BY <1>0, <2>3, MergedSpins
  <2> QED
    BY <2>1, <2>5, <2>7, <2>9, <2>10 DEF Grows
<1> QED
  BY <1>1, <1>2

LEMMA AppliedStill ==
    ASSUME NEW rows \in Seq(Row), NEW e \in Row, NEW s, Newest(rows, s)
    PROVE  /\ e.by # s /\ Still(rows, s) => Still(Applied(rows, e), s)
           /\ e.by = s /\ e.kind \in Turning \ {"user"} => Still(Applied(rows, e), s)
           /\ e.kind \notin {"wait", "llm_note"} /\ Still(rows, s) => Still(Applied(rows, e), s)
<1>0. e.status \in Statuses /\ e.text \in Seq(Nat)
  BY DEF Row
<1>1. CASE Sets(rows, e)
  <2>1. e.kind \in {"wait", "llm_note"} /\ e.kind \notin Turning
    BY <1>1 DEF Sets, Turning
  <2> QED
    BY <1>0, <1>1, <2>1, AppliedSets, NotedNewest
<1>2. CASE ~Sets(rows, e)
  <2>1. PICK base \in Seq(Row) : \E f : Based(f, base, rows, e) /\ Grows(base, Applied(rows, e), e)
    BY <1>2, AppliedElse
  <2>2. PICK f : Based(f, base, rows, e)
    BY <2>1
  <2>3. /\ Still(rows, s) => Still(base, s)
        /\ e.by = s /\ e.kind \in Turning \ {"user"} => Still(base, s)
    BY <2>2, SpinsComes DEF Based
  <2>4. PICK th \in Row : th = Thought(e) /\ th.kind = "thinking_end"
    BY ThoughtType
  <2>5. ~Spins(th, s)
    BY <2>4 DEF Spins
  <2>6. PICK more \in Seq(Row) : more = Append(base, th)
    BY AppendProperties
  <2>7. Still(base, s) => Still(more, s)
    BY <2>5, <2>6, SpinsAppend
  <2>8. ASSUME Still(base, s), ~Spins(e, s) PROVE Still(Applied(rows, e), s)
    <3>1. Still(Append(base, e), s) /\ Still(Append(more, e), s)
      BY <2>7, <2>8, SpinsAppend
    <3>2. base # <<>> => Still(Merged(base, e.text), s)
      BY <1>0, <2>8, MergedSpins
    <3> QED
      BY <2>1, <2>4, <2>6, <3>1, <3>2 DEF Grows
  <2>9. Spins(e, s) => e.by = s /\ e.kind = "wait" /\ e.kind \notin Turning
    BY DEF Spins, Turning
  <2> QED
    BY <2>3, <2>8, <2>9
<1> QED
  BY <1>1, <1>2

\* No text of the main session from row n on.
NoText(rows, n) == \A i \in DOMAIN rows : i >= n => ~(rows[i].kind = "text" /\ rows[i].by = Main)

LEMMA NoTextComes ==
    ASSUME NEW new \in Seq(Row), NEW old \in Seq(Row), NEW f, Comes(f, new, old), NEW n \in Nat, NoText(old, n)
    PROVE  NoText(new, n)
<1> SUFFICES ASSUME NEW i \in DOMAIN new, i >= n PROVE ~(new[i].kind = "text" /\ new[i].by = Main)
  BY DEF NoText
<1>1. f[i] \in DOMAIN old /\ i <= f[i] /\ Like(new[i], old[f[i]])
  BY DEF Comes
<1>2. i \in Nat /\ f[i] \in Nat
  BY <1>1, RowAt
<1>3. f[i] >= n
  BY <1>1, <1>2
<1> QED
  BY <1>1, <1>3 DEF NoText, Like

LEMMA NoTextAppend ==
    ASSUME NEW rows \in Seq(Row), NEW r \in Row, NEW n \in Nat, NoText(rows, n), ~(r.kind = "text" /\ r.by = Main)
    PROVE  NoText(Append(rows, r), n)
<1>1. PICK m \in Nat, new \in Seq(Row) : m = Len(rows) /\ new = Append(rows, r)
  BY AppendProperties, LenProperties
<1>2. /\ DOMAIN rows = 1..m /\ DOMAIN new = 1..(m + 1) /\ new[m + 1] = r
      /\ \A i \in 1..m : new[i] = rows[i]
  BY <1>1, AppendProperties, RowAt
<1>3. ASSUME NEW i \in DOMAIN new, i >= n PROVE ~(new[i].kind = "text" /\ new[i].by = Main)
  <2>1. i # m + 1 => i \in 1..m
    BY <1>2
  <2> QED
    BY <1>2, <1>3, <2>1 DEF NoText
<1> QED
  BY <1>1, <1>3 DEF NoText

LEMMA AppliedNoText ==
    ASSUME NEW rows \in Seq(Row), NEW e \in Row, NEW n \in Nat, NoText(rows, n), ~(e.kind = "text" /\ e.by = Main)
    PROVE  NoText(Applied(rows, e), n)
<1>0. e.text \in Seq(Nat)
  BY DEF Row
<1>1. CASE Sets(rows, e)
  BY <1>1, SetsIs DEF NoText, Like
<1>2. CASE ~Sets(rows, e)
  <2>1. PICK base \in Seq(Row) : \E f : Based(f, base, rows, e) /\ Grows(base, Applied(rows, e), e)
    BY <1>2, AppliedElse
  <2>2. PICK f : Based(f, base, rows, e)
    BY <2>1
  <2>3. NoText(base, n)
    BY <2>2, NoTextComes DEF Based
  <2>4. PICK th \in Row : th = Thought(e) /\ th.kind = "thinking_end"
    BY ThoughtType
  <2>5. PICK more \in Seq(Row) : more = Append(base, th)
    BY AppendProperties
  <2>6. NoText(more, n)
    BY <2>3, <2>4, <2>5, NoTextAppend
  <2>7. NoText(Append(base, e), n) /\ NoText(Append(more, e), n)
    BY <2>3, <2>6, NoTextAppend
  <2>8. base # <<>> => NoText(Merged(base, e.text), n)
    <3> SUFFICES ASSUME base # <<>> PROVE NoText(Merged(base, e.text), n)
      OBVIOUS
    <3>1. DOMAIN Merged(base, e.text) = DOMAIN base /\ \A i \in DOMAIN base : Like(Merged(base, e.text)[i], base[i])
      BY <1>0, MergedIs
    <3> QED
      BY <2>3, <3>1 DEF NoText, Like
  <2> QED
    BY <2>1, <2>4, <2>5, <2>7, <2>8 DEF Grows
<1> QED
  BY <1>1, <1>2
-----------------------------------------------------------------------------
Steps == {"off", "model", "failed", "tool", "closing"}

TypeInv ==
    /\ timeline \in Seq(Row)
    /\ events \in Nat /\ streams \in BOOLEAN /\ turn \in Nat
    /\ step \in [Sessions -> Steps] /\ tool \in [Sessions -> {"write", "other"}]
    /\ start \in Nat /\ reply \in Seq(Nat)
    /\ said \in [Sessions -> Nat] /\ since \in Nat
    /\ older \in BOOLEAN /\ mine \in BOOLEAN /\ adrift \in BOOLEAN
    /\ wrote \in BOOLEAN /\ told \in BOOLEAN /\ blank \in BOOLEAN /\ tried \in BOOLEAN
    /\ cut \in BOOLEAN /\ cutTurn \in BOOLEAN

(* A row that spins is the newest of its session and its call runs, or its *)
(* turn ends with an answer still to be shown.                             *)
Spinners ==
    /\ \A s \in Sessions : Newest(timeline, s)
    /\ \A s \in Sessions : step[s] \notin {"model", "failed", "closing"} => Still(timeline, s)
    /\ step[Main] = "closing" /\ (streams \/ reply = <<>>) => Still(timeline, Main)

SubRuns == step[Sub] \in {"off", "model", "failed", "tool"} /\ (step[Sub] # "off" => step[Main] = "tool")

\* A provider that does not stream has its text shown when the turn ends.
Unstreamed == ~streams /\ step[Main] # "off" => NoText(timeline, start)

WaitInv == TypeInv /\ Spinners /\ SubRuns /\ Unstreamed

LEMMA NotTheLast ==
    ASSUME NEW n \in Nat, NEW j \in 1..(n + 1), j # n + 1
    PROVE  j \in 1..n
OBVIOUS

(* An event that the reducer shows.                                        *)
LEMMA ShowKeeps ==
    ASSUME TimelineAssumption, timeline \in Seq(Row), \A s \in Sessions : Newest(timeline, s),
           NEW e \in Row, e.kind # "user", Show(e)
    PROVE  /\ timeline' \in Seq(Row)
           /\ \A s \in Sessions :
                /\ Newest(timeline', s)
                /\ Still(timeline, s) /\ (e.by # s \/ e.kind \notin {"wait", "llm_note"}) => Still(timeline', s)
                /\ e.by = s /\ e.kind \in Turning => Still(timeline', s)
           /\ \A n \in Nat : NoText(timeline, n) /\ ~(e.kind = "text" /\ e.by = Main) => NoText(timeline', n)
<1>1. PICK rows \in Seq(Row) : rows = Applied(timeline, e)
  BY AppliedType
<1>2. timeline' = Recent(rows)
  BY <1>1 DEF Show
<1>3. timeline' \in Seq(Row)
  BY <1>2, RecentIs
<1>4. PICK f : Comes(f, timeline', rows) /\ Calms(f, timeline', rows)
  BY <1>2, RecentComes
<1>5. ASSUME NEW s \in Sessions
      PROVE  /\ Newest(timeline', s)
             /\ Still(timeline, s) /\ (e.by # s \/ e.kind \notin {"wait", "llm_note"}) => Still(timeline', s)
             /\ e.by = s /\ e.kind \in Turning => Still(timeline', s)
  <2>1. Newest(rows, s)
    BY <1>1, AppliedNewest
  <2>2. /\ Still(timeline, s) /\ (e.by # s \/ e.kind \notin {"wait", "llm_note"}) => Still(rows, s)
        /\ e.by = s /\ e.kind \in Turning => Still(rows, s)
    BY <1>1, AppliedStill
  <2> QED
    BY <1>3, <1>4, <2>1, <2>2, SpinsComes
<1>6. ASSUME NEW n \in Nat, NoText(timeline, n), ~(e.kind = "text" /\ e.by = Main) PROVE NoText(timeline', n)
  <2>1. NoText(rows, n)
    BY <1>1, <1>6, AppliedNoText
  <2> QED
    BY <1>3, <1>4, <2>1, NoTextComes
<1> QED
  BY <1>3, <1>5, <1>6

(* Rows whose calls ended are marked in the history.                       *)
WithLeft(r) == [r EXCEPT !.left = TRUE]

LEMMA WithLeftType ==
    ASSUME NEW r \in Row
    PROVE  /\ WithLeft(r) \in Row /\ Like(WithLeft(r), r) /\ WithLeft(r).left
           /\ WithLeft(r).text = r.text /\ WithLeft(r).status = r.status
BY DEF WithLeft, Row, Like

LEMMA LeftIs ==
    ASSUME timeline \in Seq(Row), NEW S, Left(S)
    PROVE  /\ timeline' \in Seq(Row) /\ DOMAIN timeline' = DOMAIN timeline
           /\ \A i \in DOMAIN timeline :
                /\ Like(timeline'[i], timeline[i]) /\ timeline'[i].text = timeline[i].text
                /\ timeline'[i].status = timeline[i].status
           /\ \A s : (Newest(timeline, s) => Newest(timeline', s)) /\ (Still(timeline, s) => Still(timeline', s))
           /\ \A s \in S : Still(timeline', s)
           /\ \A n \in Nat : NoText(timeline, n) => NoText(timeline', n)
<1>1. DOMAIN timeline = 1..Len(timeline) /\ Len(timeline) \in Nat /\ \A i \in DOMAIN timeline : timeline[i] \in Row
  BY RowAt
<1>2. timeline' = [i \in DOMAIN timeline |-> IF timeline[i].by \in S /\ timeline[i].kind = "wait"
                                            THEN WithLeft(timeline[i]) ELSE timeline[i]]
  BY DEF Left, WithLeft
<1>3. ASSUME NEW i \in DOMAIN timeline
      PROVE  /\ timeline'[i] \in Row /\ Like(timeline'[i], timeline[i]) /\ timeline'[i].text = timeline[i].text
             /\ timeline'[i].status = timeline[i].status
             /\ timeline[i].by \in S /\ timeline[i].kind = "wait" => timeline'[i].left
  <2>1. CASE timeline[i].by \in S /\ timeline[i].kind = "wait"
    BY <1>1, <1>2, <2>1, WithLeftType
  <2>2. CASE ~(timeline[i].by \in S /\ timeline[i].kind = "wait")
    BY <1>1, <1>2, <2>2, LikeItself
  <2> QED
    BY <2>1, <2>2
<1>4. DOMAIN timeline' = DOMAIN timeline
  BY <1>2
<1>5. timeline' \in Seq(Row)
  <2>1. timeline' = [i \in 1..Len(timeline) |-> timeline'[i]]
    BY <1>1, <1>2
  <2>2. \A i \in 1..Len(timeline) : timeline'[i] \in Row
    BY <1>1, <1>3
  <2> QED
    BY <1>1, <2>1, <2>2
<1>6. PICK f : f = [i \in DOMAIN timeline |-> i]
  OBVIOUS
<1>7. Comes(f, timeline', timeline) /\ Calms(f, timeline', timeline)
  BY <1>3, <1>4, <1>5, <1>6, ComesInPlace
<1>8. ASSUME NEW s \in S PROVE Still(timeline', s)
  BY <1>3, <1>4 DEF Still, Spins, Like
<1>9. ASSUME NEW s PROVE (Newest(timeline, s) => Newest(timeline', s)) /\ (Still(timeline, s) => Still(timeline', s))
  BY <1>5, <1>7, SpinsComes
<1>10. ASSUME NEW n \in Nat, NoText(timeline, n) PROVE NoText(timeline', n)
  BY <1>5, <1>7, <1>10, NoTextComes
<1> QED
  BY <1>3, <1>4, <1>5, <1>8, <1>9, <1>10

(* The row of a request, and the one that shows the agent as thinking.     *)
LEMMA SubmitIs ==
    ASSUME TimelineAssumption, timeline \in Seq(Row), Submit
    PROVE  /\ timeline' \in Seq(Row) /\ start' \in Nat /\ start' > 0 /\ Len(timeline') = start' + 1
           /\ timeline'[start'].kind = "user" /\ timeline'[start'].by = Main
           /\ timeline'[start' + 1].kind = "agent_thinking"
           /\ (\A i \in DOMAIN timeline : ~Transient(timeline[i]))
                => \A i \in DOMAIN timeline' : i <= start' => ~Transient(timeline'[i])
           /\ \A s \in Sessions :
                /\ Newest(timeline, s) /\ (s = Main => Still(timeline, s)) => Newest(timeline', s)
                /\ Still(timeline, s) => Still(timeline', s)
                /\ ~cut' => ShownIn(timeline', s) = ShownIn(timeline, s)
           /\ NoText(timeline', start')
<1>0. MaxItems \in Nat /\ MaxItems > 1 /\ Main \in Sessions
  BY DEF TimelineAssumption, Sessions
<1>e. /\ "user" \in Kinds /\ "agent_thinking" \in Kinds /\ "none" \in Statuses /\ "running" \in Statuses
      /\ <<>> \in Seq(Nat)
  BY DEF Kinds, Statuses
<1>u. PICK u : u = Event(Main, "user", "none", <<>>)
  OBVIOUS
<1>1. u \in Row /\ u = Event(Main, "user", "none", <<>>) /\ u.by = Main /\ u.kind = "user" /\ u.text = <<>>
  BY <1>0, <1>e, <1>u DEF Event, Row
<1>t. PICK t : t = Event(Main, "agent_thinking", "running", <<>>)
  OBVIOUS
<1>2. /\ t \in Row /\ t = Event(Main, "agent_thinking", "running", <<>>) /\ t.by = Main
      /\ t.kind = "agent_thinking" /\ t.text = <<>>
  BY <1>0, <1>e, <1>t DEF Event, Row
<1>3. PICK more \in Seq(Row) : more = Append(timeline, u)
  BY <1>1, AppendProperties
<1>4. PICK asked \in Seq(Row) : asked = Recent(more)
  BY RecentIs
<1>5. PICK rows \in Seq(Row) : rows = Append(asked, t)
  BY <1>2, AppendProperties
<1>6. rows = Applied(asked, t)
  BY <1>2, <1>5 DEF Applied, Closed, Continues, Turning
<1>7. PICK new \in Seq(Row) : new = Recent(rows)
  BY RecentIs
<1>8. /\ timeline' = new /\ start' = Max({i \in DOMAIN new : new[i].kind = "user"})
      /\ cut' = (cut \/ Len(timeline) + 1 > MaxItems \/ Len(rows) > MaxItems)
  BY <1>1, <1>2, <1>3, <1>4, <1>6, <1>7 DEF Submit
<1>9. PICK n \in Nat, k \in Nat, m \in Nat, l \in Nat : n = Len(timeline) /\ k = Len(asked) /\ m = Len(new) /\ l = Len(rows)
  BY LenProperties
<1>10. /\ Len(more) = n + 1 /\ more[n + 1] = u /\ (\A i \in 1..n : more[i] = timeline[i])
       /\ DOMAIN more = 1..(n + 1) /\ DOMAIN timeline = 1..n
  BY <1>3, <1>9, AppendProperties, RowAt
<1>11. PICK d \in Nat : n + 1 = k + d /\ (\A i \in 1..k : asked[i] = more[i + d]) /\ (d # 0 => k = MaxItems)
  BY <1>4, <1>9, <1>10, RecentIs
<1>12. k >= 1 /\ asked[k] = u
  <2>1. k >= 1
    BY <1>0, <1>11
  <2>2. k \in 1..k /\ k + d = n + 1
    BY <1>11, <2>1
  <2> QED
    BY <1>10, <1>11, <2>1, <2>2
<1>13. l = k + 1 /\ rows[k + 1] = t /\ rows[k] = u /\ (\A i \in 1..k : rows[i] = asked[i]) /\ DOMAIN rows = 1..(k + 1)
  <2>1. /\ l = k + 1 /\ rows[k + 1] = t /\ (\A i \in 1..k : rows[i] = asked[i]) /\ DOMAIN rows = 1..(k + 1)
    BY <1>5, <1>9, AppendProperties, RowAt
  <2>2. k \in 1..k
    BY <1>12
  <2> QED
    BY <1>12, <2>1, <2>2
<1>14. PICK c \in Nat : k + 1 = m + c /\ (\A i \in 1..m : new[i] = rows[i + c]) /\ (c # 0 => m = MaxItems)
  <2>1. l = k + 1 /\ l = Len(rows) /\ m = Len(new)
    BY <1>9, <1>13
  <2>2. PICK c \in Nat : Len(rows) = m + c /\ (\A i \in 1..m : new[i] = rows[i + c]) /\ (c # 0 => m = MaxItems)
    BY <1>7, <2>1, RecentIs
  <2> QED
    BY <2>1, <2>2
<1>15. /\ m >= 2 /\ DOMAIN new = 1..m /\ new[m] = t /\ new[m - 1] = u /\ m - 1 \in 1..m /\ m \in 1..m
  <2>1. m >= 2
    BY <1>0, <1>12, <1>14
  <2>2. m \in 1..m /\ m - 1 \in 1..m /\ m + c = k + 1 /\ (m - 1) + c = k
    BY <1>14, <2>1
  <2> QED
    BY <1>9, <1>13, <1>14, <2>1, <2>2, RowAt
<1>16. start' = m - 1
  <2>1. \A i \in DOMAIN new : new[i].kind = "user" => i <= m - 1
    BY <1>2, <1>15
  <2>2. PICK users \in SUBSET Nat : users = {i \in DOMAIN new : new[i].kind = "user"}
    <3>1. {i \in DOMAIN new : new[i].kind = "user"} \in SUBSET Nat
      BY <1>15
    <3> QED
      BY <3>1
  <2>3. m - 1 \in users /\ \A i \in users : i <= m - 1
    BY <1>1, <1>15, <2>1, <2>2
  <2> QED
    BY <1>8, <2>2, <2>3, GreatestIs
<1>17. \A i \in 1..m : new[i] = t \/ new[i] = u \/ \E j \in 1..n : new[i] = timeline[j]
  <2> SUFFICES ASSUME NEW i \in 1..m PROVE new[i] = t \/ new[i] = u \/ \E j \in 1..n : new[i] = timeline[j]
    OBVIOUS
  <2>1. i + c \in 1..(k + 1) /\ new[i] = rows[i + c]
    BY <1>14
  <2>2. CASE i + c = k + 1
    BY <1>13, <2>1, <2>2
  <2>3. CASE i + c # k + 1
    <3>1. i + c \in 1..k /\ new[i] = asked[i + c]
      BY <1>13, <2>1, <2>3
    <3>2. i + c + d \in 1..(n + 1) /\ new[i] = more[i + c + d]
      BY <1>11, <3>1
    <3>3. i + c + d # n + 1 => i + c + d \in 1..n
      BY <3>2
    <3> QED
      BY <1>10, <3>2, <3>3
  <2> QED
    BY <2>2, <2>3
<1>18. ASSUME \A i \in DOMAIN timeline : ~Transient(timeline[i]), NEW i \in DOMAIN new, i <= m - 1
       PROVE  ~Transient(new[i])
  <2>1. PICK p \in Nat : p = i + c /\ p \in 1..k
    <3>1. i \in Nat /\ i >= 1 /\ i + 1 <= m
      BY <1>15, <1>18
    <3>2. k + 1 = m + c
      BY <1>14
    <3>3. i + c \in Nat /\ i + c \in 1..k
      BY <3>1, <3>2
    <3> QED
      BY <3>3
  <2>2. new[i] = rows[p]
    BY <1>14, <1>15, <2>1
  <2>3. rows[p] = asked[p]
    BY <1>13, <2>1
  <2>4. PICK q \in Nat : q = p + d /\ q \in 1..(n + 1)
    <3>1. n + 1 = k + d
      BY <1>11
    <3>2. p + d \in Nat /\ p + d \in 1..(n + 1)
      BY <2>1, <3>1
    <3> QED
      BY <3>2
  <2>5. asked[p] = more[q]
    BY <1>11, <2>1, <2>4
  <2>6. new[i] = more[q]
    BY <2>2, <2>3, <2>5
  <2>7. CASE q = n + 1
    BY <1>1, <1>10, <2>6, <2>7 DEF Transient
  <2>8. CASE q # n + 1
    <3>1. q \in 1..n
      BY <2>4, <2>8, NotTheLast
    <3> QED
      BY <1>10, <1>18, <2>6, <3>1
  <2> QED
    BY <2>7, <2>8
<1>19. ASSUME NEW s \in Sessions
       PROVE  /\ Newest(timeline, s) /\ (s = Main => Still(timeline, s)) => Newest(new, s)
              /\ Still(timeline, s) => Still(new, s)
  <2>1. /\ ~Spins(u, s) /\ ~Spins(t, s) /\ ~Waits(u, s) /\ ~Waits(t, s) /\ ~Turns(t, s)
        /\ Turns(u, s) => s = Main
    BY <1>1, <1>2 DEF Spins, Waits, Turns, Turning
  <2>2. /\ Newest(timeline, s) /\ (s = Main => Still(timeline, s)) => Newest(more, s)
        /\ Still(timeline, s) => Still(more, s)
    BY <1>3, <2>1, SpinsAppend
  <2>3. (Newest(more, s) => Newest(asked, s)) /\ (Still(more, s) => Still(asked, s))
    BY <1>4, RecentComes, SpinsComes
  <2>4. (Newest(asked, s) => Newest(rows, s)) /\ (Still(asked, s) => Still(rows, s))
    BY <1>5, <2>1, SpinsAppend
  <2>5. (Newest(rows, s) => Newest(new, s)) /\ (Still(rows, s) => Still(new, s))
    BY <1>7, RecentComes, SpinsComes
  <2> QED
    BY <2>2, <2>3, <2>4, <2>5
<1>20. ASSUME NEW s \in Sessions, ~cut' PROVE ShownIn(new, s) = ShownIn(timeline, s)
  <2>1. Len(more) <= MaxItems /\ Len(rows) <= MaxItems
    <3>1. ~(Len(timeline) + 1 > MaxItems) /\ ~(Len(rows) > MaxItems)
      BY <1>8, <1>20
    <3>2. Len(timeline) = n /\ Len(rows) = l /\ Len(more) = n + 1
      BY <1>9, <1>10
    <3> QED
      BY <1>0, <3>1, <3>2
  <2>2. asked = more /\ new = rows
    BY <1>4, <1>7, <2>1, RecentIs
  <2>3. PieceOf(u, s) = <<>> /\ PieceOf(t, s) = <<>>
    BY <1>1, <1>2 DEF PieceOf
  <2>4. ShownIn(more, s) = ShownIn(timeline, s)
    BY <1>3, <2>3, ShownSilent
  <2>5. ShownIn(rows, s) = ShownIn(asked, s)
    BY <1>5, <2>3, ShownSilent
  <2> QED
    BY <2>2, <2>4, <2>5
<1>21. NoText(new, m - 1)
  <2>1. ASSUME NEW i \in DOMAIN new, i >= m - 1 PROVE new[i].kind # "text"
    <3>1. i = m \/ i = m - 1
      BY <1>15, <2>1
    <3> QED
      BY <1>1, <1>2, <1>15, <3>1
  <2> QED
    BY <2>1 DEF NoText
<1>22. m - 1 \in Nat /\ m - 1 > 0 /\ (m - 1) + 1 = m
  BY <1>15
<1> QED
  BY <1>1, <1>2, <1>8, <1>9, <1>15, <1>16, <1>18, <1>19, <1>20, <1>21, <1>22
-----------------------------------------------------------------------------
(* The events that the sessions send, one for each of their actions.       *)
Sends(e, s, kind, status, words) ==
    e \in Row /\ Emit(e) /\ e.by = s /\ e.kind = kind /\ e.status = status /\ e.text = words

LEMMA Literals ==
    /\ \A kind \in {"agent_thinking", "text", "wait", "llm_note", "thinking_start", "thinking_delta",
                    "thinking_end", "tool_start", "tool_result", "tool_end", "note", "summary"} : kind \in Kinds
    /\ \A status \in {"none", "running", "completed", "retrying", "timeout", "failed",
                      "write", "other", "diff", "blank", "plain", "preview"} : status \in Statuses
    /\ <<>> \in Seq(Nat)
BY DEF Kinds, Statuses

LEMMA SendsEvent ==
    ASSUME NEW s \in Sessions, NEW kind, NEW status, NEW words, kind \in Kinds, status \in Statuses, words \in Seq(Nat),
           Emit(Event(s, kind, status, words))
    PROVE  \E e : Sends(e, s, kind, status, words)
<1>1. PICK e : e = Event(s, kind, status, words)
  OBVIOUS
<1>2. e \in Row /\ e.by = s /\ e.kind = kind /\ e.status = status /\ e.text = words
  BY <1>1 DEF Event, Row
<1> QED
  BY <1>1, <1>2 DEF Sends

LEMMA HeartbeatSends ==
    ASSUME NEW s \in Sessions, Heartbeat(s)
    PROVE  \E e : Sends(e, s, "wait", "running", <<>>)
BY SendsEvent, Literals DEF Heartbeat

LEMMA PieceSends ==
    ASSUME TypeInv, NEW s \in Sessions, Piece(s)
    PROVE  \E e : Sends(e, s, "text", "none", <<said[s] + 1>>)
<1>1. <<said[s] + 1>> \in Seq(Nat)
  BY DEF TypeInv
<1> QED
  BY <1>1, SendsEvent, Literals DEF Piece

LEMMA ThinkingSends ==
    ASSUME NEW s \in Sessions, Thinking(s)
    PROVE  \E e : \E kind \in {"thinking_start", "thinking_delta", "thinking_end"} : Sends(e, s, kind, "none", <<>>)
BY SendsEvent, Literals DEF Thinking

LEMMA AttemptFailsSends ==
    ASSUME NEW s \in Sessions, AttemptFails(s)
    PROVE  \E e : \E status \in {"timeout", "failed"} : Sends(e, s, "llm_note", status, <<>>)
BY SendsEvent, Literals DEF AttemptFails

LEMMA RetrySends ==
    ASSUME NEW s \in Sessions, Retry(s)
    PROVE  \E e : Sends(e, s, "llm_note", "retrying", <<>>)
BY SendsEvent, Literals DEF Retry

LEMMA ToolStartSends ==
    ASSUME NEW s \in Sessions, ToolStart(s)
    PROVE  \E e : \E kind \in {"write", "other"} :
              /\ Sends(e, s, "tool_start", kind, <<>>)
              /\ tool' = [tool EXCEPT ![s] = kind] /\ tried' = (tried \/ kind = "write")
<1>1. PICK kind \in {"write", "other"} :
        /\ tool' = [tool EXCEPT ![s] = kind] /\ tried' = (tried \/ kind = "write")
        /\ Emit(Event(s, "tool_start", kind, <<>>))
  BY DEF ToolStart
<1> QED
  BY <1>1, SendsEvent, Literals

LEMMA PreviewSends ==
    ASSUME NEW s \in Sessions, Preview(s)
    PROVE  \E e : Sends(e, s, "tool_result", "preview", <<>>)
BY SendsEvent, Literals DEF Preview

LEMMA ToolResultSends ==
    ASSUME NEW s \in Sessions, ToolResult(s)
    PROVE  \E e : \E shows \in {"diff", "blank", "plain"} :
              /\ Sends(e, s, "tool_result", shows, <<>>)
              /\ shows # "plain" => tool[s] = "write" /\ Changes
              /\ shows = "plain" => UNCHANGED <<wrote, mine>>
              /\ told' = (told \/ shows = "diff")
              /\ blank' = (blank \/ shows = "blank")
              /\ adrift' = (adrift \/ (shows = "plain" /\ tool[s] = "write"))
<1>1. PICK shows \in IF tool[s] = "write" THEN {"diff", "blank", "plain"} ELSE {"plain"} :
        /\ Emit(Event(s, "tool_result", shows, <<>>))
        /\ IF shows = "plain" THEN UNCHANGED <<wrote, mine>> ELSE Changes
        /\ told' = (told \/ shows = "diff")
        /\ blank' = (blank \/ shows = "blank")
        /\ adrift' = (adrift \/ (shows = "plain" /\ tool[s] = "write"))
  BY DEF ToolResult
<1>2. shows \in {"diff", "blank", "plain"} /\ (shows # "plain" => tool[s] = "write")
  OBVIOUS
<1>3. \E e : Sends(e, s, "tool_result", shows, <<>>)
  BY <1>1, <1>2, SendsEvent, Literals
<1> QED
  BY <1>1, <1>2, <1>3

LEMMA ToolEndSends ==
    ASSUME TypeInv, NEW s \in Sessions, ToolEnd(s)
    PROVE  \E e : Sends(e, s, "tool_end", tool[s], <<>>)
<1>1. tool[s] \in {"write", "other"}
  BY DEF TypeInv
<1> QED
  BY <1>1, SendsEvent, Literals DEF ToolEnd

LEMMA NoteSends ==
    ASSUME NEW s \in Sessions, Note(s)
    PROVE  \E e : Sends(e, s, "note", "none", <<>>)
BY SendsEvent, Literals DEF Note

LEMMA SubStartsSends ==
    ASSUME SubStarts
    PROVE  \E e : Sends(e, Sub, "note", "none", <<>>)
BY SendsEvent, Literals DEF SubStarts, Sessions

(* The rows of the end of a turn.                                          *)
LEMMA WithReplyIs ==
    ASSUME TypeInv, NEW rows
    PROVE  \/ /\ WithReply(rows) = rows
              /\ reply = <<>> \/ \E i \in DOMAIN rows : i >= start /\ rows[i].kind = "text" /\ rows[i].by = Main
           \/ \E e \in Row : /\ e.by = Main /\ e.kind = "text" /\ e.text = reply
                             /\ reply # <<>> /\ WithReply(rows) = Applied(rows, e)
                             /\ NoText(rows, start)
<1>1. PICK e : e = Event(Main, "text", "completed", reply)
  OBVIOUS
<1>2. e \in Row /\ e.by = Main /\ e.kind = "text" /\ e.text = reply
  BY <1>1, Literals DEF Event, Row, TypeInv, Sessions
<1>3. (\E r \in Since(rows) : r.kind = "text" /\ r.by = Main)
        <=> \E i \in DOMAIN rows : i >= start /\ rows[i].kind = "text" /\ rows[i].by = Main
  BY DEF Since
<1> QED
  BY <1>1, <1>2, <1>3 DEF WithReply, NoText

LEMMA WithSummaryIs ==
    ASSUME NEW rows
    PROVE  \E e \in Row : /\ e.by = Main /\ e.kind = "summary" /\ e.text = <<>>
                          /\ WithSummary(rows) = IF Changed(rows) THEN Applied(rows, e) ELSE rows
<1>1. PICK e : e = Event(Main, "summary", "completed", <<>>)
  OBVIOUS
<1>2. e \in Row /\ e.by = Main /\ e.kind = "summary" /\ e.text = <<>>
  BY <1>1, Literals DEF Event, Row, Sessions
<1> QED
  BY <1>1, <1>2 DEF WithSummary
-----------------------------------------------------------------------------
LEMMA InitType ==
    ASSUME TimelineAssumption, Init
    PROVE  TypeInv
<1>1. <<>> \in Seq(Row) /\ <<>> \in Seq(Nat)
  OBVIOUS
<1> QED
  BY <1>1 DEF Init, TypeInv, Steps

LEMMA EmitType ==
    ASSUME TimelineAssumption, TypeInv, NEW s, NEW kind, NEW status, NEW words, NEW e, Sends(e, s, kind, status, words)
    PROVE  timeline' \in Seq(Row) /\ events' \in Nat /\ cut' \in BOOLEAN /\ cutTurn' \in BOOLEAN
<1>1. PICK rows \in Seq(Row) : rows = Applied(timeline, e)
  BY AppliedType DEF Sends, TypeInv
<1>2. timeline' = Recent(rows) /\ cut' \in BOOLEAN /\ cutTurn' \in BOOLEAN
  BY <1>1 DEF Sends, Emit, Show
<1> QED
  BY <1>2, RecentIs DEF Sends, Emit, TypeInv

LEMMA FinishRows ==
    ASSUME TimelineAssumption, TypeInv, Finish
    PROVE  \E replied, second, summed, third \in Seq(Row) :
              /\ replied = WithReply(timeline) /\ second = Recent(replied)
              /\ summed = WithSummary(second) /\ third = Recent(summed)
              /\ timeline' = Lasting(third) /\ timeline' \in Seq(Row)
<1>1. PICK replied \in Seq(Row) : replied = WithReply(timeline)
  <2>1. WithReply(timeline) \in Seq(Row)
    BY WithReplyIs, AppliedType DEF TypeInv
  <2> QED
    BY <2>1
<1>2. PICK second \in Seq(Row) : second = Recent(replied)
  BY RecentIs
<1>3. PICK summed \in Seq(Row) : summed = WithSummary(second)
  <2>1. WithSummary(second) \in Seq(Row)
    BY WithSummaryIs, AppliedType
  <2> QED
    BY <2>1
<1>4. PICK third \in Seq(Row) : third = Recent(summed)
  BY RecentIs
<1>5. timeline' = Lasting(third) /\ timeline' \in Seq(Row)
  BY <1>1, <1>2, <1>3, <1>4, LastedType DEF Finish
<1> QED
  BY <1>1, <1>2, <1>3, <1>4, <1>5

LEMMA TypeKeeps ==
    ASSUME TimelineAssumption, TypeInv, [Next]_vars
    PROVE  TypeInv'
<1> USE DEF TypeInv, Steps
<1>0. Main \in Sessions /\ Sub \in Sessions
  BY DEF Sessions
<1>1. ASSUME NEW s \in Sessions, Heartbeat(s) PROVE TypeInv'
  <2>1. timeline' \in Seq(Row) /\ events' \in Nat /\ cut' \in BOOLEAN /\ cutTurn' \in BOOLEAN
    BY <1>1, HeartbeatSends, EmitType
  <2> QED
    BY <1>1, <2>1 DEF Heartbeat, turnVars, saidVars, fileVars
<1>2. ASSUME NEW s \in Sessions, Piece(s) PROVE TypeInv'
  <2>1. timeline' \in Seq(Row) /\ events' \in Nat /\ cut' \in BOOLEAN /\ cutTurn' \in BOOLEAN
    BY <1>2, PieceSends, EmitType
  <2> QED
    BY <1>2, <2>1 DEF Piece, turnVars, saidVars, fileVars
<1>3. ASSUME NEW s \in Sessions, Thinking(s) PROVE TypeInv'
  <2>1. timeline' \in Seq(Row) /\ events' \in Nat /\ cut' \in BOOLEAN /\ cutTurn' \in BOOLEAN
    BY <1>3, ThinkingSends, EmitType
  <2> QED
    BY <1>3, <2>1 DEF Thinking, turnVars, saidVars, fileVars
<1>4. ASSUME NEW s \in Sessions, AttemptFails(s) PROVE TypeInv'
  <2>1. timeline' \in Seq(Row) /\ events' \in Nat /\ cut' \in BOOLEAN /\ cutTurn' \in BOOLEAN
    BY <1>4, AttemptFailsSends, EmitType
  <2> QED
    BY <1>4, <2>1 DEF AttemptFails, turnVars, saidVars, fileVars
<1>5. ASSUME NEW s \in Sessions, Retry(s) PROVE TypeInv'
  <2>1. timeline' \in Seq(Row) /\ events' \in Nat /\ cut' \in BOOLEAN /\ cutTurn' \in BOOLEAN
    BY <1>5, RetrySends, EmitType
  <2> QED
    BY <1>0, <1>5, <2>1 DEF Retry, turnVars, saidVars, fileVars
<1>6. ASSUME NEW s \in Sessions, ToolStart(s) PROVE TypeInv'
  <2>0. PICK kind \in {"write", "other"} : \E e :
           /\ Sends(e, s, "tool_start", kind, <<>>)
           /\ tool' = [tool EXCEPT ![s] = kind] /\ tried' = (tried \/ kind = "write")
    BY <1>6, ToolStartSends
  <2>1. timeline' \in Seq(Row) /\ events' \in Nat /\ cut' \in BOOLEAN /\ cutTurn' \in BOOLEAN
    BY <2>0, EmitType
  <2>2. tool' \in [Sessions -> {"write", "other"}] /\ tried' \in BOOLEAN
    BY <2>0
  <2> QED
    BY <1>6, <2>1, <2>2 DEF ToolStart, turnVars, saidVars, fileVars
<1>7. ASSUME NEW s \in Sessions, Preview(s) PROVE TypeInv'
  <2>1. timeline' \in Seq(Row) /\ events' \in Nat /\ cut' \in BOOLEAN /\ cutTurn' \in BOOLEAN
    BY <1>7, PreviewSends, EmitType
  <2> QED
    BY <1>7, <2>1 DEF Preview, turnVars, saidVars, fileVars
<1>8. ASSUME NEW s \in Sessions, ToolResult(s) PROVE TypeInv'
  <2>1. timeline' \in Seq(Row) /\ events' \in Nat /\ cut' \in BOOLEAN /\ cutTurn' \in BOOLEAN
    BY <1>8, ToolResultSends, EmitType
  <2>2. wrote' \in BOOLEAN /\ mine' \in BOOLEAN /\ told' \in BOOLEAN /\ blank' \in BOOLEAN /\ adrift' \in BOOLEAN
    BY <1>8, ToolResultSends DEF Changes
  <2> QED
    BY <1>8, <2>1, <2>2 DEF ToolResult, turnVars, saidVars
<1>9. ASSUME NEW s \in Sessions, ToolEnd(s) PROVE TypeInv'
  <2>1. timeline' \in Seq(Row) /\ events' \in Nat /\ cut' \in BOOLEAN /\ cutTurn' \in BOOLEAN
    BY <1>9, ToolEndSends, EmitType
  <2> QED
    BY <1>0, <1>9, <2>1 DEF ToolEnd, turnVars, saidVars, fileVars
<1>10. ASSUME NEW s \in Sessions, Note(s) PROVE TypeInv'
  <2>1. timeline' \in Seq(Row) /\ events' \in Nat /\ cut' \in BOOLEAN /\ cutTurn' \in BOOLEAN
    BY <1>10, NoteSends, EmitType
  <2> QED
    BY <1>10, <2>1 DEF Note, turnVars, saidVars, fileVars
<1>11. CASE SubStarts
  <2>1. timeline' \in Seq(Row) /\ events' \in Nat /\ cut' \in BOOLEAN /\ cutTurn' \in BOOLEAN
    BY <1>11, SubStartsSends, EmitType
  <2> QED
    BY <1>0, <1>11, <2>1 DEF SubStarts, turnVars, saidVars, fileVars
<1>12. CASE SubAnswers
  <2>1. timeline' \in Seq(Row)
    BY <1>12, LeftIs DEF SubAnswers
  <2> QED
    BY <1>0, <1>12, <2>1 DEF SubAnswers, turnVars, saidVars, fileVars
<1>13. CASE Submit
  <2>1. timeline' \in Seq(Row) /\ start' \in Nat
    BY <1>13, SubmitIs
  <2>2. cut' \in BOOLEAN
    BY <1>13 DEF Submit
  <2>3. /\ turn' = turn + 1 /\ cutTurn' = FALSE /\ step' = [step EXCEPT ![Main] = "model"]
        /\ since' = said[Main] /\ tried' = FALSE /\ reply' = <<>>
        /\ UNCHANGED <<events, streams, tool, said>>
    BY <1>13 DEF Submit
  <2>4. step' \in [Sessions -> Steps] /\ turn' \in Nat /\ since' \in Nat
    BY <1>0, <2>3
  <2>5. reply' \in Seq(Nat) /\ tried' \in BOOLEAN /\ cutTurn' \in BOOLEAN
    BY <2>3, Literals
  <2>7. /\ older' \in BOOLEAN /\ mine' \in BOOLEAN /\ adrift' \in BOOLEAN
        /\ wrote' \in BOOLEAN /\ told' \in BOOLEAN /\ blank' \in BOOLEAN
    BY <1>13 DEF Submit
  <2>6. events' \in Nat /\ streams' \in BOOLEAN /\ tool' \in [Sessions -> {"write", "other"}] /\ said' \in [Sessions -> Nat]
    BY <2>3
  <2> QED
    BY <2>1, <2>2, <2>4, <2>5, <2>6, <2>7
<1>14. CASE Answer
  <2>1. timeline' \in Seq(Row)
    BY <1>14, LeftIs DEF Answer
  <2>2. reply' \in Seq(Nat) /\ said' \in [Sessions -> Nat]
    <3>1. CASE streams
      <4>1. reply' = [i \in 1..(said[Main] - since) |-> since + i] /\ said' = said
        BY <1>14, <3>1 DEF Answer
      <4>2. CASE since <= said[Main]
        <5>1. PICK n \in Nat : n = said[Main] - since
          BY <1>0, <4>2
        <5>2. [i \in 1..n |-> since + i] \in Seq(Nat)
          OBVIOUS
        <5> QED
          BY <4>1, <5>1, <5>2
      <4>3. CASE ~(since <= said[Main])
        <5>1. 1..(said[Main] - since) = 1..0
          BY <1>0, <4>3
        <5>2. [i \in 1..0 |-> since + i] \in Seq(Nat)
          OBVIOUS
        <5> QED
          BY <4>1, <5>1, <5>2
      <4> QED
        BY <4>2, <4>3
    <3>2. CASE ~streams
      <4>1. reply' = <<said[Main] + 1>> /\ said' = [said EXCEPT ![Main] = @ + 1]
        BY <1>14, <3>2 DEF Answer
      <4> QED
        BY <1>0, <4>1
    <3> QED
      BY <3>1, <3>2
  <2> QED
    BY <1>0, <1>14, <2>1, <2>2 DEF Answer, fileVars
<1>15. CASE Break
  <2>1. timeline' \in Seq(Row)
    BY <1>15, LeftIs DEF Break
  <2> QED
    BY <1>0, <1>15, <2>1 DEF Break, turnVars, saidVars, fileVars
<1>16. CASE Finish
  <2>1. timeline' \in Seq(Row)
    BY <1>16, FinishRows
  <2>2. cut' \in BOOLEAN /\ cutTurn' \in BOOLEAN
    BY <1>16 DEF Finish
  <2> QED
    BY <1>0, <1>16, <2>1, <2>2 DEF Finish, turnVars, saidVars, fileVars
<1>17. CASE Lands \/ Edited
  BY <1>17 DEF Lands, Edited, Changes, turnVars, saidVars
<1>18. CASE UNCHANGED vars
  BY <1>18 DEF vars, turnVars, saidVars, fileVars
<1> QED
  BY <1>1, <1>2, <1>3, <1>4, <1>5, <1>6, <1>7, <1>8, <1>9, <1>10, <1>11, <1>12, <1>13, <1>14, <1>15, <1>16,
     <1>17, <1>18 DEF Next
-----------------------------------------------------------------------------
(* Waiting rows.                                                           *)
LEMMA WaitEvent ==
    ASSUME TimelineAssumption, WaitInv, TypeInv', NEW s \in Sessions, NEW kind, NEW status, NEW words,
           NEW e, Sends(e, s, kind, status, words), kind # "user", kind = "text" => streams,
           UNCHANGED <<streams, start, reply>>,
           NEW st \in {"model", "failed", "tool"}, step' = [step EXCEPT ![s] = st], SubRuns', step[Main] # "off",
           \/ kind \in Turning \/ st \in {"model", "failed"}
           \/ step[s] = "tool" /\ kind \notin {"wait", "llm_note"}
    PROVE  WaitInv'
<1>0. timeline \in Seq(Row) /\ e \in Row /\ e.by = s /\ e.kind = kind /\ Show(e) /\ Main \in Sessions /\ Sub \in Sessions
      /\ start \in Nat /\ Main # Sub
  BY DEF WaitInv, TypeInv, Sends, Emit, Sessions, TimelineAssumption
<1>1. \A q \in Sessions :
        /\ Newest(timeline', q)
        /\ Still(timeline, q) /\ (e.by # q \/ e.kind \notin {"wait", "llm_note"}) => Still(timeline', q)
        /\ e.by = q /\ e.kind \in Turning => Still(timeline', q)
  BY <1>0, ShowKeeps DEF WaitInv, Spinners
<1>2. ASSUME NEW q \in Sessions, step'[q] \notin {"model", "failed", "closing"} PROVE Still(timeline', q)
  <2>1. CASE q = s
    <3>1. step'[s] = st
      BY DEF WaitInv, TypeInv
    <3>2. CASE kind \in Turning
      BY <1>0, <1>1, <2>1, <3>2
    <3>3. CASE step[s] = "tool" /\ kind \notin {"wait", "llm_note"}
      <4>1. Still(timeline, s)
        BY <3>3 DEF WaitInv, Spinners
      <4> QED
        BY <1>0, <1>1, <2>1, <3>3, <4>1
    <3> QED
      BY <1>2, <2>1, <3>1, <3>2, <3>3
  <2>2. CASE q # s
    <3>1. step'[q] = step[q]
      BY <2>2 DEF WaitInv, TypeInv
    <3>2. Still(timeline, q)
      BY <1>2, <3>1 DEF WaitInv, Spinners
    <3> QED
      BY <1>0, <1>1, <2>2, <3>2
  <2> QED
    BY <2>1, <2>2
<1>3. step'[Main] # "closing"
  <2>1. CASE s = Main
    BY <1>0, <2>1 DEF WaitInv, TypeInv
  <2>2. CASE s # Main
    <3>1. s = Sub /\ step'[Sub] = st
      BY <2>2 DEF WaitInv, TypeInv, Sessions
    <3> QED
      BY <3>1 DEF SubRuns
  <2> QED
    BY <2>1, <2>2
<1>4. Spinners'
  BY <1>1, <1>2, <1>3 DEF Spinners
<1>5. Unstreamed'
  <2> SUFFICES ASSUME ~streams' PROVE NoText(timeline', start')
    BY DEF Unstreamed
  <2>1. NoText(timeline, start) /\ kind # "text"
    BY DEF WaitInv, Unstreamed
  <2>2. NoText(timeline', start)
    BY <1>0, <2>1, ShowKeeps DEF WaitInv, Spinners
  <2> QED
    BY <2>2
<1> QED
  BY <1>4, <1>5 DEF WaitInv

LEMMA FinishWaits ==
    ASSUME TimelineAssumption, WaitInv, TypeInv', Finish
    PROVE  WaitInv'
<1>0. timeline \in Seq(Row) /\ Main \in Sessions /\ Sub \in Sessions /\ Main # Sub /\ start \in Nat /\ TypeInv
  BY DEF WaitInv, TypeInv, Sessions, TimelineAssumption
<1>1. step[Main] = "closing" /\ step' = [step EXCEPT ![Main] = "off"] /\ UNCHANGED <<streams, start, reply>>
  BY DEF Finish, turnVars
<1>2. step[Sub] = "off" /\ step'[Sub] = "off" /\ step'[Main] = "off"
  BY <1>0, <1>1 DEF WaitInv, SubRuns, TypeInv
<1>3. PICK replied, second, summed, third \in Seq(Row) :
              /\ replied = WithReply(timeline) /\ second = Recent(replied)
              /\ summed = WithSummary(second) /\ third = Recent(summed)
              /\ timeline' = Lasting(third) /\ timeline' \in Seq(Row)
  BY <1>0, FinishRows
<1>4. \A s \in Sessions : Newest(timeline, s)
  BY DEF WaitInv, Spinners
<1>5. Still(timeline, Sub)
  BY <1>0, <1>2 DEF WaitInv, Spinners
<1>6. Still(replied, Main) /\ Still(replied, Sub) /\ \A s \in Sessions : Newest(replied, s)
  <2>1. CASE /\ WithReply(timeline) = timeline
             /\ reply = <<>> \/ \E i \in DOMAIN timeline : i >= start /\ timeline[i].kind = "text" /\ timeline[i].by = Main
    <3>1. streams \/ reply = <<>>
      BY <1>1, <2>1 DEF WaitInv, Unstreamed, NoText
    <3>2. Still(timeline, Main)
      BY <1>1, <3>1 DEF WaitInv, Spinners
    <3> QED
      BY <1>3, <1>4, <1>5, <2>1, <3>2
  <2>2. CASE \E e \in Row : /\ e.by = Main /\ e.kind = "text" /\ e.text = reply
                            /\ reply # <<>> /\ WithReply(timeline) = Applied(timeline, e)
                            /\ NoText(timeline, start)
    <3>1. PICK e \in Row : e.by = Main /\ e.kind = "text" /\ replied = Applied(timeline, e)
      BY <1>3, <2>2
    <3>2. e.kind \in Turning \ {"user"} /\ e.kind # "user" /\ e.by # Sub
      BY <1>0, <3>1 DEF Turning
    <3>3. \A s \in Sessions : Newest(replied, s)
      BY <1>0, <1>4, <3>1, <3>2, AppliedNewest
    <3>4. Still(replied, Main)
      BY <1>0, <1>4, <3>1, <3>2, AppliedStill
    <3>5. Still(replied, Sub)
      BY <1>0, <1>4, <1>5, <3>1, <3>2, AppliedStill
    <3> QED
      BY <3>3, <3>4, <3>5
  <2> QED
    BY <1>0, <2>1, <2>2, WithReplyIs
<1>7. \A s \in Sessions : Newest(second, s) /\ Still(second, s)
  <2>1. \A s \in Sessions : Still(replied, s)
    BY <1>6 DEF Sessions
  <2> QED
    BY <1>3, <1>6, <2>1, RecentComes, SpinsComes
<1>8. \A s \in Sessions : Newest(summed, s) /\ Still(summed, s)
  <2>1. PICK e \in Row : /\ e.by = Main /\ e.kind = "summary"
                         /\ WithSummary(second) = IF Changed(second) THEN Applied(second, e) ELSE second
    BY WithSummaryIs
  <2>2. CASE Changed(second)
    <3>1. summed = Applied(second, e) /\ e.kind \notin {"wait", "llm_note"} /\ e.kind # "user"
      BY <1>3, <2>1, <2>2
    <3> QED
      BY <1>7, <3>1, AppliedNewest, AppliedStill
  <2>3. CASE ~Changed(second)
    BY <1>3, <1>7, <2>1, <2>3
  <2> QED
    BY <2>2, <2>3
<1>9. \A s \in Sessions : Newest(third, s) /\ Still(third, s)
  BY <1>3, <1>8, RecentComes, SpinsComes
<1>10. \A s \in Sessions : Newest(timeline', s) /\ Still(timeline', s)
  <2>1. PICK f : Comes(f, Lasting(third), third) /\ Calms(f, Lasting(third), third)
    BY LastingComes
  <2> QED
    BY <1>3, <1>9, <2>1, SpinsComes
<1>11. Spinners'
  BY <1>2, <1>10 DEF Spinners
<1>12. SubRuns' /\ Unstreamed'
  BY <1>2 DEF SubRuns, Unstreamed
<1> QED
  BY <1>11, <1>12 DEF WaitInv

LEMMA WaitKeeps ==
    ASSUME TimelineAssumption, WaitInv, [Next]_vars
    PROVE  WaitInv'
<1>0. TypeInv /\ TypeInv' /\ Main \in Sessions /\ Sub \in Sessions /\ Main # Sub /\ step \in [Sessions -> Steps]
  BY TypeKeeps DEF WaitInv, Sessions, TimelineAssumption, TypeInv
<1>00. \A s \in Sessions : step[s] \in {"model", "failed", "tool"} => step[Main] # "off" /\ step = [step EXCEPT ![s] = step[s]]
  BY <1>0 DEF WaitInv, SubRuns, Sessions
<1>000. UNCHANGED step => SubRuns'
  BY DEF WaitInv, SubRuns
<1>1. ASSUME NEW s \in Sessions, Heartbeat(s) PROVE WaitInv'
  <2>1. step[s] = "model" /\ UNCHANGED step /\ UNCHANGED <<streams, start, reply>>
    BY <1>1 DEF Heartbeat, turnVars
  <2>2. PICK e : Sends(e, s, "wait", "running", <<>>)
    BY <1>1, HeartbeatSends
  <2> QED
    BY <1>0, <1>00, <1>000, <2>1, <2>2, WaitEvent
<1>2. ASSUME NEW s \in Sessions, Piece(s) PROVE WaitInv'
  <2>1. step[s] = "model" /\ streams /\ UNCHANGED step /\ UNCHANGED <<streams, start, reply>>
    BY <1>2 DEF Piece, turnVars
  <2>2. PICK e : Sends(e, s, "text", "none", <<said[s] + 1>>)
    BY <1>0, <1>2, PieceSends
  <2> QED
    BY <1>0, <1>00, <1>000, <2>1, <2>2, WaitEvent
<1>3. ASSUME NEW s \in Sessions, Thinking(s) PROVE WaitInv'
  <2>1. step[s] = "model" /\ UNCHANGED step /\ UNCHANGED <<streams, start, reply>>
    BY <1>3 DEF Thinking, turnVars
  <2>3. PICK kind \in {"thinking_start", "thinking_delta", "thinking_end"} : \E e : Sends(e, s, kind, "none", <<>>)
    BY <1>3, ThinkingSends
  <2>2. PICK e : Sends(e, s, kind, "none", <<>>)
    BY <2>3
  <2> QED
    BY <1>0, <1>00, <1>000, <2>1, <2>2, WaitEvent
<1>4. ASSUME NEW s \in Sessions, AttemptFails(s) PROVE WaitInv'
  <2>1. step[s] = "model" /\ step' = [step EXCEPT ![s] = "failed"] /\ UNCHANGED <<streams, start, reply>>
    BY <1>4 DEF AttemptFails, turnVars
  <2>4. PICK status \in {"timeout", "failed"} : \E e : Sends(e, s, "llm_note", status, <<>>)
    BY <1>4, AttemptFailsSends
  <2>2. PICK e : Sends(e, s, "llm_note", status, <<>>)
    BY <2>4
  <2>3. SubRuns'
    BY <1>0, <2>1 DEF WaitInv, SubRuns, Sessions
  <2>6. PICK st \in {"model", "failed", "tool"} : st = "failed" /\ step' = [step EXCEPT ![s] = st]
    BY <2>1
  <2>7. st \in {"model", "failed"} /\ step[Main] # "off" /\ "llm_note" # "user" /\ ("llm_note" = "text" => streams)
    BY <1>0, <1>00, <2>1, <2>6
  <2> QED
    BY <1>0, <2>1, <2>2, <2>3, <2>6, <2>7, WaitEvent
<1>5. ASSUME NEW s \in Sessions, Retry(s) PROVE WaitInv'
  <2>1. step[s] = "failed" /\ step' = [step EXCEPT ![s] = "model"] /\ UNCHANGED <<streams, start, reply>>
    BY <1>5 DEF Retry, turnVars
  <2>2. PICK e : Sends(e, s, "llm_note", "retrying", <<>>)
    BY <1>5, RetrySends
  <2>3. SubRuns'
    BY <1>0, <2>1 DEF WaitInv, SubRuns, Sessions
  <2>6. PICK st \in {"model", "failed", "tool"} : st = "model" /\ step' = [step EXCEPT ![s] = st]
    BY <2>1
  <2>7. st \in {"model", "failed"} /\ step[Main] # "off" /\ "llm_note" # "user" /\ ("llm_note" = "text" => streams)
    BY <1>0, <1>00, <2>1, <2>6
  <2> QED
    BY <1>0, <2>1, <2>2, <2>3, <2>6, <2>7, WaitEvent
<1>6. ASSUME NEW s \in Sessions, ToolStart(s) PROVE WaitInv'
  <2>1. step[s] = "model" /\ step' = [step EXCEPT ![s] = "tool"] /\ UNCHANGED <<streams, start, reply>>
    BY <1>6 DEF ToolStart, turnVars
  <2>5. PICK kind \in {"write", "other"} : \E e : Sends(e, s, "tool_start", kind, <<>>)
    BY <1>6, ToolStartSends
  <2>2. PICK e : Sends(e, s, "tool_start", kind, <<>>)
    BY <2>5
  <2>3. SubRuns'
    BY <1>0, <2>1 DEF WaitInv, SubRuns, Sessions
  <2>4. "tool_start" \in Turning
    BY DEF Turning
  <2>6. PICK st \in {"model", "failed", "tool"} : st = "tool" /\ step' = [step EXCEPT ![s] = st]
    BY <2>1
  <2> QED
    BY <1>0, <1>00, <2>1, <2>2, <2>3, <2>4, <2>6, WaitEvent
<1>7. ASSUME NEW s \in Sessions, Preview(s) PROVE WaitInv'
  <2>1. step[s] = "tool" /\ UNCHANGED step /\ UNCHANGED <<streams, start, reply>>
    BY <1>7 DEF Preview, turnVars
  <2>2. PICK e : Sends(e, s, "tool_result", "preview", <<>>)
    BY <1>7, PreviewSends
  <2> QED
    BY <1>0, <1>00, <1>000, <2>1, <2>2, WaitEvent
<1>8. ASSUME NEW s \in Sessions, ToolResult(s) PROVE WaitInv'
  <2>1. step[s] = "tool" /\ UNCHANGED step /\ UNCHANGED <<streams, start, reply>>
    BY <1>8 DEF ToolResult, turnVars
  <2>2. PICK e, status : Sends(e, s, "tool_result", status, <<>>)
    BY <1>8, ToolResultSends
  <2> QED
    BY <1>0, <1>00, <1>000, <2>1, <2>2, WaitEvent
<1>9. ASSUME NEW s \in Sessions, ToolEnd(s) PROVE WaitInv'
  <2>1. step[s] = "tool" /\ (s = Main => step[Sub] = "off") /\ step' = [step EXCEPT ![s] = "model"]
        /\ UNCHANGED <<streams, start, reply>>
    BY <1>9 DEF ToolEnd, turnVars
  <2>2. PICK e, status : Sends(e, s, "tool_end", status, <<>>)
    BY <1>0, <1>9, ToolEndSends
  <2>3. SubRuns'
    BY <1>0, <2>1 DEF WaitInv, SubRuns, Sessions
  <2>6. PICK st \in {"model", "failed", "tool"} : st = "model" /\ step' = [step EXCEPT ![s] = st]
    BY <2>1
  <2>7. st \in {"model", "failed"} /\ step[Main] # "off" /\ "tool_end" # "user" /\ ("tool_end" = "text" => streams)
    BY <1>0, <1>00, <2>1, <2>6
  <2> QED
    BY <1>0, <2>1, <2>2, <2>3, <2>6, <2>7, WaitEvent
<1>10. ASSUME NEW s \in Sessions, Note(s) PROVE WaitInv'
  <2>1. step[s] \in {"model", "tool"} /\ UNCHANGED step /\ UNCHANGED <<streams, start, reply>>
    BY <1>10 DEF Note, turnVars
  <2>2. PICK e : Sends(e, s, "note", "none", <<>>)
    BY <1>10, NoteSends
  <2> QED
    BY <1>0, <1>00, <1>000, <2>1, <2>2, WaitEvent
<1>11. CASE SubStarts
  <2>1. step[Main] = "tool" /\ step[Sub] = "off" /\ step' = [step EXCEPT ![Sub] = "model"]
        /\ UNCHANGED <<streams, start, reply>>
    BY <1>11 DEF SubStarts, turnVars
  <2>2. PICK e : Sends(e, Sub, "note", "none", <<>>)
    BY <1>11, SubStartsSends
  <2>3. SubRuns'
    BY <1>0, <2>1 DEF WaitInv, SubRuns, Sessions
  <2>6. PICK st \in {"model", "failed", "tool"} : st = "model" /\ step' = [step EXCEPT ![Sub] = st]
    BY <2>1
  <2>7. st \in {"model", "failed"} /\ step[Main] # "off" /\ "note" # "user" /\ ("note" = "text" => streams)
    BY <1>0, <1>00, <2>1, <2>6
  <2> QED
    BY <1>0, <2>1, <2>2, <2>3, <2>6, <2>7, WaitEvent
<1>12. CASE SubAnswers
  <2>1. step[Sub] = "model" /\ step' = [step EXCEPT ![Sub] = "off"] /\ Left({Sub})
        /\ UNCHANGED <<streams, start, reply>>
    BY <1>12 DEF SubAnswers, turnVars
  <2>2. step[Main] = "tool" /\ step'[Main] = "tool" /\ step'[Sub] = "off"
    BY <1>0, <2>1 DEF WaitInv, SubRuns
  <2>3. Spinners'
    BY <1>0, <2>1, <2>2, LeftIs DEF WaitInv, Spinners, TypeInv, Sessions
  <2>4. SubRuns' /\ Unstreamed'
    BY <1>0, <2>1, <2>2, LeftIs DEF WaitInv, SubRuns, Unstreamed, TypeInv
  <2> QED
    BY <1>0, <2>3, <2>4 DEF WaitInv
<1>13. CASE Submit
  <2>1. step[Main] = "off" /\ step' = [step EXCEPT ![Main] = "model"] /\ UNCHANGED streams
    BY <1>13 DEF Submit
  <2>2. step[Sub] = "off" /\ step'[Sub] = "off" /\ step'[Main] = "model"
    BY <1>0, <2>1 DEF WaitInv, SubRuns
  <2>3. /\ NoText(timeline', start')
        /\ \A s \in Sessions :
                /\ Newest(timeline, s) /\ (s = Main => Still(timeline, s)) => Newest(timeline', s)
                /\ Still(timeline, s) => Still(timeline', s)
    BY <1>0, <1>13, SubmitIs DEF TypeInv
  <2>4. Spinners'
    BY <1>0, <2>1, <2>2, <2>3 DEF WaitInv, Spinners, Sessions
  <2>5. SubRuns' /\ Unstreamed'
    BY <2>2, <2>3 DEF SubRuns, Unstreamed
  <2> QED
    BY <1>0, <2>4, <2>5 DEF WaitInv
<1>14. CASE Answer
  <2>1. step[Main] = "model" /\ step' = [step EXCEPT ![Main] = "closing"] /\ UNCHANGED <<streams, start>>
        /\ (streams => Left({Main})) /\ (~streams => UNCHANGED timeline /\ reply' = <<said[Main] + 1>>)
    BY <1>14 DEF Answer
  <2>2. step[Sub] = "off" /\ step'[Sub] = "off" /\ step'[Main] = "closing"
    BY <1>0, <2>1 DEF WaitInv, SubRuns
  <2>3. CASE streams
    <3>1. Left({Main})
      BY <2>1, <2>3
    <3>2. Spinners'
      BY <1>0, <2>2, <3>1, LeftIs DEF WaitInv, Spinners, TypeInv, Sessions
    <3>3. SubRuns' /\ Unstreamed'
      BY <2>1, <2>2, <2>3 DEF SubRuns, Unstreamed
    <3> QED
      BY <1>0, <3>2, <3>3 DEF WaitInv
  <2>4. CASE ~streams
    <3>1. UNCHANGED timeline /\ reply' # <<>>
      BY <2>1, <2>4
    <3>2. Spinners'
      BY <1>0, <2>1, <2>2, <2>4, <3>1 DEF WaitInv, Spinners, Sessions
    <3>3. SubRuns' /\ Unstreamed'
      BY <2>1, <2>2, <3>1 DEF WaitInv, SubRuns, Unstreamed
    <3> QED
      BY <1>0, <3>2, <3>3 DEF WaitInv
  <2> QED
    BY <2>3, <2>4
<1>15. CASE Break
  <2>1. /\ step[Main] \in {"model", "failed", "tool"} /\ step' = [step EXCEPT ![Main] = "closing", ![Sub] = "off"]
        /\ Left(Sessions) /\ UNCHANGED <<streams, start, reply>>
    BY <1>15 DEF Break, turnVars
  <2>2. step'[Sub] = "off" /\ step'[Main] = "closing"
    BY <1>0, <2>1
  <2>3. Spinners'
    BY <1>0, <2>1, LeftIs DEF WaitInv, Spinners, TypeInv
  <2>4. SubRuns' /\ Unstreamed'
    BY <1>0, <2>1, <2>2, LeftIs DEF WaitInv, SubRuns, Unstreamed, TypeInv
  <2> QED
    BY <1>0, <2>3, <2>4 DEF WaitInv
<1>16. CASE Finish
  BY <1>0, <1>16, FinishWaits
<1>17. CASE Lands \/ Edited
  <2>1. UNCHANGED <<timeline, streams, start, reply, step>>
    BY <1>17 DEF Lands, Edited, turnVars
  <2>2. Spinners' /\ SubRuns' /\ Unstreamed'
    BY <2>1 DEF WaitInv, Spinners, SubRuns, Unstreamed
  <2> QED
    BY <1>0, <2>2 DEF WaitInv
<1>18. CASE UNCHANGED vars
  BY <1>0, <1>18 DEF vars, turnVars, WaitInv, Spinners, SubRuns, Unstreamed
<1> QED
  BY <1>1, <1>2, <1>3, <1>4, <1>5, <1>6, <1>7, <1>8, <1>9, <1>10, <1>11, <1>12, <1>13, <1>14, <1>15, <1>16,
     <1>17, <1>18 DEF Next

(* Type correctness, and that only the newest waiting row of a session     *)
(* shows a call as running, for any number of events and turns.            *)
THEOREM WaitInvHolds ==
    ASSUME TimelineAssumption
    PROVE  Spec => []WaitInv
<1>1. Init => WaitInv
  <2> SUFFICES ASSUME Init PROVE WaitInv
    OBVIOUS
  <2>1. TypeInv
    BY InitType
  <2>2. timeline = <<>> /\ \A s \in Sessions : step[s] = "off"
    BY DEF Init
  <2>3. Spinners /\ SubRuns /\ Unstreamed
    BY <2>2 DEF Spinners, SubRuns, Unstreamed, Newest, Still, Sessions
  <2> QED
    BY <2>1, <2>3 DEF WaitInv
<1>2. WaitInv /\ [Next]_vars => WaitInv'
  BY WaitKeeps
<1> QED
  BY <1>1, <1>2, PTL DEF Spec

(* complete_llm_waiting_items: a session shows at most one call as         *)
(* running, and only while it runs or its turn is being closed.            *)
THEOREM WaitRowsClosedHolds ==
    ASSUME TimelineAssumption
    PROVE  Spec => []WaitRowsClosed
<1>1. WaitInv => WaitRowsClosed
  <2> SUFFICES ASSUME WaitInv, NEW s \in Sessions
               PROVE  /\ Cardinality(Spinning(s)) <= 1
                      /\ Spinning(s) # {} => step[s] \in {"model", "failed", "closing"}
    BY DEF WaitRowsClosed
  <2>1. Spinning(s) = {i \in DOMAIN timeline : Spins(timeline[i], s)}
    BY DEF Spinning, Spins
  <2>2. Newest(timeline, s) /\ (step[s] \notin {"model", "failed", "closing"} => Still(timeline, s))
        /\ timeline \in Seq(Row)
    BY DEF WaitInv, Spinners, TypeInv
  <2>3. Spinning(s) # {} => step[s] \in {"model", "failed", "closing"}
    BY <2>1, <2>2 DEF Still
  <2>4. ASSUME NEW i \in Spinning(s), NEW j \in Spinning(s) PROVE i = j
    <3>1. i \in DOMAIN timeline /\ j \in DOMAIN timeline /\ Spins(timeline[i], s) /\ Spins(timeline[j], s)
          /\ i \in Nat /\ j \in Nat
      BY <2>1, <2>2, RowAt
    <3>2. Waits(timeline[i], s) /\ Waits(timeline[j], s)
      BY <3>1 DEF Spins, Waits, Open
    <3>3. ~(i < j) /\ ~(j < i)
      BY <2>2, <3>1, <3>2 DEF Newest
    <3> QED
      BY <3>1, <3>3
  <2>5. Cardinality(Spinning(s)) <= 1
    <3>1. CASE Spinning(s) = {}
      BY <3>1, FS_EmptySet
    <3>2. CASE Spinning(s) # {}
      <4>1. PICK i \in Spinning(s) : Spinning(s) = {i}
        BY <2>4, <3>2
      <4> QED
        BY <4>1, FS_Singleton
    <3> QED
      BY <3>1, <3>2
  <2> QED
    BY <2>3, <2>5
<1> QED
  BY <1>1, WaitInvHolds, PTL
-----------------------------------------------------------------------------
(* What the rows after the request of a turn tell: a change, a tool that   *)
(* writes, text of the main session, the summary.                          *)
ShowsLines(r) == r.kind = "tool_result" /\ r.status = "diff"
ShowsNone(r) == r.kind = "tool_result" /\ r.status = "blank"
Touches(r) == r.kind \in {"tool_start", "tool_end"} /\ r.status = "write"
Speaks(r) == r.kind = "text" /\ r.by = Main
Marked(r, mark) ==
    \/ mark = "diff" /\ ShowsLines(r)
    \/ mark = "blank" /\ ShowsNone(r)
    \/ mark = "touch" /\ Touches(r)
    \/ mark = "text" /\ Speaks(r)
    \/ mark = "summary" /\ r.kind = "summary"

Has(rows, n, mark) == \E i \in DOMAIN rows : i > n /\ Marked(rows[i], mark)

\* Row n is the last request, and no transient row is before it.
Begun(rows, n) ==
    /\ n \in DOMAIN rows /\ rows[n].kind = "user"
    /\ \A i \in DOMAIN rows : i <= n => ~Transient(rows[i])
    /\ \A i \in DOMAIN rows : i > n => rows[i].kind # "user"

LEMMA LikeMarked ==
    ASSUME NEW r, NEW o, Like(r, o), NEW mark
    PROVE  Marked(r, mark) <=> Marked(o, mark)
BY DEF Like, Marked, ShowsLines, ShowsNone, Touches, Speaks

LEMMA BegunComes ==
    ASSUME NEW new \in Seq(Row), NEW old \in Seq(Row), NEW f, Comes(f, new, old), Keeps(f, new, old),
           NEW n, Begun(old, n)
    PROVE  Begun(new, n) /\ \A mark : Has(new, n, mark) <=> Has(old, n, mark)
<1>1. PICK a \in Nat, b \in Nat : a = Len(old) /\ b = Len(new)
  BY LenProperties
<1>2. DOMAIN old = 1..a /\ DOMAIN new = 1..b /\ n \in 1..a
  BY <1>1, RowAt DEF Begun
<1>3. /\ \A i \in 1..b : f[i] \in 1..a /\ i <= f[i] /\ Like(new[i], old[f[i]])
      /\ \A i, j \in 1..b : i < j => f[i] < f[j]
  BY <1>2 DEF Comes
<1>4. \A k \in 1..a : ~Transient(old[k]) => \E i \in 1..b : f[i] = k
  BY <1>2 DEF Keeps
<1>5. \A k \in 1..n : k \in 1..b /\ f[k] = k
  <2>1. ASSUME NEW k \in 1..n PROVE k \in 1..b /\ f[k] = k
    <3>1. k \in 1..a /\ \A l \in 1..k : l \in 1..a /\ l <= n
      BY <1>2
    <3>2. \A l \in 1..k : ~Transient(old[l])
      BY <1>2, <3>1 DEF Begun
    <3> QED
      BY <1>2, <3>1, <3>2 DEF Keeps
  <2> QED
    BY <2>1
<1>6. n \in 1..b /\ f[n] = n /\ n \in Nat /\ n \in 1..n
  <2>1. n \in 1..n
    BY <1>2
  <2> QED
    BY <1>2, <1>5, <2>1
<1>7. ASSUME NEW i \in 1..b, i > n PROVE f[i] > n /\ f[i] \in 1..a
  BY <1>3, <1>6, <1>7
<1>8. ASSUME NEW i \in 1..b, f[i] > n PROVE i > n
  <2>1. ~(i <= n)
    <3> SUFFICES ASSUME i <= n PROVE FALSE
      OBVIOUS
    <3>1. i \in 1..n
      BY <1>6
    <3>2. f[i] = i
      BY <1>5, <3>1
    <3> QED
      BY <1>6, <1>8, <3>2
  <2> QED
    BY <1>6, <2>1
<1>9. Begun(new, n)
  <2>1. new[n].kind = "user"
    BY <1>3, <1>6 DEF Begun, Like
  <2>2. ASSUME NEW i \in 1..b, i <= n PROVE ~Transient(new[i])
    <3>1. i \in 1..n
      BY <1>6, <2>2
    <3>2. f[i] = i
      BY <1>5, <3>1
    <3>3. new[i].kind = old[i].kind /\ i \in 1..a
      BY <1>3, <3>2 DEF Like
    <3> QED
      BY <1>2, <2>2, <3>3 DEF Begun, Transient
  <2>3. ASSUME NEW i \in 1..b, i > n PROVE new[i].kind # "user"
    <3>1. f[i] > n /\ f[i] \in 1..a /\ new[i].kind = old[f[i]].kind
      BY <1>3, <1>7, <2>3 DEF Like
    <3> QED
      BY <1>2, <3>1 DEF Begun
  <2> QED
    BY <1>2, <1>6, <2>1, <2>2, <2>3 DEF Begun
<1>10. ASSUME NEW mark, Has(new, n, mark) PROVE Has(old, n, mark)
  <2>1. PICK i \in 1..b : i > n /\ Marked(new[i], mark)
    BY <1>2, <1>10 DEF Has
  <2>2. f[i] \in 1..a /\ f[i] > n /\ Marked(old[f[i]], mark)
    BY <1>3, <1>7, <2>1, LikeMarked
  <2> QED
    BY <1>2, <2>2 DEF Has
<1>11. ASSUME NEW mark, Has(old, n, mark) PROVE Has(new, n, mark)
  <2>1. PICK k \in 1..a : k > n /\ Marked(old[k], mark)
    BY <1>2, <1>11 DEF Has
  <2>2. ~Transient(old[k])
    BY <2>1 DEF Transient, Marked, ShowsLines, ShowsNone, Touches, Speaks
  <2>3. PICK i \in 1..b : f[i] = k
    BY <1>4, <2>2
  <2>4. i > n /\ Marked(new[i], mark)
    BY <1>3, <1>8, <2>1, <2>3, LikeMarked
  <2> QED
    BY <1>2, <2>4 DEF Has
<1> QED
  BY <1>9, <1>10, <1>11

LEMMA BegunInPlace ==
    ASSUME NEW new \in Seq(Row), NEW old \in Seq(Row), DOMAIN new = DOMAIN old,
           \A i \in DOMAIN old : Like(new[i], old[i]), NEW n, Begun(old, n)
    PROVE  Begun(new, n) /\ \A mark : Has(new, n, mark) <=> Has(old, n, mark)
<1>1. PICK f : f = [i \in DOMAIN old |-> i]
  OBVIOUS
<1>2. Comes(f, new, old) /\ Keeps(f, new, old)
  BY <1>1, ComesInPlace
<1> QED
  BY <1>2, BegunComes

LEMMA BegunAppend ==
    ASSUME NEW rows \in Seq(Row), NEW r \in Row, r.kind # "user", NEW n, Begun(rows, n)
    PROVE  /\ Begun(Append(rows, r), n)
           /\ \A mark : Has(Append(rows, r), n, mark) <=> Has(rows, n, mark) \/ Marked(r, mark)
<1>1. PICK m \in Nat, new \in Seq(Row) : m = Len(rows) /\ new = Append(rows, r)
  BY AppendProperties, LenProperties
<1>2. /\ DOMAIN rows = 1..m /\ DOMAIN new = 1..(m + 1) /\ new[m + 1] = r
      /\ \A i \in 1..m : new[i] = rows[i]
  BY <1>1, AppendProperties, RowAt
<1>3. n \in 1..m /\ m + 1 > n /\ ~(m + 1 <= n) /\ n \in 1..(m + 1)
  BY <1>2 DEF Begun
<1>4. \A i \in 1..(m + 1) : i = m + 1 \/ i \in 1..m
  OBVIOUS
<1>5. Begun(new, n)
  BY <1>2, <1>3, <1>4 DEF Begun
<1>6. ASSUME NEW mark PROVE Has(new, n, mark) <=> Has(rows, n, mark) \/ Marked(r, mark)
  <2>1. ASSUME Has(new, n, mark) PROVE Has(rows, n, mark) \/ Marked(r, mark)
    BY <1>2, <1>4, <2>1 DEF Has
  <2>2. ASSUME Has(rows, n, mark) PROVE Has(new, n, mark)
    <3>1. \A i \in 1..m : i \in 1..(m + 1)
      OBVIOUS
    <3> QED
      BY <1>2, <2>2, <3>1 DEF Has
  <2>3. ASSUME Marked(r, mark) PROVE Has(new, n, mark)
    <3>1. m + 1 \in 1..(m + 1)
      OBVIOUS
    <3> QED
      BY <1>2, <1>3, <2>3, <3>1 DEF Has
  <2> QED
    BY <2>1, <2>2, <2>3
<1> QED
  BY <1>1, <1>5, <1>6

LEMMA AppliedBegun ==
    ASSUME NEW rows \in Seq(Row), NEW e \in Row, e.kind # "user", NEW n, Begun(rows, n)
    PROVE  /\ Begun(Applied(rows, e), n)
           /\ \A mark : Has(Applied(rows, e), n, mark) <=> Has(rows, n, mark) \/ Marked(e, mark)
<1>0. e.text \in Seq(Nat)
  BY DEF Row
<1>1. CASE Sets(rows, e)
  <2>1. \A mark : ~Marked(e, mark)
    BY <1>1 DEF Sets, Marked, ShowsLines, ShowsNone, Touches, Speaks
  <2> QED
    BY <1>1, <2>1, SetsIs, BegunInPlace
<1>2. CASE ~Sets(rows, e)
  <2>1. PICK base \in Seq(Row) : \E f : Based(f, base, rows, e) /\ Grows(base, Applied(rows, e), e)
    BY <1>2, AppliedElse
  <2>2. PICK f : Based(f, base, rows, e)
    BY <2>1
  <2>3. Begun(base, n) /\ \A mark : Has(base, n, mark) <=> Has(rows, n, mark)
    BY <2>2, BegunComes DEF Based
  <2>4. PICK th \in Row : th = Thought(e) /\ th.kind = "thinking_end"
    BY ThoughtType
  <2>5. \A mark : ~Marked(th, mark)
    BY <2>4 DEF Marked, ShowsLines, ShowsNone, Touches, Speaks
  <2>6. PICK more \in Seq(Row) : more = Append(base, th)
    BY AppendProperties
  <2>7. Begun(more, n) /\ \A mark : Has(more, n, mark) <=> Has(base, n, mark)
    BY <2>3, <2>4, <2>5, <2>6, BegunAppend
  <2>8. CASE Applied(rows, e) = Append(base, e)
    BY <2>3, <2>8, BegunAppend
  <2>9. CASE Applied(rows, e) = Append(Append(base, Thought(e)), e)
    <3>1. Applied(rows, e) = Append(more, e)
      BY <2>4, <2>6, <2>9
    <3>2. /\ Begun(Append(more, e), n)
          /\ \A mark : Has(Append(more, e), n, mark) <=> Has(more, n, mark) \/ Marked(e, mark)
      BY <2>7, BegunAppend
    <3> QED
      BY <2>3, <2>7, <3>1, <3>2
  <2>10. CASE /\ base # <<>> /\ Applied(rows, e) = Merged(base, e.text)
              /\ \/ e.kind = "text" /\ base[Len(base)].kind = "text" /\ base[Len(base)].by = e.by
                 \/ e.kind = "thinking_delta" /\ base[Len(base)].kind # "text"
    <3>1. PICK new \in Seq(Row) : new = Applied(rows, e)
      BY <1>0, <2>10, MergedIs
    <3>2. DOMAIN new = DOMAIN base /\ \A i \in DOMAIN base : Like(new[i], base[i])
      BY <1>0, <2>10, <3>1, MergedIs
    <3>3. Begun(new, n) /\ \A mark : Has(new, n, mark) <=> Has(base, n, mark)
      BY <2>3, <3>2, BegunInPlace
    <3>4. ASSUME NEW mark, Marked(e, mark) PROVE Has(base, n, mark)
      <4>1. mark = "text" /\ e.kind = "text" /\ e.by = Main
        BY <2>10, <3>4 DEF Marked, ShowsLines, ShowsNone, Touches, Speaks
      <4>2. base[Len(base)].kind = "text" /\ base[Len(base)].by = Main
        BY <2>10, <4>1
      <4>3. Marked(base[Len(base)], mark)
        BY <4>1, <4>2 DEF Marked, Speaks
      <4>4. PICK b \in Nat : b = Len(base)
        BY LenProperties
      <4>5. DOMAIN base = 1..b /\ n \in 1..b /\ n # b
        BY <2>3, <4>2, <4>4, RowAt DEF Begun
      <4>6. b \in 1..b /\ b > n
        BY <4>5
      <4> QED
        BY <4>3, <4>4, <4>5, <4>6 DEF Has
    <3> QED
      BY <2>3, <3>1, <3>3, <3>4
  <2> QED
    BY <2>1, <2>8, <2>9, <2>10 DEF Grows
<1> QED
  BY <1>1, <1>2
-----------------------------------------------------------------------------
(* The rows of the turn that runs: its request, the rows of its changes    *)
(* and of its tools that write, and no summary yet.                        *)
TurnRows(rows) ==
    /\ Begun(rows, start) /\ ~Has(rows, start, "summary")
    /\ Has(rows, start, "diff") <=> told
    /\ Has(rows, start, "blank") <=> blank
    /\ Has(rows, start, "touch") <=> tried

\* Whether a summary is due.
Summing == IF told \/ blank THEN told ELSE tried /\ (older \/ mine)

\* Between two turns: the last request, and whether a summary follows it.
Summed(rows) ==
    \E n \in DOMAIN rows :
        /\ rows[n].kind = "user" /\ \A i \in DOMAIN rows : i > n => rows[i].kind # "user"
        /\ Has(rows, n, "summary") <=> Summing

\* What is known of the changes of the turn.
Writing ==
    /\ \A s \in Sessions : step[s] = "tool" /\ tool[s] = "write" => tried
    /\ (adrift \/ wrote => tried) /\ (told \/ mine => wrote)

SummaryInv ==
    /\ step[Main] # "off" /\ ~cutTurn => TurnRows(timeline)
    /\ step[Main] = "off" => \A i \in DOMAIN timeline : ~Transient(timeline[i])
    /\ step[Main] = "off" /\ turn > 0 /\ ~cutTurn => Summed(timeline)
    /\ Writing

\* An event of a session that is not dropped leaves the rows as Applied does.
LEMMA ShownWhole ==
    ASSUME TimelineAssumption, timeline \in Seq(Row), cut \in BOOLEAN, cutTurn \in BOOLEAN, NEW e \in Row, Show(e)
    PROVE  /\ ~cutTurn' => ~cutTurn /\ timeline' = Applied(timeline, e)
           /\ ~cut' => ~cut /\ timeline' = Applied(timeline, e)
           /\ (cutTurn => cut) => (cutTurn' => cut')
<1>1. PICK rows \in Seq(Row) : rows = Applied(timeline, e)
  BY AppliedType
<1>2. PICK n \in Nat : n = Len(rows)
  BY LenProperties
<1>3. /\ timeline' = Recent(rows)
      /\ cut' = (cut \/ n > MaxItems) /\ cutTurn' = (cutTurn \/ n > MaxItems)
  BY <1>1, <1>2 DEF Show
<1>4. n <= MaxItems => Recent(rows) = rows
  BY <1>2, RecentIs
<1>5. ~(n > MaxItems) => n <= MaxItems
  BY DEF TimelineAssumption
<1> QED
  BY <1>1, <1>3, <1>4, <1>5

\* An event of the turn that runs.
LEMMA SummaryEvent ==
    ASSUME TimelineAssumption, TypeInv, SummaryInv, step[Main] # "off", step'[Main] # "off",
           NEW e \in Row, Show(e), e.kind \notin {"user", "summary"},
           start' = start, told' = (told \/ ShowsLines(e)), blank' = (blank \/ ShowsNone(e)),
           tried' = (tried \/ Touches(e)), Writing'
    PROVE  SummaryInv'
<1>1. ASSUME ~cutTurn' PROVE TurnRows(timeline)'
  <2>1. ~cutTurn /\ timeline' = Applied(timeline, e)
    BY <1>1, ShownWhole DEF TypeInv
  <2>2. TurnRows(timeline)
    BY <2>1 DEF SummaryInv
  <2>3. /\ Begun(timeline', start)
        /\ \A mark : Has(timeline', start, mark) <=> Has(timeline, start, mark) \/ Marked(e, mark)
    BY <2>1, <2>2, AppliedBegun DEF TypeInv, TurnRows
  <2>4. ~Has(timeline', start, "summary")
    BY <2>2, <2>3 DEF TurnRows, Marked
  <2>5. (Has(timeline', start, "diff") <=> told') /\ (Has(timeline', start, "blank") <=> blank')
    BY <2>2, <2>3 DEF TurnRows, Marked
  <2>6. Has(timeline', start, "touch") <=> tried'
    BY <2>2, <2>3 DEF TurnRows, Marked
  <2> QED
    BY <2>3, <2>4, <2>5, <2>6 DEF TurnRows
<1> QED
  BY <1>1 DEF SummaryInv

\* A step that shows nothing and changes rows in place.
LEMMA SummaryInPlace ==
    ASSUME TypeInv, SummaryInv, step[Main] # "off", step'[Main] # "off",
           timeline' \in Seq(Row), DOMAIN timeline' = DOMAIN timeline,
           \A i \in DOMAIN timeline : Like(timeline'[i], timeline[i]),
           UNCHANGED <<start, told, blank, tried, cutTurn>>, Writing'
    PROVE  SummaryInv'
<1>1. ASSUME ~cutTurn' PROVE TurnRows(timeline)'
  <2>1. TurnRows(timeline)
    BY <1>1 DEF SummaryInv
  <2>2. Begun(timeline', start) /\ \A mark : Has(timeline', start, mark) <=> Has(timeline, start, mark)
    BY <2>1, BegunInPlace DEF TypeInv, TurnRows
  <2> QED
    BY <2>1, <2>2 DEF TurnRows
<1> QED
  BY <1>1 DEF SummaryInv

\* Fewer tools run, and nothing else of the changes is touched.
LEMMA WritingStays ==
    ASSUME Writing, UNCHANGED <<fileVars, tried, tool>>,
           \A s \in Sessions : step'[s] = "tool" => step[s] = "tool"
    PROVE  Writing'
BY DEF Writing, fileVars

LEMMA SubmitSums ==
    ASSUME TimelineAssumption, WaitInv, SummaryInv, Submit
    PROVE  SummaryInv'
<1>1. timeline \in Seq(Row) /\ step[Main] = "off" /\ step[Sub] = "off" /\ step \in [Sessions -> Steps]
  BY DEF WaitInv, TypeInv, SubRuns, Submit
<1>2. PICK new \in Seq(Row), n \in Nat : new = timeline' /\ n = start'
  BY <1>1, SubmitIs
<1>3. /\ n > 0 /\ DOMAIN new = 1..(n + 1) /\ new[n].kind = "user" /\ new[n + 1].kind = "agent_thinking"
      /\ \A i \in DOMAIN new : i <= n => ~Transient(new[i])
  <2>1. \A i \in DOMAIN timeline : ~Transient(timeline[i])
    BY <1>1 DEF SummaryInv
  <2>2. Len(new) = n + 1
    BY <1>1, <1>2, SubmitIs
  <2>3. DOMAIN new = 1..(n + 1)
    BY <2>2, RowAt
  <2> QED
    BY <1>1, <1>2, <2>1, <2>3, SubmitIs
<1>4. n \in 1..(n + 1) /\ \A i \in 1..(n + 1) : i > n => i = n + 1
  BY <1>3
<1>5. Begun(new, n)
  BY <1>3, <1>4 DEF Begun
<1>6. ASSUME NEW mark PROVE ~Has(new, n, mark)
  BY <1>3, <1>4 DEF Has, Marked, ShowsLines, ShowsNone, Touches, Speaks
<1>7. /\ wrote' = FALSE /\ told' = FALSE /\ blank' = FALSE /\ mine' = FALSE /\ adrift' = FALSE
      /\ tried' = FALSE /\ step' = [step EXCEPT ![Main] = "model"]
  BY DEF Submit
<1>8. step'[Main] # "off" /\ \A s \in Sessions : step'[s] # "tool"
  BY <1>1, <1>7 DEF Sessions
<1>9. TurnRows(timeline)'
  BY <1>2, <1>5, <1>6, <1>7 DEF TurnRows
<1>10. Writing'
  BY <1>7, <1>8 DEF Writing
<1> QED
  BY <1>8, <1>9, <1>10 DEF SummaryInv

\* Since: what _emit_changed_files_summary finds in the rows of the turn.
LEMMA ChangedIs ==
    ASSUME NEW rows \in Seq(Row), TurnRows(rows)
    PROVE  Changed(rows) <=> Summing
<1>1. start \in DOMAIN rows /\ rows[start].kind = "user"
  BY DEF TurnRows, Begun
<1>2. \A i \in DOMAIN rows : i >= start => i = start \/ i > start
  <2>1. PICK n \in Nat : DOMAIN rows = 1..n
    BY RowAt
  <2> QED
    BY <1>1, <2>1
<1>3. ASSUME NEW mark PROVE (\E r \in Since(rows) : Marked(r, mark)) <=> Has(rows, start, mark)
  <2>1. (\E r \in Since(rows) : Marked(r, mark)) <=> \E i \in DOMAIN rows : i >= start /\ Marked(rows[i], mark)
    BY DEF Since
  <2>2. ASSUME NEW i \in DOMAIN rows PROVE i > start => i >= start
    <3>1. PICK n \in Nat : DOMAIN rows = 1..n
      BY RowAt
    <3> QED
      BY <1>1, <3>1
  <2>3. (\E i \in DOMAIN rows : i >= start /\ Marked(rows[i], mark)) => Has(rows, start, mark)
    BY <1>1, <1>2 DEF Has, Marked, ShowsLines, ShowsNone, Touches, Speaks
  <2>4. Has(rows, start, mark) => \E i \in DOMAIN rows : i >= start /\ Marked(rows[i], mark)
    BY <2>2 DEF Has
  <2> QED
    BY <2>1, <2>3, <2>4
<1>4. /\ (\E r \in Since(rows) : ShowsLines(r)) <=> told
      /\ (\E r \in Since(rows) : ShowsNone(r)) <=> blank
      /\ (\E r \in Since(rows) : Touches(r)) <=> tried
  <2>1. \A r : /\ Marked(r, "diff") <=> ShowsLines(r)
               /\ Marked(r, "blank") <=> ShowsNone(r)
               /\ Marked(r, "touch") <=> Touches(r)
    BY DEF Marked
  <2>2. /\ (\E r \in Since(rows) : Marked(r, "diff")) <=> told
        /\ (\E r \in Since(rows) : Marked(r, "blank")) <=> blank
        /\ (\E r \in Since(rows) : Marked(r, "touch")) <=> tried
    BY <1>3 DEF TurnRows
  <2> QED
    BY <2>1, <2>2
<1>5. HaveLines(Diffs(rows)) <=> told
  BY <1>4 DEF HaveLines, Diffs, ShowsLines
<1>6. (Diffs(rows) # {}) <=> told \/ blank
  BY <1>4 DEF Diffs, ShowsLines, ShowsNone
<1>7. NamesFiles(rows) <=> tried
  BY <1>4 DEF NamesFiles, Touches
<1> QED
  BY <1>5, <1>6, <1>7 DEF Changed, Summing, GitDiff

LEMMA FinishSums ==
    ASSUME TimelineAssumption, WaitInv, SummaryInv, Finish
    PROVE  SummaryInv'
<1>1. TypeInv /\ step[Main] = "closing" /\ step' = [step EXCEPT ![Main] = "off"]
  BY DEF WaitInv, Finish
<1>2. PICK replied \in Seq(Row), second \in Seq(Row), summed \in Seq(Row), third \in Seq(Row) :
        /\ replied = WithReply(timeline) /\ second = Recent(replied)
        /\ summed = WithSummary(second) /\ third = Recent(summed)
        /\ timeline' = Lasting(third) /\ timeline' \in Seq(Row)
  BY <1>1, FinishRows
<1>3. step'[Main] = "off" /\ \A s \in Sessions : step'[s] = "tool" => step[s] = "tool"
  BY <1>1 DEF TypeInv, Sessions
<1>4. UNCHANGED <<start, fileVars, tool, tried, turn>>
  BY DEF Finish, turnVars
<1>5. \A i \in DOMAIN timeline' : ~Transient(timeline'[i])
  BY <1>2, LastingComes
<1>6. ASSUME ~cutTurn' PROVE Summed(timeline)'
  <2>1. cutTurn' = (cutTurn \/ Len(replied) > MaxItems \/ Len(summed) > MaxItems)
    BY <1>2 DEF Finish
  <2>2. ~cutTurn /\ second = replied /\ third = summed
    <3>1. PICK m \in Nat, n \in Nat : m = Len(replied) /\ n = Len(summed)
      BY LenProperties
    <3>2. ~cutTurn /\ ~(m > MaxItems) /\ ~(n > MaxItems)
      BY <1>6, <2>1, <3>1
    <3>3. m <= MaxItems /\ n <= MaxItems
      BY <3>2 DEF TimelineAssumption
    <3> QED
      BY <1>2, <3>1, <3>2, <3>3, RecentIs
  <2>3. TurnRows(timeline)
    BY <1>1, <2>2 DEF SummaryInv
  <2>4. TurnRows(replied)
    <3>1. CASE replied = timeline
      BY <2>3, <3>1
    <3>2. ASSUME NEW e \in Row, e.kind = "text", replied = Applied(timeline, e) PROVE TurnRows(replied)
      <4>1. /\ Begun(replied, start)
            /\ \A mark : Has(replied, start, mark) <=> Has(timeline, start, mark) \/ Marked(e, mark)
        BY <1>1, <2>3, <3>2, AppliedBegun DEF TypeInv, TurnRows
      <4>2. ~Marked(e, "diff") /\ ~Marked(e, "blank") /\ ~Marked(e, "touch") /\ ~Marked(e, "summary")
        BY <3>2 DEF Marked, ShowsLines, ShowsNone, Touches, Speaks
      <4> QED
        BY <2>3, <4>1, <4>2 DEF TurnRows
    <3> QED
      BY <1>1, <1>2, <3>1, <3>2, WithReplyIs
  <2>5. Changed(replied) <=> Summing
    BY <2>4, ChangedIs
  <2>6. Begun(summed, start) /\ (Has(summed, start, "summary") <=> Changed(replied))
    <3>1. PICK e \in Row : e.kind = "summary" /\ summed = IF Changed(second) THEN Applied(second, e) ELSE second
      BY <1>2, WithSummaryIs
    <3>2. CASE Changed(replied)
      <4>1. summed = Applied(replied, e) /\ e.kind # "user" /\ Begun(replied, start)
        BY <2>2, <2>4, <3>1, <3>2 DEF TurnRows
      <4>2. /\ Begun(summed, start)
            /\ \A mark : Has(summed, start, mark) <=> Has(replied, start, mark) \/ Marked(e, mark)
        BY <4>1, AppliedBegun
      <4>3. Marked(e, "summary")
        BY <3>1 DEF Marked
      <4> QED
        BY <3>2, <4>2, <4>3
    <3>3. CASE ~Changed(replied)
      BY <2>2, <2>4, <3>1, <3>3 DEF TurnRows
    <3> QED
      BY <3>2, <3>3
  <2>7. PICK f : Comes(f, timeline', summed) /\ Keeps(f, timeline', summed)
    BY <1>2, <2>2, LastingComes
  <2>8. Begun(timeline', start) /\ (Has(timeline', start, "summary") <=> Has(summed, start, "summary"))
    BY <1>2, <2>6, <2>7, BegunComes
  <2>9. start \in DOMAIN timeline' /\ timeline'[start].kind = "user"
        /\ \A i \in DOMAIN timeline' : i > start => timeline'[i].kind # "user"
    BY <2>8 DEF Begun
  <2> QED
    BY <1>4, <2>5, <2>6, <2>8, <2>9 DEF Summed, Summing, fileVars
<1>7. Writing'
  BY <1>3, <1>4, WritingStays DEF SummaryInv
<1> QED
  BY <1>3, <1>5, <1>6, <1>7 DEF SummaryInv

\* An event that tells of no change and of no tool that writes.
Silent(e) == ~ShowsLines(e) /\ ~ShowsNone(e) /\ ~Touches(e)

LEMMA NotesAreSilent ==
    ASSUME NEW e, e.kind \notin {"tool_start", "tool_result", "tool_end"}
    PROVE  Silent(e)
BY DEF Silent, ShowsLines, ShowsNone, Touches

\* An event that tells of no tool, and after which no other tool runs.
LEMMA SummaryNote ==
    ASSUME TimelineAssumption, WaitInv, SummaryInv, step[Main] # "off", NEW s \in Sessions,
           NEW e, NEW kind, NEW status, NEW words, Sends(e, s, kind, status, words),
           Silent(e), kind \notin {"user", "summary"},
           UNCHANGED <<start, tool, fileVars, tried>>,
           NEW st \in {"model", "failed"}, step' = [step EXCEPT ![s] = st] \/ UNCHANGED step
    PROVE  SummaryInv'
<1>1. step'[Main] # "off" /\ \A i \in Sessions : step'[i] = "tool" => step[i] = "tool"
  BY DEF WaitInv, TypeInv, Sessions
<1>2. Writing'
  BY <1>1, WritingStays DEF SummaryInv
<1>3. e \in Row /\ Show(e) /\ e.kind \notin {"user", "summary"} /\ TypeInv
  BY DEF Sends, Emit, WaitInv
<1>4. told' = (told \/ ShowsLines(e)) /\ blank' = (blank \/ ShowsNone(e)) /\ tried' = (tried \/ Touches(e))
  BY DEF Silent, fileVars, WaitInv, TypeInv
<1> QED
  BY <1>1, <1>2, <1>3, <1>4, SummaryEvent

LEMMA SummaryKeeps ==
    ASSUME TimelineAssumption, WaitInv, SummaryInv, [Next]_vars
    PROVE  SummaryInv'
<1>1. TypeInv /\ step \in [Sessions -> Steps] /\ tool \in [Sessions -> {"write", "other"}] /\ timeline \in Seq(Row)
  BY DEF WaitInv, TypeInv
<1>2. \A s \in Sessions : step[s] # "off" => step[Main] # "off"
  BY DEF WaitInv, SubRuns, Sessions
<1>3. PICK model, failed, running : model = "model" /\ failed = "failed" /\ running = "tool"
  OBVIOUS
<1>4. ASSUME NEW s \in Sessions, Heartbeat(s) PROVE SummaryInv'
  <2>1. PICK e : Sends(e, s, "wait", "running", <<>>)
    BY <1>4, HeartbeatSends
  <2>2. step[Main] # "off" /\ UNCHANGED <<start, tool, fileVars, tried, step>>
    BY <1>2, <1>4 DEF Heartbeat, turnVars
  <2>3. PICK kind : kind = "wait"
    OBVIOUS
  <2>4. Silent(e) /\ kind \notin {"user", "summary"} /\ model \in {"model", "failed"}
    BY <1>3, <2>1, <2>3, NotesAreSilent DEF Sends
  <2> QED
    BY <2>1, <2>2, <2>3, <2>4, SummaryNote
<1>5. ASSUME NEW s \in Sessions, Piece(s) PROVE SummaryInv'
  <2>1. PICK e : Sends(e, s, "text", "none", <<said[s] + 1>>)
    BY <1>1, <1>5, PieceSends
  <2>2. step[Main] # "off" /\ UNCHANGED <<start, tool, fileVars, tried, step>>
    BY <1>2, <1>5 DEF Piece, turnVars
  <2>3. PICK kind : kind = "text"
    OBVIOUS
  <2>4. Silent(e) /\ kind \notin {"user", "summary"} /\ model \in {"model", "failed"}
    BY <1>3, <2>1, <2>3, NotesAreSilent DEF Sends
  <2> QED
    BY <2>1, <2>2, <2>3, <2>4, SummaryNote
<1>6. ASSUME NEW s \in Sessions, Thinking(s) PROVE SummaryInv'
  <2>1. PICK e : \E kind \in {"thinking_start", "thinking_delta", "thinking_end"} : Sends(e, s, kind, "none", <<>>)
    BY <1>6, ThinkingSends
  <2>2. PICK kind \in {"thinking_start", "thinking_delta", "thinking_end"} : Sends(e, s, kind, "none", <<>>)
    BY <2>1
  <2>3. step[Main] # "off" /\ UNCHANGED <<start, tool, fileVars, tried, step>>
    BY <1>2, <1>6 DEF Thinking, turnVars
  <2>4. Silent(e) /\ kind \notin {"user", "summary"} /\ model \in {"model", "failed"}
    BY <1>3, <2>2, NotesAreSilent DEF Sends
  <2> QED
    BY <2>2, <2>3, <2>4, SummaryNote
<1>7. ASSUME NEW s \in Sessions, AttemptFails(s) PROVE SummaryInv'
  <2>1. PICK e : \E status \in {"timeout", "failed"} : Sends(e, s, "llm_note", status, <<>>)
    BY <1>7, AttemptFailsSends
  <2>2. PICK kind, status : kind = "llm_note" /\ Sends(e, s, kind, status, <<>>)
    BY <2>1
  <2>3. step[Main] # "off" /\ UNCHANGED <<start, tool, fileVars, tried>> /\ step' = [step EXCEPT ![s] = failed]
    BY <1>2, <1>3, <1>7 DEF AttemptFails, turnVars
  <2>4. Silent(e) /\ kind \notin {"user", "summary"} /\ failed \in {"model", "failed"}
    BY <1>3, <2>2, NotesAreSilent DEF Sends
  <2> QED
    BY <2>2, <2>3, <2>4, SummaryNote
<1>8. ASSUME NEW s \in Sessions, Retry(s) PROVE SummaryInv'
  <2>1. PICK e : Sends(e, s, "llm_note", "retrying", <<>>)
    BY <1>8, RetrySends
  <2>2. step[Main] # "off" /\ UNCHANGED <<start, tool, fileVars, tried>> /\ step' = [step EXCEPT ![s] = model]
    BY <1>2, <1>3, <1>8 DEF Retry, turnVars
  <2>3. PICK kind : kind = "llm_note"
    OBVIOUS
  <2>4. Silent(e) /\ kind \notin {"user", "summary"} /\ model \in {"model", "failed"}
    BY <1>3, <2>1, <2>3, NotesAreSilent DEF Sends
  <2> QED
    BY <2>1, <2>2, <2>3, <2>4, SummaryNote
<1>9. ASSUME NEW s \in Sessions, ToolStart(s) PROVE SummaryInv'
  <2>1. PICK e : \E kind \in {"write", "other"} :
              /\ Sends(e, s, "tool_start", kind, <<>>)
              /\ tool' = [tool EXCEPT ![s] = kind] /\ tried' = (tried \/ kind = "write")
    BY <1>9, ToolStartSends
  <2>2. PICK kind \in {"write", "other"} :
              /\ Sends(e, s, "tool_start", kind, <<>>)
              /\ tool' = [tool EXCEPT ![s] = kind] /\ tried' = (tried \/ kind = "write")
    BY <2>1
  <2>3. step[Main] # "off" /\ UNCHANGED <<start, fileVars>> /\ step' = [step EXCEPT ![s] = "tool"]
    BY <1>2, <1>9 DEF ToolStart, turnVars
  <2>4. e \in Row /\ Show(e) /\ e.kind = "tool_start" /\ e.status = kind
    BY <2>2 DEF Sends, Emit
  <2>5. ~ShowsLines(e) /\ ~ShowsNone(e) /\ (Touches(e) <=> kind = "write")
    BY <2>4 DEF ShowsLines, ShowsNone, Touches
  <2>6. step'[Main] # "off" /\ \A i \in Sessions : i # s => step'[i] = step[i] /\ tool'[i] = tool[i]
    BY <1>1, <2>2, <2>3 DEF Sessions
  <2>7. tool'[s] = kind
    BY <1>1, <2>2
  <2>8. Writing'
    BY <2>2, <2>3, <2>6, <2>7 DEF SummaryInv, Writing, fileVars
  <2>9. told' = (told \/ ShowsLines(e)) /\ blank' = (blank \/ ShowsNone(e)) /\ tried' = (tried \/ Touches(e))
    BY <1>1, <2>2, <2>3, <2>5 DEF TypeInv, fileVars
  <2> QED
    BY <1>1, <2>3, <2>4, <2>6, <2>8, <2>9, SummaryEvent
<1>10. ASSUME NEW s \in Sessions, ToolResult(s) PROVE SummaryInv'
  <2>1. PICK e : \E shows \in {"diff", "blank", "plain"} :
          /\ Sends(e, s, "tool_result", shows, <<>>)
          /\ shows # "plain" => tool[s] = "write" /\ Changes
          /\ shows = "plain" => UNCHANGED <<wrote, mine>>
          /\ told' = (told \/ shows = "diff")
          /\ blank' = (blank \/ shows = "blank")
          /\ adrift' = (adrift \/ (shows = "plain" /\ tool[s] = "write"))
    BY <1>10, ToolResultSends
  <2>2. PICK shows \in {"diff", "blank", "plain"} :
          /\ Sends(e, s, "tool_result", shows, <<>>)
          /\ shows # "plain" => tool[s] = "write" /\ Changes
          /\ shows = "plain" => UNCHANGED <<wrote, mine>>
          /\ told' = (told \/ shows = "diff")
          /\ blank' = (blank \/ shows = "blank")
          /\ adrift' = (adrift \/ (shows = "plain" /\ tool[s] = "write"))
    BY <2>1
  <2>3. step[Main] # "off" /\ UNCHANGED <<start, tool, tried, step>> /\ step[s] = "tool"
    BY <1>2, <1>10 DEF ToolResult, turnVars
  <2>4. e \in Row /\ Show(e) /\ e.kind = "tool_result" /\ e.status = shows
    BY <2>2 DEF Sends, Emit
  <2>5. ~Touches(e) /\ (ShowsLines(e) <=> shows = "diff") /\ (ShowsNone(e) <=> shows = "blank")
    BY <2>4 DEF ShowsLines, ShowsNone, Touches
  <2>6. tool[s] = "write" => tried
    BY <2>3 DEF SummaryInv, Writing
  <2>7. Writing'
    <3>1. CASE shows = "plain"
      <4>1. UNCHANGED <<wrote, mine>> /\ (told' => told) /\ (adrift' => adrift \/ tool[s] = "write")
        BY <2>2, <3>1
      <4>2. Writing /\ UNCHANGED <<tool, tried, step>>
        BY <2>3 DEF SummaryInv
      <4> QED
        BY <2>6, <4>1, <4>2 DEF Writing
    <3>2. CASE shows # "plain"
      BY <2>2, <2>3, <2>6, <3>2 DEF SummaryInv, Writing, Changes
    <3> QED
      BY <3>1, <3>2
  <2>8. told' = (told \/ ShowsLines(e)) /\ blank' = (blank \/ ShowsNone(e)) /\ tried' = (tried \/ Touches(e))
    BY <1>1, <2>2, <2>3, <2>5 DEF TypeInv
  <2> QED
    BY <1>1, <2>3, <2>4, <2>7, <2>8, SummaryEvent
<1>11. ASSUME NEW s \in Sessions, Preview(s) PROVE SummaryInv'
  <2>1. PICK e : Sends(e, s, "tool_result", "preview", <<>>)
    BY <1>11, PreviewSends
  <2>2. step[Main] # "off" /\ UNCHANGED <<start, tool, fileVars, tried, step>>
    BY <1>2, <1>11 DEF Preview, turnVars
  <2>3. PICK kind : kind = "tool_result"
    OBVIOUS
  <2>4. Silent(e) /\ kind \notin {"user", "summary"} /\ model \in {"model", "failed"}
    BY <1>3, <2>1, <2>3 DEF Sends, Silent, ShowsLines, ShowsNone, Touches
  <2> QED
    BY <2>1, <2>2, <2>3, <2>4, SummaryNote
<1>12. ASSUME NEW s \in Sessions, ToolEnd(s) PROVE SummaryInv'
  <2>1. PICK e : Sends(e, s, "tool_end", tool[s], <<>>)
    BY <1>1, <1>12, ToolEndSends
  <2>2. step[Main] # "off" /\ UNCHANGED <<start, tool, fileVars, tried>> /\ step[s] = "tool"
        /\ step' = [step EXCEPT ![s] = "model"]
    BY <1>2, <1>12 DEF ToolEnd, turnVars
  <2>3. e \in Row /\ Show(e) /\ e.kind = "tool_end" /\ e.status = tool[s]
    BY <2>1 DEF Sends, Emit
  <2>4. ~ShowsLines(e) /\ ~ShowsNone(e) /\ (Touches(e) <=> tool[s] = "write")
    BY <2>3 DEF ShowsLines, ShowsNone, Touches
  <2>5. step'[Main] # "off" /\ \A i \in Sessions : step'[i] = "tool" => step[i] = "tool"
    BY <1>1, <2>2 DEF Sessions
  <2>6. Writing'
    BY <2>2, <2>5, WritingStays DEF SummaryInv
  <2>7. tool[s] = "write" => tried
    BY <2>2 DEF SummaryInv, Writing
  <2>8. told' = (told \/ ShowsLines(e)) /\ blank' = (blank \/ ShowsNone(e)) /\ tried' = (tried \/ Touches(e))
    BY <1>1, <2>2, <2>4, <2>7 DEF TypeInv, fileVars
  <2> QED
    BY <1>1, <2>2, <2>3, <2>4, <2>5, <2>6, <2>8, SummaryEvent
<1>13. ASSUME NEW s \in Sessions, Note(s) PROVE SummaryInv'
  <2>1. PICK e : Sends(e, s, "note", "none", <<>>)
    BY <1>13, NoteSends
  <2>2. step[Main] # "off" /\ UNCHANGED <<start, tool, fileVars, tried, step>>
    BY <1>2, <1>13 DEF Note, turnVars
  <2>3. PICK kind : kind = "note"
    OBVIOUS
  <2>4. Silent(e) /\ kind \notin {"user", "summary"} /\ model \in {"model", "failed"}
    BY <1>3, <2>1, <2>3, NotesAreSilent DEF Sends
  <2> QED
    BY <2>1, <2>2, <2>3, <2>4, SummaryNote
<1>14. CASE SubStarts
  <2>1. PICK e : Sends(e, Sub, "note", "none", <<>>)
    BY <1>14, SubStartsSends
  <2>2. step[Main] # "off" /\ UNCHANGED <<start, tool, fileVars, tried>> /\ step' = [step EXCEPT ![Sub] = model]
    BY <1>3, <1>14 DEF SubStarts, turnVars
  <2>3. PICK kind : kind = "note"
    OBVIOUS
  <2>4. Silent(e) /\ kind \notin {"user", "summary"} /\ model \in {"model", "failed"}
    BY <1>3, <2>1, <2>3, NotesAreSilent DEF Sends
  <2>5. Sub \in Sessions
    BY DEF Sessions
  <2> QED
    BY <2>1, <2>2, <2>3, <2>4, <2>5, SummaryNote
<1>15. CASE SubAnswers
  <2>1. step[Main] # "off" /\ step'[Main] # "off" /\ \A s \in Sessions : step'[s] = "tool" => step[s] = "tool"
    BY <1>1, <1>2, <1>15 DEF SubAnswers, Sessions, TimelineAssumption
  <2>2. Writing'
    BY <1>15, <2>1, WritingStays DEF SubAnswers, SummaryInv
  <2> QED
    BY <1>1, <1>15, <2>1, <2>2, LeftIs, SummaryInPlace DEF SubAnswers, turnVars, fileVars
<1>16. CASE Submit
  BY <1>16, SubmitSums
<1>17. CASE Answer
  <2>1. step[Main] # "off" /\ step'[Main] # "off" /\ \A s \in Sessions : step'[s] = "tool" => step[s] = "tool"
    BY <1>1, <1>17 DEF Answer, Sessions
  <2>2. /\ timeline' \in Seq(Row) /\ DOMAIN timeline' = DOMAIN timeline
        /\ \A i \in DOMAIN timeline : Like(timeline'[i], timeline[i])
    BY <1>1, <1>17, LeftIs, LikeItself DEF Answer
  <2>3. Writing'
    BY <1>17, <2>1, WritingStays DEF Answer, SummaryInv
  <2> QED
    BY <1>1, <1>17, <2>1, <2>2, <2>3, SummaryInPlace DEF Answer, fileVars
<1>18. CASE Break
  <2>1. step[Main] # "off" /\ step'[Main] # "off" /\ \A s \in Sessions : step'[s] = "tool" => step[s] = "tool"
    BY <1>1, <1>18 DEF Break, Sessions, TimelineAssumption
  <2>2. Writing'
    BY <1>18, <2>1 DEF Break, SummaryInv, Writing
  <2> QED
    BY <1>1, <1>18, <2>1, <2>2, LeftIs, SummaryInPlace DEF Break, turnVars
<1>19. CASE Finish
  BY <1>19, FinishSums
<1>20. CASE UNCHANGED vars
  BY <1>20 DEF vars, turnVars, saidVars, fileVars, SummaryInv, TurnRows, Summed, Summing, Writing
<1>21. CASE Lands \/ Edited
  <2>1. UNCHANGED <<timeline, start, step, tool, told, blank, tried, cutTurn>> /\ step[Main] # "off"
    BY <1>21 DEF Lands, Edited, turnVars
  <2>2. Writing'
    <3>1. Writing
      BY DEF SummaryInv
    <3>2. CASE Lands
      <4>1. wrote' /\ UNCHANGED adrift /\ tried
        BY <3>1, <3>2 DEF Lands, Changes, Writing
      <4> QED
        BY <2>1, <3>1, <4>1 DEF Writing
    <3>3. CASE Edited
      <4>1. adrift' = adrift /\ wrote' = wrote /\ (mine' = mine \/ mine' = FALSE)
        BY <3>3 DEF Edited
      <4> QED
        BY <2>1, <3>1, <4>1 DEF Writing
    <3> QED
      BY <1>21, <3>2, <3>3
  <2> QED
    BY <1>1, <2>1, <2>2, LikeItself, SummaryInPlace
<1> QED
  BY <1>4, <1>5, <1>6, <1>7, <1>8, <1>9, <1>10, <1>11, <1>12, <1>13, <1>14, <1>15, <1>16, <1>17, <1>18,
     <1>19, <1>20, <1>21 DEF Next

(* What a turn leaves in the timeline holds in every behaviour.            *)
THEOREM SummaryInvHolds ==
    ASSUME TimelineAssumption
    PROVE  Spec => []SummaryInv
<1>1. Init => SummaryInv
  <2> SUFFICES ASSUME Init PROVE SummaryInv
    OBVIOUS
  <2>1. \A s \in Sessions : step[s] = "off"
    BY DEF Init
  <2>2. Main \in Sessions
    BY DEF Sessions
  <2>3. turn = 0 /\ ~wrote /\ ~told /\ ~mine /\ ~adrift /\ \A i \in DOMAIN timeline : ~Transient(timeline[i])
    BY DEF Init
  <2>4. Writing
    BY <2>1, <2>3 DEF Writing
  <2>5. step[Main] = "off" /\ ~(turn > 0)
    BY <2>1, <2>2, <2>3
  <2> QED
    BY <2>3, <2>4, <2>5 DEF SummaryInv
<1>2. WaitInv /\ SummaryInv /\ [Next]_vars => SummaryInv'
  BY SummaryKeeps
<1> QED
  BY <1>1, <1>2, WaitInvHolds, PTL DEF Spec

(* _emit_changed_files_summary: however a turn ends, its summary is there  *)
(* if a result showed lines of a change, or if git shows a change of the   *)
(* turn and no result showed an empty one instead; and only if the turn    *)
(* changed something, or git has other changes of files it tried to write. *)
THEOREM SummaryExactHolds ==
    ASSUME TimelineAssumption
    PROVE  Spec => []SummaryExact
<1>1. WaitInv /\ SummaryInv => SummaryExact
  <2> SUFFICES ASSUME WaitInv, SummaryInv, Over
               PROVE  /\ told \/ (mine /\ ~blank) => Summarized
                      /\ Summarized => wrote \/ (tried /\ older)
    BY DEF SummaryExact
  <2>1. Summed(timeline) /\ Writing
    BY DEF SummaryInv, Over
  <2>2. PICK n \in DOMAIN timeline :
          /\ timeline[n].kind = "user" /\ \A i \in DOMAIN timeline : i > n => timeline[i].kind # "user"
          /\ Has(timeline, n, "summary") <=> Summing
    BY <2>1 DEF Summed
  <2>3. PICK m \in Nat : DOMAIN timeline = 1..m
    BY RowAt DEF WaitInv, TypeInv
  <2>4. PICK asked : asked = {j \in DOMAIN timeline : timeline[j].kind = "user"}
    OBVIOUS
  <2>5. asked \in SUBSET Nat /\ n \in asked /\ \A j \in asked : j <= n
    BY <2>2, <2>3, <2>4
  <2>6. Max(asked) = n
    BY <2>5, GreatestIs
  <2>7. Summarized <=> Has(timeline, n, "summary")
    BY <2>4, <2>6 DEF Summarized, Has, Marked, ShowsLines, ShowsNone, Touches, Speaks
  <2> QED
    BY <2>1, <2>2, <2>7 DEF Summing, Writing
<1> QED
  BY <1>1, WaitInvHolds, SummaryInvHolds, PTL
-----------------------------------------------------------------------------
(* The text that the rows show.  An event adds its piece to that of its    *)
(* session, whether it starts a row or is merged into the last one.        *)
LEMMA AppliedShown ==
    ASSUME NEW rows \in Seq(Row), NEW e \in Row, NEW s \in Sessions
    PROVE  ShownIn(Applied(rows, e), s) = ShownIn(rows, s) \o PieceOf(e, s)
<1>0. e.text \in Seq(Nat) /\ PieceOf(e, s) \in Seq(Nat) /\ ShownIn(rows, s) \in Seq(Nat)
  BY PieceOfType, ShownType DEF Row
<1>1. CASE Sets(rows, e)
  <2>1. PieceOf(e, s) = <<>>
    BY <1>1 DEF Sets, PieceOf
  <2>2. ShownIn(Applied(rows, e), s) = ShownIn(rows, s)
    BY <1>1, SetsIs, ShownAlike
  <2>3. ShownIn(rows, s) \o <<>> = ShownIn(rows, s)
    BY <1>0
  <2> QED
    BY <2>1, <2>2, <2>3
<1>2. CASE ~Sets(rows, e)
  <2>1. PICK base \in Seq(Row) : \E f : Based(f, base, rows, e) /\ Grows(base, Applied(rows, e), e)
    BY <1>2, AppliedElse
  <2>2. ShownIn(base, s) = ShownIn(rows, s)
    BY <2>1 DEF Based
  <2>3. CASE Applied(rows, e) = Append(base, e)
    BY <2>2, <2>3, ShownAppend
  <2>4. CASE Applied(rows, e) = Append(Append(base, Thought(e)), e)
    <3>1. PICK th \in Row : th = Thought(e) /\ th.kind = "thinking_end"
      BY ThoughtType
    <3>2. PieceOf(th, s) = <<>>
      BY <3>1 DEF PieceOf
    <3>3. PICK more \in Seq(Row) : more = Append(base, th)
      BY AppendProperties
    <3>4. ShownIn(more, s) = ShownIn(base, s)
      BY <3>2, <3>3, ShownSilent
    <3>5. Applied(rows, e) = Append(more, e)
      BY <2>4, <3>1, <3>3
    <3>6. ShownIn(Append(more, e), s) = ShownIn(more, s) \o PieceOf(e, s)
      BY ShownAppend
    <3> QED
      BY <2>2, <3>4, <3>5, <3>6
  <2>5. CASE /\ base # <<>> /\ Applied(rows, e) = Merged(base, e.text)
             /\ \/ e.kind = "text" /\ base[Len(base)].kind = "text" /\ base[Len(base)].by = e.by
                \/ e.kind = "thinking_delta" /\ base[Len(base)].kind # "text"
    <3>0. PICK words \in Seq(Nat) : words = e.text
      BY <1>0
    <3>1. ShownIn(Merged(base, words), s) =
            ShownIn(base, s) \o PieceOf([base[Len(base)] EXCEPT !.text = words], s)
      BY <2>5, ShownMerged
    <3>2. PICK last \in Row : last = base[Len(base)]
      <4>1. PICK b \in Nat : b = Len(base)
        BY LenProperties
      <4>2. DOMAIN base = 1..b /\ b # 0
        BY <2>5, <4>1, RowAt, EmptySeq
      <4>3. b \in DOMAIN base
        BY <4>1, <4>2
      <4> QED
        BY <4>1, <4>3, RowAt
    <3>3. PICK new : new = [last EXCEPT !.text = e.text]
      OBVIOUS
    <3>4. new.kind = last.kind /\ new.by = last.by /\ new.text = e.text
      BY <3>2, <3>3 DEF Row
    <3>5. PieceOf(new, s) = PieceOf(e, s)
      BY <2>5, <3>2, <3>4 DEF PieceOf
    <3> QED
      BY <2>2, <2>5, <3>0, <3>1, <3>2, <3>3, <3>5
  <2> QED
    BY <2>1, <2>3, <2>4, <2>5 DEF Grows
<1> QED
  BY <1>1, <1>2

\* The pieces 1 to n.
Counted(n) == [i \in 1..n |-> i]

LEMMA CountedType ==
    ASSUME NEW n \in Nat
    PROVE  Counted(n) \in Seq(Nat) /\ Len(Counted(n)) = n
<1>1. Counted(n) \in [1..n -> Nat]
  BY DEF Counted
<1> QED
  BY <1>1 DEF Counted

LEMMA CountedNone == Counted(0) = <<>>
BY CountedType, EmptySeq

LEMMA CountedNext ==
    ASSUME NEW n \in Nat
    PROVE  Counted(n) \o <<n + 1>> = Counted(n + 1)
<1>1. PICK c \in Seq(Nat), d \in Seq(Nat) : c = Counted(n) /\ d = Counted(n + 1) /\ Len(c) = n /\ Len(d) = n + 1
  BY CountedType
<1>2. PICK m \in Nat : m = n + 1
  OBVIOUS
<1>3. PICK e \in Seq(Nat) : e = Append(c, m)
  BY <1>2, AppendProperties
<1>4. e = c \o <<m>> /\ Len(e) = n + 1 /\ e[n + 1] = m /\ \A i \in 1..n : e[i] = c[i]
  BY <1>1, <1>2, <1>3, AppendIsConcat, AppendProperties
<1>5. ASSUME NEW i \in 1..(n + 1) PROVE e[i] = d[i]
  <2>1. d[i] = i
    BY <1>1 DEF Counted
  <2>2. CASE i = n + 1
    <3>1. e[i] = m
      BY <1>4, <2>2
    <3> QED
      BY <1>2, <2>1, <2>2, <3>1
  <2>3. CASE i # n + 1
    <3>1. i \in 1..n
      BY <2>3, NotTheLast
    <3>2. e[i] = c[i]
      BY <1>4, <3>1
    <3>3. c[i] = i
      BY <1>1, <3>1 DEF Counted
    <3> QED
      BY <2>1, <3>2, <3>3
  <2> QED
    BY <2>2, <2>3
<1>6. e = d
  <2>1. PICK k \in Nat : k = n + 1
    OBVIOUS
  <2>2. Len(e) = k /\ Len(d) = k /\ \A i \in 1..k : e[i] = d[i]
    BY <1>1, <1>4, <1>5, <2>1
  <2>3. Len(e) = Len(d) /\ \A i \in 1..Len(e) : e[i] = d[i]
    BY <2>2
  <2> QED
    BY <2>3, SeqEqual, Zenon
<1> QED
  BY <1>1, <1>2, <1>4, <1>6

LEMMA ShownNone ==
    ASSUME NEW s
    PROVE  ShownIn(<<>>, s) = <<>>
<1>1. Pieces(<<>>, s) = <<>>
  BY DEF Pieces
<1> QED
  BY <1>1 DEF ShownIn, FlattenSeq
(* What the rows show of what was said; that an answer which was streamed  *)
(* has a row in its turn; and what the answer of a turn that closes is.    *)
Shows == ~cut => \A s \in Sessions : ShownIn(timeline, s) = Spoken(s)
Streamed == ~cut /\ streams /\ step[Main] # "off" /\ said[Main] > since => Has(timeline, start, "text")
Replied ==
    reply # <<>> =>
        /\ step[Main] \in {"closing", "off"}
        /\ step[Main] = "closing" =>
             IF streams THEN said[Main] > since ELSE said[Main] > 0 /\ reply = <<said[Main]>>
TextInv == Shows /\ Streamed /\ Replied /\ (cutTurn => cut) /\ since <= said[Main]

LEMMA SpokenIs ==
    ASSUME NEW s
    PROVE  /\ ~Unshown(s) => Spoken(s) = Counted(said[s])
           /\ Unshown(s) => Spoken(s) = Counted(said[s] - 1)
           /\ ~Unshown(s)' => Spoken(s)' = Counted(said'[s])
           /\ Unshown(s)' => Spoken(s)' = Counted(said'[s] - 1)
BY DEF Spoken, Counted, Unshown

Busy == {"model", "failed", "tool"}

\* While the turn runs there is no answer yet.
LEMMA BusyHasNoReply ==
    ASSUME Replied, step[Main] \in Busy
    PROVE  reply = <<>> /\ \A s : ~Unshown(s)
BY DEF Replied, Busy, Unshown

LEMMA BeginsWhole ==
    ASSUME TimelineAssumption, SummaryInv, TextInv, ~cut, step[Main] # "off"
    PROVE  Begun(timeline, start)
BY DEF SummaryInv, TextInv, TurnRows

\* An event of the turn that runs that has no text.
LEMMA TextEvent ==
    ASSUME TimelineAssumption, TypeInv, SummaryInv, TextInv, step[Main] \in Busy, step'[Main] \in Busy,
           NEW e \in Row, Show(e), e.kind \notin {"text", "user"},
           UNCHANGED <<streams, start, reply, said>>, since' \in {since, said[Main]}
    PROVE  TextInv'
<1>1. timeline \in Seq(Row) /\ cut \in BOOLEAN /\ cutTurn \in BOOLEAN /\ said \in [Sessions -> Nat] /\ since \in Nat
      /\ Main \in Sessions
  BY DEF TypeInv, Sessions
<1>2. ~cut' => ~cut /\ timeline' = Applied(timeline, e)
  BY <1>1, ShownWhole
<1>3. reply = <<>> /\ reply' = <<>> /\ \A s : ~Unshown(s) /\ ~Unshown(s)'
  BY BusyHasNoReply DEF TextInv, Busy, Unshown
<1>4. Shows'
  <2> SUFFICES ASSUME ~cut', NEW s \in Sessions PROVE ShownIn(timeline', s) = Spoken(s)'
    BY DEF Shows
  <2>1. ShownIn(timeline, s) = Counted(said[s])
    BY <1>2, <1>3, SpokenIs DEF TextInv, Shows
  <2>2. ShownIn(timeline', s) = ShownIn(timeline, s) \o PieceOf(e, s)
    BY <1>1, <1>2, AppliedShown
  <2>3. PieceOf(e, s) = <<>>
    BY DEF PieceOf
  <2>4. ShownIn(timeline, s) \o <<>> = ShownIn(timeline, s)
    BY <1>1, ShownType, ConcatEmptySeq
  <2> QED
    BY <1>3, <2>1, <2>2, <2>3, <2>4, SpokenIs
<1>5. Streamed'
  <2> SUFFICES ASSUME ~cut', streams, said[Main] > since' PROVE Has(timeline', start, "text")
    BY DEF Streamed
  <2>1. since' = since
    BY <1>1
  <2>2. ~cut /\ step[Main] # "off" /\ timeline' = Applied(timeline, e)
    BY <1>2 DEF Busy
  <2>3. Has(timeline, start, "text")
    BY <2>1, <2>2 DEF TextInv, Streamed
  <2>4. Begun(timeline, start)
    BY <2>2, BeginsWhole
  <2>5. \A mark : Has(Applied(timeline, e), start, mark) <=> Has(timeline, start, mark) \/ Marked(e, mark)
    BY <1>1, <2>4, AppliedBegun
  <2> QED
    BY <2>2, <2>3, <2>5
<1>6. Replied'
  BY <1>3 DEF Replied
<1>7. (cutTurn' => cut') /\ since' <= said'[Main]
  <2>1. cutTurn' => cut'
    BY <1>1, ShownWhole DEF TextInv
  <2>2. since' <= said'[Main]
    BY <1>1 DEF TextInv
  <2> QED
    BY <2>1, <2>2
<1> QED
  BY <1>4, <1>5, <1>6, <1>7 DEF TextInv

\* A piece of text of the provider.
LEMMA PieceTells ==
    ASSUME TimelineAssumption, TypeInv, SubRuns, SummaryInv, TextInv, NEW s \in Sessions, Piece(s)
    PROVE  TextInv'
<1>1. timeline \in Seq(Row) /\ cut \in BOOLEAN /\ cutTurn \in BOOLEAN /\ said \in [Sessions -> Nat] /\ since \in Nat
      /\ Main \in Sessions
  BY DEF TypeInv, Sessions
<1>2. PICK e : Sends(e, s, "text", "none", <<said[s] + 1>>)
  BY PieceSends
<1>3. e \in Row /\ Show(e) /\ e.by = s /\ e.kind = "text" /\ e.text = <<said[s] + 1>>
  BY <1>2 DEF Sends, Emit
<1>4. streams /\ said' = [said EXCEPT ![s] = @ + 1] /\ UNCHANGED <<streams, start, reply, step, since>>
  BY DEF Piece, turnVars
<1>5. step[Main] \in Busy /\ step[Main] # "off"
  BY DEF Piece, SubRuns, Sessions, Busy
<1>6. ~cut' => ~cut /\ timeline' = Applied(timeline, e)
  BY <1>1, <1>3, ShownWhole
<1>7. reply = <<>> /\ reply' = <<>> /\ \A i : ~Unshown(i) /\ ~Unshown(i)'
  BY <1>4, <1>5, BusyHasNoReply DEF TextInv, Unshown
<1>8. Shows'
  <2> SUFFICES ASSUME ~cut', NEW i \in Sessions PROVE ShownIn(timeline', i) = Spoken(i)'
    BY DEF Shows
  <2>1. ShownIn(timeline, i) = Counted(said[i])
    BY <1>6, <1>7, SpokenIs DEF TextInv, Shows
  <2>2. ShownIn(timeline', i) = ShownIn(timeline, i) \o PieceOf(e, i)
    BY <1>1, <1>3, <1>6, AppliedShown
  <2>3. Spoken(i)' = Counted(said'[i])
    BY <1>7, SpokenIs
  <2>4. CASE i = s
    <3>1. PieceOf(e, i) = <<said[i] + 1>> /\ said'[i] = said[i] + 1 /\ said[i] \in Nat
      BY <1>1, <1>3, <1>4, <2>4 DEF PieceOf
    <3>2. Counted(said[i]) \o <<said[i] + 1>> = Counted(said[i] + 1)
      BY <3>1, CountedNext
    <3> QED
      BY <2>1, <2>2, <2>3, <3>1, <3>2
  <2>5. CASE i # s
    <3>1. PieceOf(e, i) = <<>> /\ said'[i] = said[i]
      BY <1>1, <1>3, <1>4, <2>5 DEF PieceOf
    <3>2. ShownIn(timeline, i) \o <<>> = ShownIn(timeline, i)
      BY <1>1, ShownType, ConcatEmptySeq
    <3> QED
      BY <2>1, <2>2, <2>3, <3>1, <3>2
  <2> QED
    BY <2>4, <2>5
<1>9. Streamed'
  <2> SUFFICES ASSUME ~cut', said'[Main] > since PROVE Has(timeline', start, "text")
    BY <1>4 DEF Streamed
  <2>1. Begun(timeline, start)
    BY <1>5, <1>6, BeginsWhole
  <2>2. e.kind # "user"
    BY <1>3
  <2>3. \A mark : Has(Applied(timeline, e), start, mark) <=> Has(timeline, start, mark) \/ Marked(e, mark)
    BY <1>1, <1>3, <2>1, <2>2, AppliedBegun
  <2>4. CASE s = Main
    <3>1. Marked(e, "text")
      BY <1>3, <2>4 DEF Marked, Speaks
    <3> QED
      BY <1>6, <2>3, <3>1
  <2>5. CASE s # Main
    <3>1. said[Main] > since
      BY <1>1, <1>4, <2>5
    <3>2. Has(timeline, start, "text")
      BY <1>4, <1>5, <1>6, <3>1 DEF TextInv, Streamed
    <3> QED
      BY <1>6, <2>3, <3>2
  <2> QED
    BY <2>4, <2>5
<1>10. Replied'
  BY <1>7 DEF Replied
<1>11. (cutTurn' => cut') /\ since' <= said'[Main]
  <2>1. cutTurn' => cut'
    BY <1>1, <1>3, ShownWhole DEF TextInv
  <2>2. since <= said[Main] /\ said'[Main] \in {said[Main], said[Main] + 1}
    BY <1>1, <1>4 DEF TextInv
  <2>3. since' <= said'[Main]
    BY <1>1, <1>4, <2>2
  <2> QED
    BY <2>1, <2>3
<1> QED
  BY <1>8, <1>9, <1>10, <1>11 DEF TextInv

\* A step that shows and says nothing and changes rows in place.
LEMMA TextInPlace ==
    ASSUME TimelineAssumption, TypeInv, SummaryInv, TextInv, step[Main] \in Busy, step'[Main] # "off",
           timeline' \in Seq(Row), DOMAIN timeline' = DOMAIN timeline,
           \A i \in DOMAIN timeline : Like(timeline'[i], timeline[i]) /\ timeline'[i].text = timeline[i].text,
           UNCHANGED <<streams, start, said, since, cut, cutTurn>>,
           Replied', streams \/ reply' = <<>>
    PROVE  TextInv'
<1>1. timeline \in Seq(Row) /\ step[Main] # "off"
  BY DEF TypeInv, Busy
<1>2. \A s : ~Unshown(s) /\ ~Unshown(s)'
  BY BusyHasNoReply DEF TextInv, Unshown
<1>3. Shows'
  <2> SUFFICES ASSUME ~cut', NEW s \in Sessions PROVE ShownIn(timeline', s) = Spoken(s)'
    BY DEF Shows
  <2>1. ShownIn(timeline', s) = ShownIn(timeline, s)
    BY ShownAlike
  <2> QED
    BY <1>2, <2>1, SpokenIs DEF TextInv, Shows
<1>4. Streamed'
  <2> SUFFICES ASSUME ~cut, streams, said[Main] > since PROVE Has(timeline', start, "text")
    BY DEF Streamed
  <2>1. Begun(timeline, start)
    BY <1>1, BeginsWhole
  <2>2. \A mark : Has(timeline', start, mark) <=> Has(timeline, start, mark)
    BY <1>1, <2>1, BegunInPlace
  <2> QED
    BY <1>1, <2>2 DEF TextInv, Streamed
<1> QED
  BY <1>3, <1>4 DEF TextInv

LEMMA AnswerTells ==
    ASSUME TimelineAssumption, TypeInv, SummaryInv, TextInv, Answer
    PROVE  TextInv'
<1>1. timeline \in Seq(Row) /\ said \in [Sessions -> Nat] /\ since \in Nat /\ Main \in Sessions
      /\ step \in [Sessions -> Steps] /\ streams \in BOOLEAN
  BY DEF TypeInv, Sessions
<1>2. step[Main] \in Busy /\ step'[Main] = "closing" /\ UNCHANGED <<streams, start, since, cut, cutTurn>>
  BY <1>1 DEF Answer, Busy
<1>3. CASE streams
  <2>1. reply' = [i \in 1..(said[Main] - since) |-> since + i] /\ UNCHANGED said /\ Left({Main})
    BY <1>3 DEF Answer
  <2>2. ASSUME ~(said[Main] > since) PROVE reply' = <<>>
    <3>1. said[Main] \in Nat /\ since \in Nat /\ ~(said[Main] > since)
      BY <1>1, <2>2
    <3>2. 1..(said[Main] - since) = {}
      BY <3>1
    <3> QED
      BY <2>1, <3>2
  <2>3. Replied'
    BY <1>2, <1>3, <2>1, <2>2 DEF Replied
  <2>4. /\ timeline' \in Seq(Row) /\ DOMAIN timeline' = DOMAIN timeline
        /\ \A i \in DOMAIN timeline : Like(timeline'[i], timeline[i]) /\ timeline'[i].text = timeline[i].text
    BY <1>1, <2>1, LeftIs
  <2>5. step'[Main] # "off" /\ UNCHANGED <<streams, start, said, since, cut, cutTurn>>
    BY <1>2, <2>1
  <2> QED
    BY <1>2, <1>3, <2>3, <2>4, <2>5, TextInPlace
<1>4. CASE ~streams
  <2>1. reply' = <<said[Main] + 1>> /\ said' = [said EXCEPT ![Main] = @ + 1] /\ timeline' = timeline
    BY <1>4 DEF Answer
  <2>2. said'[Main] = said[Main] + 1 /\ said[Main] \in Nat /\ reply' # <<>>
    BY <1>1, <2>1
  <2>3. Replied'
    BY <1>2, <1>4, <2>1, <2>2 DEF Replied
  <2>4. Unshown(Main)' /\ \A s : ~Unshown(s) /\ (s # Main => ~Unshown(s)')
    BY <1>2, <1>4, <2>2, BusyHasNoReply DEF TextInv, Unshown
  <2>5. Shows'
    <3> SUFFICES ASSUME ~cut', NEW s \in Sessions PROVE ShownIn(timeline', s) = Spoken(s)'
      BY DEF Shows
    <3>1. ShownIn(timeline', s) = Counted(said[s])
      BY <1>2, <2>1, <2>4, SpokenIs DEF TextInv, Shows
    <3>2. CASE s = Main
      <4>1. said'[Main] - 1 = said[Main]
        BY <2>2
      <4>2. Spoken(s)' = Counted(said[s])
        BY <2>4, <3>2, <4>1, SpokenIs
      <4> QED
        BY <3>1, <4>2
    <3>3. CASE s # Main
      <4>1. said'[s] = said[s]
        BY <1>1, <2>1, <3>3
      <4>2. Spoken(s)' = Counted(said[s])
        BY <2>4, <3>3, <4>1, SpokenIs
      <4> QED
        BY <3>1, <4>2
    <3> QED
      BY <3>2, <3>3
  <2>6. Streamed'
    BY <1>2, <1>4 DEF Streamed
  <2>7. (cutTurn' => cut') /\ since' <= said'[Main]
    BY <1>1, <1>2, <2>2 DEF TextInv
  <2> QED
    BY <2>3, <2>5, <2>6, <2>7 DEF TextInv
<1> QED
  BY <1>1, <1>3, <1>4
LEMMA SubmitTells ==
    ASSUME TimelineAssumption, TypeInv, TextInv, Submit
    PROVE  TextInv'
<1>1. timeline \in Seq(Row) /\ said \in [Sessions -> Nat] /\ Main \in Sessions /\ step \in [Sessions -> Steps]
      /\ cut \in BOOLEAN
  BY DEF TypeInv, Sessions
<1>2. /\ step[Main] = "off" /\ step'[Main] = "model" /\ reply' = <<>> /\ since' = said[Main] /\ UNCHANGED <<streams, said>>
      /\ ~cutTurn' /\ (cut => cut')
  BY <1>1 DEF Submit
<1>3. \A s : ~Unshown(s) /\ ~Unshown(s)'
  BY <1>2 DEF Unshown
<1>4. Shows'
  <2> SUFFICES ASSUME ~cut', NEW s \in Sessions PROVE ShownIn(timeline', s) = Spoken(s)'
    BY DEF Shows
  <2>1. ShownIn(timeline', s) = ShownIn(timeline, s)
    BY <1>1, SubmitIs
  <2>2. ShownIn(timeline, s) = Counted(said[s])
    BY <1>2, <1>3, SpokenIs DEF TextInv, Shows
  <2> QED
    BY <1>2, <1>3, <2>1, <2>2, SpokenIs
<1>5. since' <= said'[Main] /\ ~(said'[Main] > since')
  BY <1>1, <1>2
<1> QED
  BY <1>2, <1>4, <1>5 DEF TextInv, Streamed, Replied

\* The rows after the answer of a turn show all that was said.
LEMMA ReplyTells ==
    ASSUME TimelineAssumption, WaitInv, SummaryInv, TextInv, step[Main] = "closing", ~cut, NEW s \in Sessions
    PROVE  ShownIn(WithReply(timeline), s) = Counted(said[s])
<1>1. timeline \in Seq(Row) /\ said \in [Sessions -> Nat] /\ TypeInv /\ said[s] \in Nat
  BY DEF WaitInv, TypeInv
<1>2. ShownIn(timeline, s) = Spoken(s)
  BY DEF TextInv, Shows
<1>3. CASE ~Unshown(s) /\ WithReply(timeline) = timeline
  BY <1>2, <1>3, SpokenIs
<1>4. CASE Unshown(s) /\ WithReply(timeline) = timeline
  <2>1. s = Main /\ ~streams /\ reply # <<>>
    BY <1>4 DEF Unshown
  <2>2. NoText(timeline, start)
    BY <2>1 DEF WaitInv, Unstreamed
  <2>3. \E e \in Row : e.by = Main /\ e.kind = "text" /\ e.text = reply /\ WithReply(timeline) = Applied(timeline, e)
    BY <1>1, <2>1, <2>2, WithReplyIs DEF NoText
  <2>4. PICK e \in Row : e.by = Main /\ e.kind = "text" /\ e.text = reply /\ WithReply(timeline) = Applied(timeline, e)
    BY <2>3
  <2>5. ShownIn(WithReply(timeline), s) = ShownIn(timeline, s) \o reply
    <3>1. PieceOf(e, s) = reply
      BY <2>1, <2>4 DEF PieceOf
    <3> QED
      BY <1>1, <2>4, <3>1, AppliedShown
  <2>6. Spoken(s) = Counted(said[s] - 1) /\ said[s] > 0 /\ reply = <<said[s]>>
    BY <1>4, <2>1, SpokenIs DEF TextInv, Replied
  <2>7. PICK n \in Nat : n = said[s] - 1 /\ n + 1 = said[s]
    BY <1>1, <2>6
  <2>8. Counted(n) \o <<n + 1>> = Counted(n + 1)
    BY CountedNext
  <2> QED
    BY <1>2, <2>5, <2>6, <2>7, <2>8
<1>5. ASSUME NEW e \in Row, e.by = Main, e.kind = "text", e.text = reply, reply # <<>>,
             WithReply(timeline) = Applied(timeline, e), NoText(timeline, start)
      PROVE  ShownIn(WithReply(timeline), s) = Counted(said[s])
  <2>1. ~streams
    <3> SUFFICES ASSUME streams PROVE FALSE
      OBVIOUS
    <3>1. said[Main] > since
      BY <1>5 DEF TextInv, Replied
    <3>2. Has(timeline, start, "text")
      BY <3>1 DEF TextInv, Streamed
    <3>3. start \in Nat /\ DOMAIN timeline = 1..Len(timeline) /\ Len(timeline) \in Nat
      BY <1>1, RowAt DEF TypeInv
    <3>4. PICK i \in DOMAIN timeline : i > start /\ Speaks(timeline[i])
      BY <3>2 DEF Has, Marked
    <3>5. i >= start
      BY <3>3, <3>4
    <3> QED
      BY <1>5, <3>4, <3>5 DEF NoText, Speaks
  <2>2. ShownIn(WithReply(timeline), s) = ShownIn(timeline, s) \o PieceOf(e, s)
    BY <1>1, <1>5, AppliedShown
  <2>3. CASE s = Main
    <3>1. PieceOf(e, s) = reply /\ Unshown(s)
      BY <1>5, <2>1, <2>3 DEF PieceOf, Unshown
    <3>2. Spoken(s) = Counted(said[s] - 1) /\ said[s] > 0 /\ reply = <<said[s]>>
      BY <1>5, <2>1, <2>3, <3>1, SpokenIs DEF TextInv, Replied
    <3>3. PICK n \in Nat : n = said[s] - 1 /\ n + 1 = said[s]
      BY <1>1, <3>2
    <3>4. Counted(n) \o <<n + 1>> = Counted(n + 1)
      BY CountedNext
    <3> QED
      BY <1>2, <2>2, <3>1, <3>2, <3>3, <3>4
  <2>4. CASE s # Main
    <3>1. PieceOf(e, s) = <<>> /\ ~Unshown(s)
      BY <1>5, <2>4 DEF PieceOf, Unshown
    <3>2. ShownIn(timeline, s) \o <<>> = ShownIn(timeline, s)
      BY <1>1, ShownType, ConcatEmptySeq
    <3> QED
      BY <1>2, <2>2, <3>1, <3>2, SpokenIs
  <2> QED
    BY <2>3, <2>4
<1> QED
  BY <1>1, <1>3, <1>4, <1>5, WithReplyIs

LEMMA FinishTells ==
    ASSUME TimelineAssumption, WaitInv, SummaryInv, TextInv, Finish
    PROVE  TextInv'
<1>1. TypeInv /\ step[Main] = "closing" /\ step' = [step EXCEPT ![Main] = "off"]
      /\ cut \in BOOLEAN /\ cutTurn \in BOOLEAN /\ timeline \in Seq(Row)
  BY DEF WaitInv, TypeInv, Finish
<1>2. PICK replied \in Seq(Row), second \in Seq(Row), summed \in Seq(Row), third \in Seq(Row) :
        /\ replied = WithReply(timeline) /\ second = Recent(replied)
        /\ summed = WithSummary(second) /\ third = Recent(summed)
        /\ timeline' = Lasting(third) /\ timeline' \in Seq(Row)
  BY <1>1, FinishRows
<1>3. step'[Main] = "off" /\ UNCHANGED <<streams, start, reply, said, since>>
  BY <1>1 DEF TypeInv, Sessions, Finish, turnVars, saidVars
<1>4. /\ cut' = (cut \/ Len(replied) > MaxItems \/ Len(summed) > MaxItems)
      /\ cutTurn' = (cutTurn \/ Len(replied) > MaxItems \/ Len(summed) > MaxItems)
  BY <1>2 DEF Finish
<1>5. \A s : ~Unshown(s)'
  BY <1>3 DEF Unshown
<1>6. Shows'
  <2> SUFFICES ASSUME ~cut', NEW s \in Sessions PROVE ShownIn(timeline', s) = Spoken(s)'
    BY DEF Shows
  <2>1. ~cut /\ second = replied /\ third = summed
    <3>1. PICK m \in Nat, n \in Nat : m = Len(replied) /\ n = Len(summed)
      BY LenProperties
    <3>2. ~cut /\ ~(m > MaxItems) /\ ~(n > MaxItems)
      BY <1>4, <3>1
    <3>3. m <= MaxItems /\ n <= MaxItems
      BY <3>2 DEF TimelineAssumption
    <3> QED
      BY <1>2, <3>1, <3>2, <3>3, RecentIs
  <2>2. ShownIn(replied, s) = Counted(said[s])
    BY <1>1, <1>2, <2>1, ReplyTells
  <2>3. ShownIn(summed, s) = ShownIn(replied, s)
    <3>1. PICK e \in Row : e.kind = "summary" /\ e.text = <<>>
                           /\ summed = IF Changed(second) THEN Applied(second, e) ELSE second
      BY <1>2, WithSummaryIs
    <3>2. PieceOf(e, s) = <<>>
      BY <3>1 DEF PieceOf
    <3>3. ShownIn(Applied(replied, e), s) = ShownIn(replied, s) \o <<>>
      BY <3>2, AppliedShown
    <3>4. ShownIn(replied, s) \o <<>> = ShownIn(replied, s)
      BY ShownType, ConcatEmptySeq
    <3> QED
      BY <2>1, <3>1, <3>3, <3>4
  <2>4. ShownIn(timeline', s) = ShownIn(summed, s)
    BY <1>2, <2>1, ShownLasting
  <2> QED
    BY <1>3, <1>5, <2>2, <2>3, <2>4, SpokenIs
<1>7. Streamed'
  BY <1>3 DEF Streamed
<1>8. Replied'
  BY <1>3 DEF Replied
<1>9. (cutTurn' => cut') /\ since' <= said'[Main]
  BY <1>3, <1>4 DEF TextInv
<1> QED
  BY <1>6, <1>7, <1>8, <1>9 DEF TextInv

\* An event of session s without text.
LEMMA TextNote ==
    ASSUME TimelineAssumption, WaitInv, SummaryInv, TextInv, NEW s \in Sessions, step[s] \in Busy,
           NEW e, NEW kind, NEW status, NEW words, Sends(e, s, kind, status, words), kind \notin {"text", "user"},
           UNCHANGED <<streams, start, reply, said>>, since' \in {since, said[Main]},
           NEW st \in Busy, step' = [step EXCEPT ![s] = st] \/ UNCHANGED step
    PROVE  TextInv'
<1>1. step[Main] \in Busy
  BY DEF WaitInv, SubRuns, Sessions, Busy
<1>2. step'[Main] \in Busy
  BY <1>1 DEF WaitInv, TypeInv, Sessions
<1>3. e \in Row /\ Show(e) /\ e.kind \notin {"text", "user"} /\ TypeInv
  BY DEF Sends, Emit, WaitInv
<1> QED
  BY <1>1, <1>2, <1>3, TextEvent

LEMMA TextKeeps ==
    ASSUME TimelineAssumption, WaitInv, SummaryInv, TextInv, [Next]_vars
    PROVE  TextInv'
<1>1. TypeInv /\ step \in [Sessions -> Steps] /\ timeline \in Seq(Row)
  BY DEF WaitInv, TypeInv
<1>2. PICK model \in Busy, failed \in Busy, running \in Busy : model = "model" /\ failed = "failed" /\ running = "tool"
  BY DEF Busy
<1>3. \A s : step[s] \in {"model", "failed", "tool"} => step[s] \in Busy
  BY DEF Busy
<1>4. ASSUME NEW s \in Sessions, Heartbeat(s) PROVE TextInv'
  <2>1. PICK e : Sends(e, s, "wait", "running", <<>>)
    BY <1>4, HeartbeatSends
  <2>2. PICK kind : kind = "wait"
    OBVIOUS
  <2>3. step[s] \in Busy /\ UNCHANGED <<streams, start, reply, said, since, step>> /\ kind \notin {"text", "user"}
    BY <1>3, <1>4, <2>2 DEF Heartbeat, turnVars, saidVars
  <2> QED
    BY <1>2, <2>1, <2>2, <2>3, TextNote
<1>5. ASSUME NEW s \in Sessions, Piece(s) PROVE TextInv'
  BY <1>1, <1>5, PieceTells DEF WaitInv
<1>6. ASSUME NEW s \in Sessions, Thinking(s) PROVE TextInv'
  <2>1. PICK e : \E kind \in {"thinking_start", "thinking_delta", "thinking_end"} : Sends(e, s, kind, "none", <<>>)
    BY <1>6, ThinkingSends
  <2>2. PICK kind \in {"thinking_start", "thinking_delta", "thinking_end"} : Sends(e, s, kind, "none", <<>>)
    BY <2>1
  <2>3. step[s] \in Busy /\ UNCHANGED <<streams, start, reply, said, since, step>> /\ kind \notin {"text", "user"}
    BY <1>3, <1>6, <2>2 DEF Thinking, turnVars, saidVars
  <2> QED
    BY <1>2, <2>2, <2>3, TextNote
<1>7. ASSUME NEW s \in Sessions, AttemptFails(s) PROVE TextInv'
  <2>1. PICK e : \E status \in {"timeout", "failed"} : Sends(e, s, "llm_note", status, <<>>)
    BY <1>7, AttemptFailsSends
  <2>2. PICK kind, status : kind = "llm_note" /\ Sends(e, s, kind, status, <<>>)
    BY <2>1
  <2>3. step[s] \in Busy /\ UNCHANGED <<streams, start, reply, said, since>> /\ kind \notin {"text", "user"}
        /\ step' = [step EXCEPT ![s] = failed]
    BY <1>2, <1>3, <1>7, <2>2 DEF AttemptFails, turnVars, saidVars
  <2> QED
    BY <1>2, <2>2, <2>3, TextNote
<1>8. ASSUME NEW s \in Sessions, Retry(s) PROVE TextInv'
  <2>1. PICK e : Sends(e, s, "llm_note", "retrying", <<>>)
    BY <1>8, RetrySends
  <2>2. PICK kind : kind = "llm_note"
    OBVIOUS
  <2>3. step[s] \in Busy /\ UNCHANGED <<streams, start, reply, said>> /\ kind \notin {"text", "user"}
        /\ step' = [step EXCEPT ![s] = model] /\ since' \in {since, said[Main]}
    BY <1>2, <1>3, <1>8, <2>2 DEF Retry, turnVars
  <2> QED
    BY <1>2, <2>1, <2>2, <2>3, TextNote
<1>9. ASSUME NEW s \in Sessions, ToolStart(s) PROVE TextInv'
  <2>1. PICK e : \E status \in {"write", "other"} :
              /\ Sends(e, s, "tool_start", status, <<>>)
              /\ tool' = [tool EXCEPT ![s] = status] /\ tried' = (tried \/ status = "write")
    BY <1>9, ToolStartSends
  <2>2. PICK kind, status : kind = "tool_start" /\ Sends(e, s, kind, status, <<>>)
    BY <2>1
  <2>3. step[s] \in Busy /\ UNCHANGED <<streams, start, reply, said, since>> /\ kind \notin {"text", "user"}
        /\ step' = [step EXCEPT ![s] = running]
    BY <1>2, <1>3, <1>9, <2>2 DEF ToolStart, turnVars, saidVars
  <2> QED
    BY <1>2, <2>2, <2>3, TextNote
<1>10. ASSUME NEW s \in Sessions, ToolResult(s) PROVE TextInv'
  <2>1. PICK e : \E status : Sends(e, s, "tool_result", status, <<>>)
    BY <1>10, ToolResultSends
  <2>2. PICK kind, status : kind = "tool_result" /\ Sends(e, s, kind, status, <<>>)
    BY <2>1
  <2>3. step[s] \in Busy /\ UNCHANGED <<streams, start, reply, said, since, step>> /\ kind \notin {"text", "user"}
    BY <1>3, <1>10, <2>2 DEF ToolResult, turnVars, saidVars
  <2> QED
    BY <1>2, <2>2, <2>3, TextNote
<1>11. ASSUME NEW s \in Sessions, Preview(s) PROVE TextInv'
  <2>1. PICK e : Sends(e, s, "tool_result", "preview", <<>>)
    BY <1>11, PreviewSends
  <2>2. PICK kind : kind = "tool_result"
    OBVIOUS
  <2>3. step[s] \in Busy /\ UNCHANGED <<streams, start, reply, said, since, step>> /\ kind \notin {"text", "user"}
    BY <1>3, <1>11, <2>2 DEF Preview, turnVars, saidVars
  <2> QED
    BY <1>2, <2>1, <2>2, <2>3, TextNote
<1>12. ASSUME NEW s \in Sessions, ToolEnd(s) PROVE TextInv'
  <2>1. PICK e : Sends(e, s, "tool_end", tool[s], <<>>)
    BY <1>1, <1>12, ToolEndSends
  <2>2. PICK kind : kind = "tool_end"
    OBVIOUS
  <2>3. step[s] \in Busy /\ UNCHANGED <<streams, start, reply, said>> /\ kind \notin {"text", "user"}
        /\ step' = [step EXCEPT ![s] = model] /\ since' \in {since, said[Main]}
    BY <1>2, <1>3, <1>12, <2>2 DEF ToolEnd, turnVars
  <2> QED
    BY <1>2, <2>1, <2>2, <2>3, TextNote
<1>13. ASSUME NEW s \in Sessions, Note(s) PROVE TextInv'
  <2>1. PICK e : Sends(e, s, "note", "none", <<>>)
    BY <1>13, NoteSends
  <2>2. PICK kind : kind = "note"
    OBVIOUS
  <2>3. step[s] \in Busy /\ UNCHANGED <<streams, start, reply, said, since, step>> /\ kind \notin {"text", "user"}
    BY <1>3, <1>13, <2>2 DEF Note, turnVars, saidVars
  <2> QED
    BY <1>2, <2>1, <2>2, <2>3, TextNote
<1>14. CASE SubStarts
  <2>1. PICK e : Sends(e, Sub, "note", "none", <<>>)
    BY <1>14, SubStartsSends
  <2>2. /\ step[Main] \in Busy /\ step'[Main] \in Busy /\ UNCHANGED <<streams, start, reply, said, since>>
    BY <1>1, <1>14 DEF SubStarts, turnVars, saidVars, TimelineAssumption, Sessions, Busy
  <2>3. e \in Row /\ Show(e) /\ e.kind \notin {"text", "user"}
    BY <2>1 DEF Sends, Emit
  <2> QED
    BY <1>1, <2>2, <2>3, TextEvent
<1>15. CASE SubAnswers
  <2>1. step[Main] \in Busy /\ step'[Main] # "off" /\ UNCHANGED <<streams, start, reply, said, since, cut, cutTurn>>
    BY <1>1, <1>15 DEF SubAnswers, WaitInv, SubRuns, turnVars, saidVars, TimelineAssumption, Sessions, Busy
  <2>2. reply = <<>> /\ Replied'
    BY <2>1, BusyHasNoReply DEF TextInv, Replied
  <2>3. /\ timeline' \in Seq(Row) /\ DOMAIN timeline' = DOMAIN timeline
        /\ \A i \in DOMAIN timeline : Like(timeline'[i], timeline[i]) /\ timeline'[i].text = timeline[i].text
    BY <1>1, <1>15, LeftIs DEF SubAnswers
  <2> QED
    BY <1>1, <2>1, <2>2, <2>3, TextInPlace
<1>16. CASE Submit
  BY <1>1, <1>16, SubmitTells
<1>17. CASE Answer
  BY <1>1, <1>17, AnswerTells
<1>18. CASE Break
  <2>1. step[Main] \in Busy /\ step'[Main] # "off" /\ UNCHANGED <<streams, start, reply, said, since, cut, cutTurn>>
    BY <1>1, <1>18 DEF Break, turnVars, saidVars, TimelineAssumption, Sessions, Busy
  <2>2. reply = <<>> /\ Replied'
    BY <2>1, BusyHasNoReply DEF TextInv, Replied
  <2>3. /\ timeline' \in Seq(Row) /\ DOMAIN timeline' = DOMAIN timeline
        /\ \A i \in DOMAIN timeline : Like(timeline'[i], timeline[i]) /\ timeline'[i].text = timeline[i].text
    BY <1>1, <1>18, LeftIs DEF Break
  <2> QED
    BY <1>1, <2>1, <2>2, <2>3, TextInPlace
<1>19. CASE Finish
  BY <1>19, FinishTells
<1>20. CASE UNCHANGED vars
  BY <1>20 DEF vars, turnVars, saidVars, TextInv, Shows, Streamed, Replied, Spoken, Unshown
<1>21. CASE Lands \/ Edited
  <2>1. UNCHANGED <<timeline, streams, start, reply, step, said, since, cut, cutTurn>>
    BY <1>21 DEF Lands, Edited, turnVars, saidVars
  <2>2. \A s : Spoken(s)' = Spoken(s)
    BY <2>1 DEF Spoken, Unshown
  <2>3. Shows' /\ Streamed' /\ Replied'
    BY <2>1, <2>2 DEF TextInv, Shows, Streamed, Replied
  <2> QED
    BY <2>1, <2>3 DEF TextInv
<1> QED
  BY <1>4, <1>5, <1>6, <1>7, <1>8, <1>9, <1>10, <1>11, <1>12, <1>13, <1>14, <1>15, <1>16, <1>17, <1>18,
     <1>19, <1>20, <1>21 DEF Next

(* What the rows show and what the answer of a turn is, in every run.      *)
THEOREM TextInvHolds ==
    ASSUME TimelineAssumption
    PROVE  Spec => []TextInv
<1>1. Init => TextInv
  <2> SUFFICES ASSUME Init PROVE TextInv
    OBVIOUS
  <2>1. /\ timeline = <<>> /\ reply = <<>> /\ since = 0 /\ ~cutTurn
        /\ \A s \in Sessions : said[s] = 0 /\ step[s] = "off"
    BY DEF Init
  <2>2. Main \in Sessions /\ \A s : ~Unshown(s)
    BY <2>1 DEF Sessions, Unshown
  <2>3. Shows
    BY <2>1, <2>2, ShownNone, SpokenIs, CountedNone DEF Shows
  <2> QED
    BY <2>1, <2>2, <2>3 DEF TextInv, Streamed, Replied
<1>2. WaitInv /\ SummaryInv /\ TextInv /\ [Next]_vars => TextInv'
  BY TextKeeps
<1> QED
  BY <1>1, <1>2, WaitInvHolds, SummaryInvHolds, PTL DEF Spec

(* apply_event and _emit_final_response_if_missing: the rows show every    *)
(* piece of text that a session produced, once, in order and under that    *)
(* session.                                                                *)
THEOREM TextShownOnceHolds ==
    ASSUME TimelineAssumption
    PROVE  Spec => []TextShownOnce
<1>1. TextInv => TextShownOnce
  <2> SUFFICES ASSUME TextInv, ~cut, NEW s \in Sessions PROVE ShownBy(s) = Spoken(s)
    BY DEF TextShownOnce
  <2>1. ShownBy(s) = ShownIn(timeline, s)
    BY DEF ShownBy, ShownIn, Pieces, PieceOf
  <2> QED
    BY <2>1 DEF TextInv, Shows
<1> QED
  BY <1>1, TextInvHolds, PTL
=============================================================================
