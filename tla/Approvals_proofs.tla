-------------------------- MODULE Approvals_proofs -------------------------
(***************************************************************************)
(* Approvals on both sides.  At the desk of the terminal interface, for    *)
(* every set of agents and operations and any number of turns and          *)
(* questions: a waiting agent can be given its answer, and the turn that   *)
(* runs is the one Ctrl+C would cancel.  In the runs that change files,    *)
(* for every set of paths, of calls and of edits by the user, and every    *)
(* limit: only files that were approved change, what is told of a call is  *)
(* what it did, and the lines of its diff are counted right.  The two      *)
(* share the user alone, who answers the question of the first and so      *)
(* takes Approve or Deny of the second.                                    *)
(***************************************************************************)
EXTENDS TuiDesk, FileChanges, ListTheorems
-----------------------------------------------------------------------------
(* Questions.  That a waiter can be reached is not inductive by itself: an *)
(* agent that stops waiting clears the entry of its operation, whosever it *)
(* is, so two that wait about one operation must be known as doubled.      *)
QuestionTypes ==
    /\ asked \in Seq(Operations)
    /\ waits \in [Agents -> 0..Len(asked)]
    /\ DOMAIN pending = Operations

SharedIsDoubled ==
    \A a, b \in Agents :
        a # b /\ waits[a] # 0 /\ waits[b] # 0 /\ asked[waits[a]] = asked[waits[b]]
            => waits[a] \in doubled

QuestionInv == QuestionTypes /\ SharedIsDoubled /\ WaiterReachable

\* The operation of a question that somebody waits for.
LEMMA WaitedFor ==
    ASSUME QuestionTypes, NEW a \in Agents, waits[a] # 0
    PROVE  waits[a] \in 1..Len(asked) /\ asked[waits[a]] \in Operations
BY DEF QuestionTypes

LEMMA AskKeeps ==
    ASSUME QuestionInv, NEW a \in Agents, Ask(a)
    PROVE  QuestionInv'
<1> DEFINE n == Len(asked) + 1
<1>1. PICK o \in Operations :
        /\ waits[a] = 0 /\ asked' = Append(asked, o)
        /\ pending' = [pending EXCEPT ![o] = n]
        /\ doubled' = IF Rivals(o) = {} THEN doubled ELSE doubled \cup Rivals(o) \cup {n}
        /\ waits' = [waits EXCEPT ![a] = n]
        /\ answered' = answered
  BY DEF Ask
<1>2. Len(asked) \in Nat /\ Len(asked') = n /\ asked' \in Seq(Operations)
      /\ asked'[n] = o /\ \A k \in 1..Len(asked) : asked'[k] = asked[k]
  BY <1>1, AppendProperties DEF QuestionInv, QuestionTypes
<1>3. QuestionTypes'
  <2>1. 0..Len(asked) \subseteq 0..Len(asked') /\ n \in 0..Len(asked')
    BY <1>2
  <2> QED
    BY <1>1, <1>2, <2>1 DEF QuestionInv, QuestionTypes
<1>4. waits'[a] = n /\ asked'[waits'[a]] = o
  BY <1>1, <1>2 DEF QuestionInv, QuestionTypes
<1>5. ASSUME NEW b \in Agents, b # a, waits[b] # 0
      PROVE  /\ waits'[b] = waits[b] /\ asked'[waits'[b]] = asked[waits[b]]
             /\ asked[waits[b]] \in Operations
             /\ asked[waits[b]] = o => waits[b] \in doubled' /\ n \in doubled'
  <2>1. waits'[b] = waits[b]
    BY <1>1, <1>5 DEF QuestionInv, QuestionTypes
  <2>2. waits[b] \in 1..Len(asked) /\ asked[waits[b]] \in Operations
    BY <1>5, WaitedFor DEF QuestionInv
  <2>3. asked[waits[b]] = o => waits[b] \in Rivals(o)
    BY <1>5 DEF Rivals
  <2> QED
    BY <1>1, <1>2, <2>1, <2>2, <2>3
<1>6. doubled \subseteq doubled'
  BY <1>1
<1>7. SharedIsDoubled'
  <2> SUFFICES ASSUME NEW b \in Agents, NEW c \in Agents, b # c, waits'[b] # 0, waits'[c] # 0,
                      asked'[waits'[b]] = asked'[waits'[c]]
               PROVE  waits'[b] \in doubled'
    BY DEF SharedIsDoubled
  <2>1. CASE b = a
    <3>1. c # a /\ waits[c] # 0
      BY <1>1, <2>1 DEF QuestionInv, QuestionTypes
    <3> QED
      BY <1>4, <1>5, <2>1, <3>1
  <2>2. CASE c = a
    <3>1. b # a /\ waits[b] # 0
      BY <1>1, <2>2 DEF QuestionInv, QuestionTypes
    <3> QED
      BY <1>4, <1>5, <2>2, <3>1
  <2>3. CASE b # a /\ c # a
    <3>1. waits[b] # 0 /\ waits[c] # 0
      BY <1>1, <2>3 DEF QuestionInv, QuestionTypes
    <3> QED
      BY <1>5, <1>6, <2>3, <3>1 DEF QuestionInv, SharedIsDoubled
  <2> QED
    BY <2>1, <2>2, <2>3
<1>8. WaiterReachable'
  <2> SUFFICES ASSUME NEW b \in Agents, waits'[b] # 0
               PROVE  \/ waits'[b] \in answered' \/ pending'[asked'[waits'[b]]] = waits'[b]
                      \/ waits'[b] \in doubled'
    BY DEF WaiterReachable
  <2>1. CASE b = a
    BY <1>1, <1>4, <2>1 DEF QuestionInv, QuestionTypes
  <2>2. CASE b # a
    <3>1. waits[b] # 0
      BY <1>1, <2>2 DEF QuestionInv, QuestionTypes
    <3>2. \/ waits[b] \in answered \/ pending[asked[waits[b]]] = waits[b]
          \/ waits[b] \in doubled
      BY <3>1 DEF QuestionInv, WaiterReachable
    <3>3. CASE asked[waits[b]] = o
      BY <1>5, <2>2, <3>1, <3>3
    <3>4. CASE asked[waits[b]] # o
      <4>1. pending'[asked[waits[b]]] = pending[asked[waits[b]]]
        BY <1>1, <1>5, <2>2, <3>1, <3>4 DEF QuestionInv, QuestionTypes
      <4> QED
        <5>1. answered' = answered
          BY <1>1
        <5>2. waits'[b] = waits[b] /\ asked'[waits'[b]] = asked[waits[b]]
          BY <1>5, <2>2, <3>1
        <5> QED
          BY <1>6, <3>2, <4>1, <5>1, <5>2
    <3> QED
      BY <3>3, <3>4
  <2> QED
    BY <2>1, <2>2
<1> QED
  BY <1>3, <1>7, <1>8 DEF QuestionInv

\* An agent stops waiting, answered or cut off.
LEMMA LeaveKeeps ==
    ASSUME QuestionInv, NEW a \in Agents, waits[a] # 0,
           waits' = [waits EXCEPT ![a] = 0],
           pending' = [pending EXCEPT ![asked[waits[a]]] = 0],
           UNCHANGED <<asked, answered, doubled>>
    PROVE  QuestionInv'
<1>1. QuestionTypes'
  BY DEF QuestionInv, QuestionTypes
<1>2. ASSUME NEW b \in Agents, waits'[b] # 0
      PROVE  b # a /\ waits'[b] = waits[b]
  BY <1>2 DEF QuestionInv, QuestionTypes
<1>3. SharedIsDoubled'
  BY <1>2 DEF QuestionInv, SharedIsDoubled
<1>4. WaiterReachable'
  <2> SUFFICES ASSUME NEW b \in Agents, waits'[b] # 0
               PROVE  \/ waits'[b] \in answered' \/ pending'[asked'[waits'[b]]] = waits'[b]
                      \/ waits'[b] \in doubled'
    BY DEF WaiterReachable
  <2>1. b # a /\ waits'[b] = waits[b]
    BY <1>2
  <2>2. asked[waits[b]] # asked[waits[a]] => pending'[asked[waits[b]]] = pending[asked[waits[b]]]
    BY <2>1, WaitedFor DEF QuestionInv, QuestionTypes
  <2>3. asked[waits[b]] = asked[waits[a]] => waits[b] \in doubled
    BY <2>1 DEF QuestionInv, SharedIsDoubled
  <2> QED
    BY <2>1, <2>2, <2>3 DEF QuestionInv, WaiterReachable
<1> QED
  BY <1>1, <1>3, <1>4 DEF QuestionInv

\* Everything else leaves the waiters alone, or answers questions.
LEMMA OtherKeeps ==
    ASSUME QuestionInv, UNCHANGED <<asked, waits, pending, doubled>>, answered \subseteq answered'
    PROVE  QuestionInv'
BY DEF QuestionInv, QuestionTypes, SharedIsDoubled, WaiterReachable

LEMMA QuestionHolds == DeskSpec => []QuestionInv
<1>1. DeskInit => QuestionInv
  BY DEF DeskInit, QuestionInv, QuestionTypes, SharedIsDoubled, WaiterReachable
<1>2. QuestionInv /\ [DeskNext]_deskVars => QuestionInv'
  <2> SUFFICES ASSUME QuestionInv, [DeskNext]_deskVars PROVE QuestionInv'
    OBVIOUS
  <2>1. ASSUME NEW a \in Agents, Ask(a) PROVE QuestionInv'
    BY <2>1, AskKeeps
  <2>2. ASSUME NEW a \in Agents, Wake(a) PROVE QuestionInv'
    BY <2>2, LeaveKeeps DEF Wake
  <2>3. ASSUME NEW a \in Agents, CutOff(a) PROVE QuestionInv'
    BY <2>3, LeaveKeeps DEF CutOff
  <2>4. ASSUME NEW t \in Turns, TurnReturns(t) \/ Swept(t) \/ SweepCut(t) \/ CancelReturns(t)
        PROVE  QuestionInv'
    BY <2>4, OtherKeeps DEF TurnReturns, Swept, SweepCut, CancelReturns, askVars
  <2>5. ASSUME NEW a \in Agents, AskAgain(a) PROVE QuestionInv'
    BY <2>5, OtherKeeps DEF AskAgain
  <2>6. CASE Refresh \/ Submit \/ Clear \/ UNCHANGED deskVars
    BY <2>6, OtherKeeps DEF Refresh, Submit, Clear, deskVars, askVars
  <2>7. CASE Answer \/ Cancel
    BY <2>7, OtherKeeps DEF Answer, Cancel
  <2> QED
    BY <2>1, <2>2, <2>3, <2>4, <2>5, <2>6, <2>7 DEF DeskNext
<1> QED
  BY <1>1, <1>2, PTL DEF DeskSpec

\* TuiApprovalAdapter: however questions, answers, timeouts and cancellations
\* meet, an agent that waits can be given its answer, unless a second question
\* about the same operation took over its key.
THEOREM WaitersAreReachable == DeskSpec => []WaiterReachable
<1>1. QuestionInv => WaiterReachable
  BY DEF QuestionInv
<1> QED
  BY <1>1, QuestionHolds, PTL
-----------------------------------------------------------------------------
(* Turns.                                                                  *)
TurnTypes ==
    /\ turn \in Seq({"running", "finishing", "over"})
    /\ current \in 0..Len(turn)

TurnInv == TurnTypes /\ TurnTracked

LEMMA TurnHolds == DeskSpec => []TurnInv
<1>1. DeskInit => TurnInv
  BY DEF DeskInit, TurnInv, TurnTypes, TurnTracked, Live, Turns
<1>2. TurnInv /\ [DeskNext]_deskVars => TurnInv'
  <2> SUFFICES ASSUME TurnInv, [DeskNext]_deskVars PROVE TurnInv'
    OBVIOUS
  <2> USE DEF TurnInv, TurnTypes, TurnTracked, Live, Turns
  <2>1. ASSUME UNCHANGED <<turn, current, raced, unswept>>, active' = active \/ active' = FALSE
        PROVE  TurnInv'
    BY <2>1
  <2>2. ASSUME NEW a \in Agents, Ask(a) \/ AskAgain(a) \/ Wake(a) \/ CutOff(a)
        PROVE  TurnInv'
    BY <2>1, <2>2 DEF Ask, AskAgain, Wake, CutOff, turnVars
  <2>3. ASSUME NEW t \in Turns, TurnReturns(t)
        PROVE  TurnInv'
    BY <2>3 DEF TurnReturns
  <2>4. ASSUME NEW t \in Turns, Swept(t)
        PROVE  TurnInv'
    BY <2>4 DEF Swept, EndActive
  <2>5. ASSUME NEW t \in Turns, SweepCut(t)
        PROVE  TurnInv'
    BY <2>5 DEF SweepCut
  <2>6. ASSUME NEW t \in Turns, CancelReturns(t)
        PROVE  TurnInv'
    <3>1. turn' = turn /\ active' = active /\ unswept' = unswept /\ current' = 0 /\ turn[t] = "over"
      BY <2>6 DEF CancelReturns
    <3>2. raced' <=> raced \/ current \notin {0, t}
      BY <2>6, Zenon DEF CancelReturns
    <3>3. current \in {0, t} => Live = {} \/ raced
      BY <3>1
    <3> QED
      BY <3>1, <3>2, <3>3
  <2>7. CASE Refresh \/ Answer \/ Clear \/ UNCHANGED deskVars
    BY <2>1, <2>7 DEF Refresh, Answer, Clear, ClearView, EndActive, deskVars, turnVars
  <2>8. CASE Submit
    <3>1. /\ turn' = Append(turn, "running") /\ current' = Len(turn) + 1 /\ active' = TRUE
          /\ UNCHANGED <<raced, unswept>>
      BY <2>8 DEF Submit
    <3>2. /\ Len(turn) \in Nat /\ Len(turn') = Len(turn) + 1
          /\ turn' \in Seq({"running", "finishing", "over"})
          /\ turn'[Len(turn) + 1] = "running"
          /\ \A k \in 1..Len(turn) : turn'[k] = turn[k]
      BY <3>1, AppendProperties
    <3>3. Live' \subseteq {current'} \/ raced'
      BY <2>8, <3>1, <3>2 DEF Submit, Free
    <3>4. Live' # {}
      BY <3>2
    <3> QED
      BY <3>1, <3>2, <3>3, <3>4
  <2>9. CASE Cancel
    BY <2>9 DEF Cancel, Free
  <2> QED
    BY <2>2, <2>3, <2>4, <2>5, <2>6, <2>7, <2>8, <2>9 DEF DeskNext
<1> QED
  BY <1>1, <1>2, PTL DEF DeskSpec

\* AgentTuiRunner and CancellationController: the turn that runs is the one
\* Ctrl+C would cancel, there is no other, and what is shown as running runs,
\* but for a cancel() that forgot a later turn and a clean-up cut short.
THEOREM RunningTurnIsTracked == DeskSpec => []TurnTracked
<1>1. TurnInv => TurnTracked
  BY DEF TurnInv
<1> QED
  BY <1>1, TurnHolds, PTL
-----------------------------------------------------------------------------
(* Types, as far as they are needed: of an attempt its fields, of the      *)
(* workspace that it is a function of the paths.                           *)

AttemptOf(c, at, content, result, diff) ==
    [call |-> c, at |-> at, content |-> content, result |-> result, diff |-> diff]
Attempt(t) == t = AttemptOf(t.call, t.at, t.content, t.result, t.diff)

\* What can be started: edit_file is turned back before that.
Startable(c) == c \in Calls /\ c.tool \in {"write_file", "replacement", "diff"}

ShapeInv ==
    /\ files = [p \in Paths |-> files[p]]
    /\ edits \in Nat
    /\ threads \in Seq(ToSet(threads))
    /\ \A i \in DOMAIN threads : Attempt(threads[i]) /\ Startable(threads[i].call)
    /\ stage \in {"idle", "asked", "running", "retrying", "over"}
    /\ stage \in {"asked", "running", "retrying"} => Startable(call)
    /\ stage = "running" => Len(threads) > 0

\* What is asked is remembered by the action and the files that are named,
\* whatever the files hold.
KeyOf(c) == <<IF c.tool = "write_file" THEN "create_file" ELSE "edit_file", Named(c)>>

(* An attempt goes on long after its call was answered: that its key was   *)
(* approved is kept with it.                                               *)
AllowedInv ==
    /\ stage \in {"running", "retrying"} => KeyOf(call) \in approved
    /\ \A i \in DOMAIN threads : KeyOf(threads[i].call) \in approved

LEMMA KeyIsOfNames ==
    ASSUME NEW c
    PROVE  /\ Key(Request(c)) = KeyOf(c)
           /\ Key(Request(c))' = KeyOf(c)
<1>1. Key(Request(c)) = KeyOf(c)
  BY DEF Key, Request, KeyOf
<1>2. Key(Request(c))' = KeyOf(c)
  BY DEF Key, Request, KeyOf, Named
<1>. QED
  BY <1>1, <1>2

\* A sequence is one of its own elements.
LEMMA OfItsElements ==
    ASSUME NEW S, NEW s \in Seq(S)
    PROVE  s \in Seq(ToSet(s)) /\ DOMAIN s = 1 .. Len(s) /\ Len(s) \in Nat
<1>1. /\ s \in [1 .. Len(s) -> S] /\ Len(s) \in Nat /\ DOMAIN s = 1 .. Len(s)
  BY LenProperties
<1>2. s \in [1 .. Len(s) -> ToSet(s)]
  BY <1>1 DEF ToSet
<1>3. s \in Seq(ToSet(s))
  BY <1>1, <1>2, SeqDef
<1>. QED
  BY <1>1, <1>3

\* Begin and Retry: one more attempt.
LEMMA OneMore ==
    ASSUME NEW s, s \in Seq(ToSet(s)), NEW t
    PROVE  LET more == Append(s, t) IN
           /\ more \in Seq(ToSet(more))
           /\ Len(more) = Len(s) + 1
           /\ DOMAIN more = 1 .. Len(s) + 1
           /\ Len(s) \in Nat
           /\ \A i \in 1 .. Len(s) : more[i] = s[i]
           /\ more[Len(s) + 1] = t
<1>. DEFINE S == ToSet(s) \cup {t}
            more == Append(s, t)
<1>1. s \in Seq(S)
  BY SeqMonotonic
<1>2. more \in Seq(S) /\ Len(more) = Len(s) + 1
  BY <1>1, AppendProperties
<1>3. /\ \A i \in 1 .. Len(s) : more[i] = s[i]
      /\ more[Len(s) + 1] = t
  BY <1>1, AppendProperties
<1>. HIDE DEF more
<1>4. more \in Seq(ToSet(more)) /\ DOMAIN more = 1 .. Len(more)
  BY <1>2, OfItsElements
<1>5. Len(s) \in Nat
  BY LenProperties
<1>. QED
  BY <1>2, <1>3, <1>4, <1>5 DEF more

\* A step of one attempt.
LEMMA OneChanges ==
    ASSUME NEW s, s \in Seq(ToSet(s)), NEW i \in DOMAIN s, NEW t
    PROVE  LET changed == [s EXCEPT ![i] = t] IN
           /\ changed \in Seq(ToSet(changed))
           /\ Len(changed) = Len(s)
           /\ DOMAIN changed = DOMAIN s
           /\ \A j \in DOMAIN s : changed[j] = IF j = i THEN t ELSE s[j]
<1>. DEFINE S == ToSet(s) \cup {t}
            changed == [s EXCEPT ![i] = t]
<1>1. s \in Seq(S)
  BY SeqMonotonic
<1>2. DOMAIN s = 1 .. Len(s)
  BY LenProperties
<1>3. changed \in Seq(S) /\ Len(changed) = Len(s)
  BY <1>1, <1>2, ExceptSeq
<1>4. \A j \in DOMAIN s : changed[j] = IF j = i THEN t ELSE s[j]
  OBVIOUS
<1>. HIDE DEF changed
<1>5. changed \in Seq(ToSet(changed)) /\ DOMAIN changed = 1 .. Len(changed)
  BY <1>3, OfItsElements
<1>. QED
  BY <1>2, <1>3, <1>4, <1>5 DEF changed

\* Return: the last attempt is taken away.
LEMMA OneLess ==
    ASSUME NEW s, s \in Seq(ToSet(s)), s # <<>>
    PROVE  LET front == Front(s) IN
           /\ front \in Seq(ToSet(front))
           /\ Len(front) = Len(s) - 1
           /\ DOMAIN front = 1 .. Len(s) - 1
           /\ Len(s) \in Nat \ {0}
           /\ \A i \in 1 .. Len(s) - 1 : front[i] = s[i]
<1>. DEFINE front == Front(s)
<1>1. front = SubSeq(s, 1, Len(s) - 1)
  BY DEF Front
<1>2. Len(s) \in Nat \ {0}
  BY EmptySeq
<1>3. /\ front \in Seq(ToSet(s))
      /\ Len(front) = Len(s) - 1
      /\ \A i \in 1 .. Len(s) - 1 : front[i] = s[i]
  <2>1. \A i \in 1 .. Len(s) - 1 : s[i] \in ToSet(s)
    BY <1>2, ElementOfSeq
  <2>2. Len(s) - 1 \in Int /\ 1 \in Int
    BY <1>2
  <2>3. /\ SubSeq(s, 1, Len(s) - 1) \in Seq(ToSet(s))
        /\ Len(SubSeq(s, 1, Len(s) - 1)) = IF 1 <= Len(s) - 1 THEN (Len(s) - 1) - 1 + 1 ELSE 0
        /\ \A i \in 1 .. (Len(s) - 1) - 1 + 1 : SubSeq(s, 1, Len(s) - 1)[i] = s[1 + i - 1]
    BY <2>1, <2>2, SubSeqProperties
  <2>4. ASSUME NEW i \in 1 .. Len(s) - 1
        PROVE  SubSeq(s, 1, Len(s) - 1)[i] = s[i]
    <3>1. i \in 1 .. (Len(s) - 1) - 1 + 1 /\ 1 + i - 1 = i
      BY <1>2
    <3>. QED
      BY <2>3, <3>1
  <2>5. (IF 1 <= Len(s) - 1 THEN (Len(s) - 1) - 1 + 1 ELSE 0) = Len(s) - 1
    BY <1>2
  <2>. QED
    BY <1>1, <2>3, <2>4, <2>5, Zenon
<1>. HIDE DEF front
<1>4. front \in Seq(ToSet(front)) /\ DOMAIN front = 1 .. Len(front)
  BY <1>3, OfItsElements
<1>. QED
  BY <1>2, <1>3, <1>4 DEF front

\* The fields that Done sets.
Ended(r, end, result, diff) == [r EXCEPT !.at = end, !.result = result, !.diff = diff]

LEMMA AttemptFields ==
    ASSUME NEW c, NEW at, NEW content, NEW result, NEW diff
    PROVE  LET t == AttemptOf(c, at, content, result, diff) IN
           /\ t.call = c /\ t.at = at /\ t.content = content /\ t.result = result /\ t.diff = diff
           /\ Attempt(t)
BY DEF AttemptOf, Attempt

LEMMA EndedAttempt ==
    ASSUME NEW r, Attempt(r), NEW end, NEW result, NEW diff
    PROVE  Ended(r, end, result, diff) =
           AttemptOf(r.call, end, r.content, result, diff)
<1>1. PICK c, at, content, old, d : r = AttemptOf(c, at, content, old, d)
  BY DEF Attempt
<1>2. r.call = c /\ r.content = content
  BY <1>1, AttemptFields
<1>3. [AttemptOf(c, at, content, old, d) EXCEPT !.at = end] = AttemptOf(c, end, content, old, d)
  BY DEF AttemptOf
<1>4. [AttemptOf(c, end, content, old, d) EXCEPT !.result = result] = AttemptOf(c, end, content, result, d)
  BY DEF AttemptOf
<1>5. [AttemptOf(c, end, content, result, d) EXCEPT !.diff = diff] = AttemptOf(c, end, content, result, diff)
  BY DEF AttemptOf
<1>. QED
  BY <1>1, <1>2, <1>3, <1>4, <1>5 DEF Ended

LEMMA LookedAttempt ==
    ASSUME NEW r, Attempt(r), NEW at, NEW content
    PROVE  [r EXCEPT !.at = at, !.content = content] =
           AttemptOf(r.call, at, content, r.result, r.diff)
<1>1. PICK c, was, x, result, d : r = AttemptOf(c, was, x, result, d)
  BY DEF Attempt
<1>2. r.call = c /\ r.result = result /\ r.diff = d
  BY <1>1, AttemptFields
<1>3. [AttemptOf(c, was, x, result, d) EXCEPT !.at = at] = AttemptOf(c, at, x, result, d)
  BY DEF AttemptOf
<1>4. [AttemptOf(c, at, x, result, d) EXCEPT !.content = content] = AttemptOf(c, at, content, result, d)
  BY DEF AttemptOf
<1>. QED
  BY <1>1, <1>2, <1>3, <1>4

\* The end of an attempt, whatever its result.
LEMMA AttemptEnds ==
    ASSUME ShapeInv, NEW i \in DOMAIN threads, NEW result, NEW diff, Done(i, result, diff)
    PROVE  /\ threads' \in Seq(ToSet(threads'))
           /\ DOMAIN threads' = DOMAIN threads /\ Len(threads') = Len(threads)
           /\ \A j \in DOMAIN threads : Attempt(threads'[j]) /\ threads'[j].call = threads[j].call
           /\ \A j \in DOMAIN threads : j # i => threads'[j] = threads[j]
           /\ threads'[i].at = "done" /\ threads'[i].result = result /\ threads'[i].diff = diff
<1>. DEFINE t == AttemptOf(threads[i].call, "done", threads[i].content, result, diff)
<1>1. Attempt(threads[i]) /\ threads \in Seq(ToSet(threads))
  BY DEF ShapeInv
<1>2. threads' = [threads EXCEPT ![i] = t]
  <2>1. PICK r : r = threads[i]
    OBVIOUS
  <2>2. PICK end : end = "done"
    OBVIOUS
  <2>3. Ended(r, end, result, diff) = AttemptOf(r.call, end, r.content, result, diff)
    BY <1>1, <2>1, EndedAttempt
  <2>4. threads' = [threads EXCEPT ![i] = Ended(r, end, result, diff)]
    BY <2>1, <2>2 DEF Done, Ended
  <2>. QED
    BY <2>1, <2>2, <2>3, <2>4
<1>3. Attempt(t) /\ t.call = threads[i].call /\ t.at = "done" /\ t.result = result /\ t.diff = diff
  BY AttemptFields
<1>. HIDE DEF t
<1>4. \A j \in DOMAIN threads : Attempt(threads[j])
  BY DEF ShapeInv
<1>5. \A j \in DOMAIN threads : threads'[j] = IF j = i THEN t ELSE threads[j]
  BY <1>1, <1>2, OneChanges
<1>. QED
  BY <1>1, <1>2, <1>3, <1>4, <1>5, OneChanges

\* What Begin leaves behind.
LEMMA Begins ==
    ASSUME ShapeInv, NEW c, Startable(c), threads' = Append(threads, Thread(c))
    PROVE  /\ threads' \in Seq(ToSet(threads'))
           /\ Len(threads) \in Nat /\ Len(threads') = Len(threads) + 1
           /\ DOMAIN threads = 1 .. Len(threads) /\ DOMAIN threads' = 1 .. Len(threads) + 1
           /\ \A j \in DOMAIN threads : threads'[j] = threads[j]
           /\ threads'[Len(threads) + 1] = Thread(c)
           /\ \A j \in DOMAIN threads' : Attempt(threads'[j]) /\ Startable(threads'[j].call)
<1>1. threads \in Seq(ToSet(threads))
  BY DEF ShapeInv
<1>2. /\ threads' \in Seq(ToSet(threads'))
      /\ Len(threads) \in Nat /\ Len(threads') = Len(threads) + 1
      /\ DOMAIN threads' = 1 .. Len(threads) + 1
      /\ \A j \in 1 .. Len(threads) : threads'[j] = threads[j]
      /\ threads'[Len(threads) + 1] = Thread(c)
  BY <1>1, OneMore
<1>3. DOMAIN threads = 1 .. Len(threads)
  BY <1>1, LenProperties
<1>4. Attempt(Thread(c)) /\ Thread(c).call = c
  BY DEF Attempt, AttemptOf, Thread
<1>5. ASSUME NEW j \in DOMAIN threads'
      PROVE  Attempt(threads'[j]) /\ Startable(threads'[j].call)
  <2>1. CASE j \in DOMAIN threads
    BY <2>1, <1>2, <1>3 DEF ShapeInv
  <2>2. CASE j = Len(threads) + 1
    BY <2>2, <1>2, <1>4
  <2>. QED
    BY <1>2, <1>3, <2>1, <2>2
<1>. QED
  BY <1>2, <1>3, <1>5

\* Look: a refusal, or the files as they were read.
LEMMA Looks ==
    ASSUME ShapeInv, NEW i \in DOMAIN threads, Look(i)
    PROVE  \/ \E result \in {"blocked", "error", "approval_required"} : Done(i, result, <<>>)
           \/ /\ threads' \in Seq(ToSet(threads'))
              /\ DOMAIN threads' = DOMAIN threads /\ Len(threads') = Len(threads)
              /\ \A j \in DOMAIN threads : Attempt(threads'[j]) /\ threads'[j].call = threads[j].call
              /\ \A j \in DOMAIN threads : j # i => threads'[j] = threads[j]
              /\ threads'[i].at = "looked" /\ threads'[i].content = files
              /\ threads'[i].diff = threads[i].diff
              /\ threads[i].call.tool = "replacement" => RefusesReplacement(threads[i].call) = ""
<1>. DEFINE c == threads[i].call
            refusal == CASE c.tool = "write_file" -> RefusesWrite(c)
                         [] c.tool = "replacement" -> RefusesReplacement(c)
                         [] c.tool = "diff" -> RefusesDiff(c)
<1>1. refusal \in {"", "blocked", "error", "approval_required"}
  BY DEF ShapeInv, Startable, RefusesWrite, RefusesReplacement, RefusesDiff
<1>2. IF refusal # "" THEN Done(i, refusal, <<>>)
      ELSE threads' = [threads EXCEPT ![i].at = "looked", ![i].content = files]
  BY DEF Look
<1>3. c.tool = "replacement" => refusal = RefusesReplacement(c)
  OBVIOUS
<1>. HIDE DEF refusal
<1>4. CASE refusal = ""
  <2>1. Attempt(threads[i]) /\ threads \in Seq(ToSet(threads))
    BY DEF ShapeInv
  <2>2. PICK r, at, content : r = threads[i] /\ at = "looked" /\ content = files
    OBVIOUS
  <2>3. [r EXCEPT !.at = at, !.content = content] = AttemptOf(r.call, at, content, r.result, r.diff)
    BY <2>1, <2>2, LookedAttempt
  <2>4. threads' = [threads EXCEPT ![i] = [r EXCEPT !.at = at, !.content = content]]
    BY <1>2, <1>4, <2>2
  <2>. DEFINE t == AttemptOf(r.call, at, content, r.result, r.diff)
  <2>5. t.call = threads[i].call /\ t.at = "looked" /\ t.content = files /\ Attempt(t) /\ t.diff = threads[i].diff
    BY <2>2, AttemptFields
  <2>. HIDE DEF t
  <2>6. threads' = [threads EXCEPT ![i] = t]
    BY <2>3, <2>4 DEF t
  <2>7. \A j \in DOMAIN threads : Attempt(threads[j])
    BY DEF ShapeInv
  <2>8. \A j \in DOMAIN threads : threads'[j] = IF j = i THEN t ELSE threads[j]
    BY <2>1, <2>6, OneChanges
  <2>. QED
    BY <1>3, <1>4, <2>1, <2>5, <2>6, <2>7, <2>8, OneChanges
<1>. QED
  BY <1>1, <1>2, <1>4

\* Touch ends an attempt.
LEMMA Touches ==
    ASSUME NEW i \in DOMAIN threads, Touch(i)
    PROVE  \E result \in {"done", "error"} : \E diff : Done(i, result, diff)
BY DEF Touch, TouchWrite, TouchReplacement, TouchDiff, Report, Fail

\* A step of attempt i, of either kind.
LEMMA AttemptSteps ==
    ASSUME ShapeInv, NEW i \in DOMAIN threads, Look(i) \/ Touch(i)
    PROVE  /\ threads' \in Seq(ToSet(threads'))
           /\ DOMAIN threads' = DOMAIN threads /\ Len(threads') = Len(threads)
           /\ \A j \in DOMAIN threads : Attempt(threads'[j]) /\ threads'[j].call = threads[j].call
<1>1. CASE \E result, diff : Done(i, result, diff)
  BY <1>1, AttemptEnds
<1>2. CASE Look(i)
  BY <1>1, <1>2, Looks
<1>3. CASE Touch(i)
  BY <1>1, <1>3, Touches
<1>. QED
  BY <1>2, <1>3

LEMMA ShapeInit == Init => ShapeInv
<1>. SUFFICES ASSUME Init PROVE ShapeInv
  OBVIOUS
<1>1. files = [p \in Paths |-> files[p]]
  BY FilesAssumption DEF Init
<1>2. <<>> \in Seq(ToSet(<<>>)) /\ DOMAIN <<>> = {}
  BY EmptySeq
<1>. QED
  BY <1>1, <1>2 DEF Init, ShapeInv

LEMMA ShapeStep == ShapeInv /\ [Next]_vars => ShapeInv'
<1>. SUFFICES ASSUME ShapeInv, [Next]_vars PROVE ShapeInv'
  OBVIOUS
<1>. USE DEF ShapeInv
<1>1. ASSUME NEW c \in Calls, Call(c) PROVE ShapeInv'
  <2>1. CASE Redirected(c)
    BY <1>1, <2>1 DEF Call
  <2>2. Startable(c) \/ Redirected(c)
    BY FilesAssumption DEF Startable, Redirected
  <2>3. CASE ~Redirected(c) /\ Key(Request(c)) \in approved
    BY <1>1, <2>2, <2>3, Begins DEF Call, Begin
  <2>4. CASE ~Redirected(c) /\ Key(Request(c)) \notin approved
    BY <1>1, <2>2, <2>4 DEF Call
  <2>. QED
    BY <2>1, <2>3, <2>4
<1>2. CASE Approve
  BY <1>2, Begins DEF Approve, Begin
<1>3. CASE Deny
  BY <1>3 DEF Deny
<1>4. ASSUME NEW i \in DOMAIN threads, Look(i) \/ Touch(i) PROVE ShapeInv'
  <2>1. files' = [p \in Paths |-> files'[p]]
    BY <1>4 DEF Look, Touch, TouchWrite, TouchReplacement, TouchDiff, Patched, Torn
  <2>2. UNCHANGED <<edits, stage, call>>
    BY <1>4 DEF Look, Touch
  <2>. QED
    BY <1>4, <2>1, <2>2, AttemptSteps DEF Startable
<1>5. CASE TimeOut
  BY <1>5 DEF TimeOut
<1>6. CASE Retry
  BY <1>6, Begins DEF Retry
<1>7. CASE Return
  <2>1. threads # <<>>
    BY <1>7, EmptySeq DEF Return
  <2>2. threads' = Front(threads)
    BY <1>7 DEF Return
  <2>3. /\ threads' \in Seq(ToSet(threads'))
        /\ DOMAIN threads' = 1 .. Len(threads) - 1
        /\ DOMAIN threads = 1 .. Len(threads)
        /\ Len(threads) \in Nat
        /\ \A i \in 1 .. Len(threads) - 1 : threads'[i] = threads[i]
    BY <2>1, <2>2, OneLess, LenProperties
  <2>4. \A i \in DOMAIN threads' : Attempt(threads'[i]) /\ Startable(threads'[i].call)
    BY <2>3
  <2>. QED
    BY <1>7, <2>3, <2>4 DEF Return
<1>8. ASSUME NEW p \in Paths, NEW content \in Edits, Edit(p, content) PROVE ShapeInv'
  BY <1>8 DEF Edit
<1>9. CASE UNCHANGED vars
  BY <1>9 DEF vars
<1>. QED
  BY <1>1, <1>2, <1>3, <1>4, <1>5, <1>6, <1>7, <1>8, <1>9 DEF Next

-----------------------------------------------------------------------------
(* Only what was approved changes.                                         *)

LEMMA AllowedInit == Init => AllowedInv
BY EmptySeq DEF Init, AllowedInv

LEMMA AllowedStep == ShapeInv /\ AllowedInv /\ [Next]_vars => AllowedInv'
<1>. SUFFICES ASSUME ShapeInv, AllowedInv, [Next]_vars PROVE AllowedInv'
  OBVIOUS
<1>0. \A c : KeyOf(c)' = KeyOf(c)
  BY DEF KeyOf, Named
<1>1. ASSUME NEW c, Startable(c), threads' = Append(threads, Thread(c)), KeyOf(c) \in approved',
             approved \subseteq approved'
      PROVE  \A j \in DOMAIN threads' : KeyOf(threads'[j].call) \in approved'
  <2>1. Thread(c).call = c
    BY DEF Thread
  <2>. QED
    BY <1>1, <2>1, Begins DEF AllowedInv
<1>2. ASSUME NEW c \in Calls, Call(c) PROVE AllowedInv'
  <2>1. Startable(c) \/ Redirected(c)
    BY FilesAssumption DEF Startable, Redirected
  <2>2. CASE ~Redirected(c) /\ Key(Request(c)) \in approved
    <3>1. /\ call' = c /\ approved' = approved /\ threads' = Append(threads, Thread(c))
          /\ KeyOf(c) \in approved
      BY <1>2, <2>2, KeyIsOfNames DEF Call, Begin
    <3>. QED
      BY <1>1, <2>1, <2>2, <3>1 DEF AllowedInv
  <2>3. CASE Redirected(c) \/ Key(Request(c)) \notin approved
    BY <1>2, <2>3 DEF Call, AllowedInv
  <2>. QED
    BY <2>2, <2>3
<1>3. CASE Approve
  <2>1. /\ call' = call /\ threads' = Append(threads, Thread(call))
        /\ approved' = approved \cup {KeyOf(call)} /\ Startable(call)
    BY <1>3, KeyIsOfNames DEF Approve, Begin, ShapeInv
  <2>. QED
    BY <1>1, <2>1 DEF AllowedInv
<1>4. CASE Deny
  BY <1>4 DEF Deny, AllowedInv
<1>5. ASSUME NEW i \in DOMAIN threads, Look(i) \/ Touch(i) PROVE AllowedInv'
  <2>1. UNCHANGED <<approved, stage, call>>
    BY <1>5 DEF Look, Touch
  <2>. QED
    BY <1>5, <2>1, AttemptSteps DEF AllowedInv
<1>6. CASE TimeOut
  BY <1>6 DEF TimeOut, AllowedInv, ShapeInv
<1>7. CASE Retry
  <2>1. /\ call' = call /\ threads' = Append(threads, Thread(call)) /\ approved' = approved
        /\ Startable(call) /\ KeyOf(call) \in approved
    BY <1>7 DEF Retry, ShapeInv, AllowedInv
  <2>. QED
    BY <1>1, <2>1 DEF AllowedInv
<1>8. CASE Return
  <2>1. threads # <<>> /\ DOMAIN threads = 1 .. Len(threads)
    BY <1>8, EmptySeq, LenProperties DEF Return, ShapeInv
  <2>2. threads' = Front(threads) /\ threads \in Seq(ToSet(threads))
    BY <1>8 DEF Return, ShapeInv
  <2>3. /\ DOMAIN threads' = 1 .. Len(threads) - 1 /\ Len(threads) \in Nat
        /\ \A i \in 1 .. Len(threads) - 1 : threads'[i] = threads[i]
    BY <2>1, <2>2, OneLess
  <2>4. approved' = approved /\ stage' = "idle"
    BY <1>8 DEF Return
  <2>. QED
    BY <2>1, <2>3, <2>4 DEF AllowedInv
<1>9. ASSUME NEW p \in Paths, NEW content \in Edits, Edit(p, content) PROVE AllowedInv'
  BY <1>9 DEF Edit, AllowedInv
<1>10. CASE UNCHANGED vars
  BY <1>10 DEF vars, AllowedInv
<1>. QED
  BY <1>2, <1>3, <1>4, <1>5, <1>6, <1>7, <1>8, <1>9, <1>10 DEF Next

\* A file that a patch changes is one it names, the old name of one, or
\* what git takes a name without a prefix for.
LEMMA PatchedNames ==
    ASSUME NEW c, c.tool = "diff", NEW p \in Paths, Patched(files, c.sections)[p] # files[p]
    PROVE  p \in Named(c) \cup Unnamed(c)
<1>1. PICK n \in DOMAIN c.sections : p \in {OldFile(c.sections[n]), NewFile(c.sections[n])}
              /\ (NewFile(c.sections[n]) = p \/ ~ \E k \in DOMAIN c.sections : NewFile(c.sections[k]) = p)
  <2>1. CASE \E n \in DOMAIN c.sections : NewFile(c.sections[n]) = p
    BY <2>1
  <2>2. CASE ~ \E n \in DOMAIN c.sections : NewFile(c.sections[n]) = p
    BY <2>2 DEF Patched
  <2>. QED
    BY <2>1, <2>2
<1>2. PICK s : s = c.sections[n]
  OBVIOUS
<1>3. s \in ToSet(c.sections)
  BY <1>2 DEF ToSet
<1>4. CASE s.bare
  BY <1>1, <1>2, <1>3, <1>4 DEF Unnamed
<1>5. CASE ~s.bare /\ NewFile(s) = p
  BY <1>2, <1>5 DEF Named, NewFile
<1>6. CASE ~s.bare /\ NewFile(s) # p
  <2>1. s.from = p /\ s.from # s.to
    BY <1>1, <1>2, <1>6 DEF OldFile, NewFile
  <2>. QED
    BY <1>3, <2>1 DEF Unnamed
<1>. QED
  BY <1>4, <1>5, <1>6

(* ApprovalService and the tools, for any number of retries, of late       *)
(* attempts and of edits: a file that a tool changes was approved, or is   *)
(* one that an approved patch renames or names without a prefix.           *)
THEOREM ChangesAreApproved == Spec => ChangesApproved
<1>. DEFINE Allowed(p) ==
              \/ NamedByApproval(p)
              \/ \E i \in DOMAIN threads : threads[i].at = "looked" /\ p \in Unnamed(threads[i].call)
                                           /\ Key(Request(threads[i].call)) \in approved
<1>1. ASSUME ShapeInv, AllowedInv, [Next]_vars, edits' = edits,
             NEW p \in Paths, files'[p] # files[p]
      PROVE  Allowed(p)
  <2>1. PICK i \in DOMAIN threads : Touch(i)
    <3>1. ~ \E q \in Paths, content \in Edits : Edit(q, content)
      BY <1>1 DEF Edit, ShapeInv
    <3>. QED
      BY <1>1, <3>1 DEF Next, vars, Call, Approve, Deny, Look, TimeOut, Retry, Return
  <2>. DEFINE c == threads[i].call
  <2>2. /\ threads[i].at = "looked"
        /\ Key(Request(c)) \in approved /\ Key(Request(c)) = KeyOf(c)
    BY <1>1, <2>1, KeyIsOfNames DEF Touch, AllowedInv
  <2>3. p \in Named(c) \cup Unnamed(c)
    <3>1. CASE c.tool = "diff"
      <4>1. TouchDiff(i, c)
        BY <1>1, <2>1, <3>1 DEF Touch
      <4>2. Patched(files, c.sections)[p] # files[p]
        BY <1>1, <4>1 DEF TouchDiff, Torn
      <4>. QED
        BY <3>1, <4>2, PatchedNames
    <3>2. CASE c.tool # "diff"
      <4>1. files' = [files EXCEPT ![c.path] = files'[c.path]]
        BY <1>1, <2>1, <3>2 DEF Touch, TouchWrite, TouchReplacement, ShapeInv
      <4>2. p = c.path
        BY <1>1, <4>1 DEF ShapeInv
      <4>. QED
        BY <3>2, <4>2 DEF Named
    <3>. QED
      BY <3>1, <3>2
  <2>4. KeyOf(c)[2] = Named(c)
    BY DEF KeyOf
  <2>. QED
    BY <2>2, <2>3, <2>4 DEF NamedByApproval
<1>2. ShapeInv /\ AllowedInv /\ [Next]_vars =>
        [edits' = edits => \A p \in Paths : files'[p] # files[p] => Allowed(p)]_vars
  BY <1>1
<1>. QED
  BY <1>2, ShapeInit, ShapeStep, AllowedInit, AllowedStep, PTL DEF Spec, ChangesApproved

-----------------------------------------------------------------------------
(* While no attempt was given up there is one at most, that of the call,   *)
(* and how far it has come says what the files and the count of effects    *)
(* are.                                                                    *)

\* Until the call has done something: the preview is of the files as they are.
Untouched ==
    /\ effects = 0
    /\ edits = 0 => files = before /\ preview \in {<<>>, Request(call).preview}

Completed(t) ==
    /\ t.result \in {"done", "error", "blocked", "approval_required"}
    /\ \/ /\ t.result \in {"done", "error"} /\ effects = 1
          /\ edits = 0 /\ preview # <<>> => files = preview[1]
       \/ /\ t.result # "done" /\ effects = 0
          /\ edits = 0 => files = before

SettledInv ==
    ~late =>
    /\ stage # "retrying"
    /\ stage # "running" => threads = <<>>
    /\ stage = "asked" => Untouched
    /\ stage = "running" =>
         /\ Len(threads) = 1
         /\ threads[1].call = call
         /\ threads[1].at \in {"start", "looked", "done"}
         /\ threads[1].at \in {"start", "looked"} => Untouched
         /\ threads[1].at = "looked" /\ edits = 0 => threads[1].content = files
         /\ threads[1].at = "done" => Completed(threads[1])

LEMMA SettledInit == Init => SettledInv
BY DEF Init, SettledInv

\* The first attempt of a call that has done nothing.
LEMMA BeginsUntouched ==
    ASSUME ShapeInv, SettledInv, ~late, stage # "running", NEW c, Startable(c),
           stage' = "running", call' = c, threads' = Append(threads, Thread(c)), Untouched'
    PROVE  SettledInv'
<1>1. threads = <<>> /\ Len(threads) = 0
  BY EmptySeq DEF SettledInv
<1>2. Len(threads') = 1 /\ threads'[1] = Thread(c)
  BY <1>1, Begins
<1>3. Thread(c).call = c /\ Thread(c).at = "start"
  BY DEF Thread
<1>. QED
  BY <1>2, <1>3 DEF SettledInv

\* What is previewed is what the attempt does to the files that were previewed.
LEMMA TouchAsPreviewed ==
    ASSUME ShapeInv, NEW i \in DOMAIN threads, Touch(i), threads[i].call = call, ~GivenUp(i),
           threads[i].content = files, preview = Request(call).preview, preview # <<>>
    PROVE  files' = preview[1] \/ (Fail(i) /\ UNCHANGED <<files, effects>>)
<1>. DEFINE c == call
<1>0. SUFFICES ASSUME ~(Fail(i) /\ UNCHANGED <<files, effects>>) PROVE files' = preview[1]
  OBVIOUS
<1>1. CASE c.tool = "write_file"
  <2>1. preview = <<[files EXCEPT ![c.path] = c.new]>>
    BY <1>1 DEF Request, PreviewWrite
  <2>2. files' = [files EXCEPT ![c.path] = c.new]
    BY <1>0, <1>1 DEF Touch, TouchWrite
  <2>. QED
    BY <2>1, <2>2
<1>2. CASE c.tool = "replacement"
  <2>1. preview = <<[files EXCEPT ![c.path] = Replaced(@, c.old, c.new)]>>
    BY <1>2 DEF Request, PreviewReplacement
  <2>2. files' = [files EXCEPT ![c.path] = Written(c, files)[c.path]]
    BY <1>0, <1>2 DEF Touch, TouchReplacement
  <2>3. files' = [files EXCEPT ![c.path] = Replaced(@, c.old, c.new)]
    BY <2>2 DEF Written, ShapeInv
  <2>. QED
    BY <2>1, <2>3
<1>3. CASE c.tool = "diff"
  <2>1. preview = <<Patched(files, c.sections)>>
    BY <1>3 DEF Request, PreviewDiff
  <2>2. files' = Patched(files, c.sections)
    BY <1>0, <1>3 DEF Touch, TouchDiff
  <2>. QED
    BY <2>1, <2>2
<1>4. CASE Fail(i) /\ UNCHANGED <<files, effects>>
  BY <1>0, <1>4
<1>. QED
  BY <1>1, <1>2, <1>3, <1>4 DEF Touch

\* The awaited attempt is the only one.
LEMMA OnlyAttempt ==
    ASSUME ShapeInv, SettledInv, ~late, NEW i \in DOMAIN threads
    PROVE  i = 1 /\ stage = "running" /\ DOMAIN threads = {1}
<1>1. DOMAIN threads = 1 .. Len(threads) /\ DOMAIN <<>> = {}
  BY LenProperties DEF ShapeInv
<1>2. stage = "running"
  BY <1>1 DEF SettledInv
<1>3. Len(threads) = 1
  BY <1>2 DEF SettledInv
<1>. QED
  BY <1>1, <1>2, <1>3

LEMMA SettledLook ==
    ASSUME ShapeInv, SettledInv, ~late, NEW i \in DOMAIN threads, Look(i)
    PROVE  SettledInv'
<1>1. i = 1 /\ stage = "running" /\ Len(threads) = 1 /\ threads[1].call = call
  BY OnlyAttempt DEF SettledInv
<1>2. /\ threads[1].at = "start" /\ Untouched
      /\ UNCHANGED <<files, stage, call, preview, before, effects, edits, late>>
  BY <1>1 DEF Look, SettledInv
<1>3. Untouched'
  BY <1>2 DEF Untouched, Request, PreviewWrite, PreviewReplacement, PreviewDiff
<1>4. CASE \E result \in {"blocked", "error", "approval_required"} : Done(i, result, <<>>)
  <2>1. PICK result \in {"blocked", "error", "approval_required"} : Done(i, result, <<>>)
    BY <1>4
  <2>2. /\ Len(threads') = 1 /\ threads'[1].call = call
        /\ threads'[1].at = "done" /\ threads'[1].result = result
    BY <1>1, <2>1, AttemptEnds
  <2>3. threads'[1].result \in {"blocked", "error", "approval_required"}
    BY <2>2
  <2>4. Completed(threads[1])'
    BY <1>3, <2>3 DEF Completed, Untouched
  <2>. QED
    BY <1>1, <1>2, <2>2, <2>4 DEF SettledInv
<1>5. CASE /\ Len(threads') = Len(threads) /\ threads'[i].call = threads[i].call
           /\ threads'[i].at = "looked" /\ threads'[i].content = files
  BY <1>1, <1>2, <1>3, <1>5 DEF SettledInv
<1>. QED
  BY <1>4, <1>5, Looks

LEMMA SettledTouch ==
    ASSUME ShapeInv, SettledInv, ~late, NEW i \in DOMAIN threads, Touch(i)
    PROVE  SettledInv'
<1>1. i = 1 /\ stage = "running" /\ Len(threads) = 1 /\ threads[1].call = call
  BY OnlyAttempt DEF SettledInv
<1>2. /\ threads[1].at = "looked" /\ Untouched /\ (edits = 0 => threads[1].content = files)
      /\ UNCHANGED <<stage, call, preview, before, edits, late>>
  BY <1>1 DEF Touch, SettledInv
<1>3. PICK result \in {"done", "error"} : \E diff : Done(i, result, diff)
  BY Touches
<1>4. /\ Len(threads') = 1 /\ threads'[1].call = call
      /\ threads'[1].at = "done" /\ threads'[1].result = result
  BY <1>1, <1>3, AttemptEnds
<1>5. ~GivenUp(i)
  BY <1>1 DEF GivenUp
<1>6. CASE result = "error" /\ UNCHANGED <<files, effects>>
  <2>1. Completed(threads[1])'
    BY <1>2, <1>4, <1>6 DEF Completed, Untouched
  <2>. QED
    BY <1>1, <1>2, <1>4, <2>1 DEF SettledInv
<1>7. CASE ~(Fail(i) /\ UNCHANGED <<files, effects>>)
  <2>1. Effect(i)
    BY <1>7 DEF Touch, TouchWrite, TouchReplacement, TouchDiff
  <2>2. effects' = 1
    BY <1>1, <1>2, <2>1 DEF Effect, Untouched
  <2>3. edits = 0 /\ preview # <<>> => files' = preview[1]
    BY <1>1, <1>2, <1>5, <1>7, TouchAsPreviewed DEF Untouched
  <2>4. Completed(threads[1])'
    BY <1>2, <1>4, <2>2, <2>3 DEF Completed
  <2>. QED
    BY <1>1, <1>2, <1>4, <2>4 DEF SettledInv
<1>8. CASE Fail(i) /\ UNCHANGED <<files, effects>>
  <2>1. threads'[i].result = "error"
    BY <1>8, AttemptEnds DEF Fail
  <2>. QED
    BY <1>1, <1>4, <1>6, <1>8, <2>1
<1>. QED
  BY <1>7, <1>8

LEMMA SettledStep == ShapeInv /\ SettledInv /\ [Next]_vars => SettledInv'
<1>. SUFFICES ASSUME ShapeInv, SettledInv, [Next]_vars, ~late' PROVE SettledInv'
  BY DEF SettledInv
<1>1. ~late
  BY DEF Next, vars, Call, Approve, Deny, Look, Touch, TimeOut, Retry, Return, Edit
<1>2. ASSUME NEW c \in Calls, Call(c) PROVE SettledInv'
  <2>1. stage = "idle" /\ threads = <<>>
    BY <1>1, <1>2 DEF Call, SettledInv
  <2>2. /\ UNCHANGED <<files, edits, late>> /\ call' = c /\ before' = files /\ effects' = 0
    BY <1>2 DEF Call
  <2>3. Startable(c) \/ Redirected(c)
    BY FilesAssumption DEF Startable, Redirected
  <2>4. CASE Redirected(c)
    BY <1>2, <2>1, <2>2, <2>4 DEF Call, SettledInv
  <2>5. CASE ~Redirected(c) /\ Key(Request(c)) \in approved
    <3>1. preview' = <<>> /\ Begin(c)
      BY <1>2, <2>5 DEF Call
    <3>2. Untouched'
      BY <2>2, <3>1 DEF Untouched
    <3>. QED
      BY <1>1, <2>1, <2>2, <2>3, <2>5, <3>1, <3>2, BeginsUntouched DEF Begin
  <2>6. CASE ~Redirected(c) /\ Key(Request(c)) \notin approved
    <3>1. preview' = Request(c).preview /\ stage' = "asked" /\ threads' = threads
      BY <1>2, <2>6 DEF Call
    <3>2. Request(call)'.preview = Request(c).preview
      BY <2>2 DEF Request, PreviewWrite, PreviewReplacement, PreviewDiff
    <3>3. Untouched'
      BY <2>2, <3>1, <3>2 DEF Untouched
    <3>. QED
      BY <2>1, <3>1, <3>3 DEF SettledInv
  <2>. QED
    BY <2>4, <2>5, <2>6
<1>3. CASE Approve
  <2>1. UNCHANGED <<files, call, preview, before, effects, edits>> /\ stage = "asked" /\ Begin(call)
    BY <1>3 DEF Approve
  <2>2. Untouched
    BY <1>1, <2>1 DEF SettledInv
  <2>3. Untouched'
    BY <2>1, <2>2 DEF Untouched, Request, PreviewWrite, PreviewReplacement, PreviewDiff
  <2>4. Startable(call)
    BY <2>1 DEF ShapeInv
  <2>. QED
    BY <1>1, <2>1, <2>3, <2>4, BeginsUntouched DEF Begin
<1>4. CASE Deny
  BY <1>1, <1>4 DEF Deny, SettledInv
<1>5. ASSUME NEW i \in DOMAIN threads, Look(i) \/ Touch(i) PROVE SettledInv'
  BY <1>1, <1>5, SettledLook, SettledTouch
<1>6. ~TimeOut
  BY DEF TimeOut
<1>7. ~Retry
  BY <1>1 DEF Retry, SettledInv
<1>8. CASE Return
  <2>1. stage = "running" /\ stage' = "idle" /\ threads' = Front(threads)
    BY <1>8 DEF Return
  <2>2. Len(threads) = 1 /\ threads # <<>> /\ threads \in Seq(ToSet(threads))
    BY <1>1, <2>1, EmptySeq DEF SettledInv, ShapeInv
  <2>3. Len(threads') = 0 /\ threads' \in Seq(ToSet(threads'))
    BY <2>1, <2>2, OneLess
  <2>4. threads' = <<>>
    BY <2>3, EmptySeq
  <2>. QED
    BY <2>1, <2>4 DEF SettledInv
<1>9. ASSUME NEW p \in Paths, NEW content \in Edits, Edit(p, content) PROVE SettledInv'
  <2>1. /\ UNCHANGED <<stage, call, preview, threads, effects, late>>
        /\ edits' # 0
    BY <1>9 DEF Edit, ShapeInv
  <2>2. Untouched => Untouched'
    BY <2>1 DEF Untouched
  <2>3. Completed(threads[1]) => Completed(threads[1])'
    BY <2>1 DEF Completed
  <2>. QED
    BY <1>1, <2>1, <2>2, <2>3 DEF SettledInv
<1>10. CASE UNCHANGED vars
  <2>1. Untouched => Untouched'
    BY <1>10 DEF vars, Untouched, Request, PreviewWrite, PreviewReplacement, PreviewDiff
  <2>2. Completed(threads[1]) => Completed(threads[1])'
    BY <1>10 DEF vars, Completed
  <2>. QED
    BY <1>1, <1>10, <2>1, <2>2 DEF vars, SettledInv
<1>. QED
  BY <1>2, <1>3, <1>4, <1>5, <1>6, <1>7, <1>8, <1>9, <1>10 DEF Next

(* What the model and the user are told of a call is what it did, for any  *)
(* calls: done exactly once, or not at all, or at most once if it failed,  *)
(* and done to the files as the user saw it before approving it, unless    *)
(* the user changed them, or an attempt was given up while its thread went *)
(* on.                                                                     *)
THEOREM CallsAreAsPreviewed == Spec => AsPreviewed
<1>1. ASSUME ShapeInv, SettledInv, [Next]_vars, stage = "running", stage' = "idle", ~late'
      PROVE  /\ effects \in CASE told'.result = "done" -> {1}
                              [] told'.result = "error" -> {0, 1}
                              [] OTHER -> {0}
             /\ edits = 0 /\ effects = 0 => files = before
             /\ edits = 0 /\ effects = 1 /\ preview # <<>> => files = preview[1]
  <2>1. Return
    BY <1>1 DEF Next, vars, Call, Approve, Deny, Look, Touch, TimeOut, Retry, Edit
  <2>2. ~late /\ Len(threads) = 1
    BY <1>1, <2>1 DEF Return, SettledInv
  <2>3. threads[1].at = "done" /\ told'.result = threads[1].result
    BY <2>1, <2>2 DEF Return
  <2>4. Completed(threads[1])
    BY <1>1, <2>2, <2>3 DEF SettledInv
  <2>. QED
    BY <2>3, <2>4 DEF Completed
<1>2. ShapeInv /\ SettledInv /\ [Next]_vars =>
        [stage = "running" /\ stage' = "idle" /\ ~late' =>
         /\ effects \in CASE told'.result = "done" -> {1}
                          [] told'.result = "error" -> {0, 1}
                          [] OTHER -> {0}
         /\ edits = 0 /\ effects = 0 => files = before
         /\ edits = 0 /\ effects = 1 /\ preview # <<>> => files = preview[1]]_vars
  BY <1>1
<1>. QED
  BY <1>2, ShapeInit, ShapeStep, SettledInit, SettledStep, PTL DEF Spec, AsPreviewed
-----------------------------------------------------------------------------
(* Sums.  Total is a recursive function: that its equation has a solution  *)
(* is shown by extending one for 0..n to n + 1.                            *)

Totals(h, f, n) == h = [k \in 0..n |-> IF k = 0 THEN 0 ELSE h[k - 1] + f[k]]

LEMMA TotalsExists ==
    ASSUME NEW f
    PROVE  \A n \in Nat : \E h : Totals(h, f, n)
<1> DEFINE S == {n \in Nat : \E h : Totals(h, f, n)}
<1>1. 0 \in S
  <2>1. Totals([k \in 0..0 |-> 0], f, 0)
    BY DEF Totals
  <2> QED
    BY <2>1
<1>2. ASSUME NEW n \in S PROVE n + 1 \in S
  <2>1. PICK h : Totals(h, f, n)
    OBVIOUS
  <2> DEFINE g == [k \in 0..(n + 1) |-> IF k \in 0..n THEN h[k] ELSE h[k - 1] + f[k]]
  <2>2. \A k \in 0..(n + 1) : g[k] = IF k = 0 THEN 0 ELSE g[k - 1] + f[k]
    <3> SUFFICES ASSUME NEW k \in 0..(n + 1)
                 PROVE  g[k] = IF k = 0 THEN 0 ELSE g[k - 1] + f[k]
      OBVIOUS
    <3>1. k # 0 => k - 1 \in 0..n
      OBVIOUS
    <3>2. k # 0 => g[k - 1] = h[k - 1]
      BY <3>1
    <3>3. k \in 0..n => h[k] = IF k = 0 THEN 0 ELSE h[k - 1] + f[k]
      BY <2>1 DEF Totals
    <3> QED
      BY <3>1, <3>2, <3>3
  <2>3. g = [k \in 0..(n + 1) |-> g[k]]
    OBVIOUS
  <2> HIDE DEF g
  <2>4. Totals(g, f, n + 1)
    BY <2>2, <2>3 DEF Totals
  <2> QED
    BY <2>4
<1> HIDE DEF S
<1>3. S = Nat
  BY <1>1, <1>2, SetInduction DEF S
<1> QED
  BY <1>3 DEF S

\* A sum over the first n depends on the first n only.
LEMMA TotalsAlike ==
    ASSUME NEW n \in Nat, NEW m \in Nat, n <= m, NEW f, NEW g, Alike(f, g, n),
           NEW h, NEW j, Totals(h, f, n), Totals(j, g, m)
    PROVE  \A k \in 0..n : h[k] = j[k]
<1> DEFINE S == {k \in Nat : k \in 0..n => h[k] = j[k]}
<1>1. \A k \in 0..n : h[k] = IF k = 0 THEN 0 ELSE h[k - 1] + f[k]
  BY DEF Totals
<1>2. \A k \in 0..m : j[k] = IF k = 0 THEN 0 ELSE j[k - 1] + g[k]
  BY DEF Totals
<1>3. 0 \in S
  <2>1. 0 \in 0..n /\ 0 \in 0..m
    OBVIOUS
  <2> QED
    BY <1>1, <1>2, <2>1
<1>4. ASSUME NEW k \in S PROVE k + 1 \in S
  <2> SUFFICES ASSUME k + 1 \in 0..n PROVE h[k + 1] = j[k + 1]
    OBVIOUS
  <2>1. k \in 0..n /\ k + 1 \in 0..m /\ k + 1 # 0 /\ (k + 1) - 1 = k /\ k + 1 \in 1..n
    OBVIOUS
  <2>2. h[k] = j[k] /\ f[k + 1] = g[k + 1]
    BY <2>1 DEF Alike
  <2>3. h[k + 1] = h[k] + f[k + 1]
    BY <1>1, <2>1
  <2>4. j[k + 1] = j[k] + g[k + 1]
    BY <1>2, <2>1
  <2> QED
    BY <2>2, <2>3, <2>4
<1>5. S \in SUBSET Nat
  OBVIOUS
<1> HIDE DEF S
<1>6. S = Nat
  BY <1>3, <1>4, <1>5, SetInduction
<1>7. \A k \in 0..n : k \in Nat
  OBVIOUS
<1> QED
  BY <1>6, <1>7 DEF S

LEMMA TotalIs ==
    ASSUME NEW f, NEW n \in Nat
    PROVE  \E h : Totals(h, f, n) /\ Total(f, n) = h[n]
<1> DEFINE sum == CHOOSE h : h = [k \in 0..n |-> IF k = 0 THEN 0 ELSE h[k - 1] + f[k]]
<1>1. Total(f, n) = sum[n]
  BY DEF Total
<1>2. \E h : h = [k \in 0..n |-> IF k = 0 THEN 0 ELSE h[k - 1] + f[k]]
  BY TotalsExists DEF Totals
<1>3. sum = [k \in 0..n |-> IF k = 0 THEN 0 ELSE sum[k - 1] + f[k]]
  BY <1>2
<1> HIDE DEF sum
<1> QED
  BY <1>1, <1>3 DEF Totals

LEMMA TotalSame ==
    ASSUME NEW n \in Nat, NEW f, NEW g, Alike(f, g, n)
    PROVE  Total(f, n) = Total(g, n)
<1>1. PICK h : Totals(h, f, n) /\ Total(f, n) = h[n]
  BY TotalIs
<1>2. PICK j : Totals(j, g, n) /\ Total(g, n) = j[n]
  BY TotalIs
<1>3. n <= n /\ n \in 0..n
  OBVIOUS
<1>4. \A k \in 0..n : h[k] = j[k]
  BY <1>1, <1>2, <1>3, TotalsAlike
<1> QED
  BY <1>1, <1>2, <1>3, <1>4

LEMMA TotalStep ==
    ASSUME NEW f, NEW n \in Nat
    PROVE  Total(f, 0) = 0 /\ Total(f, n + 1) = Total(f, n) + f[n + 1]
<1>1. Total(f, 0) = 0
  <2>1. PICK h : Totals(h, f, 0) /\ Total(f, 0) = h[0]
    BY TotalIs
  <2>2. h[0] = 0
    BY <2>1 DEF Totals
  <2> QED
    BY <2>1, <2>2
<1>2. PICK m \in Nat : m = n + 1
  OBVIOUS
<1>3. PICK h : Totals(h, f, n) /\ Total(f, n) = h[n]
  BY TotalIs
<1>4. PICK j : Totals(j, f, m) /\ Total(f, m) = j[m]
  BY TotalIs
<1>5. n <= m /\ Alike(f, f, n) /\ n \in 0..n
  BY <1>2 DEF Alike
<1>6. h[n] = j[n]
  BY <1>3, <1>4, <1>5, TotalsAlike
<1>7. j[m] = j[m - 1] + f[m]
  <2>1. m \in 0..m /\ m # 0
    BY <1>2
  <2> QED
    BY <1>4, <2>1 DEF Totals
<1>8. m - 1 = n
  BY <1>2
<1> QED
  BY <1>1, <1>2, <1>3, <1>4, <1>6, <1>7, <1>8

LEMMA TotalNat ==
    ASSUME NEW f, NEW n \in Nat, \A k \in 1..n : f[k] \in Nat
    PROVE  Total(f, n) \in Nat
<1> DEFINE S == {k \in Nat : k \in 0..n => Total(f, k) \in Nat}
<1>1. 0 \in S
  <2>1. Total(f, 0) = 0
    BY TotalStep
  <2> QED
    BY <2>1
<1>2. ASSUME NEW k \in S PROVE k + 1 \in S
  <2> SUFFICES ASSUME k + 1 \in 0..n PROVE Total(f, k + 1) \in Nat
    OBVIOUS
  <2>1. k \in Nat /\ k \in 0..n /\ k + 1 \in 1..n
    OBVIOUS
  <2>2. Total(f, k + 1) = Total(f, k) + f[k + 1]
    BY <2>1, TotalStep
  <2> QED
    BY <2>1, <2>2
<1>3. S \in SUBSET Nat
  OBVIOUS
<1> HIDE DEF S
<1>4. S = Nat
  BY <1>1, <1>2, <1>3, SetInduction
<1>5. n \in 0..n
  OBVIOUS
<1> QED
  BY <1>4, <1>5 DEF S

\* One number more in one place.
Bumped(f, g, n, j, v) ==
    \A k \in 1..n : f[k] \in Nat /\ g[k] = IF k = j THEN f[k] + v ELSE f[k]

LEMMA TotalBump ==
    ASSUME NEW n \in Nat, NEW f, NEW g, NEW j \in 1..n, NEW v \in Nat, Bumped(f, g, n, j, v)
    PROVE  Total(g, n) = Total(f, n) + v
<1> DEFINE S == {k \in Nat : k \in 0..n => /\ Total(f, k) \in Nat
                                           /\ Total(g, k) = Total(f, k) + (IF j <= k THEN v ELSE 0)}
<1>1. 0 \in S
  <2>1. Total(f, 0) = 0 /\ Total(g, 0) = 0
    BY TotalStep
  <2>2. ~(j <= 0)
    OBVIOUS
  <2> QED
    BY <2>1, <2>2
<1>2. ASSUME NEW k \in S PROVE k + 1 \in S
  <2> SUFFICES ASSUME k + 1 \in 0..n
               PROVE  /\ Total(f, k + 1) \in Nat
                      /\ Total(g, k + 1) = Total(f, k + 1) + (IF j <= k + 1 THEN v ELSE 0)
    OBVIOUS
  <2>1. k \in Nat /\ k \in 0..n /\ k + 1 \in 1..n
    OBVIOUS
  <2>2. Total(f, k) \in Nat /\ Total(g, k) = Total(f, k) + (IF j <= k THEN v ELSE 0)
    BY <2>1
  <2>3. Total(f, k + 1) = Total(f, k) + f[k + 1] /\ Total(g, k + 1) = Total(g, k) + g[k + 1]
    BY <2>1, TotalStep
  <2>4. f[k + 1] \in Nat /\ g[k + 1] = IF k + 1 = j THEN f[k + 1] + v ELSE f[k + 1]
    BY <2>1 DEF Bumped
  <2> HIDE DEF S
  <2>5. CASE k + 1 = j
    BY <2>1, <2>2, <2>3, <2>4, <2>5
  <2>6. CASE j <= k
    BY <2>1, <2>2, <2>3, <2>4, <2>6
  <2>7. CASE j > k + 1
    BY <2>1, <2>2, <2>3, <2>4, <2>7
  <2> QED
    BY <2>1, <2>5, <2>6, <2>7
<1>3. S \in SUBSET Nat
  OBVIOUS
<1> HIDE DEF S
<1>4. S = Nat
  BY <1>1, <1>2, <1>3, SetInduction
<1>5. n \in 0..n /\ j <= n
  OBVIOUS
<1> QED
  BY <1>4, <1>5 DEF S

\* A sum is positive where one of its numbers is.
LEMMA TotalPositive ==
    ASSUME NEW n \in Nat, NEW f, \A k \in 1..n : f[k] \in Nat
    PROVE  Total(f, n) > 0 <=> \E k \in 1..n : f[k] > 0
<1> DEFINE S == {m \in Nat : m \in 0..n => /\ Total(f, m) \in Nat
                                           /\ Total(f, m) > 0 <=> \E k \in 1..m : f[k] > 0}
<1>1. 0 \in S
  <2>1. Total(f, 0) = 0
    BY TotalStep
  <2> QED
    BY <2>1
<1>2. ASSUME NEW m \in S PROVE m + 1 \in S
  <2> SUFFICES ASSUME m + 1 \in 0..n
               PROVE  /\ Total(f, m + 1) \in Nat
                      /\ Total(f, m + 1) > 0 <=> \E k \in 1..(m + 1) : f[k] > 0
    OBVIOUS
  <2>1. m \in Nat /\ m \in 0..n /\ m + 1 \in 1..n
    OBVIOUS
  <2>2. Total(f, m) \in Nat /\ (Total(f, m) > 0 <=> \E k \in 1..m : f[k] > 0)
    BY <2>1
  <2>3. Total(f, m + 1) = Total(f, m) + f[m + 1]
    BY <2>1, TotalStep
  <2>4. f[m + 1] \in Nat
    BY <2>1
  <2>5. \A k \in 1..(m + 1) : k = m + 1 \/ k \in 1..m
    BY <2>1
  <2>6. \A k \in 1..m : k \in 1..(m + 1)
    BY <2>1
  <2>7. m + 1 \in 1..(m + 1)
    BY <2>1
  <2> HIDE DEF S
  <2>8. (\E k \in 1..(m + 1) : f[k] > 0) <=> (\E k \in 1..m : f[k] > 0) \/ f[m + 1] > 0
    BY <2>5, <2>6, <2>7
  <2> QED
    BY <2>2, <2>3, <2>4, <2>8
<1>3. S \in SUBSET Nat
  OBVIOUS
<1> HIDE DEF S
<1>4. S = Nat
  BY <1>1, <1>2, <1>3, SetInduction
<1>5. n \in 0..n
  OBVIOUS
<1> QED
  BY <1>4, <1>5 DEF S

(* Counting the members of a set below a bound.                            *)
LEMMA CountStep ==
    ASSUME NEW X, NEW n \in Nat
    PROVE  /\ Cardinality(X \cap (1..0)) = 0
           /\ Cardinality(X \cap (1..n)) \in Nat
           /\ Cardinality(X \cap (1..(n + 1)))
                = Cardinality(X \cap (1..n)) + (IF n + 1 \in X THEN 1 ELSE 0)
<1> DEFINE B == X \cap (1..n)
<1>1. IsFiniteSet(B) /\ Cardinality(B) \in Nat
  <2>1. IsFiniteSet(1..n)
    BY FS_Interval
  <2>2. IsFiniteSet(B)
    BY <2>1, FS_Subset
  <2> QED
    BY <2>2, FS_CardinalityType
<1>2. X \cap (1..0) = {}
  OBVIOUS
<1>3. n + 1 \notin B /\ X \cap (1..(n + 1)) = IF n + 1 \in X THEN B \cup {n + 1} ELSE B
  <2>1. 1..(n + 1) = (1..n) \cup {n + 1} /\ n + 1 \notin 1..n
    OBVIOUS
  <2> QED
    BY <2>1
<1>4. Cardinality({}) = 0
  BY FS_EmptySet
<1>5. Cardinality(B \cup {n + 1}) = Cardinality(B) + 1
  BY <1>1, <1>3, FS_AddElement
<1> QED
  BY <1>1, <1>2, <1>3, <1>4, <1>5
-----------------------------------------------------------------------------
(* What the lines of a diff add to its sections.                           *)
Signs == {"+", "-"}
Names == Paths \cup {Absent} \cup Lines \cup {Dash, Plus, Decrement, Increment}

\* What counts as an added or a removed line.
Marks(sign) == IF sign = "+" THEN {"+", "+++x"} ELSE {"-", "---x"}
Marked == {"+", "+++x", "-", "---x"}

\* A header, or a line with a sign, which may look like one.
DiffLine ==
    {l \in [looks : {"diff", "---", "+++", "@@"} \cup Marked, path : Names, sign : {"", "+", "-"}] :
        \/ l.sign = "" /\ l.looks \in {"diff", "---", "@@"}
        \/ l.sign = "" /\ l.looks = "+++" /\ l.path \in Paths
        \/ l.sign = "+" /\ l.looks \in {"+", "+++x", "+++"}
        \/ l.sign = "-" /\ l.looks \in {"-", "---x", "---"}}

SectionType == [path : Names, added : Nat, removed : Nat, hunk : BOOLEAN]

\* What a section adds to the sum over the paths in P.
Share(s, sign, P) == IF s.path \in P THEN Amount(s, sign) ELSE 0
SumIn(ss, sign, P) == Total([k \in DOMAIN ss |-> Share(ss[k], sign, P)], Len(ss))

LEMMA ShareNat ==
    ASSUME NEW s \in SectionType, NEW sign \in Signs, NEW P
    PROVE  Amount(s, sign) \in Nat /\ Share(s, sign, P) \in Nat
BY DEF SectionType, Signs, Amount, Share

LEMMA CountedIs ==
    ASSUME NEW s \in SectionType, NEW l \in DiffLine, NEW sign \in Signs
    PROVE  /\ Counted(s, l) \in SectionType
           /\ Counted(s, l).path = IF l.looks = "+++" THEN l.path ELSE s.path
           /\ Amount(Counted(s, l), sign) = Amount(s, sign) + (IF l.looks \in Marks(sign) THEN 1 ELSE 0)
<1>1. PICK p \in Names, a \in Nat, r \in Nat, h \in BOOLEAN :
        s = [path |-> p, added |-> a, removed |-> r, hunk |-> h]
  BY DEF SectionType
<1>2. l.path \in Names /\ l.looks \in {"diff", "---", "+++", "@@", "+", "+++x", "-", "---x"}
  BY DEF DiffLine, Marked
<1>3. CASE l.looks = "+++"
  <2>1. Counted(s, l) = [path |-> l.path, added |-> a, removed |-> r, hunk |-> h]
    BY <1>1, <1>3 DEF Counted
  <2> QED
    BY <1>1, <1>2, <1>3, <2>1 DEF Amount, Signs, Marks, SectionType
<1>4. CASE l.looks = "@@"
  <2>1. PICK y \in BOOLEAN : y = TRUE
    OBVIOUS
  <2>2. Counted(s, l) = [path |-> p, added |-> a, removed |-> r, hunk |-> y]
    BY <1>1, <1>4, <2>1 DEF Counted
  <2> QED
    BY <1>1, <1>2, <1>4, <2>2 DEF Amount, Signs, Marks, SectionType
<1>5. CASE l.looks \in {"+", "+++x"}
  <2>1. Counted(s, l) = [path |-> p, added |-> a + 1, removed |-> r, hunk |-> h]
    BY <1>1, <1>5 DEF Counted
  <2> QED
    BY <1>1, <1>2, <1>5, <2>1 DEF Amount, Signs, Marks, SectionType
<1>6. CASE l.looks \in {"-", "---x"}
  <2>1. Counted(s, l) = [path |-> p, added |-> a, removed |-> r + 1, hunk |-> h]
    BY <1>1, <1>6 DEF Counted
  <2> QED
    BY <1>1, <1>2, <1>6, <2>1 DEF Amount, Signs, Marks, SectionType
<1>7. CASE l.looks \in {"diff", "---"}
  <2>1. Counted(s, l) = s
    BY <1>7 DEF Counted
  <2> QED
    BY <1>1, <1>2, <1>7, <2>1 DEF Amount, Signs, Marks, SectionType
<1> QED
  BY <1>2, <1>3, <1>4, <1>5, <1>6, <1>7

LEMMA NewSectionIs ==
    ASSUME NEW p \in Names, NEW sign \in Signs
    PROVE  NewSection(p) \in SectionType /\ NewSection(p).path = p /\ Amount(NewSection(p), sign) = 0
BY DEF NewSection, SectionType, Amount, Signs

\* One section more, and another last section.
LEMMA SumAppend ==
    ASSUME NEW ss \in Seq(SectionType), NEW s \in SectionType, NEW sign \in Signs, NEW P
    PROVE  SumIn(Append(ss, s), sign, P) = SumIn(ss, sign, P) + Share(s, sign, P)
<1> DEFINE f == [k \in DOMAIN ss |-> Share(ss[k], sign, P)]
<1>1. PICK tt \in Seq(SectionType) : tt = Append(ss, s)
  BY AppendProperties
<1>2. PICK n \in Nat : n = Len(ss)
  OBVIOUS
<1>3. Len(tt) = n + 1 /\ tt[n + 1] = s /\ \A k \in 1..n : tt[k] = ss[k]
  BY <1>1, <1>2, AppendProperties
<1>4. DOMAIN ss = 1..n /\ DOMAIN tt = 1..(n + 1)
  BY <1>2, <1>3
<1> DEFINE g == [k \in DOMAIN tt |-> Share(tt[k], sign, P)]
<1>5. Alike(g, f, n) /\ g[n + 1] = Share(s, sign, P)
  BY <1>3, <1>4 DEF Alike
<1> HIDE DEF f, g
<1>6. Total(g, n) = Total(f, n) /\ Total(g, n + 1) = Total(g, n) + g[n + 1]
  BY <1>5, TotalSame, TotalStep
<1> QED
  BY <1>1, <1>2, <1>3, <1>5, <1>6 DEF SumIn, f, g

LEMMA SumNat ==
    ASSUME NEW ss \in Seq(SectionType), NEW sign \in Signs, NEW P
    PROVE  SumIn(ss, sign, P) \in Nat
<1> DEFINE f == [k \in DOMAIN ss |-> Share(ss[k], sign, P)]
<1>1. Len(ss) \in Nat /\ DOMAIN ss = 1..Len(ss)
  OBVIOUS
<1>2. \A k \in 1..Len(ss) : ss[k] \in SectionType
  OBVIOUS
<1>3. \A k \in 1..Len(ss) : f[k] \in Nat
  BY <1>1, <1>2, ShareNat
<1> HIDE DEF f
<1>4. Total(f, Len(ss)) \in Nat
  BY <1>1, <1>3, TotalNat
<1> QED
  BY <1>4 DEF SumIn, f

LEMMA SumLast ==
    ASSUME NEW ss \in Seq(SectionType), ss # <<>>, NEW s \in SectionType, NEW sign \in Signs, NEW P,
           NEW tt \in Seq(SectionType), Len(tt) = Len(ss), tt[Len(ss)] = s,
           \A k \in 1..(Len(ss) - 1) : tt[k] = ss[k]
    PROVE  /\ tt # <<>> /\ Last(tt) = s /\ Last(ss) \in SectionType
           /\ SumIn(tt, sign, P) + Share(Last(ss), sign, P) = SumIn(ss, sign, P) + Share(s, sign, P)
<1>1. PICK n \in Nat : Len(ss) = n + 1
  <2>1. Len(ss) \in Nat \ {0}
    OBVIOUS
  <2>2. Len(ss) - 1 \in Nat /\ Len(ss) = (Len(ss) - 1) + 1
    BY <2>1
  <2> QED
    BY <2>2
<1>2. DOMAIN ss = 1..(n + 1) /\ ss[n + 1] \in SectionType /\ \A k \in 1..(n + 1) : ss[k] \in SectionType
  BY <1>1
<1>3. /\ Len(tt) = n + 1 /\ DOMAIN tt = 1..(n + 1)
      /\ tt[n + 1] = s /\ \A k \in 1..n : tt[k] = ss[k]
  BY <1>1, <1>2
<1> DEFINE f == [k \in DOMAIN ss |-> Share(ss[k], sign, P)]
           g == [k \in DOMAIN tt |-> Share(tt[k], sign, P)]
<1>4. Alike(g, f, n) /\ g[n + 1] = Share(s, sign, P) /\ f[n + 1] = Share(ss[n + 1], sign, P)
  BY <1>2, <1>3 DEF Alike
<1>5. \A k \in 1..n : f[k] \in Nat
  BY <1>2, ShareNat
<1>6. f[n + 1] \in Nat /\ g[n + 1] \in Nat
  BY <1>2, <1>4, ShareNat
<1>7. SumIn(ss, sign, P) = Total(f, n + 1) /\ SumIn(tt, sign, P) = Total(g, n + 1)
  BY <1>1, <1>3 DEF SumIn
<1> HIDE DEF f, g
<1>8. Total(g, n) = Total(f, n) /\ Total(f, n) \in Nat
  BY <1>4, <1>5, TotalSame, TotalNat
<1>9. Total(g, n + 1) = Total(g, n) + g[n + 1] /\ Total(f, n + 1) = Total(f, n) + f[n + 1]
  BY TotalStep
<1>10. Last(ss) = ss[n + 1] /\ Last(tt) = s /\ tt # <<>>
  BY <1>1, <1>3 DEF Last
<1> QED
  BY <1>2, <1>3, <1>4, <1>6, <1>7, <1>8, <1>9, <1>10

(* A line: a section of its own, or a part of the last one.                *)
NewPart(ss, l) == l.looks = "diff" \/ (l.looks = "---" /\ EndsSection(ss))

LEMMA ParseNew ==
    ASSUME NEW ss \in Seq(SectionType), NEW l \in DiffLine, NewPart(ss, l)
    PROVE  /\ Parse(ss, l) \in Seq(SectionType) /\ Parse(ss, l) # <<>>
           /\ Last(Parse(ss, l)) = NewSection(l.path)
           /\ \A sign \in Signs : \A P : SumIn(Parse(ss, l), sign, P) = SumIn(ss, sign, P)
<1>1. l.path \in Names
  BY DEF DiffLine
<1>2. PICK s \in SectionType : s = NewSection(l.path)
  BY <1>1, NewSectionIs DEF Signs
<1>3. PICK tt \in Seq(SectionType) : tt = Append(ss, s)
  BY AppendProperties
<1>4. Parse(ss, l) = tt
  BY <1>2, <1>3 DEF Parse, NewPart
<1>5. tt # <<>> /\ Last(tt) = s
  BY <1>3, AppendProperties DEF Last
<1>6. ASSUME NEW sign \in Signs, NEW P PROVE SumIn(tt, sign, P) = SumIn(ss, sign, P)
  <2>1. SumIn(tt, sign, P) = SumIn(ss, sign, P) + Share(s, sign, P)
    BY <1>3, SumAppend
  <2>2. Share(s, sign, P) = 0
    BY <1>1, <1>2, NewSectionIs DEF Share
  <2> QED
    BY <2>1, <2>2, SumNat
<1> QED
  BY <1>2, <1>4, <1>5, <1>6

LEMMA ParseOld ==
    ASSUME NEW ss \in Seq(SectionType), ss # <<>>, NEW l \in DiffLine, ~NewPart(ss, l)
    PROVE  /\ Parse(ss, l) \in Seq(SectionType) /\ Parse(ss, l) # <<>>
           /\ Last(ss) \in SectionType /\ Last(Parse(ss, l)) = Counted(Last(ss), l)
           /\ \A sign \in Signs : \A P :
                SumIn(Parse(ss, l), sign, P) + Share(Last(ss), sign, P)
                  = SumIn(ss, sign, P) + Share(Counted(Last(ss), l), sign, P)
<1>1. PICK n \in Nat : n = Len(ss) /\ n # 0
  OBVIOUS
<1>2. Last(ss) = ss[n] /\ ss[n] \in SectionType
  BY <1>1 DEF Last
<1>3. PICK s \in SectionType : s = Counted(ss[n], l)
  BY <1>2, CountedIs DEF Signs
<1>4. PICK tt : tt = [ss EXCEPT ![n] = s]
  OBVIOUS
<1>5. Parse(ss, l) = tt
  BY <1>1, <1>3, <1>4 DEF Parse, NewPart
<1>6. /\ tt \in Seq(SectionType) /\ Len(tt) = Len(ss) /\ tt[Len(ss)] = s
      /\ \A k \in 1..(Len(ss) - 1) : tt[k] = ss[k]
  BY <1>1, <1>4
<1>7. ASSUME NEW sign \in Signs, NEW P
      PROVE  /\ tt # <<>> /\ Last(tt) = s
             /\ SumIn(tt, sign, P) + Share(Last(ss), sign, P) = SumIn(ss, sign, P) + Share(s, sign, P)
  BY <1>6, SumLast
<1>8. "+" \in Signs
  BY DEF Signs
<1>9. tt # <<>> /\ Last(tt) = s
  BY <1>7, <1>8
<1> QED
  BY <1>2, <1>3, <1>5, <1>7, <1>9, <1>6

\* What Sections computes on its way.
Parses(f, d, n) ==
    f = [k \in 0..n |-> IF k = 0 THEN <<>> ELSE Parse(f[k - 1], d[k])]

LEMMA ParsesExists ==
    ASSUME NEW d
    PROVE  \A n \in Nat : \E f : Parses(f, d, n)
<1> DEFINE S == {n \in Nat : \E f : Parses(f, d, n)}
<1>1. 0 \in S
  <2>1. Parses([k \in 0..0 |-> <<>>], d, 0)
    BY DEF Parses
  <2> QED
    BY <2>1
<1>2. ASSUME NEW n \in S PROVE n + 1 \in S
  <2>1. PICK f : Parses(f, d, n)
    OBVIOUS
  <2> DEFINE g == [k \in 0..(n + 1) |-> IF k \in 0..n THEN f[k] ELSE Parse(f[k - 1], d[k])]
  <2>2. \A k \in 0..(n + 1) : g[k] = IF k = 0 THEN <<>> ELSE Parse(g[k - 1], d[k])
    <3> SUFFICES ASSUME NEW k \in 0..(n + 1)
                 PROVE  g[k] = IF k = 0 THEN <<>> ELSE Parse(g[k - 1], d[k])
      OBVIOUS
    <3>1. k # 0 => k - 1 \in 0..n
      OBVIOUS
    <3>2. k # 0 => g[k - 1] = f[k - 1]
      BY <3>1
    <3>3. k \in 0..n => f[k] = IF k = 0 THEN <<>> ELSE Parse(f[k - 1], d[k])
      BY <2>1 DEF Parses
    <3> QED
      BY <3>1, <3>2, <3>3
  <2>3. g = [k \in 0..(n + 1) |-> g[k]]
    OBVIOUS
  <2> HIDE DEF g
  <2>4. Parses(g, d, n + 1)
    BY <2>2, <2>3 DEF Parses
  <2> QED
    BY <2>4
<1> HIDE DEF S
<1>3. S = Nat
  BY <1>1, <1>2, SetInduction DEF S
<1> QED
  BY <1>3 DEF S

LEMMA SectionsAre ==
    ASSUME NEW d, Len(d) \in Nat
    PROVE  \E f : /\ f[0] = <<>> /\ Sections(d) = f[Len(d)]
                  /\ \A n \in 1..Len(d) : f[n] = Parse(f[n - 1], d[n])
<1> DEFINE f == CHOOSE f : f = [k \in 0..Len(d) |-> IF k = 0 THEN <<>> ELSE Parse(f[k - 1], d[k])]
<1>1. Sections(d) = f[Len(d)]
  BY DEF Sections
<1>2. \E g : g = [k \in 0..Len(d) |-> IF k = 0 THEN <<>> ELSE Parse(g[k - 1], d[k])]
  BY ParsesExists DEF Parses
<1>3. f = [k \in 0..Len(d) |-> IF k = 0 THEN <<>> ELSE Parse(f[k - 1], d[k])]
  BY <1>2
<1> HIDE DEF f
<1>4. \A k \in 0..Len(d) : f[k] = IF k = 0 THEN <<>> ELSE Parse(f[k - 1], d[k])
  BY <1>3
<1>5. 0 \in 0..Len(d) /\ \A n \in 1..Len(d) : n \in 0..Len(d) /\ n # 0
  OBVIOUS
<1> QED
  BY <1>1, <1>4, <1>5
-----------------------------------------------------------------------------
(* A diff: it begins with a header, a hunk follows the two names of its    *)
(* file, and the lines with a sign follow a hunk.                          *)
Follows(l, m) ==
    /\ m.sign # "" => l.sign # "" \/ l.looks = "@@"
    /\ m.sign = "" /\ m.looks = "@@" => l.sign = "" /\ l.looks = "+++"
    /\ m.sign = "" /\ m.looks = "+++" => l.sign = "" /\ l.looks = "---"
Begun(l) == l.sign = "" /\ l.looks \in {"diff", "---"}
WellFormed(d) ==
    /\ d \in Seq(DiffLine)
    /\ Len(d) > 0 => Begun(d[1])
    /\ \A i \in 1..(Len(d) - 1) : Follows(d[i], d[i + 1])

\* No line of a file looks like a header.
Plain(d) == \A i \in DOMAIN d : d[i].looks \in {"---", "+++"} => d[i].sign = ""

LEMMA DiffLines ==
    ASSUME NEW d, WellFormed(d)
    PROVE  /\ Len(d) \in Nat /\ DOMAIN d = 1..Len(d)
           /\ \A i \in 1..Len(d) : d[i] \in DiffLine
BY DEF WellFormed

\* The sections of the first n lines have counted every line with a sign.
Looking(d, sign) == {i \in DOMAIN d : d[i].looks \in Marks(sign)}
CountedTo(ss, d, n) ==
    /\ ss \in Seq(SectionType) /\ (ss = <<>> <=> n = 0)
    /\ \A sign \in Signs : SumIn(ss, sign, Names) = Cardinality(Looking(d, sign) \cap (1..n))

LEMMA FirstLine ==
    ASSUME NEW ss, NEW l, ss = <<>>, Begun(l)
    PROVE  NewPart(ss, l)
BY DEF Begun, NewPart, EndsSection

LEMMA CountedStep ==
    ASSUME NEW d, WellFormed(d), NEW n \in Nat, n + 1 <= Len(d), NEW ss, CountedTo(ss, d, n)
    PROVE  CountedTo(Parse(ss, d[n + 1]), d, n + 1)
<1>1. Len(d) \in Nat /\ DOMAIN d = 1..Len(d) /\ n + 1 \in 1..Len(d)
  BY DiffLines
<1>2. PICK l \in DiffLine : l = d[n + 1]
  BY <1>1, DiffLines
<1>3. ss \in Seq(SectionType) /\ (ss = <<>> <=> n = 0)
  BY DEF CountedTo
<1>4. PICK tt : tt = Parse(ss, l)
  OBVIOUS
<1>5. \A sign \in Signs :
        /\ Cardinality(Looking(d, sign) \cap (1..n)) \in Nat
        /\ Cardinality(Looking(d, sign) \cap (1..(n + 1)))
             = Cardinality(Looking(d, sign) \cap (1..n)) + (IF l.looks \in Marks(sign) THEN 1 ELSE 0)
  <2> SUFFICES ASSUME NEW sign \in Signs
               PROVE  /\ Cardinality(Looking(d, sign) \cap (1..n)) \in Nat
                      /\ Cardinality(Looking(d, sign) \cap (1..(n + 1)))
                           = Cardinality(Looking(d, sign) \cap (1..n)) + (IF l.looks \in Marks(sign) THEN 1 ELSE 0)
    OBVIOUS
  <2>1. n + 1 \in Looking(d, sign) <=> l.looks \in Marks(sign)
    BY <1>1, <1>2 DEF Looking
  <2> QED
    BY <2>1, CountStep
<1>6. CASE NewPart(ss, l)
  <2>1. /\ tt \in Seq(SectionType) /\ tt # <<>>
        /\ \A sign \in Signs : \A P : SumIn(tt, sign, P) = SumIn(ss, sign, P)
    BY <1>3, <1>4, <1>6, ParseNew
  <2>2. \A sign \in Signs : l.looks \notin Marks(sign)
    BY <1>6 DEF NewPart, Signs, Marks
  <2>3. \A sign \in Signs : SumIn(ss, sign, Names) = Cardinality(Looking(d, sign) \cap (1..n))
    BY DEF CountedTo
  <2>4. ASSUME NEW sign \in Signs
        PROVE  SumIn(tt, sign, Names) = Cardinality(Looking(d, sign) \cap (1..(n + 1)))
    <3>1. SumIn(tt, sign, Names) = Cardinality(Looking(d, sign) \cap (1..n)) /\ l.looks \notin Marks(sign)
      BY <2>1, <2>2, <2>3
    <3>2. Cardinality(Looking(d, sign) \cap (1..n)) \in Nat
      BY <1>5
    <3>3. Cardinality(Looking(d, sign) \cap (1..(n + 1)))
            = Cardinality(Looking(d, sign) \cap (1..n)) + (IF l.looks \in Marks(sign) THEN 1 ELSE 0)
      BY <1>5
    <3> QED
      BY <3>1, <3>2, <3>3
  <2> QED
    BY <1>2, <1>4, <2>1, <2>4 DEF CountedTo
<1>7. CASE ~NewPart(ss, l)
  <2>1. ss # <<>>
    BY <1>2, <1>3, <1>7, FirstLine DEF WellFormed
  <2>2. /\ tt \in Seq(SectionType) /\ tt # <<>> /\ Last(ss) \in SectionType
        /\ \A sign \in Signs : \A P :
             SumIn(tt, sign, P) + Share(Last(ss), sign, P)
               = SumIn(ss, sign, P) + Share(Counted(Last(ss), l), sign, P)
    BY <1>3, <1>4, <1>7, <2>1, ParseOld
  <2>3. ASSUME NEW sign \in Signs
        PROVE  SumIn(tt, sign, Names) = Cardinality(Looking(d, sign) \cap (1..(n + 1)))
    <3>1. PICK s \in SectionType, u \in SectionType : s = Last(ss) /\ u = Counted(Last(ss), l)
      BY <2>2, CountedIs
    <3>2. Share(s, sign, Names) = Amount(s, sign) /\ Share(u, sign, Names) = Amount(u, sign)
      BY DEF Share, SectionType
    <3>3. Amount(u, sign) = Amount(s, sign) + (IF l.looks \in Marks(sign) THEN 1 ELSE 0)
      BY <3>1, CountedIs
    <3>4. Amount(s, sign) \in Nat /\ SumIn(ss, sign, Names) \in Nat /\ SumIn(tt, sign, Names) \in Nat
      BY <1>3, <2>2, ShareNat, SumNat
    <3>5. SumIn(tt, sign, Names) + Amount(s, sign) = SumIn(ss, sign, Names) + Amount(u, sign)
      BY <2>2, <3>1, <3>2
    <3>6. SumIn(tt, sign, Names) = SumIn(ss, sign, Names) + (IF l.looks \in Marks(sign) THEN 1 ELSE 0)
      BY <3>3, <3>4, <3>5
    <3>7. SumIn(ss, sign, Names) = Cardinality(Looking(d, sign) \cap (1..n))
      BY DEF CountedTo
    <3> QED
      BY <1>5, <3>6, <3>7
  <2> QED
    BY <1>2, <1>4, <2>2, <2>3 DEF CountedTo
<1> QED
  BY <1>6, <1>7

\* The header that a line is under.
LEMMA UnderNext ==
    ASSUME NEW d, DOMAIN d \subseteq Nat, NEW n \in Nat, NEW p
    PROVE  IF n \in Headers(d) THEN Under(d, n + 1, p) <=> p = d[n].path
           ELSE Under(d, n + 1, p) <=> Under(d, n, p)
<1>1. Headers(d) \subseteq Nat
  BY DEF Headers
<1>2. \A r \in Headers(d) : r < n + 1 <=> r < n \/ r = n
  BY <1>1
<1>3. CASE n \in Headers(d)
  <2>1. \A r \in Headers(d) : r < n + 1 => r <= n
    BY <1>1, <1>2
  <2>2. \A s \in Headers(d) : s < n + 1 /\ n <= s => s = n
    BY <1>1
  <2>3. n < n + 1
    OBVIOUS
  <2> QED
    BY <1>3, <2>1, <2>2, <2>3 DEF Under
<1>4. CASE n \notin Headers(d)
  <2>1. \A r \in Headers(d) : r < n + 1 <=> r < n
    BY <1>2, <1>4
  <2> QED
    BY <1>4, <2>1 DEF Under
<1> QED
  BY <1>3, <1>4

(* With plain lines the current section is that of the last header.        *)
LinesUnder(d, p, sign) == {i \in DOMAIN d : d[i].sign = sign /\ Under(d, i, p)}
Opening == {"diff", "---"}
SortedTo(ss, d, n) ==
    /\ n > 0 /\ d[n].looks \in Opening => \A sign \in Signs : Amount(Last(ss), sign) = 0
    /\ n > 0 /\ d[n].looks \notin Opening => \A p : Under(d, n + 1, p) <=> p = Last(ss).path
    /\ \A sign \in Signs : \A p : SumIn(ss, sign, {p}) = Cardinality(LinesUnder(d, p, sign) \cap (1..n))

\* What is above a line l that opens no section, line n.
Above(d, n, l) ==
    /\ l.looks \in {"diff", "---", "+++", "@@"} => l.sign = ""
    /\ \A sign \in Signs : l.looks \in Marks(sign) => l.sign = sign
    /\ l.looks \notin Opening => n > 0
    /\ l.looks = "+++" => d[n].looks = "---"
    /\ l.looks \notin Opening \cup {"+++"} => d[n].looks \notin Opening

LEMMA BeforeLine ==
    ASSUME NEW d, WellFormed(d), Plain(d), NEW n \in Nat, n + 1 <= Len(d)
    PROVE  d[n + 1] \in DiffLine /\ n + 1 \in DOMAIN d /\ Above(d, n, d[n + 1])
<1>1. Len(d) \in Nat /\ DOMAIN d = 1..Len(d) /\ n + 1 \in 1..Len(d)
  BY DiffLines
<1>2. d[n + 1] \in DiffLine
  BY <1>1, DiffLines
<1>3. d[n + 1].looks \in {"---", "+++"} => d[n + 1].sign = ""
  BY <1>1 DEF Plain
<1>4. /\ d[n + 1].looks \in {"diff", "---", "+++", "@@"} => d[n + 1].sign = ""
      /\ \A sign \in Signs : d[n + 1].looks \in Marks(sign) => d[n + 1].sign = sign
      /\ d[n + 1].looks \in Marked => d[n + 1].sign # ""
      /\ d[n + 1].looks \in {"diff", "---", "+++", "@@"} \cup Marked
  BY <1>2, <1>3 DEF DiffLine, Signs, Marks, Marked
<1>5. n = 0 => Begun(d[n + 1])
  BY <1>1 DEF WellFormed
<1>6. d[n + 1].looks \notin Opening => n > 0
  <2>1. n = 0 \/ n > 0
    OBVIOUS
  <2>2. Begun(d[n + 1]) => d[n + 1].looks \in Opening
    BY DEF Begun, Opening
  <2> QED
    BY <1>5, <2>1, <2>2, Zenon
<1>7. n > 0 => Follows(d[n], d[n + 1]) /\ d[n] \in DiffLine /\ (d[n].looks \in {"---", "+++"} => d[n].sign = "")
  <2> SUFFICES ASSUME n > 0
               PROVE  Follows(d[n], d[n + 1]) /\ d[n] \in DiffLine
                      /\ (d[n].looks \in {"---", "+++"} => d[n].sign = "")
    OBVIOUS
  <2>1. n \in 1..(Len(d) - 1) /\ n \in 1..Len(d)
    BY <1>1
  <2> QED
    BY <1>1, <2>1, DiffLines DEF WellFormed, Plain
<1>8. n > 0 /\ d[n].sign # "" => d[n].looks \notin Opening
  BY <1>7 DEF DiffLine, Opening
<1>9. d[n + 1].looks = "+++" => d[n].looks = "---"
  BY <1>4, <1>6, <1>7 DEF Follows, Opening
<1>10. d[n + 1].looks \notin Opening \cup {"+++"} => d[n].looks \notin Opening
  <2>1. CASE d[n + 1].looks = "@@"
    BY <1>4, <1>6, <1>7, <2>1 DEF Follows, Opening
  <2>2. CASE d[n + 1].looks \in Marked
    <3>1. d[n + 1].sign # "" /\ n > 0
      BY <1>4, <1>6, <2>2 DEF Marked, Opening
    <3>2. d[n].sign # "" \/ d[n].looks = "@@"
      BY <1>7, <3>1 DEF Follows
    <3> QED
      BY <1>8, <3>1, <3>2 DEF Opening
  <2> QED
    BY <1>4, <2>1, <2>2 DEF Opening
<1> QED
  BY <1>1, <1>2, <1>4, <1>6, <1>9, <1>10 DEF Above

LEMMA SortedStep ==
    ASSUME NEW d, WellFormed(d), Plain(d), NEW n \in Nat, n + 1 <= Len(d),
           NEW ss, CountedTo(ss, d, n), SortedTo(ss, d, n)
    PROVE  SortedTo(Parse(ss, d[n + 1]), d, n + 1)
<1>1. PICK l \in DiffLine : l = d[n + 1]
  BY BeforeLine
<1>2. /\ n + 1 \in DOMAIN d /\ DOMAIN d \subseteq Nat
      /\ l.looks \in {"diff", "---", "+++", "@@"} => l.sign = ""
      /\ \A sign \in Signs : l.looks \in Marks(sign) => l.sign = sign
      /\ l.looks \notin Opening => n > 0
      /\ l.looks = "+++" => d[n].looks = "---"
      /\ l.looks \notin Opening \cup {"+++"} => d[n].looks \notin Opening
      /\ l.looks \in {"diff", "---", "+++", "@@"} \cup Marked
  <2>1. l.looks \in {"diff", "---", "+++", "@@"} \cup Marked
    BY DEF DiffLine
  <2>2. DOMAIN d \subseteq Nat
    BY DiffLines
  <2>3. n + 1 \in DOMAIN d /\ Above(d, n, l)
    BY <1>1, BeforeLine
  <2> QED
    BY <2>1, <2>2, <2>3 DEF Above
<1>3. ss \in Seq(SectionType) /\ (ss = <<>> <=> n = 0)
  BY DEF CountedTo
<1>4. PICK tt : tt = Parse(ss, l)
  OBVIOUS
<1>5. n + 1 \in Nat /\ n + 1 > 0
  OBVIOUS
\* What is left to show, for a line that counts for p or does not.
<1>6. ASSUME NEW sign \in Signs, NEW p,
             SumIn(tt, sign, {p}) = SumIn(ss, sign, {p})
                                      + (IF l.sign = sign /\ Under(d, n + 1, p) THEN 1 ELSE 0)
      PROVE  SumIn(tt, sign, {p}) = Cardinality(LinesUnder(d, p, sign) \cap (1..(n + 1)))
  <2>1. SumIn(ss, sign, {p}) = Cardinality(LinesUnder(d, p, sign) \cap (1..n))
    BY DEF SortedTo
  <2>2. n + 1 \in LinesUnder(d, p, sign) <=> l.sign = sign /\ Under(d, n + 1, p)
    BY <1>1, <1>2 DEF LinesUnder
  <2>3. /\ Cardinality(LinesUnder(d, p, sign) \cap (1..n)) \in Nat
        /\ Cardinality(LinesUnder(d, p, sign) \cap (1..(n + 1)))
             = Cardinality(LinesUnder(d, p, sign) \cap (1..n))
                 + (IF n + 1 \in LinesUnder(d, p, sign) THEN 1 ELSE 0)
    BY CountStep
  <2> QED
    BY <1>6, <2>1, <2>2, <2>3
<1>7. ASSUME NEW sign \in Signs, NEW p,
             SumIn(tt, sign, {p}) = SumIn(ss, sign, {p}), l.sign \notin Signs
      PROVE  SumIn(tt, sign, {p}) = Cardinality(LinesUnder(d, p, sign) \cap (1..(n + 1)))
  <2>1. l.sign # sign /\ SumIn(ss, sign, {p}) \in Nat
    BY <1>3, <1>7, SumNat
  <2>2. SumIn(tt, sign, {p}) = SumIn(ss, sign, {p})
                                 + (IF l.sign = sign /\ Under(d, n + 1, p) THEN 1 ELSE 0)
    BY <1>7, <2>1
  <2> QED
    BY <1>6, <2>2
\* A section that has nothing yet and gets nothing.
<1>8. ASSUME ~NewPart(ss, l), ss # <<>>, l.looks \notin Marked,
             \A sign \in Signs : Amount(Last(ss), sign) = 0
      PROVE  /\ \A sign \in Signs : Amount(Last(tt), sign) = 0
             /\ \A sign \in Signs : \A p : SumIn(tt, sign, {p}) = SumIn(ss, sign, {p})
  <2>1. /\ tt \in Seq(SectionType) /\ Last(ss) \in SectionType /\ Last(tt) = Counted(Last(ss), l)
        /\ \A sign \in Signs : \A P :
             SumIn(tt, sign, P) + Share(Last(ss), sign, P)
               = SumIn(ss, sign, P) + Share(Counted(Last(ss), l), sign, P)
    BY <1>3, <1>4, <1>8, ParseOld
  <2>2. ASSUME NEW sign \in Signs PROVE Amount(Last(tt), sign) = 0
    <3>1. Amount(Counted(Last(ss), l), sign) = Amount(Last(ss), sign) + (IF l.looks \in Marks(sign) THEN 1 ELSE 0)
      BY <2>1, CountedIs
    <3>2. l.looks \notin Marks(sign) /\ Amount(Last(ss), sign) = 0
      BY <1>8 DEF Marks, Marked
    <3> QED
      BY <2>1, <3>1, <3>2
  <2>3. ASSUME NEW sign \in Signs, NEW p PROVE SumIn(tt, sign, {p}) = SumIn(ss, sign, {p})
    <3>1. Share(Last(ss), sign, {p}) = 0 /\ Share(Counted(Last(ss), l), sign, {p}) = 0
      BY <1>8, <2>1, <2>2 DEF Share
    <3>2. SumIn(tt, sign, {p}) + Share(Last(ss), sign, {p})
            = SumIn(ss, sign, {p}) + Share(Counted(Last(ss), l), sign, {p})
      BY <2>1
    <3>3. SumIn(tt, sign, {p}) \in Nat /\ SumIn(ss, sign, {p}) \in Nat
      BY <1>3, <2>1, SumNat
    <3> QED
      BY <3>1, <3>2, <3>3
  <2> QED
    BY <2>2, <2>3
<1>9. CASE l.looks \in Opening
  <2>1. l.sign \notin Signs /\ l.looks \notin Marked
    BY <1>2, <1>9 DEF Opening, Signs, Marked
  <2>2. /\ \A sign \in Signs : Amount(Last(tt), sign) = 0
        /\ \A sign \in Signs : \A p : SumIn(tt, sign, {p}) = SumIn(ss, sign, {p})
    <3>1. CASE NewPart(ss, l)
      <4>1. l.path \in Names
        BY DEF DiffLine
      <4> QED
        BY <1>3, <1>4, <3>1, <4>1, ParseNew, NewSectionIs
    <3>2. CASE ~NewPart(ss, l)
      <4>1. ss # <<>> /\ ~HasChanges(Last(ss))
        BY <1>9, <3>2 DEF NewPart, Opening, EndsSection
      <4>2. Last(ss) \in SectionType
        BY <1>3, <3>2, <4>1, ParseOld
      <4>3. \A sign \in Signs : Amount(Last(ss), sign) = 0
        BY <4>1, <4>2 DEF HasChanges, SectionType, Amount
      <4> QED
        BY <1>8, <2>1, <3>2, <4>1, <4>3
    <3> QED
      BY <3>1, <3>2
  <2>3. \A sign \in Signs : \A p :
          SumIn(tt, sign, {p}) = Cardinality(LinesUnder(d, p, sign) \cap (1..(n + 1)))
    BY <1>7, <2>1, <2>2
  <2> QED
    BY <1>1, <1>4, <1>9, <2>2, <2>3 DEF SortedTo
<1>10. CASE l.looks = "+++"
  <2>1. l.sign \notin Signs /\ l.looks \notin Marked /\ l.looks \notin Opening /\ l.sign = ""
    BY <1>2, <1>10 DEF Opening, Signs, Marked
  <2>2. n > 0 /\ d[n].looks \in Opening
    BY <1>2, <1>10, <2>1 DEF Opening
  <2>3. ~NewPart(ss, l) /\ ss # <<>>
    BY <1>3, <1>10, <2>2 DEF NewPart
  <2>4. \A sign \in Signs : Amount(Last(ss), sign) = 0
    BY <2>2 DEF SortedTo
  <2>5. \A sign \in Signs : \A p :
          SumIn(tt, sign, {p}) = Cardinality(LinesUnder(d, p, sign) \cap (1..(n + 1)))
    BY <1>7, <1>8, <2>1, <2>3, <2>4
  <2>6. Last(tt).path = l.path
    <3>1. Last(ss) \in SectionType /\ Last(tt) = Counted(Last(ss), l)
      BY <1>3, <1>4, <2>3, ParseOld
    <3> QED
      BY <1>10, <3>1, CountedIs DEF Signs
  <2>7. n + 1 \in Headers(d)
    BY <1>1, <1>2, <1>10, <2>1 DEF Headers
  <2>8. \A p : Under(d, (n + 1) + 1, p) <=> p = Last(tt).path
    BY <1>1, <1>2, <1>5, <2>6, <2>7, UnderNext
  <2> QED
    BY <1>1, <1>4, <2>1, <2>5, <2>8 DEF SortedTo
<1>11. CASE l.looks \notin Opening \cup {"+++"}
  <2>1. n > 0 /\ d[n].looks \notin Opening
    BY <1>2, <1>11
  <2>2. \A p : Under(d, n + 1, p) <=> p = Last(ss).path
    BY <2>1 DEF SortedTo
  <2>3. ~NewPart(ss, l) /\ ss # <<>>
    BY <1>3, <1>11, <2>1 DEF NewPart, Opening
  <2>4. /\ tt \in Seq(SectionType) /\ Last(ss) \in SectionType /\ Last(tt) = Counted(Last(ss), l)
        /\ \A sign \in Signs : \A P :
             SumIn(tt, sign, P) + Share(Last(ss), sign, P)
               = SumIn(ss, sign, P) + Share(Counted(Last(ss), l), sign, P)
    BY <1>3, <1>4, <2>3, ParseOld
  <2>5. Last(tt).path = Last(ss).path
    BY <1>11, <2>4, CountedIs DEF Signs
  <2>6. n + 1 \notin Headers(d)
    BY <1>1, <1>11 DEF Headers
  <2>7. \A p : Under(d, (n + 1) + 1, p) <=> p = Last(tt).path
    BY <1>2, <1>5, <2>2, <2>5, <2>6, UnderNext
  <2>8. ASSUME NEW sign \in Signs, NEW p
        PROVE  SumIn(tt, sign, {p}) = Cardinality(LinesUnder(d, p, sign) \cap (1..(n + 1)))
    <3>1. Amount(Last(tt), sign) = Amount(Last(ss), sign) + (IF l.looks \in Marks(sign) THEN 1 ELSE 0)
      BY <2>4, CountedIs
    <3>2. Amount(Last(ss), sign) \in Nat /\ SumIn(ss, sign, {p}) \in Nat /\ SumIn(tt, sign, {p}) \in Nat
      BY <1>3, <2>4, ShareNat, SumNat
    <3>3. SumIn(tt, sign, {p}) + Share(Last(ss), sign, {p}) = SumIn(ss, sign, {p}) + Share(Last(tt), sign, {p})
      BY <2>4
    <3>4. l.looks \in Marks(sign) <=> l.sign = sign
      BY <1>2, <1>11 DEF Opening, Signs, Marks, Marked
    <3>5. CASE p = Last(ss).path
      <4>1. Share(Last(ss), sign, {p}) = Amount(Last(ss), sign) /\ Share(Last(tt), sign, {p}) = Amount(Last(tt), sign)
        BY <2>5, <3>5 DEF Share
      <4>2. SumIn(tt, sign, {p}) = SumIn(ss, sign, {p}) + (IF l.looks \in Marks(sign) THEN 1 ELSE 0)
        BY <3>1, <3>2, <3>3, <4>1
      <4>3. Under(d, n + 1, p)
        BY <2>2, <3>5
      <4> QED
        BY <1>6, <3>4, <4>2, <4>3
    <3>6. CASE p # Last(ss).path
      <4>1. Share(Last(ss), sign, {p}) = 0 /\ Share(Last(tt), sign, {p}) = 0
        BY <2>5, <3>6 DEF Share
      <4>2. SumIn(tt, sign, {p}) = SumIn(ss, sign, {p}) + 0
        BY <3>2, <3>3, <4>1
      <4>3. ~Under(d, n + 1, p)
        BY <2>2, <3>6
      <4> QED
        BY <1>6, <4>2, <4>3
    <3> QED
      BY <3>5, <3>6
  <2> QED
    BY <1>1, <1>4, <1>11, <2>7, <2>8 DEF SortedTo
<1> QED
  BY <1>9, <1>10, <1>11

\* What the sections of a diff have counted.
LEMMA SectionsCount ==
    ASSUME NEW d, WellFormed(d)
    PROVE  /\ Sections(d) \in Seq(SectionType)
           /\ \A sign \in Signs : SumIn(Sections(d), sign, Names) = Cardinality(Looking(d, sign))
           /\ Plain(d) => \A sign \in Signs : \A p :
                            SumIn(Sections(d), sign, {p}) = Cardinality(LinesUnder(d, p, sign))
<1>1. Len(d) \in Nat /\ DOMAIN d = 1..Len(d)
  BY DiffLines
<1>2. PICK f : /\ f[0] = <<>> /\ Sections(d) = f[Len(d)]
               /\ \A n \in 1..Len(d) : f[n] = Parse(f[n - 1], d[n])
  BY <1>1, SectionsAre
<1> DEFINE S == {n \in Nat : n <= Len(d) => /\ CountedTo(f[n], d, n)
                                            /\ Plain(d) => SortedTo(f[n], d, n)}
<1>3. 0 \in S
  <2>0. <<>> \in Seq(SectionType)
    OBVIOUS
  <2>1. PICK ss \in Seq(SectionType) : ss = <<>> /\ ss = f[0]
    BY <1>2, <2>0, Zenon
  <2>2. \A sign \in Signs : \A P : SumIn(ss, sign, P) = 0
    <3>1. Len(ss) = 0
      BY <2>1
    <3> QED
      BY <3>1, TotalStep DEF SumIn
  <2>3. \A X : Cardinality(X \cap (1..0)) = 0
    BY CountStep
  <2>4. CountedTo(ss, d, 0)
    BY <2>1, <2>2, <2>3 DEF CountedTo
  <2>5. SortedTo(ss, d, 0)
    BY <2>2, <2>3 DEF SortedTo
  <2> QED
    BY <2>1, <2>4, <2>5
<1>4. ASSUME NEW n \in S PROVE n + 1 \in S
  <2> SUFFICES ASSUME n + 1 <= Len(d)
               PROVE  CountedTo(f[n + 1], d, n + 1) /\ (Plain(d) => SortedTo(f[n + 1], d, n + 1))
    OBVIOUS
  <2>1. n \in Nat /\ n <= Len(d) /\ n + 1 \in 1..Len(d) /\ (n + 1) - 1 = n
    BY <1>1
  <2>2. CountedTo(f[n], d, n) /\ (Plain(d) => SortedTo(f[n], d, n))
    BY <2>1
  <2> HIDE DEF S
  <2>3. f[n + 1] = Parse(f[n], d[n + 1])
    BY <1>2, <2>1
  <2>4. CountedTo(f[n + 1], d, n + 1)
    BY <2>1, <2>2, <2>3, CountedStep
  <2>5. Plain(d) => SortedTo(f[n + 1], d, n + 1)
    BY <2>1, <2>2, <2>3, SortedStep
  <2> QED
    BY <2>4, <2>5
<1>5. S \in SUBSET Nat
  OBVIOUS
<1> HIDE DEF S
<1>6. S = Nat
  BY <1>3, <1>4, <1>5, SetInduction
<1>7. Len(d) <= Len(d)
  BY <1>1
<1>8. CountedTo(Sections(d), d, Len(d)) /\ (Plain(d) => SortedTo(Sections(d), d, Len(d)))
  BY <1>1, <1>2, <1>6, <1>7 DEF S
<1>9. \A sign : Looking(d, sign) \cap (1..Len(d)) = Looking(d, sign)
  BY <1>1 DEF Looking
<1>10. \A sign, p : LinesUnder(d, p, sign) \cap (1..Len(d)) = LinesUnder(d, p, sign)
  BY <1>1 DEF LinesUnder
<1> QED
  BY <1>8, <1>9, <1>10 DEF CountedTo, SortedTo
-----------------------------------------------------------------------------
(* The snapshot of the sections, and its totals.                           *)
Lists(ps, n, D) ==
    /\ ps \in [1..n -> D]
    /\ \A i, j \in 1..n : ps[i] = ps[j] => i = j
    /\ \A p \in D : \E i \in 1..n : ps[i] = p

LEMMA SetToSeqIs ==
    ASSUME NEW D, IsFiniteSet(D)
    PROVE  LET ps == SetToSeq(D)
               n == Cardinality(D)
           IN  n \in Nat /\ Lists(ps, n, D) /\ Len(ps) = n /\ DOMAIN ps = 1..n
<1> DEFINE n == Cardinality(D)
           ps == SetToSeq(D)
<1>1. n \in Nat /\ ExistsBijection(1..n, D)
  BY FS_CardinalityType
<1>2. \E f \in [1..n -> D] : IsInjective(f)
  BY <1>1 DEF ExistsBijection, Bijection, Injection
<1>3. ps \in [1..n -> D] /\ IsInjective(ps)
  BY <1>2 DEF SetToSeq
<1> HIDE DEF n, ps
<1>4. IsFiniteSet(1..n) /\ Cardinality(1..n) = n
  BY <1>1, FS_Interval
<1>5. ps \in Injection(1..n, D)
  BY <1>3 DEF Injection
<1>6. ps \in Surjection(1..n, D)
  BY <1>4, <1>5, FS_Injection DEF n
<1>7. DOMAIN ps = 1..n /\ Len(ps) = n
  <2>1. ps \in Seq(D)
    BY <1>1, <1>3, SeqDef
  <2>2. DOMAIN ps = 1..n /\ DOMAIN ps = 1..Len(ps) /\ Len(ps) \in Nat
    BY <1>3, <2>1, LenProperties
  <2> QED
    BY <1>1, <2>2
<1>8. \A i, j \in 1..n : ps[i] = ps[j] => i = j
  BY <1>3, <1>7 DEF IsInjective
<1>9. \A p \in D : \E i \in 1..n : ps[i] = p
  BY <1>6 DEF Surjection
<1> QED
  BY <1>1, <1>3, <1>7, <1>8, <1>9 DEF Lists, n, ps

\* The sum over the paths, each once, is the sum over all sections.
Sums(ss, sign, ps) == [j \in DOMAIN ps |-> SumIn(ss, sign, {ps[j]})]

LEMMA SumsTogether ==
    ASSUME NEW sign \in Signs, NEW D, NEW n \in Nat, NEW ps, Lists(ps, n, D)
    PROVE  \A ss \in Seq(SectionType) :
             (\A k \in 1..Len(ss) : Amount(ss[k], sign) # 0 => ss[k].path \in D)
               => Total(Sums(ss, sign, ps), n) = SumIn(ss, sign, Names)
<1> DEFINE Within(ss) == \A k \in 1..Len(ss) : Amount(ss[k], sign) # 0 => ss[k].path \in D
           C == {ss \in Seq(SectionType) :
                   Within(ss) => Total(Sums(ss, sign, ps), n) = SumIn(ss, sign, Names)}
<1> USE DEF Lists
<1>0. \A ss \in Seq(SectionType) : \A j \in 1..n : Sums(ss, sign, ps)[j] \in Nat
  BY SumNat DEF Sums
<1>1. <<>> \in C
  <2>1. <<>> \in Seq(SectionType) /\ Len(<<>>) = 0
    OBVIOUS
  <2>2. \A P : SumIn(<<>>, sign, P) = 0
    BY <2>1, TotalStep DEF SumIn
  <2>3. \A j \in 1..n : Sums(<<>>, sign, ps)[j] = 0
    BY <2>2 DEF Sums
  <2>4. Total(Sums(<<>>, sign, ps), n) \in Nat
    BY <1>0, <2>1, TotalNat
  <2>5. ~(Total(Sums(<<>>, sign, ps), n) > 0)
    BY <1>0, <2>1, <2>3, TotalPositive
  <2>6. Total(Sums(<<>>, sign, ps), n) = 0
    BY <2>4, <2>5
  <2> QED
    BY <2>1, <2>2, <2>6
<1>2. ASSUME NEW ss \in C, NEW s \in SectionType PROVE Append(ss, s) \in C
  <2>1. PICK tt \in Seq(SectionType) : tt = Append(ss, s)
    BY AppendProperties
  <2> SUFFICES ASSUME Within(tt) PROVE Total(Sums(tt, sign, ps), n) = SumIn(tt, sign, Names)
    BY <2>1
  <2>2. ss \in Seq(SectionType) /\ Len(ss) \in Nat
    OBVIOUS
  <2>3. /\ Len(tt) = Len(ss) + 1 /\ tt[Len(ss) + 1] = s
        /\ \A k \in 1..Len(ss) : tt[k] = ss[k]
    BY <2>1, <2>2, AppendProperties
  <2>4. Within(ss)
    BY <2>2, <2>3
  <2>5. Total(Sums(ss, sign, ps), n) = SumIn(ss, sign, Names)
    BY <2>4
  <2>6. Amount(s, sign) # 0 => s.path \in D
    BY <2>2, <2>3
  <2> HIDE DEF C, Within
  <2>7. \A P : SumIn(tt, sign, P) = SumIn(ss, sign, P) + Share(s, sign, P)
    BY <2>1, <2>2, SumAppend
  <2>8. Share(s, sign, Names) = Amount(s, sign) /\ Amount(s, sign) \in Nat
    BY ShareNat DEF Share, SectionType
  <2> DEFINE f == Sums(ss, sign, ps)
             g == Sums(tt, sign, ps)
  <2>9. \A j \in 1..n : f[j] \in Nat /\ g[j] = f[j] + Share(s, sign, {ps[j]})
    BY <1>0, <2>2, <2>7 DEF Sums
  <2>10. Total(f, n) \in Nat
    BY <2>9, TotalNat
  <2> HIDE DEF f, g
  <2>11. CASE Amount(s, sign) = 0
    <3>1. \A P : Share(s, sign, P) = 0
      BY <2>11 DEF Share
    <3>2. ASSUME NEW j \in 1..n PROVE g[j] = f[j]
      <4>1. f[j] \in Nat /\ g[j] = f[j] + Share(s, sign, {ps[j]}) /\ Share(s, sign, {ps[j]}) = 0
        BY <2>9, <3>1
      <4> QED
        BY <4>1
    <3>3. Total(g, n) = Total(f, n)
      BY <3>2, TotalSame DEF Alike
    <3>4. SumIn(tt, sign, Names) = SumIn(ss, sign, Names) + 0
      BY <2>7, <3>1
    <3> QED
      BY <2>5, <2>10, <3>3, <3>4 DEF f, g
  <2>12. CASE Amount(s, sign) # 0
    <3>1. PICK j \in 1..n : ps[j] = s.path
      BY <2>6, <2>12
    <3>2. \A k \in 1..n : g[k] = IF k = j THEN f[k] + Amount(s, sign) ELSE f[k]
      <4> SUFFICES ASSUME NEW k \in 1..n
                   PROVE  g[k] = IF k = j THEN f[k] + Amount(s, sign) ELSE f[k]
        OBVIOUS
      <4>1. s.path \in {ps[k]} <=> k = j
        BY <3>1
      <4>2. Share(s, sign, {ps[k]}) = IF k = j THEN Amount(s, sign) ELSE 0
        BY <4>1 DEF Share
      <4> QED
        BY <2>9, <4>2
    <3>3. Total(g, n) = Total(f, n) + Amount(s, sign)
      <4>1. PICK v \in Nat : v = Amount(s, sign)
        BY <2>8
      <4>2. \A k \in 1..n : f[k] \in Nat
        BY <2>9
      <4>3. \A k \in 1..n : g[k] = IF k = j THEN f[k] + v ELSE f[k]
        BY <3>2, <4>1
      <4>4. Bumped(f, g, n, j, v)
        BY <4>2, <4>3 DEF Bumped
      <4>5. Total(g, n) = Total(f, n) + v
        BY <4>4, TotalBump
      <4> QED
        BY <4>1, <4>5
    <3>4. SumIn(tt, sign, Names) = SumIn(ss, sign, Names) + Amount(s, sign)
      BY <2>7, <2>8
    <3> QED
      BY <2>5, <3>3, <3>4 DEF f, g
  <2> QED
    BY <2>11, <2>12 DEF f, g
<1>3. C \in SUBSET Seq(SectionType)
  OBVIOUS
<1> HIDE DEF C
<1>4. C = Seq(SectionType)
  BY <1>1, <1>2, <1>3, SeqInduction
<1> QED
  BY <1>4 DEF C

LEMMA MergedIs ==
    ASSUME NEW ss \in Seq(SectionType), NEW p, NEW sign
    PROVE  Merged(ss, p, sign) = SumIn(ss, sign, {p})
<1>1. Len(ss) \in Nat /\ DOMAIN ss = 1..Len(ss)
  OBVIOUS
<1> DEFINE f == [k \in DOMAIN ss |-> IF ss[k].path = p THEN Amount(ss[k], sign) ELSE 0]
           g == [k \in DOMAIN ss |-> Share(ss[k], sign, {p})]
<1>2. Alike(f, g, Len(ss))
  BY <1>1 DEF Alike, Share
<1> HIDE DEF f, g
<1>3. Total(f, Len(ss)) = Total(g, Len(ss))
  BY <1>1, <1>2, TotalSame
<1> QED
  BY <1>3 DEF Merged, SumIn, f, g

\* A path has lines if one of its sections has.
LEMMA SumPositive ==
    ASSUME NEW ss \in Seq(SectionType), NEW sign \in Signs, NEW p
    PROVE  SumIn(ss, sign, {p}) # 0
             <=> \E k \in 1..Len(ss) : ss[k].path = p /\ Amount(ss[k], sign) # 0
<1> DEFINE f == [k \in DOMAIN ss |-> Share(ss[k], sign, {p})]
<1>1. Len(ss) \in Nat /\ DOMAIN ss = 1..Len(ss) /\ \A k \in 1..Len(ss) : ss[k] \in SectionType
  OBVIOUS
<1>2. \A k \in 1..Len(ss) :
        f[k] \in Nat /\ (f[k] > 0 <=> ss[k].path = p /\ Amount(ss[k], sign) # 0)
  <2> SUFFICES ASSUME NEW k \in 1..Len(ss)
               PROVE  f[k] \in Nat /\ (f[k] > 0 <=> ss[k].path = p /\ Amount(ss[k], sign) # 0)
    OBVIOUS
  <2>1. f[k] = IF ss[k].path = p THEN Amount(ss[k], sign) ELSE 0
    BY <1>1 DEF Share
  <2>2. Amount(ss[k], sign) \in Nat
    BY <1>1, ShareNat
  <2> QED
    BY <2>1, <2>2
<1> HIDE DEF f
<1>3. Total(f, Len(ss)) > 0 <=> \E k \in 1..Len(ss) : f[k] > 0
  BY <1>1, <1>2, TotalPositive
<1>4. Total(f, Len(ss)) \in Nat
  BY <1>1, <1>2, TotalNat
<1>5. SumIn(ss, sign, {p}) = Total(f, Len(ss))
  BY DEF SumIn, f
<1>6. SumIn(ss, sign, {p}) # 0 <=> Total(f, Len(ss)) > 0
  BY <1>4, <1>5
<1> QED
  BY <1>2, <1>3, <1>6

\* The paths of a snapshot and what it tells of each.
Told(ss) == {p \in Names : \E sign \in Signs : SumIn(ss, sign, {p}) # 0}

LEMMA SnapshotIs ==
    ASSUME NEW d, Sections(d) \in Seq(SectionType)
    PROVE  /\ DOMAIN Snapshot(d) = Told(Sections(d))
           /\ Snapshot(d) = [p \in Told(Sections(d)) |->
                               [added |-> SumIn(Sections(d), "+", {p}), removed |-> SumIn(Sections(d), "-", {p})]]
<1>1. PICK ss \in Seq(SectionType) : ss = Sections(d)
  OBVIOUS
<1>2. DOMAIN ss = 1..Len(ss) /\ \A k \in 1..Len(ss) : ss[k] \in SectionType
  OBVIOUS
<1> DEFINE D == {s.path : s \in {s \in ToSet(ss) : s.added + s.removed > 0}}
<1>3. D = Told(ss)
  <2>1. \A s \in SectionType : s.added + s.removed > 0 <=> \E sign \in Signs : Amount(s, sign) # 0
    BY DEF SectionType, Signs, Amount
  <2>2. \A p : p \in D <=> \E k \in 1..Len(ss) : ss[k].path = p /\ ss[k].added + ss[k].removed > 0
    BY <1>2 DEF ToSet
  <2>3. \A p : p \in D <=> \E k \in 1..Len(ss) : ss[k].path = p /\ \E sign \in Signs : Amount(ss[k], sign) # 0
    BY <1>2, <2>1, <2>2
  <2> HIDE DEF D
  <2>4. \A p : p \in D <=> \E sign \in Signs : \E k \in 1..Len(ss) : ss[k].path = p /\ Amount(ss[k], sign) # 0
    BY <2>3
  <2>5. \A p : p \in D <=> \E sign \in Signs : SumIn(ss, sign, {p}) # 0
    <3>1. \A sign \in Signs : \A p :
            SumIn(ss, sign, {p}) # 0 <=> \E k \in 1..Len(ss) : ss[k].path = p /\ Amount(ss[k], sign) # 0
      BY SumPositive
    <3> QED
      BY <2>4, <3>1, Zenon
  <2>6. \A p \in D : p \in Names
    BY <1>2, <2>3 DEF SectionType
  <2> QED
    BY <2>5, <2>6 DEF Told
<1>4. Snapshot(d) = [p \in D |-> [added |-> Merged(ss, p, "+"), removed |-> Merged(ss, p, "-")]]
  BY <1>1 DEF Snapshot
<1> HIDE DEF D
<1>5. \A p : Merged(ss, p, "+") = SumIn(ss, "+", {p}) /\ Merged(ss, p, "-") = SumIn(ss, "-", {p})
  BY MergedIs
<1> QED
  BY <1>1, <1>3, <1>4, <1>5

LEMMA ToldFinite ==
    ASSUME NEW ss \in Seq(SectionType)
    PROVE  IsFiniteSet(Told(ss))
<1>1. Len(ss) \in Nat /\ \A k \in 1..Len(ss) : ss[k] \in SectionType
  OBVIOUS
<1> DEFINE h == [k \in 1..Len(ss) |-> ss[k].path]
           T == {h[k] : k \in 1..Len(ss)}
<1>2. h \in Surjection(1..Len(ss), T)
  BY DEF Surjection
<1>3. IsFiniteSet(1..Len(ss))
  BY <1>1, FS_Interval
<1>4. IsFiniteSet(T)
  BY <1>2, <1>3, FS_Surjection
<1>5. Told(ss) \subseteq T
  <2> SUFFICES ASSUME NEW p \in Told(ss) PROVE p \in T
    OBVIOUS
  <2>1. PICK sign \in Signs : SumIn(ss, sign, {p}) # 0
    BY DEF Told
  <2>2. PICK k \in 1..Len(ss) : ss[k].path = p
    BY <2>1, SumPositive
  <2> QED
    BY <2>2
<1> QED
  BY <1>4, <1>5, FS_Subset

LEMMA TotalsTold ==
    ASSUME NEW d, WellFormed(d), NEW sign \in Signs
    PROVE  SnapshotTotal(Snapshot(d), sign) = Cardinality(Looking(d, sign))
<1>1. PICK ss \in Seq(SectionType) : ss = Sections(d)
  BY SectionsCount
<1>2. SumIn(ss, sign, Names) = Cardinality(Looking(d, sign))
  BY <1>1, SectionsCount
<1> DEFINE D == Told(ss)
           n == Cardinality(D)
           ps == SetToSeq(D)
<1>3. n \in Nat /\ Lists(ps, n, D) /\ ps \in [1..n -> D] /\ Len(ps) = n /\ DOMAIN ps = 1..n
  BY ToldFinite, SetToSeqIs DEF Lists
<1>4. /\ DOMAIN Snapshot(d) = D
      /\ \A p \in D : Amount(Snapshot(d)[p], sign) = SumIn(ss, sign, {p})
  BY <1>1, SnapshotIs DEF Signs, Amount
<1> DEFINE f == [j \in DOMAIN ps |-> Amount(Snapshot(d)[ps[j]], sign)]
<1>5. SnapshotTotal(Snapshot(d), sign) = Total(f, n)
  BY <1>3, <1>4 DEF SnapshotTotal
<1>6. Alike(f, Sums(ss, sign, ps), n)
  BY <1>3, <1>4 DEF Alike, Sums
<1>7. \A k \in 1..Len(ss) : Amount(ss[k], sign) # 0 => ss[k].path \in D
  <2> SUFFICES ASSUME NEW k \in 1..Len(ss), Amount(ss[k], sign) # 0 PROVE ss[k].path \in D
    OBVIOUS
  <2>0. ss[k] \in SectionType
    OBVIOUS
  <2>1. ss[k].path \in Names
    BY <2>0 DEF SectionType
  <2>2. SumIn(ss, sign, {ss[k].path}) # 0
    BY SumPositive
  <2> QED
    BY <2>1, <2>2 DEF Told
<1> HIDE DEF D, n, ps, f
<1>8. Total(f, n) = Total(Sums(ss, sign, ps), n)
  BY <1>3, <1>6, TotalSame
<1>9. Total(Sums(ss, sign, ps), n) = SumIn(ss, sign, Names)
  BY <1>3, <1>7, SumsTogether
<1> QED
  BY <1>2, <1>5, <1>8, <1>9

LEMMA PlainSnapshot ==
    ASSUME NEW d, WellFormed(d), Plain(d)
    PROVE  /\ Snapshot(d) = [p \in Changed(d) |-> Real(d, p)]
           /\ Changed(d) \subseteq DiffFiles(d)
<1>1. PICK ss \in Seq(SectionType) : ss = Sections(d)
  BY SectionsCount
<1>2. \A sign \in Signs : \A p : SumIn(ss, sign, {p}) = Count(d, p, sign)
  <2>1. \A sign \in Signs : \A p : SumIn(ss, sign, {p}) = Cardinality(LinesUnder(d, p, sign))
    BY <1>1, SectionsCount
  <2>2. \A sign, p : Cardinality(LinesUnder(d, p, sign)) = Count(d, p, sign)
    BY DEF Count, LinesUnder
  <2> QED
    BY <2>1, <2>2
<1>3. "+" \in Signs /\ "-" \in Signs /\ \A sign \in Signs : sign = "+" \/ sign = "-"
  BY DEF Signs
<1>4. \A p : Real(d, p) # [added |-> 0, removed |-> 0] <=> \E sign \in Signs : Count(d, p, sign) # 0
  BY <1>3 DEF Real
\* A path with lines is named by a header.
<1>5. ASSUME NEW p, NEW sign \in Signs, Count(d, p, sign) # 0
      PROVE  p \in Paths /\ p \in DiffFiles(d)
  <2>1. {i \in DOMAIN d : d[i].sign = sign /\ Under(d, i, p)} # {}
    BY <1>5, FS_EmptySet DEF Count
  <2>2. PICK s \in Headers(d) : d[s].path = p
    BY <2>1 DEF Under
  <2>3. s \in DOMAIN d /\ d[s].looks = "+++" /\ d[s].sign = "" /\ d[s] \in DiffLine
    BY <2>2, DiffLines DEF Headers
  <2> QED
    BY <2>2, <2>3 DEF DiffLine, DiffFiles
<1>6. Told(ss) = Changed(d)
  <2>1. \A p : p \in Told(ss) <=> p \in Names /\ \E sign \in Signs : Count(d, p, sign) # 0
    BY <1>2 DEF Told
  <2>2. \A p : p \in Changed(d) <=> p \in Paths /\ \E sign \in Signs : Count(d, p, sign) # 0
    BY <1>4 DEF Changed
  <2>3. \A p \in Paths : p \in Names
    BY DEF Names
  <2> QED
    BY <1>5, <2>1, <2>2, <2>3
<1>7. Snapshot(d) = [p \in Told(ss) |-> [added |-> SumIn(ss, "+", {p}), removed |-> SumIn(ss, "-", {p})]]
  BY <1>1, SnapshotIs
<1>8. \A p : Real(d, p) = [added |-> SumIn(ss, "+", {p}), removed |-> SumIn(ss, "-", {p})]
  BY <1>2, <1>3 DEF Real
<1>9. Changed(d) \subseteq DiffFiles(d)
  BY <1>4, <1>5 DEF Changed
<1> QED
  BY <1>6, <1>7, <1>8, <1>9

LEMMA SummaryOf ==
    ASSUME WellFormed(told.diff)
    PROVE  SummaryCounts
<1> SUFFICES ASSUME Len(told.diff) <= MaxDiffLines
             PROVE  LET diff == told.diff
                        snapshot == Snapshot(Displayed(diff))
                        model == ModelSummary(diff)
                        Missed(looks) == Cardinality({i \in DOMAIN diff : diff[i].looks = looks})
                    IN  /\ SnapshotTotal(snapshot, "+") = model.added + Missed("+++x")
                        /\ SnapshotTotal(snapshot, "-") = model.removed + Missed("---x")
                        /\ Plain(diff) =>
                             /\ snapshot = [p \in Changed(diff) |-> Real(diff, p)]
                             /\ Changed(diff) \subseteq model.files
  BY DEF SummaryCounts, Plain
<1>1. PICK d : d = told.diff
  OBVIOUS
<1>2. Len(d) \in Nat /\ d \in Seq(DiffLine) /\ Len(d) <= MaxDiffLines /\ MaxDiffLines \in Nat
  BY <1>1, FilesAssumption DEF WellFormed
<1>3. Displayed(d) = d
  <2>1. Min({Len(d), MaxDiffLines}) = Len(d)
    <3>1. {Len(d), MaxDiffLines} \in SUBSET Nat /\ Len(d) \in {Len(d), MaxDiffLines}
      BY <1>2
    <3>2. /\ Min({Len(d), MaxDiffLines}) \in {Len(d), MaxDiffLines}
          /\ Min({Len(d), MaxDiffLines}) <= Len(d)
      BY <3>1, LeastIs
    <3> QED
      BY <1>2, <3>2
  <2>2. SubSeq(d, 1, Len(d)) = d
    BY <1>2
  <2> QED
    BY <2>1, <2>2 DEF Displayed
<1> DEFINE Alone(looks) == {i \in DOMAIN d : d[i].looks = looks}
<1>4. /\ ModelSummary(d).added = Cardinality(Alone("+"))
      /\ ModelSummary(d).removed = Cardinality(Alone("-"))
      /\ ModelSummary(d).files = DiffFiles(d)
  BY DEF ModelSummary
<1>7. /\ Cardinality(Looking(d, "+")) = Cardinality(Alone("+")) + Cardinality(Alone("+++x"))
      /\ Cardinality(Looking(d, "-")) = Cardinality(Alone("-")) + Cardinality(Alone("---x"))
  <2>1. DOMAIN d = 1..Len(d) /\ IsFiniteSet(1..Len(d))
    BY <1>2, FS_Interval
  <2>2. \A looks : IsFiniteSet(Alone(looks))
    BY <2>1, FS_Subset
  <2>3. \A l, m : l # m => Alone(l) \cap Alone(m) = {}
    OBVIOUS
  <2>4. Looking(d, "+") = Alone("+") \cup Alone("+++x") /\ Looking(d, "-") = Alone("-") \cup Alone("---x")
    BY DEF Looking, Marks
  <2> HIDE DEF Alone
  <2>5. ASSUME NEW l, NEW m, l # m
        PROVE  Cardinality(Alone(l) \cup Alone(m)) = Cardinality(Alone(l)) + Cardinality(Alone(m))
    <3>1. IsFiniteSet(Alone(l)) /\ IsFiniteSet(Alone(m)) /\ Alone(l) \cap Alone(m) = {}
      BY <2>2, <2>3, <2>5
    <3>2. Cardinality(Alone(l) \cup Alone(m))
            = Cardinality(Alone(l)) + Cardinality(Alone(m)) - Cardinality(Alone(l) \cap Alone(m))
      BY <3>1, FS_Union
    <3>3. Cardinality(Alone(l) \cap Alone(m)) = 0
      BY <3>1, FS_EmptySet
    <3>4. Cardinality(Alone(l)) \in Nat /\ Cardinality(Alone(m)) \in Nat
      BY <3>1, FS_CardinalityType
    <3> QED
      BY <3>2, <3>3, <3>4
  <2> QED
    BY <2>4, <2>5
<1>5. /\ SnapshotTotal(Snapshot(d), "+") = Cardinality(Looking(d, "+"))
      /\ SnapshotTotal(Snapshot(d), "-") = Cardinality(Looking(d, "-"))
  BY <1>1, TotalsTold DEF Signs
<1>6. Plain(d) => /\ Snapshot(d) = [p \in Changed(d) |-> Real(d, p)]
                  /\ Changed(d) \subseteq DiffFiles(d)
  BY <1>1, PlainSnapshot
<1> QED
  BY <1>1, <1>3, <1>4, <1>5, <1>6, <1>7
-----------------------------------------------------------------------------
(* The diffs that the tools return.                                        *)
LEMMA NothingFormed == WellFormed(<<>>)
BY DEF WellFormed

\* Two diffs one after the other.
LEMMA BothFormed ==
    ASSUME NEW d, NEW e, WellFormed(d), WellFormed(e)
    PROVE  WellFormed(d \o e)
<1>1. PICK m \in Nat, n \in Nat : m = Len(d) /\ n = Len(e)
  BY DEF WellFormed
<1>2. d \in Seq(DiffLine) /\ e \in Seq(DiffLine)
  BY DEF WellFormed
<1>3. PICK b : b = d \o e
  OBVIOUS
<1>4. /\ b \in Seq(DiffLine) /\ Len(b) = m + n
      /\ \A i \in 1..m : b[i] = d[i]
      /\ \A i \in (m + 1)..(m + n) : b[i] = e[i - m]
  BY <1>1, <1>2, <1>3, ConcatProperties
<1>5. /\ m > 0 => Begun(d[1]) 
      /\ n > 0 => Begun(e[1])
      /\ \A i \in 1..(m - 1) : Follows(d[i], d[i + 1])
      /\ \A i \in 1..(n - 1) : Follows(e[i], e[i + 1])
  BY <1>1 DEF WellFormed
<1>6. m + n > 0 => Begun(b[1])
  <2>1. CASE m > 0
    BY <1>4, <1>5, <2>1
  <2>2. CASE m = 0 /\ n > 0
    <3>1. 1 \in (m + 1)..(m + n) /\ 1 - m = 1
      BY <2>2
    <3>2. b[1] = e[1 - m]
      BY <1>4, <3>1
    <3> QED
      BY <1>5, <2>2, <3>1, <3>2
  <2> QED
    BY <2>1, <2>2
<1>7. ASSUME NEW i \in 1..(m + n - 1) PROVE Follows(b[i], b[i + 1])
  <2>1. CASE i < m
    <3>1. i \in 1..m /\ i + 1 \in 1..m /\ i \in 1..(m - 1)
      BY <2>1
    <3> QED
      BY <1>4, <1>5, <3>1
  <2>2. CASE i = m
    <3>1. i + 1 \in (m + 1)..(m + n) /\ (i + 1) - m = 1 /\ n > 0
      BY <2>2
    <3>2. b[i + 1] = e[(i + 1) - m]
      BY <1>4, <3>1
    <3>3. Begun(b[i + 1])
      BY <1>5, <3>1, <3>2
    <3> QED
      BY <3>3 DEF Begun, Follows
  <2>3. CASE i > m
    <3>1. i \in (m + 1)..(m + n) /\ i + 1 \in (m + 1)..(m + n) /\ i - m \in 1..(n - 1)
          /\ (i + 1) - m = (i - m) + 1
      BY <2>3
    <3>2. b[i] = e[i - m] /\ b[i + 1] = e[(i + 1) - m]
      BY <1>4, <3>1
    <3>3. Follows(e[i - m], e[(i - m) + 1])
      BY <1>5, <3>1
    <3> QED
      BY <3>1, <3>2, <3>3
  <2> QED
    BY <2>1, <2>2, <2>3
<1>8. \A i \in 1..(Len(b) - 1) : Follows(b[i], b[i + 1])
  <2>1. Len(b) - 1 = m + n - 1
    BY <1>4
  <2> QED
    BY <1>7, <2>1
<1>9. Len(b) > 0 => Begun(b[1])
  BY <1>4, <1>6
<1> QED
  BY <1>3, <1>4, <1>8, <1>9 DEF WellFormed

\* A diff that is cut off.
LEMMA PrefixFormed ==
    ASSUME NEW d, WellFormed(d), NEW n \in 0..Len(d)
    PROVE  WellFormed(SubSeq(d, 1, n))
<1>1. PICK m \in Nat : m = Len(d)
  BY DEF WellFormed
<1>2. d \in Seq(DiffLine) /\ \A i \in 1..m : d[i] \in DiffLine
  BY <1>1 DEF WellFormed
<1>3. n \in Nat /\ n <= m /\ n \in Int /\ 1 \in Int /\ n - 1 + 1 = n
  BY <1>1
<1>4. PICK b : b = SubSeq(d, 1, n)
  OBVIOUS
<1>5. b \in Seq(DiffLine) /\ Len(b) = n /\ \A i \in 1..n : b[i] = d[i]
  <2>1. \A i \in 1..n : d[i] \in DiffLine
    BY <1>2, <1>3
  <2>2. /\ b \in Seq(DiffLine) /\ Len(b) = IF 1 <= n THEN n - 1 + 1 ELSE 0
        /\ \A i \in 1..(n - 1 + 1) : b[i] = d[1 + i - 1]
    BY <1>3, <1>4, <2>1, SubSeqProperties
  <2>3. Len(b) = n
    BY <1>3, <2>2
  <2>4. \A i \in 1..n : i \in 1..(n - 1 + 1) /\ 1 + i - 1 = i
    BY <1>3
  <2> QED
    BY <2>2, <2>3, <2>4
<1>6. Len(b) > 0 => Begun(b[1])
  <2>1. m > 0 => Begun(d[1])
    BY <1>1 DEF WellFormed
  <2> QED
    BY <1>3, <1>5, <2>1
<1>7. ASSUME NEW i \in 1..(n - 1) PROVE Follows(b[i], b[i + 1])
  <2>1. i \in 1..(m - 1) /\ i \in 1..n /\ i + 1 \in 1..n
    BY <1>3
  <2>2. Follows(d[i], d[i + 1])
    BY <1>1, <2>1 DEF WellFormed
  <2> QED
    BY <1>5, <2>1, <2>2
<1> QED
  BY <1>4, <1>5, <1>6, <1>7 DEF WellFormed

\* The lines of a hunk, below a diff that ends with its header.
Signed(b) == b \in Seq(DiffLine) /\ \A i \in DOMAIN b : b[i].sign # ""

LEMMA HunkFormed ==
    ASSUME NEW h, NEW b, WellFormed(h), Len(h) > 0, h[Len(h)].looks = "@@", Signed(b)
    PROVE  WellFormed(h \o b)
<1>1. PICK m \in Nat, n \in Nat : m = Len(h) /\ n = Len(b) /\ m > 0
  <2>1. h \in Seq(DiffLine) /\ b \in Seq(DiffLine)
    BY DEF WellFormed, Signed
  <2>2. Len(h) \in Nat /\ Len(b) \in Nat
    BY <2>1
  <2> QED
    BY <2>2
<1>2. h \in Seq(DiffLine) /\ b \in Seq(DiffLine)
  BY DEF WellFormed, Signed
<1>3. PICK d : d = h \o b
  OBVIOUS
<1>4. /\ d \in Seq(DiffLine) /\ Len(d) = m + n
      /\ \A i \in 1..m : d[i] = h[i]
      /\ \A i \in (m + 1)..(m + n) : d[i] = b[i - m]
  BY <1>1, <1>2, <1>3, ConcatProperties
<1>5. Begun(h[1]) /\ h[m].looks = "@@" /\ \A i \in 1..(m - 1) : Follows(h[i], h[i + 1])
  BY <1>1 DEF WellFormed
<1>6. \A i \in (m + 1)..(m + n) : d[i].sign # ""
  <2> SUFFICES ASSUME NEW i \in (m + 1)..(m + n) PROVE d[i].sign # ""
    OBVIOUS
  <2>1. i - m \in 1..n /\ DOMAIN b = 1..n
    BY <1>1, <1>2
  <2> QED
    BY <1>4, <2>1 DEF Signed
<1>7. ASSUME NEW i \in 1..(m + n - 1) PROVE Follows(d[i], d[i + 1])
  <2>1. CASE i < m
    <3>1. i \in 1..m /\ i + 1 \in 1..m /\ i \in 1..(m - 1)
      BY <2>1
    <3> QED
      BY <1>4, <1>5, <3>1
  <2>2. CASE i >= m
    <3>1. i + 1 \in (m + 1)..(m + n) /\ (i = m \/ i \in (m + 1)..(m + n)) /\ m \in 1..m
      BY <1>1, <2>2
    <3>2. d[i + 1].sign # ""
      BY <1>6, <3>1
    <3>3. d[i].looks = "@@" \/ d[i].sign # ""
      BY <1>4, <1>5, <1>6, <3>1
    <3> QED
      BY <3>2, <3>3 DEF Follows
  <2> QED
    BY <2>1, <2>2
<1>8. \A i \in 1..(Len(d) - 1) : Follows(d[i], d[i + 1])
  <2>1. Len(d) - 1 = m + n - 1
    BY <1>4
  <2> QED
    BY <1>7, <2>1
<1>9. Begun(d[1])
  BY <1>1, <1>4, <1>5
<1> QED
  BY <1>3, <1>4, <1>8, <1>9 DEF WellFormed

LEMMA CommonIs ==
    ASSUME NEW s \in Contents, NEW t \in Contents
    PROVE  Common(s, t) \in Nat /\ Common(s, t) <= Len(s) /\ Common(s, t) <= Len(t)
<1>1. PICK m \in Nat, n \in Nat : m = Len(s) /\ n = Len(t)
  BY DEF Contents
<1>2. Min({m, n}) \in {m, n} /\ Min({m, n}) <= m /\ Min({m, n}) <= n
  <2>1. {m, n} \in SUBSET Nat /\ m \in {m, n} /\ n \in {m, n}
    OBVIOUS
  <2> QED
    BY <2>1, LeastIs
<1> DEFINE least == Min({m, n})
           S == {0} \cup {k \in 1..least : SubSeq(s, 1, k) = SubSeq(t, 1, k)}
<1>3. least \in Nat /\ least <= m /\ least <= n
  BY <1>2
<1> HIDE DEF least
<1>4. S \in SUBSET (0..least) /\ S # {}
  BY <1>3
<1>5. Common(s, t) = Max(S)
  BY <1>1 DEF Common, least
<1> HIDE DEF S
<1>6. Max(S) \in S
  BY <1>3, <1>4, GreatestElement
<1>7. Max(S) \in 0..least
  BY <1>4, <1>6
<1> QED
  BY <1>1, <1>3, <1>5, <1>7

LEMMA BodySigned ==
    ASSUME NEW s \in Contents, NEW t \in Contents
    PROVE  Signed(Body(s, t))
<1>1. PICK n \in Nat : n = Common(s, t) /\ n <= Len(s) /\ n <= Len(t)
  BY CommonIs
<1> DEFINE x == [i \in 1..(Len(s) - n) |->
                    [looks |-> RemovedLooks(s[n + i]), path |-> s[n + i], sign |-> "-"]]
           y == [i \in 1..(Len(t) - n) |->
                    [looks |-> AddedLooks(t[n + i]), path |-> t[n + i], sign |-> "+"]]
<1>2. Len(s) \in Nat /\ Len(t) \in Nat /\ Len(s) - n \in Nat /\ Len(t) - n \in Nat
  BY <1>1 DEF Contents
<1>3. \A i \in 1..(Len(s) - n) : x[i] \in DiffLine /\ x[i].sign = "-"
  <2> SUFFICES ASSUME NEW i \in 1..(Len(s) - n) PROVE x[i] \in DiffLine /\ x[i].sign = "-"
    OBVIOUS
  <2>1. n + i \in 1..Len(s)
    BY <1>1, <1>2
  <2>2. s[n + i] \in Names
    BY <2>1 DEF Contents, Names
  <2>3. RemovedLooks(s[n + i]) \in {"-", "---x", "---"}
    BY DEF RemovedLooks
  <2> QED
    BY <2>2, <2>3 DEF DiffLine, Marked
<1>4. \A i \in 1..(Len(t) - n) : y[i] \in DiffLine /\ y[i].sign = "+"
  <2> SUFFICES ASSUME NEW i \in 1..(Len(t) - n) PROVE y[i] \in DiffLine /\ y[i].sign = "+"
    OBVIOUS
  <2>1. n + i \in 1..Len(t)
    BY <1>1, <1>2
  <2>2. t[n + i] \in Names
    BY <2>1 DEF Contents, Names
  <2>3. AddedLooks(t[n + i]) \in {"+", "+++x", "+++"}
    BY DEF AddedLooks
  <2> QED
    BY <2>2, <2>3 DEF DiffLine, Marked
<1>5. Body(s, t) = x \o y
  BY <1>1 DEF Body
<1>6. DOMAIN x = 1..(Len(s) - n) /\ DOMAIN y = 1..(Len(t) - n)
  OBVIOUS
<1>7. x = [i \in 1..(Len(s) - n) |-> x[i]] /\ y = [i \in 1..(Len(t) - n) |-> y[i]]
  OBVIOUS
<1> HIDE DEF x, y
<1>8. x \in Seq(DiffLine) /\ y \in Seq(DiffLine)
  <2>1. x \in [1..(Len(s) - n) -> DiffLine] /\ y \in [1..(Len(t) - n) -> DiffLine]
    BY <1>3, <1>4, <1>7
  <2> QED
    BY <1>2, <2>1, SeqDef
<1>9. Signed(x) /\ Signed(y)
  BY <1>3, <1>4, <1>6, <1>8 DEF Signed
<1>10. Signed(x \o y)
  <2>1. PICK b : b = x \o y
    OBVIOUS
  <2>2. /\ b \in Seq(DiffLine) /\ Len(b) = Len(x) + Len(y)
        /\ \A i \in 1..Len(x) : b[i] = x[i]
        /\ \A i \in (Len(x) + 1)..(Len(x) + Len(y)) : b[i] = y[i - Len(x)]
    BY <1>8, <2>1, ConcatProperties
  <2>3. Len(x) \in Nat /\ Len(y) \in Nat /\ DOMAIN x = 1..Len(x) /\ DOMAIN y = 1..Len(y)
        /\ DOMAIN b = 1..(Len(x) + Len(y))
    BY <1>8, <2>2
  <2>4. ASSUME NEW i \in DOMAIN b PROVE b[i].sign # ""
    <3>1. CASE i \in 1..Len(x)
      BY <1>9, <2>2, <2>3, <3>1 DEF Signed
    <3>2. CASE i \in (Len(x) + 1)..(Len(x) + Len(y))
      <4>1. i - Len(x) \in DOMAIN y
        BY <2>3, <3>2
      <4> QED
        BY <1>9, <2>2, <3>2, <4>1 DEF Signed
    <3>3. i \in 1..Len(x) \/ i \in (Len(x) + 1)..(Len(x) + Len(y))
      <4>1. PICK m \in Nat, k \in Nat : m = Len(x) /\ k = Len(y)
        BY <2>3
      <4>2. i \in 1..(m + k)
        BY <2>3, <4>1
      <4>3. i \in 1..m \/ i \in (m + 1)..(m + k)
        BY <4>2
      <4> QED
        BY <4>1, <4>3
    <3> QED
      BY <3>1, <3>2, <3>3
  <2> QED
    BY <2>1, <2>2, <2>4 DEF Signed
<1> QED
  BY <1>5, <1>10

\* The names of a file are followed by the first line of a hunk.
LEMMA HeadersFollow ==
    ASSUME NEW p, NEW q
    PROVE  /\ Begun(Header("diff", p)) /\ Begun(Header("---", q))
           /\ Follows(Header("diff", p), Header("---", q))
           /\ Follows(Header("---", q), Header("+++", p))
           /\ Follows(Header("+++", p), Header("@@", p))
           /\ Header("@@", p).looks = "@@"
<1>1. PICK diff, old, new, hunk :
        diff = Header("diff", p) /\ old = Header("---", q) /\ new = Header("+++", p) /\ hunk = Header("@@", p)
  OBVIOUS
<1>2. diff.looks = "diff" /\ diff.sign = ""
  BY <1>1 DEF Header
<1>3. old.looks = "---" /\ old.sign = ""
  BY <1>1 DEF Header
<1>4. new.looks = "+++" /\ new.sign = ""
  BY <1>1 DEF Header
<1>5. hunk.looks = "@@" /\ hunk.sign = ""
  BY <1>1 DEF Header
<1>6. Begun(diff) /\ Begun(old)
  BY <1>2, <1>3 DEF Begun
<1>7. Follows(diff, old)
  BY <1>2, <1>3 DEF Follows
<1>8. Follows(old, new)
  BY <1>3, <1>4 DEF Follows
<1>9. Follows(new, hunk)
  BY <1>4, <1>5 DEF Follows
<1> QED
  BY <1>1, <1>5, <1>6, <1>7, <1>8, <1>9

\* What two states of a file differ in.
LEMMA SectionFormed ==
    ASSUME NEW s \in Contents, NEW t \in Contents, NEW p \in Paths
    PROVE  WellFormed(Section(s, t, p))
<1>1. CASE s = t
  BY <1>1, NothingFormed DEF Section
<1>2. CASE s # t
  <2>1. PICK h : h = <<Header("---", p), Header("+++", p), Header("@@", p)>>
    OBVIOUS
  <2>2. p \in Names
    BY DEF Names
  <2>3. Header("---", p) \in DiffLine /\ Header("+++", p) \in DiffLine /\ Header("@@", p) \in DiffLine
    BY <2>2 DEF Header, DiffLine
  <2>4. h \in Seq(DiffLine) /\ Len(h) = 3
    BY <2>1, <2>3
  <2>5. h[1] = Header("---", p) /\ h[2] = Header("+++", p) /\ h[3] = Header("@@", p)
    BY <2>1
  <2>6. Begun(h[1]) /\ Follows(h[1], h[2]) /\ Follows(h[2], h[3]) /\ h[3].looks = "@@"
    <3>1. /\ Begun(Header("---", p)) /\ Follows(Header("---", p), Header("+++", p))
          /\ Follows(Header("+++", p), Header("@@", p)) /\ Header("@@", p).looks = "@@"
      BY HeadersFollow
    <3> QED
      BY <2>5, <3>1
  <2>7. \A i \in 1..(Len(h) - 1) : Follows(h[i], h[i + 1])
    <3>1. \A i \in 1..(Len(h) - 1) : i = 1 \/ i = 2
      BY <2>4
    <3> QED
      BY <2>6, <3>1
  <2>8. WellFormed(h)
    BY <2>4, <2>6, <2>7 DEF WellFormed
  <2>9. WellFormed(h \o Body(s, t))
    <3>1. Len(h) > 0 /\ h[Len(h)].looks = "@@"
      BY <2>4, <2>6
    <3> QED
      BY <2>8, <3>1, BodySigned, HunkFormed
  <2> QED
    BY <1>2, <2>1, <2>9 DEF Section
<1> QED
  BY <1>1, <1>2

LEMMA FlattenFormed ==
    ASSUME NEW n \in Nat, NEW x, x = [i \in 1..n |-> x[i]], \A i \in 1..n : WellFormed(x[i])
    PROVE  WellFormed(FlattenSeq(x))
<1> DEFINE W == {d \in Seq(DiffLine) : WellFormed(d)}
           C == {y \in Seq(W) : WellFormed(FlattenSeq(y))}
<1>1. <<>> \in C
  <2>1. FlattenSeq(<<>>) = <<>>
    BY DEF FlattenSeq
  <2>2. <<>> \in Seq(W)
    OBVIOUS
  <2> QED
    BY <2>1, <2>2, NothingFormed
<1>2. ASSUME NEW y \in C, NEW d \in W PROVE Append(y, d) \in C
  <2>1. y \in Seq(W) /\ WellFormed(FlattenSeq(y)) /\ d \in Seq(DiffLine) /\ WellFormed(d)
    OBVIOUS
  <2>2. W \subseteq Seq(DiffLine)
    OBVIOUS
  <2> HIDE DEF W
  <2>3. y \in Seq(Seq(DiffLine)) /\ Append(y, d) \in Seq(W)
    BY <2>1, <2>2, SeqMonotonic
  <2>4. FlattenSeq(Append(y, d)) = FlattenSeq(y) \o d
    BY <2>1, <2>3, FlattenAppend
  <2>5. WellFormed(FlattenSeq(y) \o d)
    BY <2>1, BothFormed
  <2> QED
    BY <2>3, <2>4, <2>5
<1>3. C \in SUBSET Seq(W)
  OBVIOUS
<1>4. x \in Seq(W)
  <2>1. x \in [1..n -> W]
    BY DEF WellFormed
  <2> HIDE DEF W
  <2> QED
    BY <2>1, SeqDef
<1> HIDE DEF C, W
<1>5. C = Seq(W)
  BY <1>1, <1>2, <1>3, SeqInduction
<1>6. x \in C
  BY <1>4, <1>5
<1> QED
  BY <1>6 DEF C

\* The files of the workspace.
Files == [Paths -> Contents \cup {Absent}]

LEMMA TextIs ==
    ASSUME NEW content \in Contents \cup {Absent}
    PROVE  Text(content) \in Contents
BY DEF Text, Contents

LEMMA OperationFormed ==
    ASSUME NEW old \in Files, NEW new \in Files, NEW ps \in Seq(Paths)
    PROVE  WellFormed(OperationDiff(old, new, ps))
<1> DEFINE x == [n \in DOMAIN ps |-> Section(Text(old[ps[n]]), Text(new[ps[n]]), ps[n])]
<1>1. PICK n \in Nat : n = Len(ps)
  OBVIOUS
<1>2. DOMAIN ps = 1..n
  BY <1>1
<1>3. x = [i \in 1..n |-> x[i]]
  BY <1>2
<1>4. ASSUME NEW i \in 1..n PROVE WellFormed(x[i])
  <2>1. ps[i] \in Paths
    BY <1>1
  <2>2. Text(old[ps[i]]) \in Contents /\ Text(new[ps[i]]) \in Contents
    BY <2>1, TextIs DEF Files
  <2>3. x[i] = Section(Text(old[ps[i]]), Text(new[ps[i]]), ps[i])
    BY <1>2
  <2> QED
    BY <2>1, <2>2, <2>3, SectionFormed
<1> HIDE DEF x
<1>5. WellFormed(FlattenSeq(x))
  BY <1>3, <1>4, FlattenFormed
<1> QED
  BY <1>5 DEF OperationDiff, x

LEMMA CreationFormed ==
    ASSUME NEW new \in Contents, NEW p \in Paths
    PROVE  WellFormed(CreationDiff(new, p))
<1>1. PICK h : h = <<Header("diff", p), Header("---", Absent), Header("+++", p), Header("@@", p)>>
  OBVIOUS
<1>2. p \in Names /\ Absent \in Names
  BY DEF Names
<1>3. /\ Header("diff", p) \in DiffLine /\ Header("---", Absent) \in DiffLine
      /\ Header("+++", p) \in DiffLine /\ Header("@@", p) \in DiffLine
  BY <1>2 DEF Header, DiffLine
<1>4. h \in Seq(DiffLine) /\ Len(h) = 4
  BY <1>1, <1>3
<1>5. h[1] = Header("diff", p) /\ h[2] = Header("---", Absent) /\ h[3] = Header("+++", p) /\ h[4] = Header("@@", p)
  BY <1>1
<1>6. /\ Begun(h[1]) /\ Follows(h[1], h[2]) /\ Follows(h[2], h[3]) /\ Follows(h[3], h[4])
      /\ h[4].looks = "@@"
  <2>1. /\ Begun(Header("diff", p)) /\ Follows(Header("diff", p), Header("---", Absent))
        /\ Follows(Header("---", Absent), Header("+++", p))
        /\ Follows(Header("+++", p), Header("@@", p)) /\ Header("@@", p).looks = "@@"
    BY HeadersFollow
  <2> QED
    BY <1>5, <2>1
<1>7. \A i \in 1..(Len(h) - 1) : Follows(h[i], h[i + 1])
  <2>1. \A i \in 1..(Len(h) - 1) : i = 1 \/ i = 2 \/ i = 3
    BY <1>4
  <2> QED
    BY <1>6, <2>1
<1>8. WellFormed(h)
  BY <1>4, <1>6, <1>7 DEF WellFormed
<1>9. PICK all : all = h \o Body(<<>>, new)
  OBVIOUS
<1>10. WellFormed(all)
  <2>1. Len(h) > 0 /\ h[Len(h)].looks = "@@"
    BY <1>4, <1>6
  <2>2. <<>> \in Contents
    BY DEF Contents
  <2> QED
    BY <1>8, <1>9, <2>1, <2>2, BodySigned, HunkFormed
<1>11. Min({Len(all), MaxDiffLines}) \in 0..Len(all)
  <2>1. PICK m \in Nat, n \in Nat : m = Len(all) /\ n = MaxDiffLines
    BY <1>10, FilesAssumption DEF WellFormed
  <2>2. {m, n} \in SUBSET Nat /\ m \in {m, n}
    OBVIOUS
  <2>3. Min({m, n}) \in {m, n} /\ Min({m, n}) <= m
    BY <2>2, LeastIs
  <2>4. Min({m, n}) \in Nat
    BY <2>3
  <2> QED
    BY <2>1, <2>3, <2>4
<1>12. CreationDiff(new, p) = SubSeq(all, 1, Min({Len(all), MaxDiffLines}))
  BY <1>1, <1>9 DEF CreationDiff
<1> QED
  BY <1>10, <1>11, <1>12, PrefixFormed
-----------------------------------------------------------------------------
(* The contents that the tools write.                                      *)
LEMMA ReplacedIs ==
    ASSUME NEW s \in Contents, NEW old \in Contents, NEW new \in Contents, Places(s, old) # {}
    PROVE  Replaced(s, old, new) \in Contents
<1>1. PICK m \in Nat, n \in Nat : m = Len(s) /\ n = Len(old)
  BY DEF Contents
<1>2. Places(s, old) \in SUBSET Nat /\ \A i \in Places(s, old) : i \in 1..(m - n + 1)
  BY <1>1 DEF Places
<1>3. PICK i \in 1..(m - n + 1) : i = Min(Places(s, old))
  BY <1>2, LeastIs
<1>4. i \in Nat /\ i >= 1 /\ i - 1 <= m /\ i + n >= 1
  BY <1>3
<1>5. \A k \in 1..m : s[k] \in Lines \cup {Dash, Plus, Decrement, Increment}
  BY <1>1 DEF Contents
<1>6. SubSeq(s, 1, i - 1) \in Contents
  <2>1. \A k \in 1..(i - 1) : s[k] \in Lines \cup {Dash, Plus, Decrement, Increment}
    BY <1>4, <1>5
  <2>2. 1 \in Int /\ i - 1 \in Int
    BY <1>4
  <2> QED
    BY <2>1, <2>2, SubSeqProperties DEF Contents
<1>7. SubSeq(s, i + n, m) \in Contents
  <2>1. \A k \in (i + n)..m : s[k] \in Lines \cup {Dash, Plus, Decrement, Increment}
    BY <1>4, <1>5
  <2>2. i + n \in Int /\ m \in Int
    BY <1>4
  <2> QED
    BY <2>1, <2>2, SubSeqProperties DEF Contents
<1>8. ReplacedAt(s, i, old, new) = SubSeq(s, 1, i - 1) \o new \o SubSeq(s, i + n, m)
  BY <1>1 DEF ReplacedAt
<1>9. SubSeq(s, 1, i - 1) \o new \o SubSeq(s, i + n, m) \in Contents
  <2>1. \A x, y \in Contents : x \o y \in Contents
    BY ConcatProperties DEF Contents
  <2> QED
    BY <1>6, <1>7, <2>1
<1> QED
  BY <1>3, <1>8, <1>9 DEF Replaced

\* A part of a patch, and the files after it.
PartOf == [from : Paths, to : Paths, bare : BOOLEAN, effect : {"edit", "create", "delete"}, old : Contents, new : Contents]

LEMMA PatchedIs ==
    ASSUME NEW fs \in Files, NEW sections \in Seq(PartOf), Applies(fs, sections)
    PROVE  Patched(fs, sections) \in Files
<1>1. DOMAIN sections \in SUBSET Nat /\ \A n \in DOMAIN sections : sections[n] \in PartOf
  OBVIOUS
<1> DEFINE At(p) == {n \in DOMAIN sections : NewFile(sections[n]) = p}
           Content(s) == IF s.effect = "create" THEN s.new ELSE Replaced(fs[OldFile(s)], s.old, s.new)
<1>2. ASSUME NEW n \in DOMAIN sections PROVE Content(sections[n]) \in Contents
  <2>1. PICK s \in PartOf : s = sections[n]
    BY <1>1
  <2>2. s.effect # "create" => fs[OldFile(s)] # Absent /\ Places(fs[OldFile(s)], s.old) # {}
    BY <2>1 DEF Applies
  <2>3. OldFile(s) \in Paths /\ s.old \in Contents /\ s.new \in Contents
    BY FilesAssumption DEF PartOf, OldFile
  <2>4. CASE s.effect = "create"
    BY <2>1, <2>3, <2>4
  <2>5. CASE s.effect # "create"
    <3>1. fs[OldFile(s)] \in Contents
      BY <2>2, <2>3, <2>5 DEF Files
    <3>2. Replaced(fs[OldFile(s)], s.old, s.new) \in Contents
      BY <2>2, <2>3, <2>5, <3>1, ReplacedIs
    <3> QED
      BY <2>1, <2>5, <3>2
  <2> QED
    BY <2>4, <2>5
<1>3. \A p : At(p) # {} => Min(At(p)) \in DOMAIN sections
  <2> SUFFICES ASSUME NEW p, At(p) # {} PROVE Min(At(p)) \in DOMAIN sections
    OBVIOUS
  <2>1. At(p) \in SUBSET Nat
    BY <1>1
  <2>2. Min(At(p)) \in At(p)
    BY <2>1, LeastIs
  <2> QED
    BY <2>2
<1>4. Patched(fs, sections) =
        [p \in Paths |->
           IF At(p) # {} THEN Content(sections[Min(At(p))])
           ELSE IF \E n \in DOMAIN sections : OldFile(sections[n]) = p THEN Absent ELSE fs[p]]
  BY DEF Patched
<1> HIDE DEF At, Content
<1>5. \A p \in Paths :
        (IF At(p) # {} THEN Content(sections[Min(At(p))])
         ELSE IF \E n \in DOMAIN sections : OldFile(sections[n]) = p THEN Absent ELSE fs[p])
          \in Contents \cup {Absent}
  BY <1>2, <1>3 DEF Files
<1> QED
  BY <1>4, <1>5 DEF Files

LEMMA PatchPathsAre ==
    ASSUME NEW c, c.sections \in Seq(PartOf)
    PROVE  PatchPaths(c) \in Seq(Paths)
<1>1. PICK ss \in Seq(PartOf) : ss = c.sections
  OBVIOUS
<1>2. PICK n \in Nat : n = Len(ss)
  OBVIOUS
<1>3. DOMAIN ss = 1..n /\ \A i \in 1..n : ss[i] \in PartOf
  BY <1>2
<1> DEFINE T == UNION {{ss[i].from, ss[i].to} : i \in DOMAIN ss}
           x == [i \in 1..n |-> ss[i].from]
           y == [i \in 1..n |-> ss[i].to]
           X == {x[i] : i \in 1..n}
           Y == {y[i] : i \in 1..n}
<1>4. IsFiniteSet(1..n)
  BY FS_Interval
<1>5. x \in Surjection(1..n, X) /\ y \in Surjection(1..n, Y)
  BY DEF Surjection
<1>6. T = X \cup Y
  BY <1>3
<1>7. T \subseteq Paths
  BY <1>3 DEF PartOf
<1>8. PatchPaths(c) = SetToSeq(T)
  BY <1>1 DEF PatchPaths
<1> HIDE DEF T, x, y, X, Y
<1>9. IsFiniteSet(X) /\ IsFiniteSet(Y)
  BY <1>4, <1>5, FS_Surjection
<1>10. IsFiniteSet(T)
  BY <1>6, <1>9, FS_Union
<1>11. Cardinality(T) \in Nat /\ SetToSeq(T) \in [1..Cardinality(T) -> T]
  BY <1>10, SetToSeqIs DEF Lists
<1>12. SetToSeq(T) \in Seq(T)
  BY <1>11, SeqDef
<1> QED
  BY <1>7, <1>8, <1>12, SeqMonotonic
-----------------------------------------------------------------------------
(* What is told is a diff of the form that the tools make: the attempts    *)
(* hold such diffs, and what they have read of the files is fit for the    *)
(* change that they are about to make.                                     *)
Fit(t) ==
    t.at = "looked" =>
        /\ t.content \in Files
        /\ t.call.tool = "replacement" =>
              t.content[t.call.path] # Absent /\ Places(t.content[t.call.path], t.call.old) # {}

DiffInv ==
    /\ files \in Files
    /\ WellFormed(told.diff)
    /\ \A i \in DOMAIN threads : WellFormed(threads[i].diff) /\ Fit(threads[i])

LEMMA CallTypes ==
    ASSUME NEW c, Startable(c)
    PROVE  /\ c.tool \in {"write_file", "replacement", "diff"}
           /\ c.tool \in {"write_file", "replacement"} => c.path \in Paths /\ c.new \in Contents
           /\ c.tool = "replacement" => c.old \in Contents
           /\ c.tool = "diff" => c.sections \in Seq(PartOf)
BY FilesAssumption DEF Startable, PartOf

LEMMA NoAnswerFormed == WellFormed(NoAnswer.diff)
<1>1. NoAnswer.diff = <<>>
  BY DEF NoAnswer
<1> QED
  BY <1>1, NothingFormed

LEMMA FilesExcept ==
    ASSUME NEW fs \in Files, NEW p, NEW content \in Contents
    PROVE  [fs EXCEPT ![p] = content] \in Files
BY DEF Files

\* The change that an attempt makes.
LEMMA TouchFormed ==
    ASSUME ShapeInv, DiffInv, NEW i \in DOMAIN threads, Touch(i)
    PROVE  files' \in Files /\ \E result, diff : Done(i, result, diff) /\ WellFormed(diff)
<1>1. PICK c : c = threads[i].call
  OBVIOUS
<1>2. PICK old : old = threads[i].content
  OBVIOUS
<1>3. Startable(c) /\ files \in Files
  BY <1>1 DEF ShapeInv, DiffInv
<1>4. threads[i].at = "looked" /\ Fit(threads[i])
  BY DEF Touch, DiffInv
<1>5. old \in Files
  BY <1>2, <1>4 DEF Fit
<1>6. \/ c.tool = "write_file" /\ TouchWrite(i, c)
      \/ c.tool = "replacement" /\ TouchReplacement(i, c)
      \/ c.tool = "diff" /\ TouchDiff(i, c)
      \/ Fail(i) /\ files' = files
  BY <1>1 DEF Touch
<1>7. ASSUME NEW diff, Report(i, diff), WellFormed(diff)
      PROVE  \E result, d : Done(i, result, d) /\ WellFormed(d)
  BY <1>7, NothingFormed DEF Report, Fail
<1>8. CASE c.tool = "write_file" /\ TouchWrite(i, c)
  <2>1. c.path \in Paths /\ c.new \in Contents
    BY <1>3, <1>8, CallTypes
  <2>2. PICK diff \in {CreationDiff(c.new, c.path), <<>>} : Report(i, diff)
    BY <1>8 DEF TouchWrite
  <2>3. files' = [files EXCEPT ![c.path] = c.new]
    BY <1>8 DEF TouchWrite
  <2>4. WellFormed(diff)
    BY <2>1, CreationFormed, NothingFormed
  <2>5. files' \in Files
    BY <1>3, <2>1, <2>3, FilesExcept
  <2> QED
    BY <1>7, <2>2, <2>4, <2>5
<1>9. CASE c.tool = "replacement" /\ TouchReplacement(i, c)
  <2>1. c.path \in Paths /\ c.new \in Contents /\ c.old \in Contents
    BY <1>3, <1>9, CallTypes
  <2>2. old[c.path] # Absent /\ Places(old[c.path], c.old) # {}
    BY <1>1, <1>2, <1>4, <1>9 DEF Fit
  <2>3. old[c.path] \in Contents
    BY <1>5, <2>1, <2>2 DEF Files
  <2>4. Replaced(old[c.path], c.old, c.new) \in Contents
    BY <2>1, <2>2, <2>3, ReplacedIs
  <2>5. Written(c, old)[c.path] = Replaced(old[c.path], c.old, c.new)
    BY <1>5, <2>1 DEF Written, Files
  <2>6. files' = [files EXCEPT ![c.path] = Written(c, old)[c.path]]
        /\ Report(i, OperationDiff(old, files', <<c.path>>))
    BY <1>2, <1>9 DEF TouchReplacement
  <2>7. files' \in Files
    BY <1>3, <2>4, <2>5, <2>6, FilesExcept
  <2>8. <<c.path>> \in Seq(Paths)
    BY <2>1
  <2>9. WellFormed(OperationDiff(old, files', <<c.path>>))
    BY <1>5, <2>7, <2>8, OperationFormed
  <2> QED
    BY <1>7, <2>6, <2>7, <2>9
<1>10. CASE c.tool = "diff" /\ TouchDiff(i, c)
  <2>1. c.sections \in Seq(PartOf) /\ Applies(files, c.sections)
    BY <1>3, <1>10, CallTypes DEF TouchDiff
  <2>2. Patched(files, c.sections) \in Files
    BY <1>3, <2>1, PatchedIs
  <2>3. PatchPaths(c) \in Seq(Paths)
    BY <2>1, PatchPathsAre
  <2>4. CASE files' = Patched(files, c.sections) /\ Report(i, OperationDiff(old, files', PatchPaths(c)))
    <3>1. WellFormed(OperationDiff(old, files', PatchPaths(c)))
      BY <1>5, <2>2, <2>3, <2>4, OperationFormed
    <3> QED
      BY <1>7, <2>2, <2>4, <3>1
  <2>5. CASE Fail(i) /\ \E written \in SUBSET Paths : files' = Torn(files, c.sections, written)
    <3>1. files' \in Files
      BY <1>3, <2>2, <2>5 DEF Torn, Files
    <3> QED
      BY <2>5, <3>1, NothingFormed DEF Fail
  <2> QED
    BY <1>2, <1>10, <2>4, <2>5 DEF TouchDiff
<1>11. CASE Fail(i) /\ files' = files
  BY <1>3, <1>11, NothingFormed DEF Fail
<1> QED
  BY <1>6, <1>8, <1>9, <1>10, <1>11

\* An attempt ends.
LEMMA EndKeepsDiffs ==
    ASSUME ShapeInv, DiffInv, NEW i \in DOMAIN threads, files' \in Files, told' = told,
           NEW result, NEW diff, Done(i, result, diff), WellFormed(diff)
    PROVE  DiffInv'
<1>1. /\ DOMAIN threads' = DOMAIN threads
      /\ \A j \in DOMAIN threads : j # i => threads'[j] = threads[j]
      /\ threads'[i].at = "done" /\ threads'[i].diff = diff
  BY AttemptEnds
<1>2. ASSUME NEW j \in DOMAIN threads' PROVE WellFormed(threads'[j].diff) /\ Fit(threads'[j])
  <2>1. CASE j = i
    BY <1>1, <2>1 DEF Fit
  <2>2. CASE j # i
    BY <1>1, <2>2 DEF DiffInv
  <2> QED
    BY <2>1, <2>2
<1> QED
  BY <1>2 DEF DiffInv

LEMMA LookKeepsDiffs ==
    ASSUME ShapeInv, DiffInv, NEW i \in DOMAIN threads, Look(i)
    PROVE  DiffInv'
<1>1. files' = files /\ told' = told /\ files \in Files
  BY DEF Look, DiffInv
<1>2. CASE \E result \in {"blocked", "error", "approval_required"} : Done(i, result, <<>>)
  BY <1>1, <1>2, NothingFormed, EndKeepsDiffs
<1>3. CASE /\ DOMAIN threads' = DOMAIN threads
           /\ \A j \in DOMAIN threads : threads'[j].call = threads[j].call
           /\ \A j \in DOMAIN threads : j # i => threads'[j] = threads[j]
           /\ threads'[i].content = files /\ threads'[i].diff = threads[i].diff
           /\ threads[i].call.tool = "replacement" => RefusesReplacement(threads[i].call) = ""
  <2>1. Fit(threads'[i])
    <3>1. PICK c : c = threads[i].call
      OBVIOUS
    <3>2. c.tool = "replacement" => files[c.path] # Absent /\ Places(files[c.path], c.old) # {}
      BY <1>3, <3>1 DEF RefusesReplacement
    <3> QED
      BY <1>1, <1>3, <3>1, <3>2 DEF Fit
  <2>2. ASSUME NEW j \in DOMAIN threads' PROVE WellFormed(threads'[j].diff) /\ Fit(threads'[j])
    BY <1>3, <2>1 DEF DiffInv
  <2> QED
    BY <1>1, <2>2 DEF DiffInv
<1> QED
  BY <1>2, <1>3, Looks

\* An attempt begins.
LEMMA BeginKeepsDiffs ==
    ASSUME ShapeInv, DiffInv, NEW c, Startable(c), threads' = Append(threads, Thread(c)),
           files' = files, WellFormed(told'.diff)
    PROVE  DiffInv'
<1>1. Thread(c).diff = <<>> /\ Thread(c).at = "start"
  BY DEF Thread
<1>2. ASSUME NEW j \in DOMAIN threads' PROVE WellFormed(threads'[j].diff) /\ Fit(threads'[j])
  <2>1. CASE j \in DOMAIN threads
    BY <2>1, Begins DEF DiffInv
  <2>2. CASE j = Len(threads) + 1
    BY <1>1, <2>2, Begins, NothingFormed DEF Fit
  <2> QED
    BY <2>1, <2>2, Begins
<1> QED
  BY <1>2 DEF DiffInv

LEMMA DiffInit == Init => DiffInv
<1> SUFFICES ASSUME Init PROVE DiffInv
  OBVIOUS
<1>1. files \in Files
  BY FilesAssumption DEF Init, Files
<1>2. told = NoAnswer /\ DOMAIN threads = {}
  BY EmptySeq DEF Init
<1> QED
  BY <1>1, <1>2, NoAnswerFormed DEF DiffInv

LEMMA DiffStep == ShapeInv /\ DiffInv /\ [Next]_vars => DiffInv'
<1> SUFFICES ASSUME ShapeInv, DiffInv, [Next]_vars PROVE DiffInv'
  OBVIOUS
<1>1. ASSUME NEW c \in Calls, Call(c) PROVE DiffInv'
  <2>1. files' = files
    BY <1>1 DEF Call
  <2>2. WellFormed(told'.diff)
    <3>1. [NoAnswer EXCEPT !.result = "blocked"].diff = NoAnswer.diff
      BY DEF NoAnswer
    <3> QED
      BY <1>1, <3>1, NoAnswerFormed DEF Call
  <2>3. Startable(c) \/ Redirected(c)
    BY FilesAssumption DEF Startable, Redirected
  <2>4. CASE ~Redirected(c) /\ Key(Request(c)) \in approved
    BY <1>1, <2>1, <2>2, <2>3, <2>4, BeginKeepsDiffs DEF Call, Begin
  <2>5. CASE Redirected(c) \/ Key(Request(c)) \notin approved
    <3>1. threads' = threads
      BY <1>1, <2>5 DEF Call
    <3> QED
      BY <2>1, <2>2, <3>1 DEF DiffInv
  <2> QED
    BY <2>4, <2>5
<1>2. CASE Approve
  <2>1. threads' = Append(threads, Thread(call)) /\ files' = files /\ told' = told /\ Startable(call)
    BY <1>2 DEF Approve, Begin, ShapeInv
  <2> QED
    BY <2>1, BeginKeepsDiffs DEF DiffInv
<1>3. CASE Deny
  BY <1>3 DEF Deny, DiffInv
<1>4. ASSUME NEW i \in DOMAIN threads, Look(i) PROVE DiffInv'
  BY <1>4, LookKeepsDiffs
<1>5. ASSUME NEW i \in DOMAIN threads, Touch(i) PROVE DiffInv'
  <2>1. told' = told
    BY <1>5 DEF Touch
  <2> QED
    BY <1>5, <2>1, TouchFormed, EndKeepsDiffs
<1>6. CASE TimeOut
  <2>1. [NoAnswer EXCEPT !.result = "timeout"].diff = NoAnswer.diff
    BY DEF NoAnswer
  <2>2. WellFormed(told'.diff) /\ files' = files /\ threads' = threads
    BY <1>6, <2>1, NoAnswerFormed DEF TimeOut, DiffInv
  <2> QED
    BY <2>2 DEF DiffInv
<1>7. CASE Retry
  <2>1. threads' = Append(threads, Thread(call)) /\ files' = files /\ told' = told /\ Startable(call)
    BY <1>7 DEF Retry, ShapeInv
  <2> QED
    BY <2>1, BeginKeepsDiffs DEF DiffInv
<1>8. CASE Return
  <2>1. PICK n : n = Len(threads)
    OBVIOUS
  <2>2. threads # <<>> /\ threads \in Seq(ToSet(threads)) /\ threads' = Front(threads) /\ files' = files
    BY <1>8, EmptySeq DEF Return, ShapeInv
  <2>3. /\ DOMAIN threads' = 1..(n - 1) /\ n \in Nat \ {0}
        /\ \A i \in 1..(n - 1) : threads'[i] = threads[i]
    BY <2>1, <2>2, OneLess
  <2>4. DOMAIN threads = 1..n
    BY <2>1, <2>2, LenProperties
  <2>5. told'.diff = threads[n].diff
    BY <1>8, <2>1 DEF Return
  <2>6. WellFormed(told'.diff)
    BY <2>3, <2>4, <2>5 DEF DiffInv
  <2>7. \A i \in DOMAIN threads' : i \in DOMAIN threads /\ threads'[i] = threads[i]
    BY <2>3, <2>4
  <2> QED
    BY <2>2, <2>6, <2>7 DEF DiffInv
<1>9. ASSUME NEW p \in Paths, NEW content \in Edits, Edit(p, content) PROVE DiffInv'
  <2>1. content \in Contents /\ files \in Files
    BY FilesAssumption DEF DiffInv
  <2>2. files' = [files EXCEPT ![p] = content] /\ told' = told /\ threads' = threads
    BY <1>9 DEF Edit
  <2>3. files' \in Files
    BY <2>1, <2>2, FilesExcept
  <2> QED
    BY <2>2, <2>3 DEF DiffInv
<1>10. CASE UNCHANGED vars
  BY <1>10 DEF vars, DiffInv
<1> QED
  BY <1>1, <1>2, <1>3, <1>4, <1>5, <1>6, <1>7, <1>8, <1>9, <1>10 DEF Next

(* build_changed_files_snapshot and _compact_diff_output, for every file   *)
(* and every change of it: the user's totals are the model's and the lines *)
(* that only the model's summary takes for headers, and unless a line of a *)
(* file looks like a header to both they are told the files that changed,  *)
(* with the lines added and removed.                                       *)
THEOREM SummariesCount == Spec => []SummaryCounts
<1>1. DiffInv => SummaryCounts
  BY SummaryOf DEF DiffInv
<1> QED
  BY <1>1, ShapeInit, ShapeStep, DiffInit, DiffStep, PTL DEF Spec
=============================================================================
