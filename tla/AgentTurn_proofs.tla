-------------------------- MODULE AgentTurn_proofs --------------------------
(***************************************************************************)
(* Theorems about the Task State, for every list, limit and retry count,   *)
(* about the turn of the agent, for every set of tool calls, batch size,   *)
(* recursion limit and set of paths, and about a task it delegates to a    *)
(* subagent, for every number of tries, turns, attempts and runs: its      *)
(* limits, what it leaves running, what it leaves shown, and what          *)
(* cancelling it does.                                                     *)
(***************************************************************************)
EXTENDS AgentTurn, Subagent, SequenceTheorems, TLAPS

-----------------------------------------------------------------------------
(* The Task State by itself: lemmas about its operations, and theorems of  *)
(* its own specification.  They rest on TodoAssumption alone.              *)

\* set_items keeps a bounded list of items, and nothing only of an empty list.
LEMMA TruncateKeeps ==
    ASSUME NEW list \in Seq(Item)
    PROVE  /\ Truncate(list) \in KeptLists
           /\ Truncate(list) = <<>> <=> list = <<>>
<1>1. CASE Len(list) > MaxItems
  <2>1. SubSeq(list, 1, MaxItems) \in Seq(Item)
    BY <1>1, TodoAssumption, SubSeqProperties
  <2>2. Len(SubSeq(list, 1, MaxItems)) = MaxItems
    BY <1>1, TodoAssumption, SubSeqProperties
  <2>3. SubSeq(list, 1, MaxItems) # <<>> /\ list # <<>>
    BY <2>2, <1>1, TodoAssumption
  <2>. QED  BY <1>1, <2>1, <2>2, <2>3, TodoAssumption DEF Truncate, KeptLists
<1>2. CASE ~(Len(list) > MaxItems)
  BY <1>2, TodoAssumption DEF Truncate, KeptLists
<1>. QED  BY <1>1, <1>2

LEMMA NothingKept == <<>> \in KeptLists
BY TodoAssumption DEF KeptLists

\* The manager keeps the types of its fields.
LEMMA SetItemsType ==
    ASSUME NEW t \in TodoRecord, NEW list \in Seq(Item)
    PROVE  SetItems(t, list) \in TodoRecord
<1>. DEFINE kept == Truncate(list)
            finished == AllCompleted(kept)
            incomplete == kept # <<>> /\ ~finished
            repeats == IF incomplete /\ kept = t.lastSignature THEN t.repeats + 1 ELSE 0
            signature == IF incomplete THEN kept ELSE <<>>
            items == Current(kept)
            done == IF finished THEN kept ELSE t.done
            started == t.started \/ kept # <<>>
            completed == IF kept = <<>> THEN t.completed ELSE finished
            rounds == IF finished THEN 0 ELSE t.rounds
<1>1. kept \in KeptLists
  BY TruncateKeeps
<1>2. started \in BOOLEAN /\ completed \in BOOLEAN
  BY DEF TodoRecord, AllCompleted
<1>3. repeats \in Nat /\ rounds \in 0 .. RoundsCap
  BY TodoAssumption DEF TodoRecord
<1>4. signature \in KeptLists /\ items \in KeptLists /\ done \in KeptLists
  BY <1>1, NothingKept DEF TodoRecord, Current
<1>5. SetItems(t, list) =
        [t EXCEPT !.repeats = repeats, !.lastSignature = signature, !.items = items,
                  !.done = done, !.started = started, !.completed = completed,
                  !.rounds = rounds]
  BY DEF SetItems
<1>. HIDE DEF kept, finished, incomplete, repeats, signature, items, done,
              started, completed, rounds
<1>. QED
  BY <1>2, <1>3, <1>4, <1>5 DEF TodoRecord

LEMMA TodoCallType ==
    ASSUME NEW t \in TodoRecord, NEW list \in Seq(Item), NEW notes \in SUBSET Notes
    PROVE  TodoCall(t, list, notes) \in TodoRecord
<1>. DEFINE s == SetItems(t, list)
            once == SetMemory(s, notes)
<1>1. s \in TodoRecord
  BY SetItemsType
<1>2. once \in TodoRecord
  BY <1>1 DEF SetMemory, TodoRecord
<1>3. once.repeats + (Attempts - 1) \in Nat
  BY <1>2, TodoAssumption DEF TodoRecord
<1>4. [once EXCEPT !.repeats = @ + (Attempts - 1)] \in TodoRecord
  BY <1>2, <1>3 DEF TodoRecord
<1>. QED
  BY <1>2, <1>4 DEF TodoCall

LEMMA CloseRoundType ==
    ASSUME NEW t \in TodoRecord, NEW isTodo \in BOOLEAN
    PROVE  ConsumeRepeated(RecordToolCall(t, isTodo)) \in TodoRecord
<1>. DEFINE rounds == IF isTodo THEN 0 ELSE IF t.rounds < RoundsCap THEN t.rounds + 1 ELSE t.rounds
<1>1. RecordToolCall(t, isTodo) \in TodoRecord
  <2>1. rounds \in 0 .. RoundsCap
    BY TodoAssumption DEF TodoRecord
  <2>2. RecordToolCall(t, isTodo) = [t EXCEPT !.rounds = rounds]
    BY DEF RecordToolCall
  <2>. HIDE DEF rounds
  <2>. QED
    BY <2>1, <2>2 DEF TodoRecord
<1>. QED
  BY <1>1 DEF ConsumeRepeated, TodoRecord

\* After a todo call the task may end exactly if the kept list is completed;
\* an empty list changes nothing about it.
LEMMA TodoCallFinish ==
    ASSUME NEW t \in TodoRecord, NEW list \in Seq(Item), NEW notes \in SUBSET Notes
    PROVE  CanFinish(TodoCall(t, list, notes)) <=>
             IF list = <<>> THEN CanFinish(t) ELSE AllCompleted(Truncate(list))
<1>. DEFINE s == SetItems(t, list)
            once == SetMemory(s, notes)
<1>1. s \in TodoRecord
  BY SetItemsType
<1>2. once \in TodoRecord /\ once.started = s.started /\ once.completed = s.completed
  BY <1>1 DEF SetMemory, TodoRecord
<1>3. CanFinish(TodoCall(t, list, notes)) <=> CanFinish(s)
  BY <1>2 DEF TodoCall, CanFinish, TodoRecord
<1>4. /\ s.started = (t.started \/ Truncate(list) # <<>>)
      /\ s.completed = IF Truncate(list) = <<>> THEN t.completed
                       ELSE AllCompleted(Truncate(list))
  BY DEF SetItems, TodoRecord
<1>5. Truncate(list) = <<>> <=> list = <<>>
  BY TruncateKeeps
<1>. QED
  BY <1>3, <1>4, <1>5 DEF CanFinish

LEMMA CloseRoundFinish ==
    ASSUME NEW t \in TodoRecord, NEW isTodo \in BOOLEAN
    PROVE  LET r == ConsumeRepeated(RecordToolCall(t, isTodo))
           IN  r.started = t.started /\ r.completed = t.completed
BY DEF ConsumeRepeated, RecordToolCall, TodoRecord

-----------------------------------------------------------------------------

\* Every field of the manager keeps its type.
THEOREM TodoTypeCorrect == TodoSpec => []TodoTypeOK
<1>1. TodoInit => TodoTypeOK
  BY TodoAssumption, NothingKept DEF TodoInit, TodoTypeOK, FreshTodo, TodoRecord
<1>2. TodoTypeOK /\ [TodoNext]_todoVars => TodoTypeOK'
  <2> SUFFICES ASSUME TodoTypeOK, [TodoNext]_todoVars
               PROVE  TodoTypeOK'
    OBVIOUS
  <2>. USE DEF TodoTypeOK
  <2>1. ASSUME NEW list \in Lists, NEW notes \in SUBSET Notes, UpdateTodo(list, notes)
        PROVE  TodoTypeOK'
    <3>1. list \in Seq(Item)
      BY TodoAssumption
    <3>. QED
      BY <2>1, <3>1, TodoCallType DEF UpdateTodo, Submit
  <2>2. ASSUME NEW isTodo \in BOOLEAN, CloseRound(isTodo)
        PROVE  TodoTypeOK'
    BY <2>2, CloseRoundType DEF CloseRound
  <2>3. CASE PrepareForNewInput
    BY <2>3, TodoAssumption, NothingKept DEF PrepareForNewInput, FreshTodo, TodoRecord
  <2>4. CASE ConsumeReminder
    <3>1. 0 \in 0 .. RoundsCap
      BY TodoAssumption
    <3>2. [todo EXCEPT !.rounds = 0] \in TodoRecord
      BY <3>1 DEF TodoRecord
    <3>. QED
      BY <2>4, <3>2 DEF ConsumeReminder
  <2>5. CASE UNCHANGED todoVars
    BY <2>5 DEF todoVars
  <2>. QED
    BY <2>1, <2>2, <2>3, <2>4, <2>5 DEF TodoNext
<1>. QED
  BY <1>1, <1>2, PTL DEF TodoSpec

\* What the manager goes by is the part of the list that set_items keeps: that
\* is what every operation preserves.
FinishTracksKept == CanFinish(todo) <=> AllCompleted(Truncate(submitted))

LEMMA KeptListTracked == TodoSpec => []FinishTracksKept
<1>1. TodoInit => FinishTracksKept
  <2>1. Truncate(<<>>) = <<>>
    BY <<>> \in Seq(Item), TruncateKeeps
  <2>. QED
    BY <2>1 DEF TodoInit, FinishTracksKept, FreshTodo, CanFinish, AllCompleted
<1>2. TodoTypeOK /\ FinishTracksKept /\ [TodoNext]_todoVars
        => FinishTracksKept'
  <2> SUFFICES ASSUME TodoTypeOK, FinishTracksKept, [TodoNext]_todoVars
               PROVE  FinishTracksKept'
    OBVIOUS
  <2>. USE DEF TodoTypeOK, FinishTracksKept
  <2>1. ASSUME NEW list \in Lists, NEW notes \in SUBSET Notes, UpdateTodo(list, notes)
        PROVE  FinishTracksKept'
    <3>1. list \in Seq(Item)
      BY TodoAssumption
    <3>. QED
      BY <2>1, <3>1, TodoCallFinish DEF UpdateTodo, Submit
  <2>2. ASSUME NEW isTodo \in BOOLEAN, CloseRound(isTodo)
        PROVE  FinishTracksKept'
    BY <2>2, CloseRoundFinish DEF CloseRound, CanFinish
  <2>3. CASE PrepareForNewInput
    <3>1. Truncate(<<>>) = <<>>
      BY <<>> \in Seq(Item), TruncateKeeps
    <3>. QED
      BY <2>3, <3>1 DEF PrepareForNewInput, FreshTodo, CanFinish, AllCompleted
  <2>4. CASE ConsumeReminder
    BY <2>4 DEF ConsumeReminder, CanFinish, TodoRecord
  <2>5. CASE UNCHANGED todoVars
    BY <2>5 DEF todoVars
  <2>. QED
    BY <2>1, <2>2, <2>3, <2>4, <2>5 DEF TodoNext
<1>. QED
  BY <1>1, <1>2, TodoTypeCorrect, PTL DEF TodoSpec

\* The task may end exactly while the last non-empty list submitted is
\* completed, for every list within the limit.
THEOREM FinishTracksList == TodoSpec => []FinishMeansListCompleted
<1>1. TodoTypeOK /\ FinishTracksKept => FinishMeansListCompleted
  <2> SUFFICES ASSUME TodoTypeOK, FinishTracksKept, Len(submitted) <= MaxItems
               PROVE  CanFinish(todo) <=> AllCompleted(submitted)
    BY DEF FinishMeansListCompleted
  <2>1. Truncate(submitted) = submitted
    BY TodoAssumption DEF Truncate, TodoTypeOK
  <2>. QED
    BY <2>1 DEF FinishTracksKept
<1>. QED
  BY <1>1, TodoTypeCorrect, KeptListTracked, PTL

\* What set_items leaves in the fields that the two invariants below relate.
LEMMA TodoCallLists ==
    ASSUME NEW t \in TodoRecord, NEW list \in Seq(Item), NEW notes \in SUBSET Notes
    PROVE  LET kept == Truncate(list)
               r    == TodoCall(t, list, notes)
           IN  /\ r.items = Current(kept)
               /\ r.lastSignature = Current(kept)
               /\ r.repeats > 0 => Current(kept) # <<>>
               /\ r.done = IF AllCompleted(kept) THEN kept ELSE t.done
               /\ r.completed = IF kept = <<>> THEN t.completed ELSE AllCompleted(kept)
<1>. DEFINE kept == Truncate(list)
            s == SetItems(t, list)
            once == SetMemory(s, notes)
            r == TodoCall(t, list, notes)
<1>1. kept = <<>> => ~AllCompleted(kept)
  BY DEF AllCompleted
<1>2. /\ s.items = Current(kept)
      /\ s.lastSignature = IF kept # <<>> /\ ~AllCompleted(kept) THEN kept ELSE <<>>
      /\ s.repeats > 0 => kept # <<>> /\ ~AllCompleted(kept)
      /\ s.done = IF AllCompleted(kept) THEN kept ELSE t.done
      /\ s.completed = IF kept = <<>> THEN t.completed ELSE AllCompleted(kept)
  BY DEF SetItems, TodoRecord
<1>3. s.lastSignature = Current(kept)
  BY <1>1, <1>2 DEF Current
<1>4. s \in TodoRecord
  BY SetItemsType
<1>5. /\ once.items = s.items /\ once.lastSignature = s.lastSignature
      /\ once.repeats = s.repeats /\ once.done = s.done /\ once.completed = s.completed
  BY <1>4 DEF SetMemory, TodoRecord
<1>6. once \in TodoRecord
  BY <1>4 DEF SetMemory, TodoRecord
<1>7. /\ r.items = once.items /\ r.lastSignature = once.lastSignature
      /\ r.done = once.done /\ r.completed = once.completed
      /\ once.lastSignature = <<>> => r.repeats = once.repeats
  BY <1>6 DEF TodoCall, TodoRecord
<1>8. r.repeats > 0 => Current(kept) # <<>>
  BY <1>2, <1>3, <1>5, <1>7 DEF Current
<1>. QED
  BY <1>2, <1>3, <1>5, <1>7, <1>8

\* The list shown as current always has unfinished work, and a task counts as
\* completed only by the list it completed.
THEOREM CurrentUnfinished == TodoSpec => []CurrentListUnfinished
<1>1. TodoInit => CurrentListUnfinished
  BY DEF TodoInit, CurrentListUnfinished, FreshTodo, AllCompleted
<1>2. TodoTypeOK /\ CurrentListUnfinished /\ [TodoNext]_todoVars
        => CurrentListUnfinished'
  <2> SUFFICES ASSUME TodoTypeOK, CurrentListUnfinished, [TodoNext]_todoVars
               PROVE  CurrentListUnfinished'
    OBVIOUS
  <2>. USE DEF TodoTypeOK, CurrentListUnfinished
  <2>1. ASSUME NEW list \in Lists, NEW notes \in SUBSET Notes, UpdateTodo(list, notes)
        PROVE  CurrentListUnfinished'
    <3>. DEFINE kept == Truncate(list)
    <3>1. list \in Seq(Item)
      BY TodoAssumption
    <3>2. /\ todo'.items = Current(kept)
          /\ todo'.done = IF AllCompleted(kept) THEN kept ELSE todo.done
          /\ todo'.completed = IF kept = <<>> THEN todo.completed ELSE AllCompleted(kept)
      BY <2>1, <3>1, TodoCallLists DEF UpdateTodo
    <3>3. ~AllCompleted(Current(kept))
      BY DEF Current, AllCompleted
    <3>4. kept = <<>> => Current(kept) = <<>> /\ ~AllCompleted(kept)
      BY DEF Current, AllCompleted
    <3>5. AllCompleted(kept) => Current(kept) = <<>>
      BY DEF Current
    <3>. HIDE DEF kept
    <3>. QED
      BY <3>2, <3>3, <3>4, <3>5
  <2>2. ASSUME NEW isTodo \in BOOLEAN, CloseRound(isTodo)
        PROVE  CurrentListUnfinished'
    <3>1. /\ todo'.items = todo.items /\ todo'.done = todo.done
          /\ todo'.completed = todo.completed
      BY <2>2 DEF CloseRound, ConsumeRepeated, RecordToolCall, TodoRecord
    <3>. QED
      BY <3>1
  <2>3. CASE PrepareForNewInput
    BY <2>3 DEF PrepareForNewInput, FreshTodo, AllCompleted
  <2>4. CASE ConsumeReminder
    BY <2>4 DEF ConsumeReminder, TodoRecord
  <2>5. CASE UNCHANGED todoVars
    BY <2>5 DEF todoVars
  <2>. QED
    BY <2>1, <2>2, <2>3, <2>4, <2>5 DEF TodoNext
<1>. QED
  BY <1>1, <1>2, TodoTypeCorrect, PTL DEF TodoSpec

\* The no-progress warning is always about the list that is current.
THEOREM RepeatAboutCurrent == TodoSpec => []RepeatIsAboutCurrentList
<1>1. TodoInit => RepeatIsAboutCurrentList
  BY DEF TodoInit, RepeatIsAboutCurrentList, FreshTodo
<1>2. TodoTypeOK /\ RepeatIsAboutCurrentList /\ [TodoNext]_todoVars
        => RepeatIsAboutCurrentList'
  <2> SUFFICES ASSUME TodoTypeOK, RepeatIsAboutCurrentList, [TodoNext]_todoVars
               PROVE  RepeatIsAboutCurrentList'
    OBVIOUS
  <2>. USE DEF TodoTypeOK, RepeatIsAboutCurrentList, HasRepeatedUpdate
  <2>0. todo.repeats \in Nat
    BY DEF TodoRecord
  <2>1. ASSUME NEW list \in Lists, NEW notes \in SUBSET Notes, UpdateTodo(list, notes)
        PROVE  RepeatIsAboutCurrentList'
    <3>1. list \in Seq(Item)
      BY TodoAssumption
    <3>2. /\ todo'.items = todo'.lastSignature
          /\ todo'.repeats > 0 => todo'.items # <<>>
      BY <2>1, <3>1, TodoCallLists DEF UpdateTodo
    <3>3. todo'.repeats \in Nat
      BY <2>1, <3>1, TodoCallType DEF UpdateTodo, TodoRecord
    <3>. QED
      BY <3>2, <3>3
  <2>2. ASSUME NEW isTodo \in BOOLEAN, CloseRound(isTodo)
        PROVE  RepeatIsAboutCurrentList'
    <3>1. /\ todo'.items = todo.items /\ todo'.lastSignature = todo.lastSignature
          /\ todo'.repeats \in {0, todo.repeats}
      BY <2>2 DEF CloseRound, ConsumeRepeated, RecordToolCall, TodoRecord
    <3>. QED
      BY <2>0, <3>1
  <2>3. CASE PrepareForNewInput
    BY <2>3 DEF PrepareForNewInput, FreshTodo
  <2>4. CASE ConsumeReminder
    BY <2>4 DEF ConsumeReminder, TodoRecord
  <2>5. CASE UNCHANGED todoVars
    BY <2>5 DEF todoVars
  <2>. QED
    BY <2>1, <2>2, <2>3, <2>4, <2>5 DEF TodoNext
<1>. QED
  BY <1>1, <1>2, TodoTypeCorrect, PTL DEF TodoSpec

-----------------------------------------------------------------------------
(* Facts about the static definitions.                                     *)

LEMMA CallFacts ==
    ASSUME NEW c \in Calls
    PROVE  /\ c.plan \in Lists /\ c.plan \in Seq(Item)
           /\ c.notes \in SUBSET Notes
           /\ c.paths \in SUBSET Paths
           /\ Key(c) \in Keys
           /\ Key(c)[1] = c.tool
BY TurnAssumption, TodoAssumption DEF Call, Key, Keys

LEMMA BatchType ==
    ASSUME NEW b \in Batches
    PROVE  b \in Seq(Calls) /\ Len(b) \in Nat /\ DOMAIN b = 1 .. Len(b)
<1>1. PICK n \in 0 .. MaxBatch : b \in [1 .. n -> Calls]
  BY DEF Batches
<1>2. n \in Nat
  BY TurnAssumption
<1>3. b \in Seq(Calls)
  BY <1>1, <1>2
<1>. QED
  BY <1>3

\* A batch and its elements while it is worked on.
LEMMA BatchFacts ==
    ASSUME TypeOK, NEW i \in Indices
    PROVE  batch[i] \in Calls
BY DEF TypeOK, Indices

LEMMA SubmitType ==
    ASSUME TodoTypeOK, NEW list \in Seq(Item)
    PROVE  Submit(list) \in Seq(Item)
BY DEF TodoTypeOK, Submit

\* Advance leaves the node and the step counter in their sets.
LEMMA AdvanceType ==
    ASSUME NEW next \in Working \cup Ended, steps \in 0 .. RecursionLimit,
           node \in Working => steps < RecursionLimit,
           node \in Working, Advance(next)
    PROVE  /\ node' \in Working \cup Ended
           /\ steps' \in 0 .. RecursionLimit
           /\ node' \in Working => steps' < RecursionLimit
BY TurnAssumption DEF Advance, Working, Ended

-----------------------------------------------------------------------------

\* A node runs only below the recursion limit.
BelowLimit == node \in Working => steps < RecursionLimit

TypeInv == TypeOK /\ BelowLimit

LEMMA FreshTodoType == FreshTodo \in TodoRecord /\ FreshWorkflow \in
    [workspaceChecked : BOOLEAN, diffChecked : BOOLEAN,
     needsVerify : BOOLEAN, approved : SUBSET Keys]
BY TodoAssumption, NothingKept DEF FreshTodo, TodoRecord, FreshWorkflow

LEMMA TypeInit == Init => TypeInv
<1> SUFFICES ASSUME Init
             PROVE  TypeInv
  OBVIOUS
<1>1. TodoTypeOK
  BY FreshTodoType DEF Init, TodoInit, TodoTypeOK
<1>2. batch \in Seq(Calls)
  BY DEF Init
<1>3. call \in [Indices -> {"queued"} \cup Active \cup Outcomes]
  <2>1. batch = <<>> /\ call = <<>>
    BY DEF Init
  <2>2. Len(batch) = 0
    BY <2>1
  <2>3. Indices = {}
    BY <2>2 DEF Indices
  <2>. QED
    BY <2>1, <2>3
<1>4. node = "idle" /\ steps = 0 /\ steps \in 0 .. RecursionLimit
  BY TurnAssumption DEF Init
<1>5. guard \in [workspaceChecked : BOOLEAN, diffChecked : BOOLEAN,
                needsVerify : BOOLEAN, approved : SUBSET Keys]
  BY FreshTodoType DEF Init
<1>6. BelowLimit
  BY <1>4 DEF BelowLimit, Working
<1>. QED
  BY <1>1, <1>2, <1>3, <1>4, <1>5, <1>6 DEF Init, TypeInv, TypeOK

LEMMA TypeStep == TypeInv /\ [Next]_vars => TypeInv'
<1> SUFFICES ASSUME TypeInv, [Next]_vars
             PROVE  TypeInv'
  OBVIOUS
<1>. USE DEF TypeInv, TypeOK, BelowLimit
<1>1. ASSUME NewTurn, todo' \in {FreshTodo, todo}
      PROVE  TypeInv'
  <2>1. TodoTypeOK'
    BY <1>1, FreshTodoType DEF NewTurn, TodoTypeOK
  <2>2. batch' \in Seq(Calls) /\ call' \in [Indices' -> {"queued"} \cup Active \cup Outcomes]
    <3>1. batch' = <<>> /\ call' = <<>>
      BY <1>1 DEF NewTurn
    <3>2. Len(batch') = 0
      BY <3>1
    <3>3. Indices' = {}
      BY <3>2 DEF Indices
    <3>. QED
      BY <3>1, <3>3
  <2>3. node' = "llm" /\ steps' = 0
    BY <1>1 DEF NewTurn
  <2>4. steps' \in 0 .. RecursionLimit /\ steps' < RecursionLimit
    BY <2>3, TurnAssumption
  <2>5. guard' \in [workspaceChecked : BOOLEAN, diffChecked : BOOLEAN,
                   needsVerify : BOOLEAN, approved : SUBSET Keys]
    BY <1>1, FreshTodoType DEF NewTurn
  <2>. QED
    BY <1>1, <2>1, <2>2, <2>3, <2>4, <2>5 DEF NewTurn, Working
<1>2. CASE Send
  BY <1>1, <1>2 DEF Send
<1>3. CASE SendStream
  BY <1>1, <1>3 DEF SendStream
<1>4. CASE LlmFail
  BY <1>4 DEF LlmFail, Working, Ended, historyVars, todoVars, TodoTypeOK, Indices
<1>5. ASSUME NEW b \in Batches, NEW text \in BOOLEAN, LlmRespond(b, text)
      PROVE  TypeInv'
  <2>1. node \in Working
    BY <1>5 DEF LlmRespond, Working
  <2>2. /\ node' \in Working \cup Ended
        /\ steps' \in 0 .. RecursionLimit
        /\ node' \in Working => steps' < RecursionLimit
    BY <1>5, <2>1, AdvanceType DEF LlmRespond, Working
  <2>3. batch' \in Seq(Calls) /\ call' \in [Indices' -> {"queued"} \cup Active \cup Outcomes]
    BY <1>5, BatchType DEF LlmRespond, Indices
  <2>4. TodoTypeOK' /\ notices' = {} /\ answer' \in BOOLEAN
    BY <1>5 DEF LlmRespond, TodoTypeOK, todoVars, HasPreflight
  <2>5. UNCHANGED <<guard, granted, performed, ran, unverified, adrift>>
    BY <1>5 DEF LlmRespond, historyVars
  <2>. QED
    BY <2>2, <2>3, <2>4, <2>5
<1>6. CASE TaskGuard
  <2>1. node \in Working
    BY <1>6 DEF TaskGuard, Working
  <2>2. /\ node' \in Working \cup Ended
        /\ steps' \in 0 .. RecursionLimit
        /\ node' \in Working => steps' < RecursionLimit
    BY <1>6, <2>1, AdvanceType DEF TaskGuard, Working, Ended
  <2>. QED
    BY <1>6, <2>2 DEF TaskGuard, historyVars, todoVars, TodoTypeOK, Indices
<1>7. ASSUME NEW i \in Indices, NEW exists \in BOOLEAN, StartCall(i, exists)
      PROVE  TypeInv'
  <2>1. call' \in [Indices -> {"queued"} \cup Active \cup Outcomes]
    BY <1>7 DEF StartCall, Active, Outcomes
  <2>. QED
    BY <1>7, <2>1 DEF StartCall, historyVars, todoVars, TodoTypeOK, Indices
<1>8. ASSUME NEW i \in Indices, FinishPreflight(i)
      PROVE  TypeInv'
  BY <1>8 DEF FinishPreflight, Outcomes, todoVars, TodoTypeOK, Indices
<1>9. ASSUME NEW i \in Indices, BreakCall(i)
      PROVE  TypeInv'
  BY <1>9 DEF BreakCall, Outcomes, historyVars, todoVars, TodoTypeOK, Indices
<1>10. ASSUME NEW i \in Indices, Approve(i)
       PROVE  TypeInv'
  <2>1. Key(batch[i]) \in Keys
    BY BatchFacts, CallFacts
  <2>. QED
    BY <1>10, <2>1 DEF Approve, Active, todoVars, TodoTypeOK, Indices
<1>11. ASSUME NEW i \in Indices, Deny(i)
       PROVE  TypeInv'
  BY <1>11 DEF Deny, Working, Ended, historyVars, todoVars, TodoTypeOK, Indices
<1>12. ASSUME NEW i \in Indices, ReturnTodo(i)
       PROVE  TypeInv'
  <2>1. batch[i].plan \in Seq(Item) /\ batch[i].notes \in SUBSET Notes
    BY BatchFacts, CallFacts
  <2>2. TodoTypeOK'
    BY <1>12, <2>1, TodoCallType, SubmitType DEF ReturnTodo, TodoTypeOK
  <2>. QED
    BY <1>12, <2>2 DEF ReturnTodo, Return, Outcomes, Indices
<1>13. ASSUME NEW i \in Indices, NEW outcome \in {"ok", "error", "exec_error"},
              ReturnCheck(i, outcome)
       PROVE  TypeInv'
  BY <1>13 DEF ReturnCheck, Return, Outcomes, todoVars, TodoTypeOK, Indices
<1>14. ASSUME NEW i \in Indices, NEW outcome \in {"ok", "error", "exec_error"},
              NEW written \in BOOLEAN, ReturnWrite(i, outcome, written)
       PROVE  TypeInv'
  <2>1. batch[i].paths \subseteq Paths /\ Key(batch[i]) \in Keys
    BY BatchFacts, CallFacts
  <2>2. NeedsVerification(batch[i].paths) \in BOOLEAN
    BY DEF NeedsVerification
  <2>. QED
    BY <1>14, <2>1, <2>2 DEF ReturnWrite, Return, Outcomes, todoVars, TodoTypeOK, Indices
<1>15. ASSUME NEW i \in Indices, NEW outcome \in {"ok", "error", "exec_error"},
              ReturnOther(i, outcome)
       PROVE  TypeInv'
  <2>1. Key(batch[i]) \in Keys
    BY BatchFacts, CallFacts
  <2>. QED
    BY <1>15, <2>1 DEF ReturnOther, Return, Outcomes, todoVars, TodoTypeOK, Indices
<1>16. CASE CloseBatch
  <2>1. node \in Working
    BY <1>16 DEF CloseBatch, Working
  <2>2. /\ node' \in Working \cup Ended
        /\ steps' \in 0 .. RecursionLimit
        /\ node' \in Working => steps' < RecursionLimit
    BY <1>16, <2>1, AdvanceType DEF CloseBatch, Working, Ended
  <2>3. HasTool("todo") \in BOOLEAN
    BY DEF HasTool
  <2>4. TodoTypeOK'
    BY <1>16, <2>3, CloseRoundType DEF CloseBatch, TodoTypeOK
  <2>. QED
    BY <1>16, <2>2, <2>4 DEF CloseBatch, historyVars, Indices
<1>17. CASE Cancel
  <2>1. \A i \in Indices : Key(batch[i]) \in Keys
    BY BatchFacts, CallFacts
  <2>. QED
    BY <1>17, <2>1 DEF Cancel, Working, Ended, todoVars, TodoTypeOK, Indices
<1>18. ASSUME NEW i \in Indices, Outlive(i)
       PROVE  TypeInv'
  <2>1. Key(batch[i]) \in Keys
    BY BatchFacts, CallFacts
  <2>. QED
    BY <1>18, <2>1 DEF Outlive, graphVars, todoVars, TodoTypeOK, Indices
<1>19. ASSUME NEW k \in Keys, Land(k)
       PROVE  TypeInv'
  BY <1>19 DEF Land, graphVars, todoVars, TodoTypeOK, Indices
<1>20. CASE UNCHANGED vars
  BY <1>20 DEF vars, todoVars, graphVars, historyVars, TodoTypeOK, Indices
<1>. QED
  BY <1>2, <1>3, <1>4, <1>5, <1>6, <1>7, <1>8, <1>9, <1>10, <1>11, <1>12, <1>13,
     <1>14, <1>15, <1>16, <1>17, <1>18, <1>19, <1>20 DEF Next, Llm, ToolStep, Answer, ReturnCall

\* Every variable of the turn keeps its type.
THEOREM TypeCorrect == Spec => []TypeOK
<1>1. TypeInv => TypeOK
  BY DEF TypeInv
<1>. QED
  BY <1>1, TypeInit, TypeStep, PTL DEF Spec

-----------------------------------------------------------------------------
(* What the executor relies on.  WritesWerePreflighted alone is not          *)
(* inductive: it needs to know that a call which waits for the user or for   *)
(* its handler passed the checks before it, and that no later step of the    *)
(* same turn takes a check or an approval back.                              *)

\* The workflow state remembers what the user granted, and nothing takes
\* effect without, now or in a thread left behind.
ApprovalsKept ==
    /\ guard.approved = granted
    /\ performed \cup adrift \subseteq granted

\* A write in such a thread passed the preflight too.
LatePreflighted ==
    (\E k \in adrift : k[1] \in WriteTools) => ran = {"workspace_state", "git_diff"}

ChecksRan ==
    /\ guard.workspaceChecked => "workspace_state" \in ran
    /\ guard.diffChecked => "git_diff" \in ran

\* Calls that got past the preflight, the redirect and the cache of approvals.
Cleared(c, state) ==
    /\ state \in {"approving", "running"} /\ IsWrite(c)
          => HasPreflight /\ c.tool # "edit_file"
    /\ state = "approving" => NeedsApproval(c)
    /\ state = "running" /\ NeedsApproval(c) => Key(c) \in guard.approved

AllCleared == \A i \in Indices : Cleared(batch[i], call[i])

GuardInv ==
    ApprovalsKept /\ ChecksRan /\ AllCleared /\ WritesWerePreflighted /\ LatePreflighted

LEMMA GuardInit == Init => GuardInv
BY DEF Init, GuardInv, ApprovalsKept, ChecksRan, AllCleared, Indices,
       WritesWerePreflighted, LatePreflighted, FreshWorkflow

\* A running write is an approved operation: edit_file never runs.
LEMMA RunningWrite ==
    ASSUME TypeOK, GuardInv, NEW i \in Indices, call[i] = "running",
           IsWrite(batch[i]) \/ NeedsApproval(batch[i])
    PROVE  /\ NeedsApproval(batch[i])
           /\ Key(batch[i]) \in granted
           /\ Key(batch[i])[1] \in WriteTools => ran = {"workspace_state", "git_diff"}
<1>1. batch[i] \in Calls /\ Key(batch[i])[1] = batch[i].tool
  BY BatchFacts, CallFacts
<1>2. Cleared(batch[i], "running")
  BY DEF GuardInv, AllCleared
<1>3. NeedsApproval(batch[i])
  BY <1>2 DEF Cleared, IsWrite, WriteTools, NeedsApproval
<1>4. Key(batch[i]) \in granted
  BY <1>2, <1>3 DEF Cleared, GuardInv, ApprovalsKept
<1>5. ASSUME batch[i].tool \in WriteTools
      PROVE  ran = {"workspace_state", "git_diff"}
  BY <1>2, <1>5 DEF Cleared, IsWrite, HasPreflight, GuardInv, ChecksRan, TypeOK
<1>. QED
  BY <1>1, <1>3, <1>4, <1>5

\* A step that leaves the calls and what is known about them alone.
LEMMA GuardQuiet ==
    ASSUME GuardInv, UNCHANGED <<batch, call, guard, granted, performed, ran, adrift>>
    PROVE  GuardInv'
BY DEF GuardInv, ApprovalsKept, ChecksRan, AllCleared, Cleared, Indices,
       HasPreflight, WritesWerePreflighted, LatePreflighted

\* One call moves on, checks and approvals only grow.
LEMMA ClearedGrows ==
    ASSUME TypeOK, GuardInv, NEW i \in Indices, NEW state,
           batch' = batch, call' = [call EXCEPT ![i] = state],
           HasPreflight => HasPreflight',
           guard.approved \subseteq guard'.approved,
           Cleared(batch[i], state)'
    PROVE  AllCleared'
<1>1. Indices' = Indices
  BY DEF Indices
<1>2. SUFFICES ASSUME NEW j \in Indices
               PROVE  Cleared(batch[j], call[j])'
  BY <1>1 DEF AllCleared
<1>3. CASE j = i
  BY <1>3 DEF TypeOK
<1>4. CASE j # i
  <2>1. call'[j] = call[j] /\ batch'[j] = batch[j]
    BY <1>4 DEF TypeOK
  <2>2. Cleared(batch[j], call[j])
    BY DEF GuardInv, AllCleared
  <2>. QED
    BY <2>1, <2>2 DEF Cleared
<1>. QED
  BY <1>3, <1>4

LEMMA GuardStep == TypeInv /\ GuardInv /\ [Next]_vars => GuardInv'
<1> SUFFICES ASSUME TypeOK, GuardInv, [Next]_vars
             PROVE  GuardInv'
  BY DEF TypeInv
<1>1. ASSUME NewTurn
      PROVE  GuardInv'
  <2>1. batch' = <<>> /\ guard' = FreshWorkflow /\ granted' = {} /\ performed' = {} /\ ran' = {} /\ adrift' = {}
    BY <1>1 DEF NewTurn
  <2>2. Len(batch') = 0
    BY <2>1
  <2>3. Indices' = {}
    BY <2>2 DEF Indices
  <2>. QED
    BY <2>1, <2>3 DEF GuardInv, ApprovalsKept, ChecksRan, AllCleared,
       WritesWerePreflighted, LatePreflighted, FreshWorkflow
<1>2. CASE LlmFail
  BY <1>2, GuardQuiet DEF LlmFail, historyVars
<1>3. ASSUME NEW b \in Batches, NEW text \in BOOLEAN, LlmRespond(b, text)
      PROVE  GuardInv'
  <2>1. \A i \in Indices' : call'[i] = "queued"
    BY <1>3 DEF LlmRespond, Indices
  <2>2. UNCHANGED <<guard, granted, performed, ran, adrift>>
    BY <1>3 DEF LlmRespond, historyVars
  <2>. QED
    BY <2>1, <2>2 DEF GuardInv, ApprovalsKept, ChecksRan, AllCleared, Cleared,
       WritesWerePreflighted, LatePreflighted
<1>4. CASE TaskGuard
  BY <1>4, GuardQuiet DEF TaskGuard, historyVars
<1>5. ASSUME NEW i \in Indices, NEW exists \in BOOLEAN, StartCall(i, exists)
      PROVE  GuardInv'
  <2>1. UNCHANGED <<batch, guard, granted, performed, ran, adrift>>
    BY <1>5 DEF StartCall, historyVars
  <2>. DEFINE c == batch[i]
              next == IF IsWrite(c) /\ ~HasPreflight THEN "preflight"
                      ELSE IF c.tool = "edit_file" THEN "redirected"
                      ELSE IF c.tool = "write_file" /\ c.paths # {} /\ exists THEN "redirected"
                      ELSE IF MissesTarget(c) THEN "no_target"
                      ELSE IF NeedsApproval(c) /\ Key(c) \notin guard.approved THEN "approving"
                      ELSE "running"
  <2>a. call' = [call EXCEPT ![i] = next]
    BY <1>5 DEF StartCall
  <2>b. next \in {"approving", "running"} /\ IsWrite(c) => HasPreflight /\ c.tool # "edit_file"
    OBVIOUS
  <2>c. next = "approving" => NeedsApproval(c)
    OBVIOUS
  <2>d. next = "running" /\ NeedsApproval(c) => Key(c) \in guard.approved
    OBVIOUS
  <2>. HIDE DEF next
  <2>e. PICK state : state = next
    OBVIOUS
  <2>2. /\ call' = [call EXCEPT ![i] = state]
        /\ state \in {"approving", "running"} /\ IsWrite(batch[i])
              => HasPreflight /\ batch[i].tool # "edit_file"
        /\ state = "approving" => NeedsApproval(batch[i])
        /\ state = "running" /\ NeedsApproval(batch[i])
              => Key(batch[i]) \in guard.approved
    BY <2>a, <2>b, <2>c, <2>d, <2>e
  <2>3. Cleared(batch[i], state)'
    BY <2>1, <2>2 DEF Cleared, HasPreflight
  <2>4. AllCleared'
    BY <2>1, <2>2, <2>3, ClearedGrows DEF HasPreflight
  <2>. QED
    BY <2>1, <2>4 DEF GuardInv, ApprovalsKept, ChecksRan, WritesWerePreflighted, LatePreflighted
<1>6. ASSUME NEW i \in Indices, FinishPreflight(i)
      PROVE  GuardInv'
  <2>1. /\ batch' = batch /\ call' = [call EXCEPT ![i] = "blocked"]
        /\ HasPreflight' /\ guard'.approved = guard.approved
        /\ ran' = {"workspace_state", "git_diff"}
        /\ UNCHANGED <<granted, performed, adrift>>
    BY <1>6 DEF FinishPreflight, HasPreflight, TypeOK
  <2>2. AllCleared'
    BY <2>1, ClearedGrows DEF Cleared
  <2>. QED
    BY <2>1, <2>2 DEF GuardInv, ApprovalsKept, ChecksRan, WritesWerePreflighted, LatePreflighted
<1>7. ASSUME NEW i \in Indices, BreakCall(i)
      PROVE  GuardInv'
  <2>1. /\ UNCHANGED <<batch, guard, granted, performed, ran, adrift>>
        /\ call' = [call EXCEPT ![i] = "error"]
    BY <1>7 DEF BreakCall, historyVars
  <2>2. AllCleared'
    BY <2>1, ClearedGrows DEF Cleared, HasPreflight
  <2>. QED
    BY <2>1, <2>2 DEF GuardInv, ApprovalsKept, ChecksRan, WritesWerePreflighted, LatePreflighted
<1>8. ASSUME NEW i \in Indices, Approve(i)
      PROVE  GuardInv'
  <2>1. /\ batch' = batch /\ call' = [call EXCEPT ![i] = "running"]
        /\ guard'.approved = guard.approved \cup {Key(batch[i])}
        /\ guard'.workspaceChecked = guard.workspaceChecked
        /\ guard'.diffChecked = guard.diffChecked
        /\ granted' = granted \cup {Key(batch[i])}
        /\ UNCHANGED <<performed, ran, adrift>>
    BY <1>8 DEF Approve, TypeOK
  <2>2. Cleared(batch[i], "approving")
    BY <1>8 DEF Approve, GuardInv, AllCleared
  <2>3. Cleared(batch[i], "running")'
    BY <2>1, <2>2 DEF Cleared, HasPreflight
  <2>4. AllCleared'
    BY <2>1, <2>3, ClearedGrows DEF HasPreflight
  <2>. QED
    BY <2>1, <2>4 DEF GuardInv, ApprovalsKept, ChecksRan, WritesWerePreflighted, LatePreflighted
<1>9. ASSUME NEW i \in Indices, Deny(i)
      PROVE  GuardInv'
  BY <1>9, GuardQuiet DEF Deny, historyVars
<1>10. ASSUME NEW i \in Indices, NEW outcome \in {"ok", "error", "exec_error"},
              batch' = batch, call' = [call EXCEPT ![i] = outcome],
              HasPreflight => HasPreflight', guard'.approved = guard.approved
       PROVE  AllCleared'
  BY <1>10, ClearedGrows DEF Cleared
<1>11. ASSUME NEW i \in Indices, ReturnTodo(i)
       PROVE  GuardInv'
  <2>1. /\ UNCHANGED <<batch, guard, granted, performed, ran, adrift>>
        /\ \E outcome \in {"ok", "error", "exec_error"} : call' = [call EXCEPT ![i] = outcome]
    BY <1>11 DEF ReturnTodo, Return
  <2>2. AllCleared'
    BY <2>1, <1>10 DEF HasPreflight
  <2>. QED
    BY <2>1, <2>2 DEF GuardInv, ApprovalsKept, ChecksRan, WritesWerePreflighted, LatePreflighted
<1>12. ASSUME NEW i \in Indices, NEW outcome \in {"ok", "error", "exec_error"},
              ReturnCheck(i, outcome)
       PROVE  GuardInv'
  <2>1. /\ batch' = batch /\ call' = [call EXCEPT ![i] = outcome]
        /\ guard'.approved = guard.approved
        /\ guard'.workspaceChecked = (guard.workspaceChecked \/ batch[i].tool = "workspace_state")
        /\ guard'.diffChecked = (guard.diffChecked \/ batch[i].tool = "git_diff")
        /\ UNCHANGED <<granted, performed, adrift>>
    BY <1>12 DEF ReturnCheck, Return, TypeOK
  <2>2. /\ ran \subseteq ran' /\ ran' \subseteq {"workspace_state", "git_diff"}
        /\ batch[i].tool \in {"workspace_state", "git_diff"} => batch[i].tool \in ran'
    BY <1>12 DEF ReturnCheck, TypeOK
  <2>3. AllCleared'
    BY <2>1, <1>10 DEF HasPreflight
  <2>4. ChecksRan'
    BY <2>1, <2>2 DEF GuardInv, ChecksRan
  <2>5. WritesWerePreflighted' /\ LatePreflighted'
    BY <2>1, <2>2 DEF GuardInv, WritesWerePreflighted, LatePreflighted
  <2>. QED
    BY <2>1, <2>3, <2>4, <2>5 DEF GuardInv, ApprovalsKept
<1>13. ASSUME NEW i \in Indices, NEW outcome \in {"ok", "error", "exec_error"},
              NEW written \in BOOLEAN, ReturnWrite(i, outcome, written)
       PROVE  GuardInv'
  <2>1. /\ batch' = batch /\ call' = [call EXCEPT ![i] = outcome]
        /\ guard'.approved = guard.approved
        /\ guard'.workspaceChecked = guard.workspaceChecked
        /\ guard'.diffChecked = guard.diffChecked
        /\ UNCHANGED <<granted, ran, adrift>>
    BY <1>13 DEF ReturnWrite, Return, TypeOK
  <2>2. /\ performed' \in {performed, performed \cup {Key(batch[i])}}
        /\ call[i] = "running" /\ IsWrite(batch[i])
    BY <1>13 DEF ReturnWrite, Return
  <2>3. AllCleared'
    BY <2>1, <1>10 DEF HasPreflight
  <2>. QED
    BY <2>1, <2>2, <2>3, RunningWrite
       DEF GuardInv, ApprovalsKept, ChecksRan, WritesWerePreflighted, LatePreflighted
<1>14. ASSUME NEW i \in Indices, NEW outcome \in {"ok", "error", "exec_error"},
              ReturnOther(i, outcome)
       PROVE  GuardInv'
  <2>1. /\ UNCHANGED <<batch, guard, granted, ran, adrift>>
        /\ call' = [call EXCEPT ![i] = outcome]
    BY <1>14 DEF ReturnOther, Return
  <2>2. /\ performed' = IF NeedsApproval(batch[i]) THEN performed \cup {Key(batch[i])} ELSE performed
        /\ call[i] = "running"
    BY <1>14 DEF ReturnOther, Return
  <2>3. AllCleared'
    BY <2>1, <1>10 DEF HasPreflight
  <2>. QED
    BY <2>1, <2>2, <2>3, RunningWrite
       DEF GuardInv, ApprovalsKept, ChecksRan, WritesWerePreflighted, LatePreflighted
<1>15. CASE CloseBatch
  BY <1>15, GuardQuiet DEF CloseBatch, historyVars
<1>16. ASSUME UNCHANGED <<batch, call, guard, granted, performed, ran>>,
              NEW S \in SUBSET {i \in Indices : call[i] = "running" /\ NeedsApproval(batch[i])},
              adrift' = adrift \cup {Key(batch[i]) : i \in S}
       PROVE  GuardInv'
  <2>1. AllCleared'
    BY <1>16 DEF GuardInv, AllCleared, Cleared, Indices, HasPreflight
  <2>2. \A i \in S : /\ Key(batch[i]) \in granted
                     /\ Key(batch[i])[1] \in WriteTools => ran = {"workspace_state", "git_diff"}
    BY RunningWrite
  <2>. QED
    BY <1>16, <2>1, <2>2
       DEF GuardInv, ApprovalsKept, ChecksRan, WritesWerePreflighted, LatePreflighted
<1>17. CASE Cancel
  BY <1>16, <1>17 DEF Cancel, InThread
<1>18. ASSUME NEW i \in Indices, Outlive(i)
       PROVE  GuardInv'
  <2>1. {i} \in SUBSET {j \in Indices : call[j] = "running" /\ NeedsApproval(batch[j])}
    BY <1>18 DEF Outlive, InThread
  <2>2. adrift' = adrift \cup {Key(batch[j]) : j \in {i}}
    BY <1>18 DEF Outlive
  <2>. QED
    BY <1>16, <1>18, <2>1, <2>2 DEF Outlive, graphVars
<1>19. ASSUME NEW k \in Keys, Land(k)
       PROVE  GuardInv'
  <2>1. UNCHANGED <<batch, call, guard, granted, ran>>
    BY <1>19 DEF Land, graphVars
  <2>2. AllCleared'
    BY <2>1 DEF GuardInv, AllCleared, Cleared, Indices, HasPreflight
  <2>. QED
    BY <1>19, <2>1, <2>2
       DEF Land, GuardInv, ApprovalsKept, ChecksRan, WritesWerePreflighted, LatePreflighted
<1>20. CASE UNCHANGED vars
  BY <1>20, GuardQuiet DEF vars, graphVars, historyVars
<1>. QED
  BY <1>1, <1>2, <1>3, <1>4, <1>5, <1>6, <1>7, <1>8, <1>9, <1>11, <1>12, <1>13,
     <1>14, <1>15, <1>17, <1>18, <1>19, <1>20
     DEF Next, Send, SendStream, Llm, ToolStep, Answer, ReturnCall

\* Whatever calls the model sends, in whatever batches: no workspace write takes
\* effect in a turn before workspace_state and git_diff both ran in it.
THEOREM WritesPreflighted == Spec => []WritesWerePreflighted
<1>1. Init => TypeInv /\ GuardInv
  BY TypeInit, GuardInit
<1>2. TypeInv /\ GuardInv /\ [Next]_vars => (TypeInv /\ GuardInv)'
  BY TypeStep, GuardStep
<1>3. GuardInv => WritesWerePreflighted
  BY DEF GuardInv
<1>. QED
  BY <1>1, <1>2, <1>3, PTL DEF Spec

-----------------------------------------------------------------------------
(* The turn implements TurnContract: every step of it is a step of the      *)
(* contract or leaves what the contract speaks of alone.                    *)

LEMMA FreshCannotFinish == CanFinish(FreshTodo) = FALSE
BY DEF CanFinish, FreshTodo

LEMMA CanFinishBoolean == TodoTypeOK => CanFinish(todo) \in BOOLEAN
BY DEF TodoTypeOK, TodoRecord, CanFinish

LEMMA ContractStep == TypeInv /\ TypeInv' /\ GuardInv /\ [Next]_vars
                        => [Contract!Next]_Contract!contractVars
<1> SUFFICES ASSUME TypeOK, TypeOK', GuardInv, Next
             PROVE  Contract!Next \/ UNCHANGED Contract!contractVars
  BY DEF TypeInv, vars, graphVars, historyVars, todoVars, Contract!contractVars
<1>. DEFINE phase == IF node \in Working THEN "working" ELSE node
<1>a. CanFinish(todo) \in BOOLEAN /\ CanFinish(todo)' \in BOOLEAN
  BY CanFinishBoolean DEF TypeOK, TodoTypeOK, TodoRecord, CanFinish
<1>1. ASSUME NewTurn, todo' \in {FreshTodo, todo}
      PROVE  Contract!Begin
  <2>1. CanFinish(todo)' \in {FALSE, CanFinish(todo)}
    BY <1>1, FreshCannotFinish DEF CanFinish
  <2>2. phase \in Contract!Over /\ phase' = "working"
    BY <1>1 DEF NewTurn, Working, TypeOK, Ended, Contract!Over, Contract!Stopped
  <2>. QED
    BY <1>1, <2>1, <2>2 DEF NewTurn, Contract!Begin
<1>2. ASSUME node \in Working, node' \in Working,
             UNCHANGED <<CanFinish(todo), granted, performed, adrift>>
      PROVE  UNCHANGED Contract!contractVars
  BY <1>2 DEF Contract!contractVars
<1>3. ASSUME node \in Working, node' \in {"denied", "failed", "exhausted", "cancelled"},
             UNCHANGED <<CanFinish(todo), granted, performed>>,
             NEW given \in SUBSET granted, adrift' = adrift \cup given
      PROVE  Contract!Stop
  BY <1>3 DEF Contract!Stop, Contract!Stopped, Working
<1>4. ASSUME node \in Working, node' = "finished", CanFinish(todo),
             UNCHANGED <<CanFinish(todo), granted, performed, adrift>>
      PROVE  Contract!Finish
  BY <1>4 DEF Contract!Finish, Working
<1>5. ASSUME NEW next \in Working \cup {"finished"}, node \in Working, Advance(next),
             next = "finished" => CanFinish(todo),
             UNCHANGED <<CanFinish(todo), granted, performed, adrift>>
      PROVE  Contract!Next \/ UNCHANGED Contract!contractVars
  <2>1. CASE node' = "exhausted"
    <3>1. {} \in SUBSET granted /\ adrift' = adrift \cup {}
      BY <1>5
    <3>. QED
      BY <1>5, <1>3, <2>1, <3>1 DEF Contract!Next
  <2>2. CASE node' = next
    BY <1>5, <1>2, <1>4, <2>2 DEF Contract!Next
  <2>. QED
    BY <1>5, <2>1, <2>2 DEF Advance
<1>6. ASSUME NEW k \in granted, node \in Working, node' = node,
             UNCHANGED <<CanFinish(todo), granted, adrift>>,
             performed' = performed \cup {k}
      PROVE  Contract!Next
  <2>1. k \in Keys
    BY DEF TypeOK
  <2>2. Contract!Perform(k)
    BY <1>6 DEF Contract!Perform
  <2>. QED
    BY <2>1, <2>2 DEF Contract!Next
<1>7. CASE Send \/ SendStream
  BY <1>1, <1>7 DEF Send, SendStream, Contract!Next
<1>8. CASE LlmFail
  <2>1. {} \in SUBSET granted /\ adrift' = adrift \cup {}
    BY <1>8 DEF LlmFail, historyVars
  <2>. QED
    BY <1>3, <1>8, <2>1 DEF LlmFail, Working, todoVars, historyVars, CanFinish, Contract!Next
<1>9. ASSUME NEW b \in Batches, NEW text \in BOOLEAN, LlmRespond(b, text)
      PROVE  Contract!Next \/ UNCHANGED Contract!contractVars
  BY <1>5, <1>9 DEF LlmRespond, Working, todoVars, historyVars, CanFinish
<1>10. CASE TaskGuard
  BY <1>5, <1>10 DEF TaskGuard, Working, todoVars, historyVars, CanFinish
<1>11. ASSUME NEW i \in Indices, NEW exists \in BOOLEAN,
              StartCall(i, exists) \/ FinishPreflight(i) \/ BreakCall(i)
       PROVE  UNCHANGED Contract!contractVars
  BY <1>2, <1>11 DEF StartCall, FinishPreflight, BreakCall, Working, todoVars,
     historyVars, CanFinish
<1>12. ASSUME NEW i \in Indices, Approve(i)
       PROVE  Contract!Next
  <2>1. Key(batch[i]) \in Keys
    BY BatchFacts, CallFacts
  <2>2. Contract!Approve(Key(batch[i]))
    BY <1>12 DEF Approve, Contract!Approve, Working, todoVars, CanFinish
  <2>. QED
    BY <2>1, <2>2 DEF Contract!Next
<1>13. ASSUME NEW i \in Indices, Deny(i)
       PROVE  Contract!Next
  <2>1. {} \in SUBSET granted /\ adrift' = adrift \cup {}
    BY <1>13 DEF Deny, historyVars
  <2>. QED
    BY <1>3, <1>13, <2>1 DEF Deny, Working, todoVars, historyVars, CanFinish, Contract!Next
<1>14. ASSUME NEW i \in Indices, ReturnTodo(i)
       PROVE  Contract!Next
  <2>1. Contract!Plan
    BY <1>14, <1>a DEF ReturnTodo, Return, Working, Contract!Plan
  <2>. QED
    BY <2>1 DEF Contract!Next
<1>15. ASSUME NEW i \in Indices, call[i] = "running", node = "tools", node' = node,
              UNCHANGED <<CanFinish(todo), granted, adrift>>,
              \/ performed' = performed
              \/ /\ performed' = performed \cup {Key(batch[i])}
                 /\ IsWrite(batch[i]) \/ NeedsApproval(batch[i])
       PROVE  Contract!Next \/ UNCHANGED Contract!contractVars
  BY <1>2, <1>6, <1>15, RunningWrite DEF Working
<1>16. ASSUME NEW i \in Indices, NEW outcome \in {"ok", "error", "exec_error"},
              NEW written \in BOOLEAN,
              \/ ReturnCheck(i, outcome)
              \/ ReturnOther(i, outcome)
              \/ ReturnWrite(i, outcome, written)
       PROVE  Contract!Next \/ UNCHANGED Contract!contractVars
  <2>1. /\ call[i] = "running" /\ node = "tools" /\ node' = node
        /\ UNCHANGED <<granted, adrift>>
    BY <1>16 DEF ReturnCheck, ReturnOther, ReturnWrite, Return
  <2>2. CanFinish(todo)' = CanFinish(todo)
    BY <1>16 DEF ReturnCheck, ReturnOther, ReturnWrite, todoVars, CanFinish
  <2>3. \/ performed' = performed
        \/ /\ performed' = performed \cup {Key(batch[i])}
           /\ IsWrite(batch[i]) \/ NeedsApproval(batch[i])
    BY <1>16 DEF ReturnCheck, ReturnOther, ReturnWrite
  <2>. QED
    BY <1>15, <2>1, <2>2, <2>3
<1>17. CASE CloseBatch
  <2>1. HasTool("todo") \in BOOLEAN
    BY DEF HasTool
  <2>2. CanFinish(todo)' = CanFinish(todo)
    BY <1>17, <2>1, CloseRoundFinish DEF CloseBatch, CanFinish, TypeOK, TodoTypeOK
  <2>. QED
    BY <1>5, <1>17, <2>2 DEF CloseBatch, Working, historyVars
<1>18. CASE Cancel
  <2>. DEFINE given == {Key(batch[i]) : i \in {j \in Indices : InThread(j)}}
  <2>1. given \in SUBSET granted
    BY RunningWrite DEF InThread
  <2>2. adrift' = adrift \cup given
    BY <1>18 DEF Cancel
  <2>. QED
    BY <1>3, <1>18, <2>1, <2>2 DEF Cancel, todoVars, CanFinish, Contract!Next
<1>19. ASSUME NEW i \in Indices, Outlive(i)
       PROVE  Contract!Next
  <2>1. Key(batch[i]) \in Keys /\ Key(batch[i]) \in granted
    BY <1>19, BatchFacts, CallFacts, RunningWrite DEF Outlive, InThread
  <2>2. Contract!Abandon(Key(batch[i]))
    BY <1>19, <2>1 DEF Outlive, InThread, Working, graphVars, todoVars, CanFinish, Contract!Abandon
  <2>. QED
    BY <2>1, <2>2 DEF Contract!Next
<1>20. ASSUME NEW k \in Keys, Land(k)
       PROVE  Contract!Next
  <2>1. Contract!Land(k)
    BY <1>20 DEF Land, graphVars, todoVars, CanFinish, Contract!Land
  <2>. QED
    BY <2>1 DEF Contract!Next
<1>. QED
  BY <1>7, <1>8, <1>9, <1>10, <1>11, <1>12, <1>13, <1>14, <1>16, <1>17, <1>18, <1>19, <1>20
     DEF Next, Llm, ToolStep, Answer, ReturnCall

\* A turn keeps its contract: approved operations take effect only under an
\* approval given in the same turn, threads left behind included, and it
\* finishes only with a complete Task State.
THEOREM TurnKeepsContract == Spec => ImplementsContract
<1>1. Init => Contract!Init
  BY FreshCannotFinish DEF Init, TodoInit, Contract!Init, Working
<1>2. Init => TypeInv /\ GuardInv
  BY TypeInit, GuardInit
<1>3. TypeInv /\ GuardInv /\ [Next]_vars => (TypeInv /\ GuardInv)'
  BY TypeStep, GuardStep
<1>4. TypeInv /\ TypeInv' /\ GuardInv /\ [Next]_vars
        => [Contract!Next]_Contract!contractVars
  BY ContractStep
<1>. QED
  BY <1>1, <1>2, <1>3, <1>4, PTL DEF Spec, ImplementsContract, Contract!Spec

-----------------------------------------------------------------------------
(* Where every request comes through Session.send, the Task State speaks of *)
(* lists the model submitted in this very turn.                             *)

PlanInv ==
    /\ CanFinish(todo) => AllCompleted(Truncate(submitted))
    /\ node = "finished" => CanFinish(todo)

LEMMA PlanInit == Init => PlanInv
BY FreshCannotFinish DEF Init, TodoInit, PlanInv

LEMMA PlanStep ==
    ASSUME Entries = {"send"}, TypeInv, PlanInv, [Next]_vars
    PROVE  PlanInv'
<1>. USE DEF TypeInv, TypeOK, PlanInv
<1>1. ASSUME Send
      PROVE  PlanInv'
  <2>1. CanFinish(todo)' = FALSE /\ node' = "llm"
    BY <1>1, FreshCannotFinish DEF Send, NewTurn, CanFinish
  <2>. QED
    BY <2>1
<1>2. ~SendStream
  BY DEF SendStream
<1>3. ASSUME UNCHANGED <<CanFinish(todo), submitted>>, node' = "finished" => CanFinish(todo)
      PROVE  PlanInv'
  BY <1>3
<1>4. ASSUME NEW next \in Working \cup {"finished"}, Advance(next),
             next = "finished" => CanFinish(todo),
             UNCHANGED <<CanFinish(todo), submitted>>
      PROVE  PlanInv'
  BY <1>3, <1>4 DEF Advance, Working
<1>5. CASE LlmFail
  BY <1>3, <1>5 DEF LlmFail, todoVars, CanFinish
<1>6. ASSUME NEW b \in Batches, NEW text \in BOOLEAN, LlmRespond(b, text)
      PROVE  PlanInv'
  BY <1>4, <1>6 DEF LlmRespond, Working, todoVars, CanFinish
<1>7. CASE TaskGuard
  BY <1>4, <1>7 DEF TaskGuard, Working, todoVars, CanFinish
<1>8. ASSUME NEW i \in Indices, NEW exists \in BOOLEAN,
             StartCall(i, exists) \/ FinishPreflight(i) \/ BreakCall(i) \/ Approve(i) \/ Deny(i)
      PROVE  PlanInv'
  BY <1>3, <1>8 DEF StartCall, FinishPreflight, BreakCall, Approve, Deny, todoVars, CanFinish
<1>9. ASSUME NEW i \in Indices, ReturnTodo(i)
      PROVE  PlanInv'
  <2>1. batch[i].plan \in Seq(Item) /\ batch[i].notes \in SUBSET Notes
    BY BatchFacts, CallFacts
  <2>2. CanFinish(todo)' = CanFinish(TodoCall(todo, batch[i].plan, batch[i].notes))
    BY <1>9 DEF ReturnTodo, CanFinish
  <2>3. CanFinish(todo)' => AllCompleted(Truncate(submitted))'
    BY <1>9, <2>1, <2>2, TodoCallFinish DEF ReturnTodo, Submit, TodoTypeOK
  <2>. QED
    BY <1>9, <2>3 DEF ReturnTodo, Return
<1>10. ASSUME NEW i \in Indices, NEW outcome \in {"ok", "error", "exec_error"},
              NEW written \in BOOLEAN,
              \/ ReturnCheck(i, outcome)
              \/ ReturnOther(i, outcome)
              \/ ReturnWrite(i, outcome, written)
       PROVE  PlanInv'
  <2>1. node' = "tools"
    BY <1>10 DEF ReturnCheck, ReturnOther, ReturnWrite, Return
  <2>2. UNCHANGED <<CanFinish(todo), submitted>>
    BY <1>10 DEF ReturnCheck, ReturnOther, ReturnWrite, todoVars, CanFinish
  <2>. QED
    BY <1>3, <2>1, <2>2
<1>11. CASE CloseBatch
  <2>1. HasTool("todo") \in BOOLEAN
    BY DEF HasTool
  <2>2. CanFinish(todo)' = CanFinish(todo)
    BY <1>11, <2>1, CloseRoundFinish DEF CloseBatch, CanFinish, TodoTypeOK
  <2>. QED
    BY <1>4, <1>11, <2>2 DEF CloseBatch, Working
<1>12. CASE Cancel
  BY <1>3, <1>12 DEF Cancel, todoVars, CanFinish
<1>13. ASSUME NEW i \in Indices, Outlive(i)
       PROVE  PlanInv'
  BY <1>3, <1>13 DEF Outlive, graphVars, todoVars, CanFinish
<1>14. ASSUME NEW k \in Keys, Land(k)
       PROVE  PlanInv'
  BY <1>3, <1>14 DEF Land, graphVars, todoVars, CanFinish
<1>15. CASE UNCHANGED vars
  BY <1>15 DEF vars, graphVars, todoVars, CanFinish
<1>. QED
  BY <1>1, <1>2, <1>5, <1>6, <1>7, <1>8, <1>9, <1>10, <1>11, <1>12, <1>13, <1>14, <1>15
     DEF Next, Llm, ToolStep, Answer, ReturnCall

\* Where every request comes through Session.send, a turn that ended as finished
\* had a todo list submitted in it, and the last one is completed as far as
\* set_items kept it.
THEOREM SendFinishesPlanned ==
    ASSUME Entries = {"send"}
    PROVE  Spec => []FinishedMeansPlanned
<1>1. Init => TypeInv /\ PlanInv
  BY TypeInit, PlanInit
<1>2. TypeInv /\ PlanInv /\ [Next]_vars => (TypeInv /\ PlanInv)'
  BY TypeStep, PlanStep
<1>3. PlanInv => FinishedMeansPlanned
  BY DEF PlanInv, FinishedMeansPlanned
<1>. QED
  BY <1>1, <1>2, <1>3, PTL DEF Spec

-----------------------------------------------------------------------------
(* The turn changes the Task State only by the operations of its manager.  *)

LEMMA ManagerStep ==
    ASSUME "send_stream" \notin Entries, TypeInv, [Next]_vars
    PROVE  [TodoNext]_todoVars
<1>. USE DEF TypeInv, TypeOK
<1>1. ASSUME Send
      PROVE  PrepareForNewInput
  BY <1>1 DEF Send, NewTurn, PrepareForNewInput
<1>2. ~SendStream
  BY DEF SendStream
<1>3. CASE Llm
  BY <1>3 DEF Llm, LlmFail, LlmRespond
<1>4. CASE TaskGuard
  BY <1>4 DEF TaskGuard
<1>5. ASSUME NEW i \in Indices, ReturnTodo(i)
      PROVE  TodoNext
  <2>1. batch[i] \in Calls
    BY BatchFacts
  <2>2. batch[i].plan \in Lists /\ batch[i].notes \in SUBSET Notes
    BY <2>1, CallFacts
  <2>3. UpdateTodo(batch[i].plan, batch[i].notes)
    BY <1>5 DEF ReturnTodo, UpdateTodo
  <2>. QED
    BY <2>2, <2>3 DEF TodoNext
<1>6. ASSUME NEW i \in Indices,
             \/ ToolStep(i) /\ ~ReturnTodo(i)
             \/ Answer(i) \/ Outlive(i)
      PROVE  UNCHANGED todoVars
  <2>1. CASE ToolStep(i) /\ ~ReturnTodo(i)
    BY <2>1 DEF ToolStep, StartCall, FinishPreflight, BreakCall, ReturnCall, ReturnCheck,
                ReturnWrite, ReturnOther
  <2>2. CASE Answer(i) \/ Outlive(i)
    BY <2>2 DEF Answer, Approve, Deny, Outlive
  <2>. QED
    BY <1>6, <2>1, <2>2
<1>7. ASSUME CloseBatch
      PROVE  TodoNext
  <2>1. HasTool("todo") \in BOOLEAN
    BY DEF HasTool
  <2>2. CloseRound(HasTool("todo"))
    BY <1>7 DEF CloseBatch, CloseRound
  <2>. QED
    BY <2>1, <2>2 DEF TodoNext
<1>8. CASE Cancel
  BY <1>8 DEF Cancel
<1>9. CASE \E k \in Keys : Land(k)
  BY <1>9 DEF Land
<1>10. CASE UNCHANGED vars
  BY <1>10 DEF vars
<1>. QED
  BY <1>1, <1>2, <1>3, <1>4, <1>5, <1>6, <1>7, <1>8, <1>9, <1>10 DEF Next, TodoNext

\* Where every request comes through Session.send, the agent is a caller of the
\* manager as TodoSpec describes them, so that what is proved of the manager by
\* itself holds of every turn.
THEOREM TurnDrivesManager ==
    ASSUME "send_stream" \notin Entries
    PROVE  Spec => TodoSpec
<1>1. Init => TodoInit
  BY DEF Init
<1>2. TypeInv /\ [Next]_vars => [TodoNext]_todoVars
  BY ManagerStep
<1>3. Spec => []TypeInv
  BY TypeInit, TypeStep, PTL DEF Spec
<1>. QED
  BY <1>1, <1>2, <1>3, PTL DEF Spec, TodoSpec

-----------------------------------------------------------------------------
(* tool_scheduler: a call starts only when every earlier call that may not *)
(* run beside it is over.                                                  *)

StartedInOrder ==
    \A i \in Indices : call[i] # "queued" =>
        \A j \in 1 .. i - 1 : ~(Concurrent(batch[j]) /\ Concurrent(batch[i])) => call[j] \in Outcomes

LEMMA OrderInit == Init => StartedInOrder
<1> SUFFICES ASSUME Init
             PROVE  StartedInOrder
  OBVIOUS
<1>1. Len(batch) = 0
  BY DEF Init
<1>. QED
  BY <1>1 DEF StartedInOrder, Indices

\* One call moves on, and is not put back in the queue.
LEMMA OrderKept ==
    ASSUME TypeOK, StartedInOrder, NEW i \in Indices, NEW state,
           batch' = batch, call' = [call EXCEPT ![i] = state],
           call[i] \notin Outcomes,
           call[i] # "queued" \/ MayStart(i)
    PROVE  StartedInOrder'
<1>1. Indices' = Indices /\ Len(batch) \in Nat
  BY DEF Indices, TypeOK
<1>2. SUFFICES ASSUME NEW k \in Indices, call'[k] # "queued", NEW j \in 1 .. k - 1,
                      ~(Concurrent(batch[j]) /\ Concurrent(batch[k]))
               PROVE  call'[j] \in Outcomes
  BY <1>1 DEF StartedInOrder, Concurrent
<1>3. j \in Indices /\ j # k
  BY <1>1, <1>2 DEF Indices
<1>4. call[j] \in Outcomes
  BY <1>2, <1>3 DEF StartedInOrder, MayStart, TypeOK
<1>5. j # i
  BY <1>4
<1>. QED
  BY <1>3, <1>4, <1>5 DEF TypeOK

LEMMA OrderStep == TypeInv /\ StartedInOrder /\ [Next]_vars => StartedInOrder'
<1> SUFFICES ASSUME TypeOK, StartedInOrder, [Next]_vars
             PROVE  StartedInOrder'
  BY DEF TypeInv
<1>1. ASSUME NewTurn
      PROVE  StartedInOrder'
  <2>1. Len(batch') = 0
    BY <1>1 DEF NewTurn
  <2>. QED
    BY <2>1 DEF StartedInOrder, Indices
<1>2. ASSUME UNCHANGED <<batch, call>>
      PROVE  StartedInOrder'
  BY <1>2 DEF StartedInOrder, Indices, Concurrent
<1>3. ASSUME NEW b \in Batches, NEW text \in BOOLEAN, LlmRespond(b, text)
      PROVE  StartedInOrder'
  <2>1. \A i \in Indices' : call'[i] = "queued"
    BY <1>3 DEF LlmRespond, Indices
  <2>. QED
    BY <2>1 DEF StartedInOrder
<1>4. ASSUME NEW i \in Indices, NEW exists \in BOOLEAN, StartCall(i, exists)
      PROVE  StartedInOrder'
  <2>1. call[i] \notin Outcomes /\ MayStart(i) /\ batch' = batch
    BY <1>4 DEF StartCall, MayStart, Outcomes
  <2>2. PICK state : call' = [call EXCEPT ![i] = state]
    BY <1>4 DEF StartCall
  <2>. QED
    BY <2>1, <2>2, OrderKept
<1>5. ASSUME NEW i \in Indices, NEW state, batch' = batch,
             call' = [call EXCEPT ![i] = state], call[i] \in Active
      PROVE  StartedInOrder'
  BY <1>5, OrderKept DEF Active, Outcomes
<1>6. ASSUME NEW i \in Indices,
             FinishPreflight(i) \/ Approve(i) \/ BreakCall(i) \/ ReturnCall(i)
      PROVE  StartedInOrder'
  <2>1. CASE FinishPreflight(i)
    BY <2>1, <1>5 DEF FinishPreflight, Active
  <2>2. CASE Approve(i)
    BY <2>2, <1>5 DEF Approve, Active
  <2>3. CASE BreakCall(i)
    BY <2>3, <1>5 DEF BreakCall, Active
  <2>4. ASSUME NEW outcome, Return(i, outcome)
        PROVE  StartedInOrder'
    BY <2>4, <1>5 DEF Return, Active
  <2>. QED
    BY <1>6, <2>1, <2>2, <2>3, <2>4 DEF ReturnCall, ReturnTodo, ReturnCheck, ReturnOther, ReturnWrite
<1>7. CASE LlmFail \/ TaskGuard \/ CloseBatch \/ Cancel
  BY <1>2, <1>7 DEF LlmFail, TaskGuard, CloseBatch, Cancel
<1>8. ASSUME NEW i \in Indices, Deny(i)
      PROVE  StartedInOrder'
  BY <1>2, <1>8 DEF Deny
<1>9. CASE UNCHANGED vars
  BY <1>2, <1>9 DEF vars, graphVars
<1>10. CASE \/ \E i \in Indices : Outlive(i)
            \/ \E k \in Keys : Land(k)
  BY <1>2, <1>10 DEF Outlive, Land, graphVars
<1>. QED
  BY <1>1, <1>3, <1>4, <1>6, <1>7, <1>8, <1>9, <1>10 DEF Next, Send, SendStream, Llm, ToolStep, Answer

\* What a waiting call that must run alone means for the others of its batch.
LEMMA OthersRest ==
    ASSUME TypeOK, StartedInOrder, NEW i \in Indices, call[i] \in Active,
           ~Concurrent(batch[i])
    PROVE  \A k \in Indices : k # i => /\ call[k] \in Outcomes \cup {"queued"}
                                       /\ ~MayStart(k)
<1> SUFFICES ASSUME NEW k \in Indices, k # i
             PROVE  call[k] \in Outcomes \cup {"queued"} /\ ~MayStart(k)
  OBVIOUS
<1>1. Len(batch) \in Nat /\ call[i] # "queued" /\ call[i] \notin Outcomes
  BY DEF TypeOK, Active, Outcomes
<1>2. CASE k < i
  <2>1. k \in 1 .. i - 1
    BY <1>1, <1>2 DEF Indices
  <2>2. call[k] \in Outcomes
    BY <1>1, <2>1 DEF StartedInOrder
  <2>. QED
    BY <2>2 DEF MayStart, Outcomes
<1>3. CASE i < k
  <2>1. i \in 1 .. k - 1
    BY <1>1, <1>3 DEF Indices
  <2>. QED
    BY <1>1, <2>1 DEF StartedInOrder, MayStart
<1>. QED
  BY <1>1, <1>2, <1>3 DEF Indices

\* Only a step of the waiting call itself moves the batch.
LEMMA SerialStep ==
    ASSUME TypeOK, StartedInOrder, [Next]_vars, NEW i \in Indices,
           node = "tools", node' = "tools",
           call[i] \in Active, ~Concurrent(batch[i]), call'[i] = call[i]
    PROVE  /\ UNCHANGED <<call, guard, todo>>
           /\ performed' \subseteq performed \cup adrift
<1>1. \A k \in Indices : k # i => call[k] \notin Active /\ ~MayStart(k)
  BY OthersRest DEF Active, Outcomes
<1>2. ~MayStart(i) /\ ~AllDone
  BY DEF MayStart, AllDone, Active, Outcomes
<1>3. ASSUME NEW k \in Indices, NEW state, call[k] \in Active, state # call[k],
             call' = [call EXCEPT ![k] = state]
      PROVE  FALSE
  <2>1. k = i
    BY <1>1, <1>3
  <2>. QED
    BY <1>3, <2>1 DEF TypeOK
<1>4. ASSUME NEW k \in Indices, ToolStep(k) \/ Answer(k)
      PROVE  FALSE
  <2>1. ~\E exists \in BOOLEAN : StartCall(k, exists)
    BY <1>1, <1>2 DEF StartCall
  <2>2. ~FinishPreflight(k)
    BY <1>3 DEF FinishPreflight, Active
  <2>3. ~Approve(k)
    BY <1>3 DEF Approve, Active
  <2>4. ~BreakCall(k)
    BY <1>3 DEF BreakCall, Active
  <2>5. ~Deny(k)
    BY DEF Deny
  <2>6. ASSUME NEW outcome \in {"ok", "error", "exec_error"}, Return(k, outcome)
        PROVE  FALSE
    <3>1. call[k] = "running" /\ call' = [call EXCEPT ![k] = outcome]
      BY <2>6 DEF Return
    <3>2. call[k] \in Active /\ outcome # call[k]
      BY <3>1 DEF Active
    <3>. QED
      BY <1>3, <3>1, <3>2
  <2>. QED
    BY <1>4, <2>1, <2>2, <2>3, <2>4, <2>5, <2>6
       DEF ToolStep, Answer, ReturnCall, ReturnTodo, ReturnCheck, ReturnOther, ReturnWrite
<1>5. ~(Send \/ SendStream \/ Llm \/ TaskGuard \/ CloseBatch \/ Cancel)
  BY <1>2 DEF Send, SendStream, NewTurn, Working, Llm, LlmFail, LlmRespond, TaskGuard,
     CloseBatch, Cancel
<1>6. CASE \E k \in Indices : Outlive(k)
  BY <1>6 DEF Outlive, graphVars, todoVars
<1>7. CASE \E k \in Keys : Land(k)
  BY <1>7 DEF Land, graphVars, todoVars
<1>8. CASE UNCHANGED vars
  BY <1>8 DEF vars, todoVars, graphVars, historyVars
<1>. QED
  BY <1>4, <1>5, <1>6, <1>7, <1>8 DEF Next

\* While a call that must run alone waits, nothing else of its batch touches
\* the workflow state, the Task State or the workspace: what the executor
\* checked before it waited is still true when it goes on, but for what a
\* thread left behind by a timeout does.
THEOREM SerialCallsAlone == Spec => SerialCallsUndisturbed
<1>1. Init => TypeInv /\ StartedInOrder
  BY TypeInit, OrderInit
<1>2. TypeInv /\ StartedInOrder /\ [Next]_vars => (TypeInv /\ StartedInOrder)'
  BY TypeStep, OrderStep
<1>3. TypeInv /\ StartedInOrder /\ [Next]_vars =>
        [\A i \in Indices :
          /\ node = "tools" /\ node' = "tools"
          /\ call[i] \in Active /\ ~Concurrent(batch[i])
          /\ call'[i] = call[i]
          => /\ UNCHANGED <<call, guard, todo>>
             /\ performed' \subseteq performed \cup adrift]_vars
  BY SerialStep DEF TypeInv
<1>. QED
  BY <1>1, <1>2, <1>3, PTL DEF Spec, SerialCallsUndisturbed

-----------------------------------------------------------------------------
(* after_batch_messages: the reminder to verify.  The flag speaks of the   *)
(* latest write, which is one of those not verified yet and is known to    *)
(* have had a target: a write without one never gets to its handler.       *)

WritesHaveTargets ==
    \A i \in Indices :
        call[i] \in {"approving", "running"} /\ IsWrite(batch[i]) => batch[i].paths # {}

NeedByKind ==
    /\ guard.needsVerify => unverified \cap CodePaths # {}
    /\ unverified # {} /\ unverified \subseteq CodePaths => guard.needsVerify

ReminderInv == WritesHaveTargets /\ NeedByKind

LEMMA ReminderInit == Init => ReminderInv
<1> SUFFICES ASSUME Init
             PROVE  ReminderInv
  OBVIOUS
<1>1. Len(batch) = 0
  BY DEF Init
<1>. QED
  BY <1>1 DEF Init, ReminderInv, WritesHaveTargets, NeedByKind, Indices, FreshWorkflow

\* One call moves on; if it gets to its handler, it has a target.
LEMMA TargetsKept ==
    ASSUME TypeOK, WritesHaveTargets, NEW i \in Indices, NEW state,
           batch' = batch, call' = [call EXCEPT ![i] = state],
           state \in {"approving", "running"} /\ IsWrite(batch[i]) => batch[i].paths # {}
    PROVE  WritesHaveTargets'
BY DEF TypeOK, WritesHaveTargets, Indices, IsWrite

LEMMA ReminderStep == TypeInv /\ GuardInv /\ ReminderInv /\ [Next]_vars => ReminderInv'
<1> SUFFICES ASSUME TypeOK, GuardInv, ReminderInv, [Next]_vars
             PROVE  ReminderInv'
  BY DEF TypeInv
<1>1. ASSUME NewTurn
      PROVE  ReminderInv'
  <2>1. Len(batch') = 0
    BY <1>1 DEF NewTurn
  <2>. QED
    BY <1>1, <2>1 DEF NewTurn, ReminderInv, WritesHaveTargets, NeedByKind, Indices,
       FreshWorkflow
<1>2. ASSUME UNCHANGED <<batch, call, guard, unverified>>
      PROVE  ReminderInv'
  BY <1>2 DEF ReminderInv, WritesHaveTargets, NeedByKind, Indices, IsWrite
<1>3. ASSUME NEW b \in Batches, NEW text \in BOOLEAN, LlmRespond(b, text)
      PROVE  ReminderInv'
  <2>1. \A i \in Indices' : call'[i] = "queued"
    BY <1>3 DEF LlmRespond, Indices
  <2>. QED
    BY <1>3, <2>1 DEF LlmRespond, historyVars, ReminderInv, WritesHaveTargets, NeedByKind
<1>4. ASSUME NEW i \in Indices, NEW exists \in BOOLEAN, StartCall(i, exists)
      PROVE  ReminderInv'
  <2>1. PICK state : /\ call' = [call EXCEPT ![i] = state]
                     /\ state \in {"approving", "running"} /\ IsWrite(batch[i])
                          => batch[i].paths # {}
    BY <1>4 DEF StartCall, IsWrite, WriteTools, MissesTarget
  <2>. QED
    BY <1>4, <2>1, TargetsKept DEF StartCall, ReminderInv, NeedByKind, historyVars
<1>5. ASSUME NEW i \in Indices, FinishPreflight(i)
      PROVE  ReminderInv'
  <2>1. guard'.needsVerify = guard.needsVerify
    BY <1>5 DEF FinishPreflight, TypeOK
  <2>. QED
    BY <1>5, <2>1, TargetsKept DEF FinishPreflight, ReminderInv, NeedByKind
<1>6. ASSUME NEW i \in Indices, Approve(i)
      PROVE  ReminderInv'
  <2>1. guard'.needsVerify = guard.needsVerify
    BY <1>6 DEF Approve, TypeOK
  <2>2. IsWrite(batch[i]) => batch[i].paths # {}
    BY <1>6 DEF Approve, ReminderInv, WritesHaveTargets
  <2>. QED
    BY <1>6, <2>1, <2>2, TargetsKept DEF Approve, ReminderInv, NeedByKind
<1>7. ASSUME NEW i \in Indices, BreakCall(i)
      PROVE  ReminderInv'
  BY <1>7, TargetsKept DEF BreakCall, ReminderInv, NeedByKind, historyVars
<1>8. ASSUME NEW i \in Indices, NEW outcome, Return(i, outcome),
             outcome \in {"ok", "error", "exec_error"}
      PROVE  WritesHaveTargets'
  BY <1>8, TargetsKept DEF Return, ReminderInv
<1>9. ASSUME NEW i \in Indices, ReturnTodo(i)
      PROVE  ReminderInv'
  BY <1>8, <1>9 DEF ReturnTodo, ReminderInv, NeedByKind
<1>10. ASSUME NEW i \in Indices, NEW outcome \in {"ok", "error", "exec_error"},
              ReturnCheck(i, outcome)
       PROVE  ReminderInv'
  <2>1. guard'.needsVerify = (guard.needsVerify /\ batch[i].tool # "verify")
    BY <1>10 DEF ReturnCheck, TypeOK
  <2>. QED
    BY <1>8, <1>10, <2>1 DEF ReturnCheck, ReminderInv, NeedByKind
<1>11. ASSUME NEW i \in Indices, NEW outcome \in {"ok", "error", "exec_error"},
              ReturnOther(i, outcome)
       PROVE  ReminderInv'
  BY <1>8, <1>11 DEF ReturnOther, ReminderInv, NeedByKind
<1>12. ASSUME NEW i \in Indices, NEW outcome \in {"ok", "error", "exec_error"},
              NEW written \in BOOLEAN, ReturnWrite(i, outcome, written)
       PROVE  ReminderInv'
  <2>1. batch[i].paths # {}
    BY <1>12 DEF ReturnWrite, Return, ReminderInv, WritesHaveTargets
  <2>2. outcome # "error" => guard'.needsVerify = (batch[i].paths \cap CodePaths # {})
    BY <1>12, <2>1 DEF ReturnWrite, NeedsVerification, TypeOK
  <2>3. /\ outcome = "error" => UNCHANGED <<guard, unverified>>
        /\ outcome # "error" => unverified' = unverified \cup batch[i].paths
    BY <1>12 DEF ReturnWrite
  <2>4. NeedByKind'
    BY <2>1, <2>2, <2>3 DEF ReminderInv, NeedByKind
  <2>5. WritesHaveTargets'
    BY <1>8, <1>12 DEF ReturnWrite
  <2>. QED
    BY <2>4, <2>5 DEF ReminderInv
<1>13. CASE LlmFail \/ TaskGuard \/ CloseBatch \/ Cancel
  BY <1>2, <1>13 DEF LlmFail, TaskGuard, CloseBatch, Cancel, historyVars
<1>14. ASSUME NEW i \in Indices, Deny(i)
       PROVE  ReminderInv'
  BY <1>2, <1>14 DEF Deny, historyVars
<1>15. CASE UNCHANGED vars
  BY <1>2, <1>15 DEF vars, graphVars, historyVars
<1>16. CASE \/ \E i \in Indices : Outlive(i)
            \/ \E k \in Keys : Land(k)
  BY <1>2, <1>16 DEF Outlive, Land, graphVars
<1>. QED
  BY <1>1, <1>3, <1>4, <1>5, <1>6, <1>7, <1>9, <1>10, <1>11, <1>12, <1>13, <1>14, <1>15, <1>16
     DEF Next, Send, SendStream, Llm, ToolStep, Answer, ReturnCall

\* The model is reminded to verify after every batch that leaves only unverified
\* code behind, and never when no code is unverified: whatever was written,
\* held back, denied, cut or verified in between.
THEOREM RemindersByKind == Spec => ReminderByKind
<1>1. Init => TypeInv /\ GuardInv /\ ReminderInv
  BY TypeInit, GuardInit, ReminderInit
<1>2. TypeInv /\ GuardInv /\ ReminderInv /\ [Next]_vars => (TypeInv /\ GuardInv /\ ReminderInv)'
  BY TypeStep, GuardStep, ReminderStep
<1>3. ASSUME TypeInv, ReminderInv, [Next]_vars, ClosesBatch, ~HasTool("verify")
      PROVE  /\ Reminds => unverified \cap CodePaths # {}
             /\ unverified # {} /\ unverified \subseteq CodePaths => Reminds
  <2>. USE DEF ClosesBatch
  <2>1. CloseBatch
    <3>1. ~(Send \/ SendStream \/ Llm \/ TaskGuard \/ Cancel)
      BY <1>3 DEF Send, SendStream, NewTurn, Working, Llm, LlmFail, LlmRespond, TaskGuard, Cancel
    <3>2. \A i \in Indices : ~(ToolStep(i) \/ Answer(i) \/ Outlive(i))
      BY <1>3 DEF ToolStep, Answer, StartCall, FinishPreflight, BreakCall, ReturnCall, ReturnTodo,
         ReturnCheck, ReturnOther, ReturnWrite, Return, Approve, Deny, Outlive, graphVars
    <3>3. \A k \in Keys : ~Land(k)
      BY <1>3 DEF Land, graphVars
    <3>4. ~UNCHANGED vars
      BY <1>3 DEF vars, graphVars
    <3>. QED
      BY <1>3, <3>1, <3>2, <3>3, <3>4 DEF Next
  <2>2. Reminds <=> AsksToVerify
    BY <2>1 DEF CloseBatch, Reminds
  <2>. QED
    BY <1>3, <2>2 DEF AsksToVerify, ReminderInv, NeedByKind
<1>4. TypeInv /\ ReminderInv /\ [Next]_vars =>
        [ClosesBatch /\ ~HasTool("verify") =>
          /\ Reminds => unverified \cap CodePaths # {}
          /\ unverified # {} /\ unverified \subseteq CodePaths => Reminds]_vars
  BY <1>3
<1>. QED
  BY <1>1, <1>2, <1>4, PTL DEF Spec, ReminderByKind

-----------------------------------------------------------------------------
(* The delegated task (Subagent).  The theorems rest on SubagentAssumption *)
(* alone.                                                                  *)

(* Every limit allows one attempt.                                         *)
LEMMA Limits ==
    /\ MaxTries \in Nat /\ 1 <= MaxTries
    /\ MaxTurns \in Nat /\ 1 <= MaxTurns
    /\ MaxAttempts \in Nat /\ 1 <= MaxAttempts
    /\ MaxRuns \in Nat /\ 1 <= MaxRuns
<1>1. {MaxTries, MaxTurns, MaxAttempts, MaxRuns} \subseteq Nat \ {0}
  BY SubagentAssumption
<1>2. \A n \in Nat \ {0} : n \in Nat /\ 1 <= n
  OBVIOUS
<1> QED
  BY <1>1, <1>2

Places ==
    {"begin", "turn", "call", "asking", "winding", "backoff", "tool", "approving", "running",
     "resting", "report", "off"}

TaskTypes ==
    /\ outer \in {"trying", "pausing", "returned", "failed", "cancelled"}
    /\ at \in Places
    /\ try \in Nat /\ turns \in Nat /\ attempt \in Nat /\ runs \in Nat

\* The run is somewhere exactly while the tool call waits for it.
RunHeld == outer = "trying" <=> at # "off"

(* The counters of the retry loops, against their limits.  A loop that     *)
(* goes round again has one more to spend.                                 *)
WithinLimits ==
    /\ try <= MaxTries /\ (outer = "pausing" => try < MaxTries)
    /\ turns <= MaxTurns
    /\ attempt <= MaxAttempts /\ (at \in {"call", "backoff"} => attempt < MaxAttempts)
    /\ runs <= MaxRuns
    /\ (at \in {"tool", "approving"} => runs = 0) /\ (at = "resting" => runs < MaxRuns)

LoopInv == TaskTypes /\ RunHeld /\ WithinLimits

(* The types and the limits hold throughout; they need the run and the     *)
(* waiting tool call to be in step, since a retry starts from `try` alone. *)
LEMMA LoopHolds == TaskSpec => []LoopInv
<1>1. TaskInit => LoopInv
  BY Limits DEF TaskInit, LoopInv, TaskTypes, RunHeld, WithinLimits, Places
<1>2. LoopInv /\ [TaskNext]_taskVars => LoopInv'
  <2> SUFFICES ASSUME LoopInv, [TaskNext]_taskVars PROVE LoopInv'
    OBVIOUS
  <2> USE DEF LoopInv, TaskTypes, RunHeld, WithinLimits, Places
  <2>1. CASE Begin
    BY <2>1, Limits DEF Begin, Stay, userVars
  <2>2. CASE Turn
    <3>1. turns' = turns \/ (turns # MaxTurns /\ turns' = turns + 1)
      BY <2>2 DEF Turn
    <3>2. turns' \in Nat /\ turns' <= MaxTurns
      BY <3>1, Limits
    <3> QED
      BY <2>2, <3>2, Limits DEF Turn, Stay, userVars
  <2>3. CASE Attempt
    BY <2>3, Limits DEF Attempt, Stay, userVars
  <2>4. CASE Backoff
    BY <2>4, Limits DEF Backoff, Stay, runVars, userVars
  <2>5. CASE Respond
    BY <2>5, Limits DEF Respond, Stay, userVars
  <2>6. CASE Fail
    BY <2>6, Limits DEF Fail, NextAttempt, EndFailed, userVars
  <2>7. CASE TimeOut
    BY <2>7, Limits DEF TimeOut, Stay, runVars, userVars
  <2>8. CASE WoundUp
    BY <2>8, Limits DEF WoundUp, NextAttempt, EndFailed, userVars
  <2>9. CASE Tool
    BY <2>9, Limits DEF Tool, StartTool, userVars
  <2>10. CASE ApproveTool
    BY <2>10, Limits DEF ApproveTool, StartTool, userVars
  <2>11. CASE DenyTool
    BY <2>11, Limits DEF DenyTool, EndFailed, runVars, userVars
  <2>12. CASE ToolReturns
    BY <2>12, Limits DEF ToolReturns, ToolAgain, ToolOver, userVars
  <2>13. CASE ToolTimesOut
    BY <2>13, Limits DEF ToolTimesOut, ToolAgain, ToolOver, userVars
  <2>14. CASE ToolRetry
    BY <2>14, Limits DEF ToolRetry, StartTool, userVars
  <2>15. CASE ThreadEnds
    BY <2>15, Limits DEF ThreadEnds, runVars, userVars
  <2>16. CASE Report
    BY <2>16, Limits DEF Report, runVars, userVars
  <2>17. CASE TryAgain
    BY <2>17, Limits DEF TryAgain, runVars, userVars
  <2>18. CASE Expire
    BY <2>18, Limits DEF Expire, Expires, CutOff
  <2>19. CASE Interrupt
    BY <2>19, Limits DEF Interrupt, TaskEnded, EndFailed, runVars
  <2>20. CASE Deliver
    BY <2>20, Limits DEF Deliver, TaskEnded, CutOff
  <2>21. CASE UNCHANGED taskVars
    BY <2>21, Limits DEF taskVars, runVars, userVars
  <2> QED
    BY <2>1, <2>2, <2>3, <2>4, <2>5, <2>6, <2>7, <2>8, <2>9, <2>10, <2>11, <2>12, <2>13, <2>14,
       <2>15, <2>16, <2>17, <2>18, <2>19, <2>20, <2>21 DEF TaskNext, Step, AnswerOrFail, ToolEnds
<1> QED
  BY <1>1, <1>2, PTL DEF TaskSpec

(* run_tool, _collect_response and chat_with_retry: no retry loop makes    *)
(* more attempts than its limit, and one that waits to go round again has  *)
(* an attempt left.                                                        *)
THEOREM RetriesBounded == TaskSpec => []WithinLimits
<1>1. LoopInv => WithinLimits
  BY DEF LoopInv
<1> QED
  BY <1>1, LoopHolds, PTL
-----------------------------------------------------------------------------
(* _run_once and _chat_once_with_heartbeat: no provider task runs outside  *)
(* its own model call, and a tool thread outlives its call only when a     *)
(* timeout or a cancellation ended the call, however often anything is     *)
(* retried.                                                                *)
THEOREM NothingIsLeftRunning == TaskSpec => []NothingLeftRunning
<1>1. TaskInit => NothingLeftRunning
  BY DEF TaskInit, NothingLeftRunning
<1>2. LoopInv /\ NothingLeftRunning /\ [TaskNext]_taskVars => NothingLeftRunning'
  <2> SUFFICES ASSUME LoopInv, NothingLeftRunning, [TaskNext]_taskVars PROVE NothingLeftRunning'
    OBVIOUS
  <2> USE DEF LoopInv, TaskTypes, RunHeld, NothingLeftRunning, Thread
  <2>1. CASE Begin
    BY <2>1 DEF Begin, Stay, userVars
  <2>2. CASE Turn
    BY <2>2 DEF Turn, Stay, userVars
  <2>3. CASE Attempt
    BY <2>3 DEF Attempt, Stay, userVars
  <2>4. CASE Backoff
    BY <2>4 DEF Backoff, Stay, runVars, userVars
  <2>5. CASE Respond
    BY <2>5 DEF Respond, Stay, userVars
  <2>6. CASE Fail
    BY <2>6 DEF Fail, NextAttempt, EndFailed, userVars
  <2>7. CASE TimeOut
    BY <2>7 DEF TimeOut, Stay, runVars, userVars
  <2>8. CASE WoundUp
    BY <2>8 DEF WoundUp, NextAttempt, EndFailed, userVars
  <2>9. CASE Tool
    BY <2>9 DEF Tool, StartTool, userVars
  <2>10. CASE ApproveTool
    BY <2>10 DEF ApproveTool, StartTool, userVars
  <2>11. CASE DenyTool
    BY <2>11 DEF DenyTool, EndFailed, runVars, userVars
  <2>12. CASE ToolReturns
    BY <2>12 DEF ToolReturns, ToolAgain, ToolOver, userVars
  <2>13. CASE ToolTimesOut
    BY <2>13 DEF ToolTimesOut, ToolAgain, ToolOver, userVars
  <2>14. CASE ToolRetry
    BY <2>14 DEF ToolRetry, StartTool, userVars
  <2>15. CASE ThreadEnds
    BY <2>15 DEF ThreadEnds, runVars, userVars
  <2>16. CASE Report
    BY <2>16 DEF Report, runVars, userVars
  <2>17. CASE TryAgain
    BY <2>17 DEF TryAgain, runVars, userVars
  <2>18. CASE Expire
    BY <2>18 DEF Expire, Expires, CutOff, userVars
  <2>19. CASE Interrupt
    BY <2>19 DEF Interrupt, TaskEnded, EndFailed, runVars, userVars
  <2>20. CASE Deliver
    BY <2>20 DEF Deliver, TaskEnded, CutOff, userVars
  <2>21. CASE UNCHANGED taskVars
    BY <2>21 DEF taskVars, runVars, userVars
  <2> QED
    BY <2>1, <2>2, <2>3, <2>4, <2>5, <2>6, <2>7, <2>8, <2>9, <2>10, <2>11, <2>12, <2>13, <2>14,
       <2>15, <2>16, <2>17, <2>18, <2>19, <2>20, <2>21 DEF TaskNext, Step, AnswerOrFail, ToolEnds
<1> QED
  BY <1>1, <1>2, LoopHolds, PTL DEF TaskSpec

(* SubagentRunner.run: what is shown as a running subagent is the current  *)
(* try or one that a cancellation or the tool timeout cut off.             *)
THEOREM ShownRunsFinish == TaskSpec => []FinishedUnlessCut
<1>1. TaskInit => FinishedUnlessCut
  BY DEF TaskInit, FinishedUnlessCut
<1>2. LoopInv /\ FinishedUnlessCut /\ [TaskNext]_taskVars => FinishedUnlessCut'
  <2> SUFFICES ASSUME LoopInv, FinishedUnlessCut, [TaskNext]_taskVars PROVE FinishedUnlessCut'
    OBVIOUS
  <2> USE DEF LoopInv, TaskTypes, RunHeld, FinishedUnlessCut
  <2>1. CASE Begin
    BY <2>1 DEF Begin, Stay, userVars
  <2>2. CASE Turn
    BY <2>2 DEF Turn, Stay, userVars
  <2>3. CASE Attempt
    BY <2>3 DEF Attempt, Stay, userVars
  <2>4. CASE Backoff
    BY <2>4 DEF Backoff, Stay, runVars, userVars
  <2>5. CASE Respond
    BY <2>5 DEF Respond, Stay, userVars
  <2>6. CASE Fail
    BY <2>6 DEF Fail, NextAttempt, EndFailed, userVars
  <2>7. CASE TimeOut
    BY <2>7 DEF TimeOut, Stay, runVars, userVars
  <2>8. CASE WoundUp
    BY <2>8 DEF WoundUp, NextAttempt, EndFailed, userVars
  <2>9. CASE Tool
    BY <2>9 DEF Tool, StartTool, userVars
  <2>10. CASE ApproveTool
    BY <2>10 DEF ApproveTool, StartTool, userVars
  <2>11. CASE DenyTool
    BY <2>11 DEF DenyTool, EndFailed, runVars, userVars
  <2>12. CASE ToolReturns
    BY <2>12 DEF ToolReturns, ToolAgain, ToolOver, userVars
  <2>13. CASE ToolTimesOut
    BY <2>13 DEF ToolTimesOut, ToolAgain, ToolOver, userVars
  <2>14. CASE ToolRetry
    BY <2>14 DEF ToolRetry, StartTool, userVars
  <2>15. CASE ThreadEnds
    BY <2>15 DEF ThreadEnds, runVars, userVars
  <2>16. CASE Report
    BY <2>16 DEF Report, runVars, userVars
  <2>17. CASE TryAgain
    BY <2>17 DEF TryAgain, runVars, userVars
  <2>18. CASE Expire
    BY <2>18 DEF Expire, Expires, CutOff, userVars
  <2>19. CASE Interrupt
    BY <2>19 DEF Interrupt, TaskEnded, EndFailed, runVars, userVars
  <2>20. CASE Deliver
    BY <2>20 DEF Deliver, TaskEnded, CutOff, userVars
  <2>21. CASE UNCHANGED taskVars
    BY <2>21 DEF taskVars, runVars, userVars
  <2> QED
    BY <2>1, <2>2, <2>3, <2>4, <2>5, <2>6, <2>7, <2>8, <2>9, <2>10, <2>11, <2>12, <2>13, <2>14,
       <2>15, <2>16, <2>17, <2>18, <2>19, <2>20, <2>21 DEF TaskNext, Step, AnswerOrFail, ToolEnds
<1> QED
  BY <1>1, <1>2, LoopHolds, PTL DEF TaskSpec

(* A delivered cancellation has ended the delegated task, or was swallowed *)
(* by the wind-up of a timed out attempt.                                  *)
THEOREM CancellationStops == TaskSpec => []InterruptStops
<1>1. TaskInit => InterruptStops
  BY DEF TaskInit, InterruptStops
<1>2. LoopInv /\ InterruptStops /\ [TaskNext]_taskVars => InterruptStops'
  <2> SUFFICES ASSUME LoopInv, InterruptStops, [TaskNext]_taskVars PROVE InterruptStops'
    OBVIOUS
  <2> USE DEF LoopInv, TaskTypes, RunHeld, InterruptStops, TaskEnded
  <2>1. CASE Begin
    BY <2>1 DEF Begin, Stay, userVars
  <2>2. CASE Turn
    BY <2>2 DEF Turn, Stay, userVars
  <2>3. CASE Attempt
    BY <2>3 DEF Attempt, Stay, userVars
  <2>4. CASE Backoff
    BY <2>4 DEF Backoff, Stay, runVars, userVars
  <2>5. CASE Respond
    BY <2>5 DEF Respond, Stay, userVars
  <2>6. CASE Fail
    BY <2>6 DEF Fail, NextAttempt, EndFailed, userVars
  <2>7. CASE TimeOut
    BY <2>7 DEF TimeOut, Stay, runVars, userVars
  <2>8. CASE WoundUp
    BY <2>8 DEF WoundUp, NextAttempt, EndFailed, userVars
  <2>9. CASE Tool
    BY <2>9 DEF Tool, StartTool, userVars
  <2>10. CASE ApproveTool
    BY <2>10 DEF ApproveTool, StartTool, userVars
  <2>11. CASE DenyTool
    BY <2>11 DEF DenyTool, EndFailed, runVars, userVars
  <2>12. CASE ToolReturns
    BY <2>12 DEF ToolReturns, ToolAgain, ToolOver, userVars
  <2>13. CASE ToolTimesOut
    BY <2>13 DEF ToolTimesOut, ToolAgain, ToolOver, userVars
  <2>14. CASE ToolRetry
    BY <2>14 DEF ToolRetry, StartTool, userVars
  <2>15. CASE ThreadEnds
    BY <2>15 DEF ThreadEnds, runVars, userVars
  <2>16. CASE Report
    BY <2>16 DEF Report, runVars, userVars
  <2>17. CASE TryAgain
    BY <2>17 DEF TryAgain, runVars, userVars
  <2>18. CASE Expire
    BY <2>18 DEF Expire, Expires, CutOff, userVars
  <2>19. CASE Interrupt
    BY <2>19 DEF Interrupt, TaskEnded, EndFailed, runVars, userVars
  <2>20. CASE Deliver
    BY <2>20 DEF Deliver, TaskEnded, CutOff, userVars
  <2>21. CASE UNCHANGED taskVars
    BY <2>21 DEF taskVars, runVars, userVars
  <2> QED
    BY <2>1, <2>2, <2>3, <2>4, <2>5, <2>6, <2>7, <2>8, <2>9, <2>10, <2>11, <2>12, <2>13, <2>14,
       <2>15, <2>16, <2>17, <2>18, <2>19, <2>20, <2>21 DEF TaskNext, Step, AnswerOrFail, ToolEnds
<1> QED
  BY <1>1, <1>2, LoopHolds, PTL DEF TaskSpec
=============================================================================
