---------------------------- MODULE TodoManager ----------------------------
(***************************************************************************)
(* The Task State of one session (agent/todo_manager.py): the todo list    *)
(* the model maintains through the "todo" tool, the flags that say whether *)
(* the current task may end, and the counters behind the no-progress       *)
(* warning.  The whole object is the record "todo"; an operation is an     *)
(* operator from one record to the next, so that the turn of the agent     *)
(* (module AgentTurn) can use the same definitions inside its own actions. *)
(***************************************************************************)
EXTENDS Naturals, Sequences, FiniteSets

CONSTANTS
    Ids,       \* what tells two todo items apart: their id and text
    NoId,      \* an item without the "id" or the "text" key
    Lists,     \* the lists the model may pass to the tool
    Notes,     \* entries of the compact task memory
    MaxItems,  \* TodoManager.MAX_ITEMS
    Attempts,  \* attempts the tool runner makes of a failing handler
    RoundsCap  \* bound: rounds without todo are counted up to this

Statuses == {"pending", "in_progress", "completed"}

Item == [id : Ids \cup {NoId}, status : Statuses]

ASSUME TodoAssumption ==
    /\ Lists \subseteq Seq(Item)
    /\ MaxItems \in Nat \ {0}
    /\ Attempts \in Nat \ {0}
    /\ RoundsCap \in Nat

VARIABLES
    todo,      \* the TodoManager
    submitted  \* history: the last non-empty list passed to the tool, in full

todoVars == <<todo, submitted>>

KeptLists == {list \in Seq(Item) : Len(list) <= MaxItems}

TodoRecord ==
    [items : KeptLists, done : KeptLists, memory : SUBSET Notes,
     rounds : 0 .. RoundsCap, started : BOOLEAN, completed : BOOLEAN,
     lastSignature : KeptLists, repeats : Nat]

\* __init__, reset, clear and prepare_for_new_input all lead here.  The
\* signature None is the empty list: only non-empty lists are remembered.
FreshTodo ==
    [items |-> <<>>, done |-> <<>>, memory |-> {}, rounds |-> 0,
     started |-> FALSE, completed |-> FALSE,
     lastSignature |-> <<>>, repeats |-> 0]

-----------------------------------------------------------------------------

KeepAll(list) == list  \* mutant: no limit

Truncate(list) == IF Len(list) > MaxItems THEN SubSeq(list, 1, MaxItems) ELSE list

AllCompleted(list) ==
    /\ list # <<>>
    /\ \A k \in 1 .. Len(list) : list[k].status = "completed"

FinishOnceStarted(t) == t.started  \* mutant: completion not asked for

CanFinish(t) == t.started /\ t.completed

KeepCompleted(kept) == kept  \* mutant: a completed list stays current

\* _clear_on_completion moves a completed list away.
Current(kept) == IF AllCompleted(kept) THEN <<>> ELSE kept

SetItems(t, list) ==
    LET kept       == Truncate(list)
        finished   == AllCompleted(kept)
        incomplete == kept # <<>> /\ ~finished
    IN  [t EXCEPT
            !.repeats       = IF incomplete /\ kept = t.lastSignature THEN @ + 1 ELSE 0,
            !.lastSignature = IF incomplete THEN kept ELSE <<>>,
            !.items         = Current(kept),
            !.done          = IF finished THEN kept ELSE @,
            !.started       = @ \/ kept # <<>>,
            !.completed     = IF kept = <<>> THEN @ ELSE finished,
            !.rounds        = IF finished THEN 0 ELSE @]

SetMemory(t, notes) == [t EXCEPT !.memory = @ \cup notes]

\* The handler formats what it stored, or the submitted list when nothing is
\* left of it: an item without id or text makes it fail after the update.
Displays(t, list) ==
    LET listed == IF t.items # <<>> THEN t.items ELSE list
    IN  \A k \in 1 .. Len(listed) : listed[k].id # NoId

\* One "todo" tool call.  A handler that fails is run Attempts times in all,
\* and each run submits the list again: an incomplete list repeats itself.
TodoCall(t, list, notes) ==
    LET once == SetMemory(SetItems(t, list), notes)
    IN  IF Displays(once, list) \/ once.lastSignature = <<>>
        THEN once
        ELSE [once EXCEPT !.repeats = @ + (Attempts - 1)]

TodoCallOk(t, list, notes) == Displays(SetMemory(SetItems(t, list), notes), list)

RecordToolCall(t, isTodo) ==
    [t EXCEPT !.rounds = IF isTodo THEN 0 ELSE IF @ < RoundsCap THEN @ + 1 ELSE @]

RepeatedTwice(t) == t.repeats >= 2 /\ t.items # <<>>  \* mutant: off by one

HasRepeatedUpdate(t) == t.repeats >= 1 /\ t.items # <<>>

ConsumeRepeated(t) == IF HasRepeatedUpdate(t) THEN [t EXCEPT !.repeats = 0] ELSE t

Submit(list) == IF list = <<>> THEN submitted ELSE list

-----------------------------------------------------------------------------
(* The manager on its own, driven by every caller it has.                  *)

TodoInit ==
    /\ todo = FreshTodo
    /\ submitted = <<>>

\* The todo tool.
UpdateTodo(list, notes) ==
    /\ todo' = TodoCall(todo, list, notes)
    /\ submitted' = Submit(list)

\* The tools node after a batch: it counts the round, then takes the warning.
CloseRound(isTodo) ==
    /\ todo' = ConsumeRepeated(RecordToolCall(todo, isTodo))
    /\ UNCHANGED submitted

\* Session.send, reset and clear.
PrepareForNewInput ==
    /\ todo' = FreshTodo
    /\ submitted' = <<>>

\* Handing out a reminder starts the count again.  The reminder names the
\* current items, which an item without id or text makes impossible.
ConsumeReminder ==
    /\ todo.items # <<>> /\ Displays(todo, <<>>)
    /\ todo' = [todo EXCEPT !.rounds = 0]
    /\ UNCHANGED submitted

TodoNext ==
    \/ \E list \in Lists, notes \in SUBSET Notes : UpdateTodo(list, notes)
    \/ \E isTodo \in BOOLEAN : CloseRound(isTodo)
    \/ PrepareForNewInput
    \/ ConsumeReminder

TodoSpec == TodoInit /\ [][TodoNext]_todoVars

-----------------------------------------------------------------------------
(* Properties of the manager.                                              *)

\* Every field keeps its type, whatever lists the model submits: no list is
\* ever kept beyond MAX_ITEMS.
TodoTypeOK ==
    /\ todo \in TodoRecord
    /\ submitted \in Seq(Item)

\* The task may end exactly while the last non-empty list the model submitted is
\* completed, if set_items kept all of it: no path leaves task_completed set
\* across a list with unfinished work, or forgets it for a completed one.  Of a
\* longer list only the part that is kept counts, though docs/core_workflow.md:249
\* has every todo completed.
FinishMeansListCompleted ==
    Len(submitted) <= MaxItems => (CanFinish(todo) <=> AllCompleted(submitted))

\* The list shown as current always has unfinished work (set_items moves a
\* completed list away), and the completed list is what ended the task.
CurrentListUnfinished ==
    /\ ~AllCompleted(todo.items)
    /\ todo.completed => todo.items = <<>> /\ AllCompleted(todo.done)

\* The signature and the repeat counter always speak of the current list, so
\* the no-progress warning is never about a list that was since replaced,
\* emptied or completed.
RepeatIsAboutCurrentList ==
    /\ todo.lastSignature = todo.items
    /\ todo.repeats > 0 => HasRepeatedUpdate(todo)

=============================================================================
