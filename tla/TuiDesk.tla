------------------------------ MODULE TuiDesk ------------------------------
(***************************************************************************)
(* The desk of the terminal interface: turns are submitted, cancelled and  *)
(* tracked (AgentTuiRunner and CancellationController), and the questions  *)
(* of running agents reach the user and come back: ApprovalService emits   *)
(* approval_required, TuiState keeps the question, the app shows one at a  *)
(* time, the adapter completes the future the agent waits for.             *)
(*                                                                         *)
(* A question lives in three places, keyed by its operation alone: the     *)
(* adapter's future, the entry of TuiState and the panel of the app.  A    *)
(* question is numbered here to tell apart two about the same operation.   *)
(*                                                                         *)
(* The agents of a turn are what may wait at once: concurrent subagents.   *)
(***************************************************************************)
EXTENDS Naturals, SequencesExt, FiniteSets

CONSTANTS
    Agents,     \* agents of a turn that run at once
    Operations, \* approval ids: action, tool and target
    Commands,   \* those that run a command
    MaxEvents   \* bound: turns submitted and questions asked, in all

ASSUME DeskAssumption == MaxEvents \in Nat /\ Commands \subseteq Operations

VARIABLES
    \* Questions:
    asked,     \* the operation of each question so far
    answered,  \* questions whose future is done
    granted,   \* those that the user approved
    waits,     \* agent -> the question it waits for, 0 if none
    agentTurn, \* agent -> the turn it last asked in
    allowed,   \* agent -> the keys approved in its run: approved_write_keys
    pending,   \* TuiApprovalAdapter._pending: operation -> question, 0 if none
    view,      \* TuiState.pending_approvals, in order
    panel,     \* _current_approval: 0 while the panel is closed
    \* Turns:
    turn,      \* turn -> "running", "finishing" or "over"
    current,   \* CancellationController.current_task
    signalled, \* turns with a cancellation on its way
    cancellers, \* turns that a cancel() is awaiting
    active,    \* TuiState.active_task is shown as running
    \* History, for the properties:
    abandoned, \* questions whose agent was cut off
    doubled,   \* questions that shared their key with another
    hidden,    \* questions that another's cached approval took from the view
    raced,     \* a cancel() forgot a task it did not cancel
    unswept    \* the clean-up of a turn was cut off

askVars == <<asked, answered, granted, waits, agentTurn, allowed, pending, abandoned, doubled, hidden>>
turnVars == <<turn, current, signalled, cancellers, active, raced, unswept>>
deskVars == <<askVars, view, panel, turnVars>>

Turns == 1..Len(turn)
Live == {t \in Turns : turn[t] # "over"}
Waiting(n) == \E a \in Agents : waits[a] = n
-----------------------------------------------------------------------------
DeskInit ==
    /\ asked = <<>> /\ answered = {} /\ granted = {} /\ waits = [a \in Agents |-> 0]
    /\ agentTurn = [a \in Agents |-> 0] /\ allowed = [a \in Agents |-> {}]
    /\ pending = [o \in Operations |-> 0]
    /\ view = <<>> /\ panel = 0
    /\ turn = <<>> /\ current = 0 /\ signalled = {} /\ cancellers = {} /\ active = FALSE
    /\ abandoned = {} /\ doubled = {} /\ hidden = {} /\ raced = FALSE /\ unswept = FALSE

(* TuiState.pending_approvals is a dictionary: an entry that is replaced   *)
(* keeps its place.                                                        *)
Without(o) == SelectSeq(view, LAMBDA n : asked[n] # o)
PutView(n, o) ==
    IF \E i \in DOMAIN view : asked[view[i]] = o
    THEN [i \in DOMAIN view |-> IF asked[view[i]] = o THEN n ELSE view[i]]
    ELSE Append(view, n)

\* approval_cache_key: of a command only that it is one
CacheKey(o) == IF o \in Commands THEN "run_command" ELSE o

\* approved_write_keys belongs to the run of one agent
Remembered(a, t) == IF agentTurn[a] = t THEN allowed[a] ELSE {}

\* The questions about an operation that somebody waits for.
Rivals(o) == {waits[b] : b \in {c \in Agents : waits[c] # 0 /\ asked[waits[c]] = o}}

(* ApprovalService.approve up to the await of the adapter's future.        *)
Ask(a) ==
    LET n == Len(asked) + 1 IN
    /\ n + Len(turn) <= MaxEvents /\ waits[a] = 0
    /\ \E t \in Turns, o \in Operations :
         /\ turn[t] = "running" /\ t \notin signalled
         /\ CacheKey(o) \notin Remembered(a, t)
         /\ agentTurn' = [agentTurn EXCEPT ![a] = t]
         /\ allowed' = [allowed EXCEPT ![a] = Remembered(a, t)]
         /\ asked' = Append(asked, o)
         /\ view' = PutView(n, o)
         /\ pending' = [pending EXCEPT ![o] = n]
         /\ doubled' = IF Rivals(o) = {} THEN doubled ELSE doubled \cup Rivals(o) \cup {n}
    /\ waits' = [waits EXCEPT ![a] = n]
    /\ UNCHANGED <<answered, granted, panel, abandoned, hidden, turnVars>>

\* _emit_approval_resolved: the question is known by what it asks
Resolve(o) == view' = Without(o)

\* decide returns: its finally takes the entry of the key, whosever it is
\* by now; what is approved is kept, and approval_resolved takes the question
\* from the view.
Wake(a) ==
    LET n == waits[a] IN
    /\ n # 0 /\ n \in answered
    /\ waits' = [waits EXCEPT ![a] = 0]
    /\ pending' = [pending EXCEPT ![asked[n]] = 0]
    /\ allowed' = [allowed EXCEPT ![a] = @ \cup {CacheKey(asked[k]) : k \in {n} \cap granted}]
    /\ Resolve(asked[n])
    /\ UNCHANGED <<asked, answered, granted, agentTurn, panel, abandoned, doubled, hidden, turnVars>>

\* The same agent asks again for what its run has approved: nobody is asked,
\* and approval_resolved takes whatever question is open about the operation.
AskAgain(a) ==
    /\ waits[a] = 0 /\ agentTurn[a] # 0
    /\ turn[agentTurn[a]] = "running" /\ agentTurn[a] \notin signalled
    /\ \E o \in Operations :
         /\ CacheKey(o) \in allowed[a]
         /\ hidden' = hidden \cup Rivals(o)
         /\ Resolve(o)
    /\ UNCHANGED <<asked, answered, granted, waits, agentTurn, allowed, pending, abandoned, doubled,
                   panel, turnVars>>

\* A timeout of the tool, or a cancelled turn: the finally alone.
CutOff(a) ==
    LET n == waits[a] IN
    /\ n # 0
    /\ waits' = [waits EXCEPT ![a] = 0]
    /\ pending' = [pending EXCEPT ![asked[n]] = 0]
    /\ abandoned' = abandoned \cup {n}
    /\ UNCHANGED <<asked, answered, granted, agentTurn, allowed, doubled, hidden, view, panel, turnVars>>

\* next_pending_approval
NextApproval(questions) == Head(questions)

\* mutant: only a lone question opens the panel
ShownAlone(open, questions) ==
    IF questions = <<>> THEN 0
    ELSE IF open = 0 /\ Len(questions) = 1 THEN NextApproval(questions) ELSE open

(* _maybe_show_approval_prompt, at the end of every refresh: an open panel *)
(* keeps what it shows for as long as any question is left.                *)
Shown(open, questions) ==
    IF questions = <<>> THEN 0 ELSE IF open = 0 THEN NextApproval(questions) ELSE open

Refresh ==
    /\ panel' = Shown(panel, view)
    /\ UNCHANGED <<askVars, view, turnVars>>

\* The future that an answer to the panel completes: that of its operation,
\* if there is one that is not done.
Resolved == {pending[asked[panel]]} \ (answered \cup {0})

\* The user approves or denies what the panel shows, the panel closes, and
\* the refresh that follows opens it for the first question of the view.
Answer ==
    /\ panel # 0
    /\ answered' = answered \cup Resolved
    /\ granted' \in {granted, granted \cup Resolved}
    /\ panel' = Shown(0, view)
    /\ UNCHANGED <<asked, waits, agentTurn, allowed, pending, abandoned, doubled, hidden, view, turnVars>>
-----------------------------------------------------------------------------
\* mutant: a turn that is being cancelled counts as done
FreeSignalled == IF current = 0 THEN TRUE ELSE turn[current] = "over" \/ current \in signalled

\* current_task is None or done
Free == IF current = 0 THEN TRUE ELSE turn[current] = "over"

(* submit_nowait: the input row is hidden while the panel is open.         *)
Submit ==
    /\ panel = 0 /\ Free /\ Len(asked) + Len(turn) < MaxEvents
    /\ turn' = Append(turn, "running")
    /\ current' = Len(turn) + 1
    /\ active' = TRUE
    /\ UNCHANGED <<askVars, view, panel, signalled, cancellers, raced, unswept>>

\* Session.send returns or raises, with no agent left waiting; what is left
\* is the finally of _send_current.
TurnReturns(t) ==
    /\ turn[t] = "running"
    /\ \A a \in Agents : agentTurn[a] = t => waits[a] = 0
    /\ turn' = [turn EXCEPT ![t] = "finishing"]
    /\ signalled' = signalled \ {t}
    /\ UNCHANGED <<askVars, view, panel, current, cancellers, active, raced, unswept>>

\* end_active_task
EndActive == active' = FALSE

\* end_active_task and clear_task, after the headers have been refreshed
Swept(t) ==
    /\ turn[t] = "finishing" /\ t \notin signalled
    /\ turn' = [turn EXCEPT ![t] = "over"]
    /\ EndActive
    /\ current' = IF current = t THEN 0 ELSE current
    /\ UNCHANGED <<askVars, view, panel, signalled, cancellers, raced, unswept>>

\* A cancellation that arrives while they are refreshed.
SweepCut(t) ==
    /\ turn[t] = "finishing" /\ t \in signalled
    /\ turn' = [turn EXCEPT ![t] = "over"]
    /\ signalled' = signalled \ {t}
    /\ unswept' = TRUE
    /\ UNCHANGED <<askVars, view, panel, current, cancellers, active, raced>>

\* mutant: the open futures are forgotten, not answered
CancelForgets ==
    /\ pending' = [o \in Operations |-> 0]
    /\ IF Free
       THEN current' = 0 /\ UNCHANGED <<signalled, cancellers>>
       ELSE /\ signalled' = signalled \cup {current}
            /\ cancellers' = cancellers \cup {current}
            /\ UNCHANGED current
    /\ UNCHANGED <<asked, waits, agentTurn, allowed, answered, granted, abandoned, doubled, hidden,
                   view, panel, turn, active, raced, unswept>>

\* Ctrl+C: the open questions are answered with a refusal, the current task is cancelled
\* and awaited.
Cancel ==
    /\ answered' = answered \cup ({pending[o] : o \in Operations} \ {0})
    /\ IF Free
       THEN current' = 0 /\ UNCHANGED <<signalled, cancellers>>
       ELSE /\ signalled' = signalled \cup {current}
            /\ cancellers' = cancellers \cup {current}
            /\ UNCHANGED current
    /\ UNCHANGED <<asked, waits, agentTurn, allowed, pending, granted, abandoned, doubled, hidden,
                   view, panel, turn, active, raced, unswept>>

\* The await ends, and with it whatever current_task holds by then.
CancelReturns(t) ==
    /\ t \in cancellers /\ turn[t] = "over"
    /\ cancellers' = cancellers \ {t}
    /\ current' = 0
    /\ raced' = (raced \/ current \notin {0, t})
    /\ UNCHANGED <<askVars, view, panel, turn, signalled, active, unswept>>

\* clear_session_view
ClearView == view' = <<>> /\ EndActive

\* :clear!, which needs the input row and no running task
Clear ==
    /\ panel = 0 /\ Free
    /\ ClearView
    /\ UNCHANGED <<askVars, panel, turn, current, signalled, cancellers, raced, unswept>>
-----------------------------------------------------------------------------
DeskNext ==
    \/ \E a \in Agents : Ask(a) \/ AskAgain(a) \/ Wake(a) \/ CutOff(a)
    \/ \E t \in Turns : TurnReturns(t) \/ Swept(t) \/ SweepCut(t) \/ CancelReturns(t)
    \/ Refresh \/ Answer \/ Submit \/ Cancel \/ Clear

\* The event loop runs what is ready, the app refreshes after every event,
\* and the user answers what the panel shows.
DeskSpec ==
    /\ DeskInit /\ [][DeskNext]_deskVars
    /\ WF_deskVars(Refresh) /\ WF_deskVars(Answer)
    /\ \A a \in Agents : WF_deskVars(Wake(a))
-----------------------------------------------------------------------------
(* TuiApprovalAdapter: an agent that waits for an answer can be given one, *)
(* unless a second question about the same operation took over its key.    *)
WaiterReachable ==
    \A a \in Agents : LET n == waits[a] IN
        n # 0 => n \in answered \/ pending[asked[n]] = n \/ n \in doubled

(* A user who answers what is shown answers every question in the end,     *)
(* whatever other agents ask, are answered or are cut off, unless          *)
(*   - a question was abandoned: it stays at the head of the view, and the *)
(*     panel goes back to it and hides the others;                         *)
(*   - the cached approval of another agent took the question from the     *)
(*     view, or another about the same operation took over its key;        *)
(*   - a cancel() forgot the task that runs: :clear! then takes its        *)
(*     questions away.                                                     *)
QuestionsAnswered ==
    \A a \in Agents : waits[a] # 0 ~>
        (waits[a] = 0 \/ abandoned # {} \/ waits[a] \in hidden \cup doubled \/ raced)

(* AgentTuiRunner and CancellationController: the turn that runs is the    *)
(* one Ctrl+C would cancel, there is no other, and what is shown as        *)
(* running runs; except after a cancel() that forgot a turn submitted      *)
(* while it waited, and after a clean-up that was itself cancelled.        *)
TurnTracked ==
    /\ Live \subseteq {current} \/ raced
    /\ active => Live # {} \/ unswept \/ raced
=============================================================================
