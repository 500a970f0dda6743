----------------------------- MODULE AcpServer -----------------------------
(***************************************************************************)
(* The server an editor talks to over stdin and stdout (agent/acp): the    *)
(* read loop of AcpServer, the session table of AcpSessionManager, the     *)
(* permission requests of AcpApprovalAdapter and the controller that holds *)
(* the task of a running prompt.                                           *)
(*                                                                         *)
(* serve() awaits handle_line before it reads the next line, and a prompt  *)
(* is answered only when its turn has ended: while a turn runs, the lines  *)
(* of the client wait in the pipe.  The turn itself (Session.send) is its  *)
(* own task.  It is modelled by what the server sees of it: it emits       *)
(* updates, asks for permission, and ends, fails or is cut off.            *)
(*                                                                         *)
(* wire is what the server read from and wrote to its two pipes, in order. *)
(***************************************************************************)
EXTENDS Naturals, SequencesExt, FiniteSets

CONSTANTS
    Sids,       \* session ids
    NoSession,  \* none of them
    MaxLines,   \* bound: lines the client sends, answers not counted
    MaxEvents   \* bound: updates and permission requests of one turn

ASSUME AcpAssumption == MaxLines \in Nat /\ MaxEvents \in Nat /\ NoSession \notin Sids

VARIABLES
    auto,      \* auto_approve
    \* The client's side:
    lines,     \* lines sent and not yet read
    sent,      \* lines sent so far, answers not counted
    replied,   \* permission requests the client has answered
    eof,       \* the client has closed stdin
    \* The server:
    at,        \* "reading", "prompting", "closing" or "stopped"
    wire,      \* read and written so far
    request,   \* id of the prompt being handled
    sessions,  \* session id -> number of its managed session, 0 if none
    created,   \* managed sessions created so far
    current,   \* managed sessions whose cancel_controller holds a task
    pending,   \* permission requests in AcpServer._pending
    asked,     \* permission requests sent so far
    waiting,   \* those whose decision the turn is waiting for
    closed,    \* managed sessions closed
    \* The turn of the prompt being handled:
    turn,      \* "none", "running", "done", "failed" or "cut"
    who,       \* its session id
    events,    \* updates and permission requests so far
    interrupted \* asyncio.run has turned a Ctrl-C into a cancellation

clientVars == <<lines, sent, replied, eof>>
tableVars == <<sessions, created, closed>>
turnVars == <<turn, who, events>>
askVars == <<pending, asked, waiting>>
vars == <<auto, clientVars, at, wire, request, tableVars, current, askVars, turnVars, interrupted>>
-----------------------------------------------------------------------------
Requests == [kind : {"new", "simple"}] \cup [kind : {"load", "prompt", "cancel"}, sid : Sids]
OtherLines == [kind : {"malformed", "notification"}]

SidOf(line) == IF "sid" \in DOMAIN line THEN line.sid ELSE NoSession

\* A request line carries its number; everything else has number 0.
Numbered(line) ==
    [kind |-> line.kind, sid |-> SidOf(line),
     id |-> IF line \in Requests THEN sent + 1 ELSE 0]

ReadEvent(line) == [kind |-> "read", sid |-> line.sid, id |-> line.id]
Update(sid) == [kind |-> "update", sid |-> sid]
AskEvent(sid, p) == [kind |-> "ask", sid |-> sid, id |-> p]
AnswerEvent(rid, what) == [kind |-> "answer", id |-> rid, what |-> what]

Updates(sid, n) == [i \in 1..n |-> Update(sid)]
Managed == {sessions[s] : s \in Sids} \ {0}
-----------------------------------------------------------------------------
Init ==
    /\ auto \in BOOLEAN
    /\ lines = <<>> /\ sent = 0 /\ replied = {} /\ eof = FALSE
    /\ at = "reading" /\ wire = <<>> /\ request = 0
    /\ sessions = [s \in Sids |-> 0] /\ created = 0 /\ closed = {}
    /\ current = {} /\ pending = {} /\ asked = 0 /\ waiting = {}
    /\ turn = "none" /\ who = NoSession /\ events = 0
    /\ interrupted = FALSE

(* The client writes whenever it likes.                                    *)
SendLine ==
    /\ ~eof /\ sent < MaxLines
    /\ \E line \in Requests \cup OtherLines : lines' = Append(lines, Numbered(line))
    /\ sent' = sent + 1
    /\ UNCHANGED <<auto, replied, eof, at, wire, request, tableVars, current, askVars,
                   turnVars, interrupted>>

AnswerPermission ==
    /\ ~eof
    /\ \E p \in (1..asked) \ replied :
         /\ replied' = replied \cup {p}
         /\ \E yes \in BOOLEAN :
              lines' = Append(lines, [kind |-> "decision", sid |-> NoSession, id |-> p, yes |-> yes])
    /\ UNCHANGED <<auto, sent, eof, at, wire, request, tableVars, current, askVars,
                   turnVars, interrupted>>

CloseStdin ==
    /\ ~eof
    /\ eof' = TRUE
    /\ UNCHANGED <<auto, lines, sent, replied, at, wire, request, tableVars, current, askVars,
                   turnVars, interrupted>>
-----------------------------------------------------------------------------
(* handle_line, for a line that is answered before the next one is read.   *)
Take(kind) ==
    /\ at = "reading"
    /\ lines # <<>> /\ Head(lines).kind = kind
    /\ lines' = Tail(lines)
    /\ UNCHANGED <<auto, sent, replied, eof, request, interrupted>>

Reply(updates, what) ==
    wire' = wire \o <<ReadEvent(Head(lines))>> \o updates \o <<AnswerEvent(Head(lines).id, what)>>

Stay == UNCHANGED <<at, current, askVars, turnVars>>

Reject ==
    /\ Take("malformed")
    /\ wire' = Append(wire, AnswerEvent(0, "error"))
    /\ UNCHANGED tableVars /\ Stay

IgnoreNotification ==
    /\ Take("notification")
    /\ UNCHANGED <<wire, tableVars>> /\ Stay

\* initialize, a method that the server does not know, or params that are no object
AnswerSimple ==
    /\ Take("simple")
    /\ \E what \in {"result", "error"} : Reply(<<>>, what)
    /\ UNCHANGED tableVars /\ Stay

\* Both session methods put a new managed session in the table, announce its
\* commands, and show the restored messages of a loaded one.
Manage(s, replayed) ==
    /\ created' = created + 1
    /\ sessions' = [sessions EXCEPT ![s] = created + 1]
    /\ Reply(Updates(s, 1 + replayed), "result")
    /\ UNCHANGED closed /\ Stay

\* The working directory does not exist.
BadDirectory(kind) ==
    /\ Take(kind)
    /\ Reply(<<>>, "error")
    /\ UNCHANGED tableVars /\ Stay

NewSession ==
    \/ /\ Take("new")
       /\ \E s \in {t \in Sids : sessions[t] = 0} : Manage(s, 0)
    \/ BadDirectory("new")

LoadSession ==
    \/ /\ Take("load")
       /\ \E replayed \in 0..1 : Manage(Head(lines).sid, replayed)
    \/ BadDirectory("load")

UnknownSession(kind) ==
    /\ Take(kind)
    /\ sessions[Head(lines).sid] = 0
    /\ Reply(<<>>, "error")
    /\ UNCHANGED tableVars /\ Stay

\* CancellationController.cancel, after the pending permission was cancelled
Cancel ==
    \/ /\ Take("cancel")
       /\ sessions[Head(lines).sid] # 0
       /\ Reply(<<>>, IF sessions[Head(lines).sid] \in current THEN "cancelled" ELSE "not_running")
       /\ current' = current \ {sessions[Head(lines).sid]}
       /\ UNCHANGED <<at, tableVars, askVars, turnVars>>
    \/ UnknownSession("cancel")

(* _resolve_response: the answer reaches the turn if it still waits for it.*)
ReadDecision ==
    /\ Take("decision")
    /\ pending' = pending \ {Head(lines).id}
    /\ waiting' = waiting \ {Head(lines).id}
    /\ UNCHANGED <<at, wire, current, tableVars, asked, turnVars>>

\* mutant: an empty line is skipped instead of ending the loop
EofContinues == at = "reading" /\ lines = <<>> /\ eof /\ UNCHANGED vars

ReadEof ==
    /\ at = "reading" /\ lines = <<>> /\ eof
    /\ at' = "closing"
    /\ UNCHANGED <<auto, clientVars, wire, request, tableVars, current, askVars, turnVars,
                   interrupted>>
-----------------------------------------------------------------------------
(* session/prompt: the turn becomes a task of its own, held by the         *)
(* controller of its session, and handle_line waits for it.                *)
Prompt ==
    \/ /\ at = "reading" /\ lines # <<>> /\ Head(lines).kind = "prompt"
       /\ sessions[Head(lines).sid] # 0
       /\ lines' = Tail(lines)
       /\ wire' = Append(wire, ReadEvent(Head(lines)))
       /\ request' = Head(lines).id
       /\ at' = "prompting" /\ turn' = "running" /\ who' = Head(lines).sid /\ events' = 0
       /\ current' = current \cup {sessions[Head(lines).sid]}
       /\ UNCHANGED <<auto, sent, replied, eof, tableVars, askVars, interrupted>>
    \/ UnknownSession("prompt")

TurnRuns ==
    /\ turn = "running"
    /\ UNCHANGED <<auto, clientVars, at, request, tableVars, current, who, interrupted>>

(* stream_event_to_updates: an event is shown by one update or not at all, *)
(* the result of a todo call by another one, with the plan.                *)
EventUpdates == 0..2

Emit ==
    /\ TurnRuns
    /\ events < MaxEvents /\ events' = events + 1
    /\ \E n \in EventUpdates : wire' = wire \o Updates(who, n)
    /\ UNCHANGED <<askVars, turn>>

\* Concurrent subagents may each wait for a permission of their own.
Ask ==
    /\ TurnRuns
    /\ ~auto
    /\ events < MaxEvents /\ events' = events + 1
    /\ asked' = asked + 1
    /\ pending' = pending \cup {asked + 1}
    /\ waiting' = waiting \cup {asked + 1}
    /\ wire' = Append(wire, AskEvent(who, asked + 1))
    /\ UNCHANGED turn

EndTurn ==
    /\ TurnRuns
    /\ waiting = {}
    /\ turn' \in {"done", "failed"}
    /\ UNCHANGED <<wire, askVars, events>>

TurnStep == Emit \/ Ask \/ EndTurn

\* What the prompt writes when its turn is over.
Outcome ==
    CASE turn = "done" -> <<Update(who), AnswerEvent(request, "end_turn")>>
      [] turn = "cut" -> <<AnswerEvent(request, "cancelled")>>
      [] turn = "failed" -> <<AnswerEvent(request, "error")>>

Return(output, controllers) ==
    /\ at = "prompting" /\ turn # "running"
    /\ wire' = wire \o output
    /\ current' = controllers
    /\ at' = "reading" /\ request' = 0
    /\ turn' = "none" /\ who' = NoSession /\ events' = 0
    /\ UNCHANGED <<auto, clientVars, tableVars, askVars, interrupted>>

\* mutant: a cancelled prompt is not answered
ReturnSilent == Return(IF turn = "cut" THEN <<>> ELSE Outcome, current \ {sessions[who]})

\* mutant: the plan is sent after the answer
ReturnThenPlan == Return(Reverse(Outcome), current \ {sessions[who]})

\* mutant: only a prompt that ends normally clears the controller
ReturnKeepsTask ==
    Return(Outcome, IF turn = "done" THEN current \ {sessions[who]} ELSE current)

PromptReturns == Return(Outcome, current \ {sessions[who]})
-----------------------------------------------------------------------------
(* asyncio.run turns the first Ctrl-C into a cancellation of the task that *)
(* runs serve().  A prompt catches it: its turn is cut off, or, when the   *)
(* cancellation reaches a wait for permission that swallows it, goes on as *)
(* if the permission was denied.                                           *)
Interrupt ==
    /\ ~interrupted /\ interrupted' = TRUE
    /\ \/ at = "reading" /\ at' = "closing" /\ UNCHANGED <<turn, waiting>>
       \/ at = "closing" /\ at' = "stopped" /\ UNCHANGED <<turn, waiting>>
       \/ at = "prompting" /\ turn' = "cut" /\ waiting' = {} /\ UNCHANGED at
       \/ waiting # {} /\ waiting' = {} /\ UNCHANGED <<at, turn>>
    /\ UNCHANGED <<auto, clientVars, wire, request, tableVars, current, pending, asked, who,
                   events>>

\* A session whose close fails ends the server with the rest left open.
CloseSession ==
    /\ at = "closing"
    /\ \E m \in Managed \ closed :
         \/ closed' = closed \cup {m} /\ UNCHANGED at
         \/ UNCHANGED closed /\ at' = "stopped"
    /\ UNCHANGED <<auto, clientVars, wire, request, sessions, created, current, askVars,
                   turnVars, interrupted>>

Stop ==
    /\ at = "closing" /\ Managed \subseteq closed
    /\ at' = "stopped" /\ sessions' = [s \in Sids |-> 0]
    /\ UNCHANGED <<auto, clientVars, wire, request, created, closed, current, askVars,
                   turnVars, interrupted>>
-----------------------------------------------------------------------------
ReadLine ==
    \/ Reject \/ IgnoreNotification \/ AnswerSimple
    \/ NewSession \/ LoadSession \/ Cancel \/ Prompt
    \/ ReadDecision \/ ReadEof

Next ==
    \/ SendLine \/ AnswerPermission \/ CloseStdin
    \/ ReadLine \/ TurnStep \/ PromptReturns
    \/ Interrupt \/ CloseSession \/ Stop

(* The event loop runs what is ready: the read loop, the turn and the      *)
(* shutdown take their steps.  A client that is asked for a permission     *)
(* answers it; nothing makes it send lines, close stdin or interrupt.      *)
Fairness ==
    /\ WF_vars(ReadLine) /\ WF_vars(TurnStep) /\ WF_vars(PromptReturns)
    /\ WF_vars(CloseSession) /\ WF_vars(Stop)
    /\ WF_vars(AnswerPermission)

Spec == Init /\ [][Next]_vars /\ Fairness
-----------------------------------------------------------------------------
(* Every variable has its type; a turn waits only for permission requests  *)
(* whose answer the server can still route to it.                          *)
TypeOK ==
    /\ auto \in BOOLEAN /\ eof \in BOOLEAN /\ interrupted \in BOOLEAN
    /\ sent \in 0..MaxLines /\ request \in 0..MaxLines /\ events \in 0..MaxEvents
    /\ at \in {"reading", "prompting", "closing", "stopped"}
    /\ turn \in {"none", "running", "done", "failed", "cut"}
    /\ who \in Sids \cup {NoSession}
    /\ sessions \in [Sids -> 0..created] /\ closed \subseteq 1..created
    /\ current \subseteq 1..created
    /\ waiting \subseteq pending /\ pending \subseteq 1..asked /\ replied \subseteq 1..asked

Shows(e) == e.kind \in {"update", "ask"}

\* After the line at j nothing but updates and permission requests up to i.
OnlyShows(w, j, i) == \A k \in (j + 1)..i : Shows(w[k])

\* A request read at j and answered at k, with nothing of another in between.
Exchange(w, j, k) ==
    /\ w[j].kind = "read" /\ w[k].kind = "answer" /\ w[j].id = w[k].id
    /\ OnlyShows(w, j, k - 1)

(* Requests are answered once each, in the order they were read and before *)
(* the next one is read, and only a prompt whose turn has not ended is     *)
(* still unanswered (AcpServer.handle_line).                               *)
AnsweredInOrder ==
    /\ \A k \in DOMAIN wire : wire[k].kind = "answer" =>
          wire[k].id = 0 \/ \E j \in 1..(k - 1) : Exchange(wire, j, k)
    /\ \A j \in DOMAIN wire : wire[j].kind = "read" =>
          \/ \E k \in DOMAIN wire : j < k /\ Exchange(wire, j, k)
          \/ at = "prompting" /\ wire[j].id = request /\ OnlyShows(wire, j, Len(wire))

(* What the server says about a session, an update or a permission         *)
(* request, lies between the line that asked for it and its answer: a      *)
(* client that has its answer has seen everything before it.               *)
UpdatesInside ==
    \A k \in DOMAIN wire : Shows(wire[k]) =>
        \E j \in 1..(k - 1) :
            /\ wire[j].kind = "read" /\ wire[j].sid \in {wire[k].sid, NoSession}
            /\ OnlyShows(wire, j, k)

(* A controller holds a task exactly while a prompt of its session is      *)
(* being handled, however the prompt ended: a later cancel never finds a   *)
(* task of an earlier prompt (CancellationController.clear_task).          *)
ControllerTracksPrompt ==
    current = IF at = "prompting" THEN {sessions[who]} ELSE {}

(* With automatic approval the server stops once the client has closed     *)
(* stdin, after it has handled the lines that were sent before.            *)
EofStops == auto /\ eof ~> at = "stopped"
=============================================================================
