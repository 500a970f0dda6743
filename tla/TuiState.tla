------------------------------ MODULE TuiState ------------------------------
(***************************************************************************)
(* The timeline of the terminal interface: TuiState.apply_event reduces    *)
(* the stream events of the main session and of a subagent to rows, and    *)
(* AgentTuiRunner adds to them when a turn ends: the answer of a provider  *)
(* that does not stream, and the summary of the files the turn changed.    *)
(*                                                                         *)
(* A piece of text is numbered within its session, so that a piece that is *)
(* lost, repeated, misplaced or shown under another session can be told.   *)
(* Events that the reducer treats alike are one kind here: "note" is a     *)
(* usage, a warning, an approval, a compression, the result of a command,  *)
(* the start or the end of a subagent.                                     *)
(***************************************************************************)
EXTENDS Naturals, SequencesExt, FiniteSetsExt

CONSTANTS
    Main, Sub, \* the main session and a subagent that it starts
    MaxItems,  \* MAX_TIMELINE_ITEMS, 500 in the code
    MaxEvents, \* bound: events of the sessions
    MaxTurns   \* bound: requests submitted

ASSUME TimelineAssumption ==
    Main # Sub /\ MaxItems \in Nat \ {0, 1} /\ MaxEvents \in Nat /\ MaxTurns \in Nat

VARIABLES
    timeline, \* TuiState.timeline
    events,   \* events of the sessions so far
    streams,  \* whether the provider streams its text
    turn,     \* requests submitted
    step,     \* session -> "off", "model", "failed" or "tool"; main also "closing"
    tool,     \* session -> the tool that runs is a "write" or an "other"
    start,    \* start_index of _send_current
    reply,    \* text of the answer that Session.send returned, <<>> if none
    \* What git diff has to show of the files the turn names:
    older,    \* changes that are not the turn's
    mine,     \* changes of the turn to tracked files
    adrift,   \* a write that was given up still runs in its thread
    \* History, for the properties:
    said,     \* session -> pieces of text produced
    since,    \* said[Main] when the model call began
    wrote,    \* the turn changed a file
    told,     \* ... and a result showed lines of it
    blank,    \* a result showed a change without lines: an empty file
    tried,    \* the turn called a tool that writes
    cut,      \* rows have been dropped at the limit
    cutTurn   \* ... since the turn began

turnVars == <<streams, turn, start, reply>>
fileVars == <<older, mine, adrift, wrote, told, blank>>
saidVars == <<said, since>>
vars == <<timeline, events, turnVars, step, tool, saidVars, fileVars, tried, cut, cutTurn>>

Sessions == {Main, Sub}
Event(s, kind, status, text) == [by |-> s, kind |-> kind, status |-> status, text |-> text, left |-> FALSE]
-----------------------------------------------------------------------------
Init ==
    /\ timeline = <<>> /\ events = 0 /\ streams \in BOOLEAN /\ turn = 0
    /\ step = [s \in Sessions |-> "off"] /\ tool = [s \in Sessions |-> "other"]
    /\ start = 1 /\ reply = <<>>
    /\ said = [s \in Sessions |-> 0] /\ since = 0
    /\ older = FALSE /\ mine = FALSE /\ adrift = FALSE
    /\ wrote = FALSE /\ told = FALSE /\ blank = FALSE /\ tried = FALSE /\ cut = FALSE /\ cutTurn = FALSE

Turning == {"text", "tool_start", "tool_result", "tool_end", "user"}

\* The newest waiting row of s with such a status, unless text, a tool or a
\* request of s came after it.
LatestWait(rows, s, statuses) ==
    LET waits == {i \in DOMAIN rows : rows[i].by = s /\ rows[i].kind = "wait" /\ rows[i].status \in statuses}
        turns == {i \in DOMAIN rows : rows[i].by = s /\ rows[i].kind \in Turning}
    IN {i \in waits : \A j \in waits \cup turns : j <= i}

WithStatus(rows, found, status) ==
    [i \in DOMAIN rows |-> IF i \in found THEN [rows[i] EXCEPT !.status = status] ELSE rows[i]]

\* mutant: a row that shows a retry is not completed
CompletedRunning(rows, s) == WithStatus(rows, LatestWait(rows, s, {"running", "timeout"}), "completed")

\* complete_llm_waiting_items
Completed(rows, s) ==
    WithStatus(rows, LatestWait(rows, s, {"running", "retrying", "timeout"}), "completed")

\* thinking_end, when the event cuts short the thinking of the last row
Closed(rows, e) ==
    IF /\ rows # <<>>
       /\ e.kind \in {"tool_start", "tool_result", "text", "wait", "llm_note"}
       /\ Last(rows).kind = "thinking_start"
    THEN Append(rows, Event(e.by, "thinking_end", "none", <<>>))
    ELSE rows

\* _remove_transient_items
Lasting(rows) ==
    FlattenSeq([i \in DOMAIN rows |-> IF rows[i].kind = "agent_thinking" THEN <<>> ELSE <<rows[i]>>])

\* Whether the event is merged into the last row.
Continues(rows, e) ==
    rows # <<>> /\
      (\/ e.kind = "text" /\ Last(rows).kind = "text" /\ Last(rows).by = e.by
       \/ e.kind = "thinking_delta" /\ Last(rows).kind \in {"thinking_start", "thinking_delta"})

(* apply_event, up to the limit: the status of a model call is kept in the *)
(* waiting row of the call while there is one.                             *)
Applied(rows, e) ==
    LET done == IF e.kind \in Turning \ {"user"} THEN Completed(rows, e.by) ELSE rows
        wait == IF e.kind \in {"wait", "llm_note"}
                THEN LatestWait(done, e.by, {"running", "retrying", "timeout", "failed"}) ELSE {}
        closed == Closed(done, e)
        kept == IF e.kind \in {"agent_thinking", "thinking_delta", "text"} THEN closed ELSE Lasting(closed)
    IN IF wait # {} THEN WithStatus(done, wait, e.status)
       ELSE IF Continues(kept, e) THEN [kept EXCEPT ![Len(kept)].text = @ \o e.text]
       ELSE Append(kept, e)

\* timeline[-MAX_TIMELINE_ITEMS:]
Recent(rows) == IF Len(rows) <= MaxItems THEN rows ELSE SubSeq(rows, Len(rows) - MaxItems + 1, Len(rows))

Show(e) ==
    LET rows == Applied(timeline, e) IN
    /\ timeline' = Recent(rows)
    /\ cut' = (cut \/ Len(rows) > MaxItems)
    /\ cutTurn' = (cutTurn \/ Len(rows) > MaxItems)

Emit(e) == events < MaxEvents /\ events' = events + 1 /\ Show(e)
-----------------------------------------------------------------------------
(* What the sessions send.  chat_with_retry: heartbeats, the text of the   *)
(* provider, a failed attempt and its retry.                               *)
Heartbeat(s) ==
    /\ step[s] = "model"
    /\ Emit(Event(s, "wait", "running", <<>>))
    /\ UNCHANGED <<turnVars, step, tool, saidVars, fileVars, tried>>

Piece(s) ==
    /\ step[s] = "model" /\ streams
    /\ Emit(Event(s, "text", "none", <<said[s] + 1>>))
    /\ said' = [said EXCEPT ![s] = @ + 1]
    /\ UNCHANGED <<turnVars, step, tool, since, fileVars, tried>>

Thinking(s) ==
    /\ step[s] = "model" /\ streams
    /\ \E kind \in {"thinking_start", "thinking_delta", "thinking_end"} : Emit(Event(s, kind, "none", <<>>))
    /\ UNCHANGED <<turnVars, step, tool, saidVars, fileVars, tried>>

AttemptFails(s) ==
    /\ step[s] = "model"
    /\ \E status \in {"timeout", "failed"} : Emit(Event(s, "llm_note", status, <<>>))
    /\ step' = [step EXCEPT ![s] = "failed"]
    /\ UNCHANGED <<turnVars, tool, saidVars, fileVars, tried>>

Retry(s) ==
    /\ step[s] = "failed"
    /\ Emit(Event(s, "llm_note", "retrying", <<>>))
    /\ step' = [step EXCEPT ![s] = "model"]
    /\ since' = IF s = Main THEN said[Main] ELSE since
    /\ UNCHANGED <<turnVars, tool, said, fileVars, tried>>

(* ToolExecutor.execute: a result is shown for a change and for a failure, *)
(* and before that the diff of a change for its approval.                  *)
ToolStart(s) ==
    /\ step[s] = "model"
    /\ \E kind \in {"write", "other"} :
         /\ tool' = [tool EXCEPT ![s] = kind]
         /\ tried' = (tried \/ kind = "write")
         /\ Emit(Event(s, "tool_start", kind, <<>>))
    /\ step' = [step EXCEPT ![s] = "tool"]
    /\ UNCHANGED <<turnVars, saidVars, fileVars>>

\* A change that the turn makes: git diff shows it if the file is tracked and
\* the change does not undo another.
Changes == wrote' = TRUE /\ mine' \in BOOLEAN

(* A write that is reported shows its diff; or a diff without lines, of an *)
(* empty file; or no diff, when there is none or the call timed out and    *)
(* goes on in its thread.                                                  *)
ToolResult(s) ==
    /\ step[s] = "tool"
    /\ \E shows \in IF tool[s] = "write" THEN {"diff", "blank", "plain"} ELSE {"plain"} :
         /\ Emit(Event(s, "tool_result", shows, <<>>))
         /\ IF shows = "plain" THEN UNCHANGED <<wrote, mine>> ELSE Changes
         /\ told' = (told \/ shows = "diff")
         /\ blank' = (blank \/ shows = "blank")
         /\ adrift' = (adrift \/ (shows = "plain" /\ tool[s] = "write"))
    /\ UNCHANGED <<turnVars, step, tool, saidVars, older, tried>>

\* The write takes effect: late, or before an error that is returned as the
\* text of the call and shown by no result.
Lands ==
    /\ step[Main] # "off"
    /\ adrift \/ \E s \in Sessions : step[s] = "tool" /\ tool[s] = "write"
    /\ Changes
    /\ UNCHANGED <<timeline, events, turnVars, step, tool, saidVars, older, adrift, told, blank, tried,
                   cut, cutTurn>>

\* The user, or a write of an earlier turn, changes the files, or a commit
\* takes them from git diff.
Edited ==
    /\ step[Main] # "off"
    /\ older' \in BOOLEAN /\ mine' \in {mine, FALSE}
    /\ UNCHANGED <<timeline, events, turnVars, step, tool, saidVars, adrift, wrote, told, blank, tried,
                   cut, cutTurn>>

\* _emit_approval_diff_preview
Preview(s) ==
    /\ step[s] = "tool" /\ tool[s] = "write"
    /\ Emit(Event(s, "tool_result", "preview", <<>>))
    /\ UNCHANGED <<turnVars, step, tool, saidVars, fileVars, tried>>

ToolEnd(s) ==
    /\ step[s] = "tool" /\ (s = Main => step[Sub] = "off")
    /\ Emit(Event(s, "tool_end", tool[s], <<>>))
    /\ step' = [step EXCEPT ![s] = "model"]
    /\ since' = IF s = Main THEN said[Main] ELSE since
    /\ UNCHANGED <<turnVars, tool, said, fileVars, tried>>

Note(s) ==
    /\ step[s] \in {"model", "tool"}
    /\ Emit(Event(s, "note", "none", <<>>))
    /\ UNCHANGED <<turnVars, step, tool, saidVars, fileVars, tried>>

\* The subagent tool; the session of a subagent is a new one.
SubStarts ==
    /\ step[Main] = "tool" /\ tool[Main] = "other"
    /\ step[Sub] = "off" /\ \A i \in DOMAIN timeline : timeline[i].by # Sub
    /\ Emit(Event(Sub, "note", "none", <<>>))
    /\ step' = [step EXCEPT ![Sub] = "model"]
    /\ UNCHANGED <<turnVars, tool, saidVars, fileVars, tried>>

(* A model call that ends with no text and no tool after its heartbeat     *)
(* leaves a waiting row open; the history marks the rows of S.             *)
Left(S) ==
    timeline' = [i \in DOMAIN timeline |->
        IF timeline[i].by \in S /\ timeline[i].kind = "wait" THEN [timeline[i] EXCEPT !.left = TRUE]
        ELSE timeline[i]]

SubAnswers ==
    /\ step[Sub] = "model"
    /\ step' = [step EXCEPT ![Sub] = "off"] /\ Left({Sub})
    /\ UNCHANGED <<events, turnVars, tool, saidVars, fileVars, tried, cut, cutTurn>>
-----------------------------------------------------------------------------
(* add_user_input and the agent_thinking event of submit_nowait;           *)
(* _send_current starts by looking for the row of the request.             *)
Submit ==
    LET asked == Recent(Append(timeline, Event(Main, "user", "none", <<>>)))
        rows == Applied(asked, Event(Main, "agent_thinking", "running", <<>>))
    IN
    /\ step[Main] = "off" /\ turn < MaxTurns
    /\ turn' = turn + 1
    /\ timeline' = Recent(rows)
    /\ start' = Max({i \in DOMAIN Recent(rows) : Recent(rows)[i].kind = "user"})
    /\ cut' = (cut \/ Len(timeline) + 1 > MaxItems \/ Len(rows) > MaxItems)
    /\ cutTurn' = FALSE
    /\ step' = [step EXCEPT ![Main] = "model"]
    /\ since' = said[Main] /\ reply' = <<>>
    /\ older' \in BOOLEAN /\ mine' = FALSE /\ adrift' = FALSE
    /\ wrote' = FALSE /\ told' = FALSE /\ blank' = FALSE /\ tried' = FALSE
    /\ UNCHANGED <<events, streams, tool, said>>

\* Session.send returns its answer; text that was not streamed is a piece
\* of its own.
Answer ==
    /\ step[Main] = "model"
    /\ IF streams
       THEN reply' = [i \in 1..(said[Main] - since) |-> since + i] /\ UNCHANGED said
       ELSE reply' = <<said[Main] + 1>> /\ said' = [said EXCEPT ![Main] = @ + 1]
    /\ step' = [step EXCEPT ![Main] = "closing"]
    /\ IF streams THEN Left({Main}) ELSE UNCHANGED timeline
    /\ UNCHANGED <<events, streams, turn, start, tool, since, fileVars, tried, cut, cutTurn>>

\* It raises, or is cancelled.
Break ==
    /\ step[Main] \in {"model", "failed", "tool"}
    /\ step' = [step EXCEPT ![Main] = "closing", ![Sub] = "off"] /\ Left(Sessions)
    /\ adrift' = (adrift \/ \E s \in Sessions : step[s] = "tool" /\ tool[s] = "write")
    /\ UNCHANGED <<events, turnVars, tool, saidVars, older, mine, wrote, told, blank, tried, cut, cutTurn>>

\* timeline[start_index:]
Since(rows) == {rows[i] : i \in {j \in DOMAIN rows : j >= start}}

\* mutant: the answer is shown whether or not it was streamed
WithReplyAgain(rows) ==
    IF reply = <<>> THEN rows ELSE Applied(rows, Event(Main, "text", "completed", reply))

\* _emit_final_response_if_missing
WithReply(rows) ==
    IF reply = <<>> \/ \E r \in Since(rows) : r.kind = "text" /\ r.by = Main THEN rows
    ELSE Applied(rows, Event(Main, "text", "completed", reply))

\* merge_changed_paths: whether the rows name files that a tool was to write
NamesFiles(rows) == \E r \in Since(rows) : r.kind \in {"tool_start", "tool_end"} /\ r.status = "write"

\* git_diff has changes of these files to show.
GitDiff == older \/ mine

\* The diffs that the results show; approval_preview is left out.
Diffs(rows) == {r \in Since(rows) : r.kind = "tool_result" /\ r.status \in {"diff", "blank"}}
HaveLines(diffs) == \E r \in diffs : r.status = "diff"

\* mutant: the preview of a change counts as a change
ChangedOrPreviewed(rows) ==
    \E r \in Since(rows) : r.kind = "tool_result" /\ r.status \in {"diff", "preview"}

\* _emit_changed_files_summary: from the diffs shown, or else from git
Changed(rows) ==
    IF Diffs(rows) # {} THEN HaveLines(Diffs(rows)) ELSE NamesFiles(rows) /\ GitDiff
WithSummary(rows) ==
    IF Changed(rows) THEN Applied(rows, Event(Main, "summary", "completed", <<>>)) ELSE rows

\* The end of _send_current
Finish ==
    LET replied == WithReply(timeline)
        summed == WithSummary(Recent(replied))
    IN
    /\ step[Main] = "closing"
    /\ timeline' = Lasting(Recent(summed))
    /\ cut' = (cut \/ Len(replied) > MaxItems \/ Len(summed) > MaxItems)
    /\ cutTurn' = (cutTurn \/ Len(replied) > MaxItems \/ Len(summed) > MaxItems)
    /\ step' = [step EXCEPT ![Main] = "off"]
    /\ UNCHANGED <<events, turnVars, tool, saidVars, fileVars, tried>>
-----------------------------------------------------------------------------
Next ==
    \/ \E s \in Sessions :
         \/ Heartbeat(s) \/ Piece(s) \/ Thinking(s) \/ AttemptFails(s) \/ Retry(s)
         \/ ToolStart(s) \/ Preview(s) \/ ToolResult(s) \/ ToolEnd(s) \/ Note(s)
    \/ Lands \/ Edited \/ SubStarts \/ SubAnswers \/ Submit \/ Answer \/ Break \/ Finish

Spec == Init /\ [][Next]_vars
-----------------------------------------------------------------------------
ShownBy(s) ==
    FlattenSeq([i \in DOMAIN timeline |->
        IF timeline[i].kind = "text" /\ timeline[i].by = s THEN timeline[i].text ELSE <<>>])
Unshown(s) == s = Main /\ step[s] = "closing" /\ ~streams /\ reply # <<>>
Spoken(s) == [i \in 1..(IF Unshown(s) THEN said[s] - 1 ELSE said[s]) |-> i]

(* apply_event and _emit_final_response_if_missing: the rows show every    *)
(* piece of text that a session produced, once, in order and under that    *)
(* session, however the events of the two interleave, attempts fail and    *)
(* turns break off; until rows are dropped at the limit, after which the   *)
(* start of the turn is not found again and an answer may be shown twice.  *)
TextShownOnce == \A s \in Sessions : cut \/ ShownBy(s) = Spoken(s)

(* complete_llm_waiting_items and _find_latest_llm_waiting: a row that     *)
(* shows a model call as running belongs to a call that runs, and there is *)
(* one such row for a call; except the rows of calls that ended with no    *)
(* text and no tool after a heartbeat, which go on for ever.               *)
Spinning(s) ==
    {i \in DOMAIN timeline : /\ timeline[i].by = s /\ timeline[i].kind = "wait" /\ ~timeline[i].left
                             /\ timeline[i].status \in {"running", "retrying"}}
WaitRowsClosed ==
    \A s \in Sessions :
        /\ Cardinality(Spinning(s)) <= 1
        /\ Spinning(s) # {} => step[s] \in {"model", "failed", "closing"}

\* The turn that is over has ended with a summary of its changes.
Summarized ==
    LET asked == Max({i \in DOMAIN timeline : timeline[i].kind = "user"})
    IN \E i \in DOMAIN timeline : i > asked /\ timeline[i].kind = "summary"
Over == step[Main] = "off" /\ turn > 0 /\ ~cutTurn

(* _emit_changed_files_summary: however a turn ends, its summary is there  *)
(* if a result showed lines of a change, or if git shows a change of the   *)
(* turn and no result showed an empty one instead; and it is there only    *)
(* if the turn changed something, or git has other changes of the files    *)
(* it tried to write.  A change that was only previewed is none.           *)
SummaryExact ==
    Over => /\ told \/ (mine /\ ~blank) => Summarized
            /\ Summarized => wrote \/ (tried /\ older)
=============================================================================
