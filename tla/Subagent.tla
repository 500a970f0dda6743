------------------------------ MODULE Subagent -----------------------------
(***************************************************************************)
(* A task delegated to a subagent: the retrying tool call of the parent    *)
(* (agent/tool_retry.py under ToolExecutor), the bounded loop of           *)
(* SubagentRunner.run (agent/subagent.py), the model calls it makes, each  *)
(* with its own timeout, wind-up and retries (agent/llm_retry.py), the     *)
(* approval of a tool call and the thread the tool runs in.                *)
(*                                                                         *)
(* The main agent makes its model calls through the same functions.  A     *)
(* batch of tool calls is one call here; AgentTurn has the scheduling.     *)
(***************************************************************************)
EXTENDS Naturals, Sequences, FiniteSets

CONSTANTS
    MaxTries,    \* max_retries + 1 of the executor's run_tool
    MaxTurns,    \* max_turns of the subagent
    MaxAttempts, \* max_retries + 1 of a model call
    MaxRuns      \* SUBAGENT_TOOL_RETRIES + 1, for the tools of the subagent

ASSUME SubagentAssumption == {MaxTries, MaxTurns, MaxAttempts, MaxRuns} \subseteq Nat \ {0}

VARIABLES
    outer,     \* the tool call: "trying", "pausing", "returned", "failed" or "cancelled"
    try,       \* its attempt
    at,        \* where the run stands
    turns,     \* model turns begun
    messages,  \* the subagent's conversation, newest last
    synth,     \* asking for the summary after the turn limit
    attempt,   \* attempt of the current model call
    provider,  \* provider tasks running
    approved,  \* workflow_state holds the approval
    runs,      \* attempts of the current tool call
    threads,   \* tool threads running: <<try, number>>
    late,      \* those whose call timed out
    shown,     \* tries shown as started and not as finished
    cut,       \* tries ended by a cancellation or the tool timeout
    expired,   \* the tool timeout of this try has fired
    cancelling, \* a cancellation is on its way
    interrupted, \* the user has cancelled
    swallowed  \* a cancellation ended nothing

runVars == <<turns, messages, synth, attempt, provider, approved, runs>>
userVars == <<cancelling, interrupted, swallowed>>
taskVars == <<outer, try, at, runVars, threads, late, shown, cut, expired, userVars>>

TaskEnded == outer \in {"returned", "failed", "cancelled"}
Thread == <<try, runs>>
-----------------------------------------------------------------------------
TaskInit ==
    /\ outer = "trying" /\ try = 1 /\ at = "begin"
    /\ turns = 0 /\ messages = <<>> /\ synth = FALSE
    /\ attempt = 0 /\ provider = 0 /\ approved = FALSE /\ runs = 0
    /\ threads = {} /\ late = {} /\ shown = {} /\ cut = {}
    /\ expired = FALSE /\ cancelling = FALSE /\ interrupted = FALSE /\ swallowed = FALSE

Stay == UNCHANGED <<outer, try, threads, late, cut, expired, userVars>>

\* run() starts afresh each time it is called: its own session, messages and
\* workflow state.
Begin ==
    /\ outer = "trying" /\ at = "begin"
    /\ at' = "turn" /\ shown' = shown \cup {try}
    /\ turns' = 0 /\ messages' = <<"task">> /\ synth' = FALSE
    /\ attempt' = 0 /\ provider' = 0 /\ approved' = FALSE /\ runs' = 0
    /\ Stay

\* chat_with_retry is called, for a turn or, when those are used up, for the
\* summary.
Turn ==
    /\ at = "turn"
    /\ synth' = (turns = MaxTurns)
    /\ turns' = IF synth' THEN turns ELSE turns + 1
    /\ messages' = IF synth' THEN Append(messages, "limit") ELSE messages
    /\ at' = "call" /\ attempt' = 0
    /\ UNCHANGED <<provider, approved, runs, shown>> /\ Stay
-----------------------------------------------------------------------------
(* The model call.                                                         *)
Attempt ==
    /\ at = "call"
    /\ at' = "asking" /\ attempt' = attempt + 1 /\ provider' = provider + 1
    /\ UNCHANGED <<turns, messages, synth, approved, runs, shown>> /\ Stay

\* mutant: the failure is not reported.
EndSilent(retry) ==
    /\ UNCHANGED shown
    /\ at' = "off"
    /\ outer' = IF retry /\ try < MaxTries THEN "pausing" ELSE "failed"

\* Where the run goes when it raises: subagent_finished is emitted, and the
\* tool call is retried unless the model failed for good.
EndFailed(retry) ==
    /\ shown' = shown \ {try}
    /\ at' = "off"
    /\ outer' = IF retry /\ try < MaxTries THEN "pausing" ELSE "failed"

\* After an attempt that failed: the next one, or LLMCallError, which a
\* summary survives.
NextAttempt ==
    \/ /\ attempt < MaxAttempts
       /\ at' = "backoff"
       /\ UNCHANGED <<outer, shown>>
    \/ /\ attempt = MaxAttempts
       /\ IF synth THEN at' = "report" /\ UNCHANGED <<outer, shown>> ELSE EndFailed(FALSE)

Backoff ==
    /\ at = "backoff"
    /\ at' = "call"
    /\ UNCHANGED <<runVars, shown>> /\ Stay

\* The response: its text ends the run, its tool calls are carried out.
Respond ==
    /\ at = "asking"
    /\ provider' = provider - 1
    /\ \/ /\ at' = "report"
          /\ messages' = Append(messages, "answer")
       \/ /\ ~synth
          /\ at' = "tool"
          /\ messages' = Append(messages, "calls")
    /\ runs' = 0
    /\ UNCHANGED <<turns, synth, attempt, approved, shown>> /\ Stay

Fail ==
    /\ at = "asking"
    /\ provider' = provider - 1
    /\ NextAttempt
    /\ UNCHANGED <<late, try, turns, messages, synth, attempt, approved, runs, threads, cut, expired,
                   userVars>>

\* The deadline of the attempt: its task is cancelled and awaited; whatever
\* it returns by then is dropped.
TimeOut ==
    /\ at = "asking"
    /\ at' = "winding"
    /\ UNCHANGED <<runVars, shown>> /\ Stay

WoundUp ==
    /\ at = "winding"
    /\ provider' = provider - 1
    /\ NextAttempt
    /\ UNCHANGED <<late, try, turns, messages, synth, attempt, approved, runs, threads, cut, expired,
                   userVars>>
-----------------------------------------------------------------------------
(* A tool call of the subagent.                                            *)
StartTool ==
    /\ at' = "running" /\ runs' = runs + 1
    /\ threads' = threads \cup {<<try, runs + 1>>}

Tool ==
    /\ at = "tool"
    /\ \/ /\ ~approved
          /\ at' = "approving"
          /\ UNCHANGED <<runs, threads, messages>>
       \/ /\ at' = "turn"   \* no target to approve
          /\ messages' = Append(messages, "results")
          /\ UNCHANGED <<runs, threads>>
       \/ StartTool /\ UNCHANGED messages   \* approved before, or nothing to approve
    /\ UNCHANGED <<late, outer, try, turns, synth, attempt, provider, approved, shown, cut, expired,
                   userVars>>

ApproveTool ==
    /\ at = "approving"
    /\ approved' = TRUE
    /\ StartTool
    /\ UNCHANGED <<late, outer, try, turns, messages, synth, attempt, provider, shown, cut, expired,
                   userVars>>

\* ApprovalDenied is an exception like any other for the retrying tool call.
DenyTool ==
    /\ at = "approving"
    /\ EndFailed(TRUE)
    /\ UNCHANGED <<late, try, runVars, threads, cut, expired, userVars>>

\* A tool retried in its own turn: an exception, or the tool's timeout,
\* which leaves its thread running.
ToolAgain ==
    /\ runs < MaxRuns
    /\ at' = "resting"
    /\ UNCHANGED messages

ToolOver ==
    /\ at' = "turn"
    /\ messages' = Append(messages, "results")

ToolReturns ==
    /\ at = "running"
    /\ Thread \in threads
    /\ threads' = threads \ {Thread}
    /\ ToolAgain \/ ToolOver
    /\ UNCHANGED <<late, outer, try, turns, synth, attempt, provider, approved, runs, shown, cut, expired,
                   userVars>>

ToolTimesOut ==
    /\ at = "running"
    /\ ToolAgain \/ (runs = MaxRuns /\ ToolOver)
    /\ late' = late \cup {Thread}
    /\ UNCHANGED <<outer, try, turns, synth, attempt, provider, approved, runs, threads, shown, cut,
                   expired, userVars>>

ToolRetry ==
    /\ at = "resting"
    /\ StartTool
    /\ UNCHANGED <<late, outer, try, turns, messages, synth, attempt, provider, approved, shown, cut,
                   expired, userVars>>

\* A thread nobody waits for still does its work.
ThreadEnds ==
    /\ \E th \in threads : /\ ~(at = "running" /\ th = Thread)
                           /\ threads' = threads \ {th}
    /\ UNCHANGED <<late, outer, try, at, runVars, shown, cut, expired, userVars>>
-----------------------------------------------------------------------------
(* The end of a try.                                                       *)
Report ==
    /\ at = "report"
    /\ at' = "off" /\ outer' = "returned" /\ shown' = shown \ {try}
    /\ UNCHANGED <<late, try, runVars, threads, cut, expired, userVars>>

TryAgain ==
    /\ outer = "pausing"
    /\ outer' = "trying" /\ try' = try + 1 /\ at' = "begin" /\ expired' = FALSE
    /\ UNCHANGED <<late, runVars, threads, shown, cut, userVars>>

\* mutant: the attempt's task is left to itself.
CutOffLeaving(next) ==
    IF at = "winding"
    THEN swallowed' = TRUE /\ UNCHANGED <<outer, at, provider, cut>>
    ELSE /\ at' = "off" /\ outer' = next /\ cut' = cut \cup {try}
         /\ UNCHANGED <<swallowed, provider>>

\* CancelledError reaches the run at its current await: the provider task is
\* cancelled and awaited, a thread runs on, and no event is emitted.  While a
\* timed out attempt winds up, the same suppress that is meant for the
\* attempt's own task catches it.
CutOff(next) ==
    IF at = "winding"
    THEN swallowed' = TRUE /\ UNCHANGED <<outer, at, provider, cut>>
    ELSE /\ provider' = IF at = "asking" THEN provider - 1 ELSE provider
         /\ at' = "off" /\ outer' = next
         /\ cut' = cut \cup {try}
         /\ UNCHANGED swallowed

\* mutant: no timeout while the user is being asked.
ExpiresUnasked == outer = "trying" /\ ~expired /\ at \notin {"begin", "off", "approving"}

\* The tool's timeout fires once for a try.
Expires == outer = "trying" /\ ~expired /\ at \notin {"begin", "off"}

Expire ==
    /\ Expires
    /\ expired' = TRUE
    /\ CutOff(IF try < MaxTries THEN "pausing" ELSE "failed")
    /\ UNCHANGED <<late, try, turns, messages, synth, attempt, approved, runs, threads, shown, cancelling,
                   interrupted>>

\* The user cancels: a pending approval is answered first, then the task is
\* cancelled; the two reach the run in either order.
Interrupt ==
    /\ ~interrupted /\ ~TaskEnded
    /\ interrupted' = TRUE /\ cancelling' = TRUE
    /\ IF at = "approving" THEN EndFailed(TRUE) ELSE UNCHANGED <<outer, at, shown>>
    /\ UNCHANGED <<late, try, runVars, threads, cut, expired, swallowed>>

\* mutant: the model call treats it as one more failed attempt
DeliverCaught ==
    /\ cancelling /\ ~TaskEnded
    /\ cancelling' = FALSE
    /\ IF at = "asking"
       THEN NextAttempt /\ provider' = provider - 1 /\ UNCHANGED <<cut, swallowed>>
       ELSE CutOff("cancelled") /\ UNCHANGED shown
    /\ UNCHANGED <<late, try, turns, messages, synth, attempt, approved, runs, threads, expired,
                   interrupted>>

Deliver ==
    /\ cancelling /\ ~TaskEnded
    /\ cancelling' = FALSE
    /\ CutOff("cancelled")
    /\ UNCHANGED <<late, try, turns, messages, synth, attempt, approved, runs, threads, shown, expired,
                   interrupted>>
-----------------------------------------------------------------------------
Step == Begin \/ Turn \/ Attempt \/ Backoff \/ Tool \/ ToolRetry \/ Report \/ TryAgain
AnswerOrFail == Respond \/ Fail \/ TimeOut
ToolEnds == ToolReturns \/ ToolTimesOut

TaskNext ==
    \/ Step \/ AnswerOrFail \/ WoundUp \/ ApproveTool \/ DenyTool
    \/ ToolEnds \/ ThreadEnds \/ Expire \/ Interrupt \/ Deliver

\* The event loop runs what can run, every wait but the user's has an end,
\* and timers fire.
TaskSpec ==
    /\ TaskInit /\ [][TaskNext]_taskVars
    /\ WF_taskVars(Step) /\ WF_taskVars(AnswerOrFail) /\ WF_taskVars(WoundUp) /\ WF_taskVars(ToolEnds)
    /\ WF_taskVars(Deliver) /\ WF_taskVars(Expire)
-----------------------------------------------------------------------------
(* _chat_once_with_heartbeat and _run_once: a provider task never outlives *)
(* the model call that started it, and a tool thread outlives its call     *)
(* only when a timeout or a cancellation ended the call.                   *)
NothingLeftRunning ==
    /\ provider = IF at \in {"asking", "winding"} THEN 1 ELSE 0
    /\ \A th \in threads : th[1] \in cut \/ th \in late \/ (at = "running" /\ th = Thread)

(* SubagentRunner.run: what the interface shows as a running subagent is   *)
(* the current try, or one that was cut off: `except Exception` does not   *)
(* see a CancelledError, and those stay shown as running.                  *)
FinishedUnlessCut ==
    \A n \in shown : n \in cut \/ (n = try /\ at \notin {"begin", "off"})

(* A cancellation that has been delivered ends the delegated task, unless  *)
(* it met a timed out attempt that was winding up.                         *)
InterruptStops ==
    interrupted /\ ~cancelling => TaskEnded \/ swallowed

(* The delegated task comes to an end, whatever the model and the user do, *)
(* unless its one timeout was swallowed and the user never answers.        *)
TaskEnds == <>TaskEnded \/ <>[](at = "approving" /\ expired /\ swallowed)
=============================================================================
