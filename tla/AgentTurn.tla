----------------------------- MODULE AgentTurn -----------------------------
(***************************************************************************)
(* One user request through the agent graph (agent/graph.py): the model,   *)
(* the tools and the task guard take turns until the task may end.  The    *)
(* tools node runs the calls of one model response through the scheduler,  *)
(* and each call through the executor: workspace preflight, the redirect   *)
(* to apply_patch, the approval of the user, the handler, and the update   *)
(* of the workflow state.                                                  *)
(*                                                                         *)
(* A call waits for something outside the event loop in three places: the  *)
(* preflight tools, the user's answer and its handler.  Between two waits  *)
(* the code runs without interruption, and that is one action here.        *)
(***************************************************************************)
EXTENDS TodoManager

CONSTANTS
    Paths,          \* files of the workspace
    CodePaths,      \* those that path_needs_code_verification accepts
    Calls,          \* the tool calls the model may make
    MaxBatch,       \* bound: calls in one model response
    RecursionLimit, \* node executions the graph library allows in one turn
    Entries         \* the entry points in use: "send", "send_stream"

ToolNames ==
    {"todo", "workspace_state", "git_diff", "read_file", "verify", "bash",
     "apply_patch", "write_file", "edit_file", "subagent"}

\* "risky" is a command that matches a high-risk pattern, "worker" the one
\* subagent role that may not run beside other calls.
Modes == {"plain", "risky", "worker"}

Call == [tool : ToolNames, paths : SUBSET Paths, plan : Lists,
         notes : SUBSET Notes, mode : Modes]

ASSUME TurnAssumption ==
    /\ CodePaths \subseteq Paths
    /\ Calls \subseteq Call
    /\ MaxBatch \in Nat \ {0}
    /\ RecursionLimit \in Nat \ {0}
    /\ Entries \subseteq {"send", "send_stream"}

VARIABLES
    node,    \* the graph node about to run, or how the last turn ended
    steps,   \* nodes executed in this turn
    batch,   \* the tool calls of the last model response
    answer,  \* whether that response carried text
    call,    \* how far each call of the batch is
    guard,   \* WorkflowState, shared by all calls of the turn
    notices, \* what the tools or guard node appended besides the tool results
    \* History of the turn, read by properties only:
    granted,    \* approvals the user gave
    performed,  \* approved operations that took effect
    ran,        \* preflight tools that ran
    unverified, \* paths of all writes reported since verify last ran
    adrift      \* approved operations whose thread outlived its call or attempt

graphVars == <<node, steps, batch, answer, call, notices>>
historyVars == <<granted, performed, ran, unverified, adrift>>
vars == <<todoVars, graphVars, guard, historyVars>>

-----------------------------------------------------------------------------
(* Static facts about calls: the tool registry and the approval rules.     *)

WriteTools == {"apply_patch", "write_file", "edit_file"}

IsWrite(c) == c.tool \in WriteTools

Concurrent(c) ==
    \/ c.tool \in {"workspace_state", "git_diff", "read_file"}
    \/ c.tool = "subagent" /\ c.mode # "worker"

\* Mutant: write_file never asks.
ApprovePatchOnly(c) ==
    \/ c.tool = "apply_patch"
    \/ c.tool = "bash" /\ c.mode = "risky"

\* apply_patch and write_file always ask, bash only for a risky command.
NeedsApproval(c) ==
    \/ c.tool \in {"apply_patch", "write_file"}
    \/ c.tool = "bash" /\ c.mode = "risky"

MissesTarget(c) == c.tool \in {"apply_patch", "write_file"} /\ c.paths = {}

\* approval_cache_key: the command of a bash call is not part of it.
Key(c) == <<c.tool, IF c.tool = "bash" THEN {} ELSE c.paths>>

Keys == {Key(c) : c \in Calls}

VerifyAnything(paths) == TRUE  \* mutant: documents count as code

NeedsVerification(paths) == paths = {} \/ paths \cap CodePaths # {}

FreshWorkflow ==
    [workspaceChecked |-> FALSE, diffChecked |-> FALSE,
     needsVerify |-> FALSE, approved |-> {}]

EitherCheck == guard.workspaceChecked \/ guard.diffChecked  \* mutant: one will do

HasPreflight == guard.workspaceChecked /\ guard.diffChecked

Outcomes == {"ok", "error", "exec_error", "blocked", "redirected", "no_target"}
Active == {"preflight", "approving", "running"}

Working == {"llm", "tools", "task_guard"}
Ended == {"finished", "denied", "failed", "exhausted", "cancelled"}

Indices == 1 .. Len(batch)
AllDone == \A i \in Indices : call[i] \in Outcomes

StartAnyTime(i) == call[i] = "queued"  \* mutant: everything is gathered

\* tool_scheduler: a serial call waits for all calls before it and holds up
\* all calls after it; neighbours that may run concurrently are gathered.
MayStart(i) ==
    /\ call[i] = "queued"
    /\ \A j \in 1 .. i - 1 :
          ~(Concurrent(batch[j]) /\ Concurrent(batch[i])) => call[j] \in Outcomes

-----------------------------------------------------------------------------

Init ==
    /\ TodoInit
    /\ node = "idle" /\ steps = 0
    /\ batch = <<>> /\ answer = FALSE /\ call = <<>> /\ notices = {}
    /\ guard = FreshWorkflow
    /\ granted = {} /\ performed = {} /\ ran = {} /\ unverified = {} /\ adrift = {}

\* What a thread of the turn before still does counts to that turn: its history
\* ends here.
NewTurn ==
    /\ node \notin Working
    /\ node' = "llm" /\ steps' = 0
    /\ batch' = <<>> /\ answer' = FALSE /\ call' = <<>> /\ notices' = {}
    /\ guard' = FreshWorkflow
    /\ submitted' = <<>>
    /\ granted' = {} /\ performed' = {} /\ ran' = {} /\ unverified' = {} /\ adrift' = {}

\* Session.send drops the Task State of the previous request.
Send ==
    /\ "send" \in Entries
    /\ NewTurn
    /\ todo' = FreshTodo

\* Session.send_stream keeps it.
SendStream ==
    /\ "send_stream" \in Entries
    /\ NewTurn
    /\ UNCHANGED todo

\* Mutant: steps are not counted.
AdvanceUncounted(next) == steps' = steps /\ node' = next

\* A node has run: the graph ends or goes on, within the recursion limit.
Advance(next) ==
    /\ steps' = steps + 1
    /\ node' = IF next \in Working /\ steps' = RecursionLimit THEN "exhausted" ELSE next

Batches == UNION {[1 .. n -> Calls] : n \in 0 .. MaxBatch}

\* The llm node, and route_after_llm.
LlmRespond(b, text) ==
    /\ node = "llm"
    /\ batch' = b /\ answer' = text
    /\ call' = [i \in 1 .. Len(b) |-> "queued"]
    /\ notices' = {}
    /\ Advance(IF b = <<>> THEN "task_guard" ELSE "tools")
    /\ UNCHANGED <<todoVars, guard, historyVars>>

\* LLMCallError: the model gave no usable response, and the turn stops.
LlmFail ==
    /\ node = "llm"
    /\ node' = "failed"
    /\ UNCHANGED <<todoVars, steps, batch, answer, call, notices, guard, historyVars>>

\* Mutant: the guard reminds of the unfinished work and lets the turn end.
TaskGuardLenient ==
    /\ node = "task_guard"
    /\ notices' = IF CanFinish(todo) THEN {} ELSE {"finish_blocker"}
    /\ Advance("finished")
    /\ UNCHANGED <<todoVars, batch, answer, call, guard, historyVars>>

\* The task guard node, and route_after_task_guard.
TaskGuard ==
    /\ node = "task_guard"
    /\ notices' = IF CanFinish(todo) THEN {} ELSE {"finish_blocker"}
    /\ Advance(IF CanFinish(todo) THEN "finished" ELSE "llm")
    /\ UNCHANGED <<todoVars, batch, answer, call, guard, historyVars>>

\* ToolExecutor.execute up to the first thing it has to wait for.  Whether a
\* write_file target exists is read from the shared workspace.
StartCall(i, exists) ==
    LET c == batch[i] IN
    /\ node = "tools"
    /\ MayStart(i)
    /\ call' = [call EXCEPT ![i] =
          IF IsWrite(c) /\ ~HasPreflight THEN "preflight"
          ELSE IF c.tool = "edit_file" THEN "redirected"
          ELSE IF c.tool = "write_file" /\ c.paths # {} /\ exists THEN "redirected"
          ELSE IF MissesTarget(c) THEN "no_target"
          ELSE IF NeedsApproval(c) /\ Key(c) \notin guard.approved THEN "approving"
          ELSE "running"]
    /\ UNCHANGED <<todoVars, node, steps, batch, answer, notices, guard, historyVars>>

\* run_preflight has run both tools, whatever they returned.
FinishPreflight(i) ==
    /\ node = "tools"
    /\ call[i] = "preflight"
    /\ call' = [call EXCEPT ![i] = "blocked"]
    /\ guard' = [guard EXCEPT !.workspaceChecked = TRUE, !.diffChecked = TRUE]
    /\ ran' = {"workspace_state", "git_diff"}
    /\ UNCHANGED <<todoVars, node, steps, batch, answer, notices, granted,
                   performed, unverified, adrift>>

\* The user approves, and the key is remembered for the rest of the turn.
Approve(i) ==
    /\ node = "tools"
    /\ call[i] = "approving"
    /\ call' = [call EXCEPT ![i] = "running"]
    /\ guard' = [guard EXCEPT !.approved = @ \cup {Key(batch[i])}]
    /\ granted' = granted \cup {Key(batch[i])}
    /\ UNCHANGED <<todoVars, node, steps, batch, answer, notices, performed,
                   ran, unverified, adrift>>

\* The user denies, or nobody can be asked: ApprovalDenied leaves the node and
\* the graph, and Session.send turns it into the answer of the turn.
Deny(i) ==
    /\ node = "tools"
    /\ call[i] = "approving"
    /\ node' = "denied"
    /\ UNCHANGED <<todoVars, steps, batch, answer, call, notices, guard, historyVars>>

\* Asking the user raised something else: the executor makes it the result.
BreakCall(i) ==
    /\ node = "tools"
    /\ call[i] = "approving"
    /\ call' = [call EXCEPT ![i] = "error"]
    /\ UNCHANGED <<todoVars, node, steps, batch, answer, notices, guard, historyVars>>

-----------------------------------------------------------------------------
(* The handler of a running call returns, and update_after_tool follows.   *)

Return(i, outcome) ==
    /\ node = "tools"
    /\ call[i] = "running"
    /\ call' = [call EXCEPT ![i] = outcome]
    /\ UNCHANGED <<node, steps, batch, answer, notices, granted, adrift>>

ReturnTodo(i) ==
    LET c == batch[i] IN
    /\ c.tool = "todo"
    /\ Return(i, IF TodoCallOk(todo, c.plan, c.notes) THEN "ok" ELSE "exec_error")
    /\ todo' = TodoCall(todo, c.plan, c.notes)
    /\ submitted' = Submit(c.plan)
    /\ UNCHANGED <<guard, performed, ran, unverified>>

\* workspace_state, git_diff and verify count as done whatever they return.
ReturnCheck(i, outcome) ==
    LET tool == batch[i].tool IN
    /\ tool \in {"workspace_state", "git_diff", "verify"}
    /\ Return(i, outcome)
    /\ guard' = [guard EXCEPT !.workspaceChecked = @ \/ tool = "workspace_state",
                              !.diffChecked      = @ \/ tool = "git_diff",
                              !.needsVerify      = @ /\ tool # "verify"]
    /\ ran' = ran \cup ({tool} \ {"verify"})
    /\ unverified' = IF tool = "verify" THEN {} ELSE unverified
    /\ UNCHANGED <<todoVars, performed>>

\* The output of a write decides what update_after_tool believes: all but the
\* "Error:" outputs of the handler count as a success, also the runner's own
\* "Error executing tool".  An attempt that failed may have written.
ReturnWrite(i, outcome, written) ==
    LET c == batch[i] IN
    /\ IsWrite(c)
    /\ outcome = "ok" => written
    /\ Return(i, outcome)
    /\ guard' = IF outcome = "error" THEN guard
                ELSE [guard EXCEPT !.needsVerify = NeedsVerification(c.paths)]
    /\ unverified' = IF outcome = "error" THEN unverified ELSE unverified \cup c.paths
    /\ performed' = IF written THEN performed \cup {Key(c)} ELSE performed
    /\ UNCHANGED <<todoVars, ran>>

\* Commands, readers and subagents leave the workflow state alone.
ReturnOther(i, outcome) ==
    LET c == batch[i] IN
    /\ c.tool \in {"read_file", "bash", "subagent"}
    /\ Return(i, outcome)
    /\ performed' = IF NeedsApproval(c) THEN performed \cup {Key(c)} ELSE performed
    /\ UNCHANGED <<todoVars, guard, ran, unverified>>

ReturnCall(i) ==
    \/ ReturnTodo(i)
    \/ \E outcome \in {"ok", "error", "exec_error"} :
          \/ ReturnCheck(i, outcome)
          \/ ReturnOther(i, outcome)
          \/ \E written \in BOOLEAN : ReturnWrite(i, outcome, written)

HasTool(name) == \E i \in Indices : batch[i].tool = name

\* WorkflowGuard.after_batch_messages
AsksToVerify == guard.needsVerify /\ ~HasTool("verify")

\* The rest of the tools node once the scheduler has all results, and
\* route_after_tools.
CloseBatch ==
    LET counted  == RecordToolCall(todo, HasTool("todo"))
        complete == HasTool("todo") /\ CanFinish(todo) /\ answer
    IN
    /\ node = "tools"
    /\ AllDone
    /\ todo' = ConsumeRepeated(counted)
    /\ notices' =
          {n \in {"verify_reminder", "repeated_update", "final"} :
             \/ n = "verify_reminder" /\ AsksToVerify
             \/ n = "repeated_update" /\ HasRepeatedUpdate(counted)
             \/ n = "final" /\ complete}
    /\ Advance(IF complete THEN "finished" ELSE "llm")
    /\ UNCHANGED <<submitted, batch, answer, call, guard, historyVars>>

\* Calls whose handler runs in a thread that asyncio cannot stop.
InThread(i) == node = "tools" /\ call[i] = "running" /\ NeedsApproval(batch[i])

\* An attempt of the tool runner times out: wait_for gives up waiting for the
\* thread, which goes on beside the next attempt and after the call.
Outlive(i) ==
    /\ InThread(i)
    /\ adrift' = adrift \cup {Key(batch[i])}
    /\ UNCHANGED <<todoVars, graphVars, guard, granted, performed, ran, unverified>>

\* The task running the turn is cancelled at one of its awaits.  The threads of
\* running handlers are not.
Cancel ==
    /\ node \in Working
    /\ node' = "cancelled"
    /\ adrift' = adrift \cup {Key(batch[i]) : i \in {j \in Indices : InThread(j)}}
    /\ UNCHANGED <<todoVars, steps, batch, answer, call, notices, guard, granted,
                   performed, ran, unverified>>

\* Such a thread does its work, at any time: during a later call, or when the
\* turn is over.
Land(k) ==
    /\ k \in adrift
    /\ adrift' = adrift \ {k}
    /\ performed' = performed \cup {k}
    /\ UNCHANGED <<todoVars, graphVars, guard, granted, ran, unverified>>

-----------------------------------------------------------------------------

ToolStep(i) ==
    \/ \E exists \in BOOLEAN : StartCall(i, exists)
    \/ FinishPreflight(i)
    \/ BreakCall(i)
    \/ ReturnCall(i)

Answer(i) == Approve(i) \/ Deny(i)

Llm == LlmFail \/ \E b \in Batches, text \in BOOLEAN : LlmRespond(b, text)

Next ==
    \/ Send
    \/ SendStream
    \/ Llm
    \/ TaskGuard
    \/ \E i \in Indices : ToolStep(i) \/ Answer(i) \/ Outlive(i)
    \/ CloseBatch
    \/ Cancel
    \/ \E k \in Keys : Land(k)

Spec == Init /\ [][Next]_vars

\* The event loop runs what is ready.  A model call and a handler return or
\* time out; the user need not answer, cancel or send anything.
Fairness ==
    /\ WF_vars(Llm)
    /\ WF_vars(TaskGuard)
    /\ WF_vars(CloseBatch)
    /\ \A i \in 1 .. MaxBatch : WF_vars(i \in Indices /\ ToolStep(i))

FairSpec == Spec /\ Fairness

-----------------------------------------------------------------------------
(* Properties.                                                             *)

\* Every variable has its type, and a turn never runs more nodes than the
\* recursion limit allows.
TypeOK ==
    /\ TodoTypeOK
    /\ node \in Working \cup Ended \cup {"idle"}
    /\ steps \in 0 .. RecursionLimit
    /\ batch \in Seq(Calls)
    /\ answer \in BOOLEAN
    /\ call \in [Indices -> {"queued"} \cup Active \cup Outcomes]
    /\ notices \subseteq {"finish_blocker", "verify_reminder", "repeated_update", "final"}
    /\ guard \in [workspaceChecked : BOOLEAN, diffChecked : BOOLEAN,
                  needsVerify : BOOLEAN, approved : SUBSET Keys]
    /\ granted \subseteq Keys
    /\ performed \subseteq Keys
    /\ ran \subseteq {"workspace_state", "git_diff"}
    /\ unverified \subseteq Paths
    /\ adrift \subseteq Keys

\* The turn keeps the contract of module TurnContract: approved operations take
\* effect only under an approval of this turn, a finished turn has a complete
\* Task State, and once the turn is over only threads it left behind take effect.
Contract == INSTANCE TurnContract WITH
    phase     <- IF node \in Working THEN "working" ELSE node,
    planDone  <- CanFinish(todo),
    approvals <- granted,
    effects   <- performed,
    flying    <- adrift

ImplementsContract == Contract!Spec

\* A turn started by Session.send ends as finished only if the model submitted
\* a todo list in this turn and the last one it kept is completed: neither the
\* Task State of an earlier request nor an emptied list lets it out.
FinishedMeansPlanned ==
    node = "finished" => AllCompleted(Truncate(submitted))

\* No workspace write takes effect before workspace_state and git_diff both ran
\* in the same turn, in whatever batches the model sends its calls.
WritesWerePreflighted ==
    (\E k \in performed : k[1] \in WriteTools) => ran = {"workspace_state", "git_diff"}

\* While a call that must run alone waits for the user or for its handler, no
\* other call of the batch changes the workflow state or the Task State, or
\* takes an approved effect: what the executor checked before it waited still
\* holds when it goes on.  Only a thread left behind by a timeout may act.
SerialCallsUndisturbed ==
    [][\A i \in Indices :
          /\ node = "tools" /\ node' = "tools"
          /\ call[i] \in Active /\ ~Concurrent(batch[i])
          /\ call'[i] = call[i]
          => /\ UNCHANGED <<call, guard, todo>>
             /\ performed' \subseteq performed \cup adrift]_vars

ClosesBatch == node = "tools" /\ AllDone /\ node' \in {"llm", "finished", "exhausted"}

Reminds == "verify_reminder" \in notices'

\* The tools node asks for verify whenever only code was written since verify
\* last ran (code_agent_roadmap.md:345), and never when no code was (:346),
\* through failed writes, held-back ones and verify calls in any order.
ReminderByKind ==
    [][ClosesBatch /\ ~HasTool("verify") =>
          /\ Reminds => unverified \cap CodePaths # {}
          /\ unverified # {} /\ unverified \subseteq CodePaths => Reminds]_vars

\* The same document of mixed changes (:347): code among them is enough.  The
\* guard goes by the latest write alone.
MixedChangesVerified ==
    [][ClosesBatch /\ ~HasTool("verify") /\ unverified \cap CodePaths # {} => Reminds]_vars

\* Every turn ends, unless it waits for an answer of the user: the bounds on
\* retries, timeouts and node executions leave no other way to go on forever.
TurnEnds ==
    node \in Working ~> (node \in Ended \/ \E i \in Indices : call[i] = "approving")

=============================================================================
