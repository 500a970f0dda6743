# Verification of yycode

TLA+ modules of yycode (a coding agent for the terminal and for editors, Python), their TLC
configurations, and theorems about them checked by TLAPS. Every definition is translated from the
source; `PROJECT.json` maps each one to the lines it stands for. Paths below are relative to the
repository.

Run a configuration with `tlc -config <file>.cfg <module>.tla`, a proof with `tlapm <module>.tla`.

## 1. The system

yycode runs one asyncio event loop. A host (the plain prompt, the Textual TUI, or the ACP server an
editor talks to) hands the user's request to a *session*. The session appends it to its message
history, compresses that history, and runs the *agent graph*: the model node, the tools node and the
task guard node, until the task may end. The tools node runs the calls of one model response through
a *scheduler*; each goes through the *executor*: workspace preflight, redirect to `apply_patch`,
approval by the user, the handler in a thread with timeout and retry, and the update of the *workflow
state*. Afterwards the session reduces a completed turn to a summary and writes its file.

Because of the single loop, code between two `await`s is atomic. Everything difficult lies at the
awaits: the model, a handler, the user's answer, a token count, an event callback.

| Component (source) | State | Operations | Interacts with | Hard | Correct when |
|---|---|---|---|---|---|
| Task State, `agent/todo_manager.py` | list, completed list, memory, flags, counters | todo call, round closed, reminder, reset | tools node, guard node, session | stale flags across lists and requests, limit | the task may end only on its completed list |
| Agent graph, `agent/graph.py`, `agent/nodes/` | message list, node, steps | llm, tools, task guard, routing | provider, executor | loops, recursion limit, cancellation | every turn ends, finished means planned |
| Scheduler, executor, guard, `agent/runtime/` | workflow state shared by the calls of a turn | start, preflight, run, update | approvals, tools | check before an await, use after it; gathered calls | no write without preflight, checks still hold when used |
| Approvals, `agent/runtime/approval_service.py`, `agent/approval.py` | keys approved in this turn | ask, cache, deny | host adapters | cache outlives a turn; denial in a batch | effects only under approvals of the same turn |
| Session, `agent/session.py`, `context_compressor.py`, `task_memory.py`, `message_context_manager.py` | messages, persistence, file | send, compress, merge, summarise, clear, save, resume | graph, provider, host | indices computed before an await; summaries of summaries; cut-off turns | providers accept it, nothing recent is lost, file equals history at rest |
| Providers, `agent/providers/`, `agent/message_format.py` | buffers of one response | convert, stream, assemble, parse | session, services | markers and calls cut anywhere, a response that is cut | the user sees the answer that is kept, calls are as the model made them |
| Model call, `agent/llm_retry.py` | attempt, provider task, last activity | call, heartbeat, time out, wind up, retry | provider, events | cancellation while cleaning up, partial text | no task left behind, a cancellation stops it |
| Tool call, `agent/tool_retry.py` | attempt, thread | run, time out, retry | executor | thread survives its timeout | only a call that was cut off leaves a thread |
| Subagents, `agent/subagent.py` | own message list, workflow state | turn, tools, summary | model call, tool call, approvals | timeouts and cancellation at three levels, retries of retries | it ends, and is shown as ended |
| File and patch tools, `tools/apply_patch.py`, `write_file.py`, `diff_utils.py` | files | check, preview, write, diff | approvals, workflow state | late threads, the user's edits, retries | only approved files change, as previewed and once |
| Command line and stored sessions, `main.py`, `agent/session_store.py`, `app_paths.py`, `skills.py` | `config.json`, skills directory, session files | start, resume, list, delete, save, clear | other processes | crashes and other processes between two steps | conversations survive, a start succeeds |
| TUI runner and approvals, `agent/tui/runner.py`, `approval.py`, panel of `app.py` | current task, pending futures, panel | submit, cancel, ask, answer, clean up | session, controller | second submit, cancel during a question, equal questions | the running turn can be cancelled, every question answered |
| TUI state, `agent/tui/state.py` | timeline, questions, active task | one reduction per event, end of a turn | runner | sources interleave, rows are dropped, attempts fail | every text once, no ended call shown as running |
| ACP server, `agent/acp/`, `agent/cancellation.py` | session table, pending requests, running task | the protocol methods, permission requests, shutdown | client, session | reading while a turn runs, cancellation, order of output | each request answered once, updates first, it stops |
| Language server client, `agent/lsp/` | process, pending requests, opened files | start, request, open, exit, shutdown | tools, session | start-up race, crash, late answers | answers reach their calls, servers are used in order and stopped |
| Renderers, reading and search tools, replay | little or none | conversion, I/O | all | - | outside this project, see section 7 |

`PROJECT.json` lists every component with its status, and every hazard at its line with the
properties that cover it or the reason why none does.

## 2. Modules

| Module | What it is |
|---|---|
| `TodoManager` | the Task State as operators from record to record, and a specification of its own |
| `TurnContract` | what one request promises; the abstract specification of `AgentTurn` |
| `AgentTurn` | one request after another through graph, scheduler, executor, approvals; extends `TodoManager` |
| `SessionHistory` | the message history over many requests: compression before a turn and by hand, merging, summaries, file |
| `MessageFormat` | what the providers make of a history; extends `SessionHistory` |
| `ProviderStream` | one response of a model, from the chunks of a stream to text and calls |
| `Subagent` | a delegated task: tool call, subagent, model calls, tool threads, with every timeout and retry |
| `FileChanges` | write and patch tools against files, threads, approvals and the user's edits |
| `CommandLine` | processes that share the data directory: start, configuration, skills, stored sessions |
| `TuiDesk` | turns and questions of the terminal interface |
| `TuiState` | its timeline |
| `AcpServer` | the read loop, sessions, permission requests and shutdown of the ACP server |
| `LspClient` | the language server, its client and the calls that use it |
| `MC...` | small instances for TLC |
| `AgentTurn_proofs` (with `TodoManager` and `Subagent`), `SessionHistory_proofs` (with `MessageFormat`), `Approvals_proofs` (`TuiDesk` and `FileChanges`), `TuiState_proofs`, `ProviderStream_proofs`, `LspClient_proofs`, `FrontEnds_proofs` (`AcpServer` and `CommandLine`), and `ListTheorems`, on which they rest | theorems and proofs, section 6 |

How they fit together. `AgentTurn` uses the operators of `TodoManager` inside its own actions, so one
definition serves both, and `MessageFormat` is stated about the very states of `SessionHistory`.
Between the others the interface is what one sees of the other:

- `SessionHistory` takes from the graph the responses and results of a turn and the way it ended,
  `CommandLine` takes from `SessionHistory` that a turn adds to the history and is then saved;
- `AgentTurn` takes from a tool call its outcomes, which are those of `Subagent` and `FileChanges`;
  from a response its calls, which `ProviderStream` assembles; from the user an answer or a denial,
  whose way through the interface is `TuiDesk` or `AcpServer`;
- `TuiState` takes the events of sessions in every order their code can send them.

Mutants. An operator whose comment starts with "mutant" is not part of the model. It is a plausible
bug in the definition below it, named in `PROJECT.json` with the property that notices it.

### TodoManager and code

`todo` is the object: `items`, `done` (`completed_items`), `memory`, `rounds`
(`rounds_since_todo`), `started`, `completed`, `lastSignature`, `repeats`. `Truncate`, `SetItems`,
`SetMemory`, `TodoCall` are `set_items` and the todo handler in the order of the code. The handler can
fail after it has updated the manager (rendering an item that lacks a key); the runner then repeats it,
so `TodoCall` applies the update `Attempts` times. `CloseRound` is what the tools node does after a
batch. `submitted` is history: the last non-empty list in full. Item texts are identities, and the
fields of the task memory are one set of notes.

### AgentTurn and code

`node` is the graph node about to run or the way the last turn ended. A call of the batch moves from
`queued` through `preflight`, `approving`, `running` to an outcome; each of these is an await of
`ToolExecutor.execute`, and each action is the code between two of them. `guard` is `WorkflowState`.
`MayStart` is `execute_tool_calls`: runs of concurrent calls are gathered, everything else is
sequential. `Advance` counts node executions against the graph library's recursion limit. `Cancel` may
happen at any await; the thread of a running handler is not stopped, so its effect may still come.
Handlers answer in every way they can: success, an `Error:` output, an error of the runner after
retries (with or without the effect).

### SessionHistory and code

`at` says which await of `Session.send` the turn is in: the token count before compression, the count
before merging, the graph, or the event sent between appending the summary and removing what it
stands for. `input` is the list given to the graph; its length is `task_start_index`. `manual` is the
list a compression by hand has computed before its own token count, to be installed after it. A
message is its kind, the calls it makes or answers, the size of an output, and for a summary the sets
of requests and facts it stands for. `Restart` may happen anywhere and resumes from the file. Token
counts are not modelled: above or below a threshold is a free choice, which covers every count.
`Only` is the filter of a list comprehension; it is `SelectSeq`, written without the recursion that the
prover cannot expand.

### AcpServer and code

`serve` awaits `handle_line` before it reads on. A method that does not suspend is one action
(`NewSession`, `LoadSession`, `Cancel`, ...). `Prompt` starts the turn as a task and waits; `Emit`,
`Ask`, `EndTurn` are that task; `PromptReturns` answers. `lines` is what the client has written and
nobody has read. `wire` is what the server read and wrote, in order. `Interrupt` is the first Ctrl-C,
which `asyncio.run` turns into a cancellation of `serve` on Python 3.11 and later; on 3.10 there is no
such step. A cancellation that reaches a wait for permission can be swallowed there
(`approval_adapter.py:46`) or cut the turn off, depending on how the graph library awaits its nodes:
both are allowed.

An event makes as many updates as `EventUpdates` allows (a tool call may make none or two).

### MessageFormat and code

`ToProvider` is `messages_to_provider_format`, `ToOpenAI` the further conversion of the OpenAI
provider; `AnthropicAccepts` and `OpenAIAccepts` are what the services demand (external). A call is
told by its tool.

### ProviderStream and code

One response, in three modes: OpenAI's stream, Anthropic's whole message, and Anthropic's stream, to
which `FallBack` moves when the request for the message fails. Text is a sequence of symbols, small
enough that a marker can be cut in two; `Text(n)` delivers n of them. `Round` is one
pass of the loop in `TextToolCallStreamFilter.feed`, `Feed` the loop (a recursive function of the number
of symbols left), `Flushed` its `flush`; `Blocks`, `CallsOf` and `Cleaned` are `parse_text_tool_calls`. `Delta`,
`Block`, and `Start`, `More`, `Stop` bring the parts of native calls in the order each protocol allows;
`Return` may come at any point, which is a response that is cut. `data` and `current` are
`tool_calls_data` and `current_tool_use`.

### Subagent and code

`outer` is the tool call of the parent in `async_run_tool_with_retry`, `try` its attempt, `at` the
await of `SubagentRunner.run` or of the functions below it: `call`, `asking` and `winding` are those
of `chat_with_retry` and `_chat_once_with_heartbeat`, `approving` and `running` those of the executor
of the subagent. `Expire` is the timer of the delegated call, `Interrupt` the user's cancellation,
`Deliver` raises it at the await where the task stands, and what happens then is the code's `except`,
`finally` and `suppress` clauses in order. A synchronous tool is a thread that nothing can stop
(`ThreadEnds`).

### FileChanges and code

`Call` is what the executor does until the user is asked, with the preview computed from the files of
that moment; `Look` and `Touch` are the reading and the writing half of a tool in its thread, so a
second thread or an edit of the user can come between. A diff is applied by `git apply` (external:
`Applies`, `Patched`). `told` is what the call returned, with its diff as lines that look like a
header, a hunk, an addition or a removal; `Snapshot` and `SnapshotTotal` (over `Sections`, the fold of
`Parse`), `DiffFiles` and `ModelSummary` read that diff as the interface and the model's summary do.

### CommandLine and code

Each process walks through `main`: `config.json` is checked, created, filled and read; the skills
directory is checked, made and filled file by file; a session is loaded; then turns are made and saved
in two steps (`WriteTemp`, `Rename`: the temporary file, then `os.replace`). Two processes interleave
at the file operations, and `Crash` may end one at any of them. `said` and `prior` are history: what a
session's file should hold and what it held before.

### TuiDesk and code

A question has a number here; the code knows it by its operation alone, in three places: the
adapter's future (`pending`), the entry of `TuiState` (`view`) and the panel of the app. `Ask`, `Wake`
and `CutOff` are the agent's side (`ApprovalService.approve`, `decide` and its `finally`), `Refresh`
and `Answer` the app's. `Submit`, `Cancel`, `CancelReturns`, `TurnReturns`, `Swept` are
`AgentTuiRunner` and `CancellationController`; `SweepCut` is a cancellation that arrives while the end
of a turn is being handled. `Clear` is `:clear` and `:clear!`.

### TuiState and code

The actions are the events that a session or its subagent can send next, given what it is doing
(`step`), and each applies what `apply_event` does with it to the rows. A piece of text is numbered in
its session. `WithReply`, `Changed` and the rows they add are what `_send_current` does when a turn
ends. The limit on rows is part of every addition.

### LspClient and code

`client` and `opened` are the manager's, `link[c]` the state of one `LspClient`, `server[c]` its
process (external: it answers in any order, late, with rubbish, or exits). `call[t]` is the await at
which a tool call stands: spawning, draining a message, waiting for an answer. `Respond` and
`ReaderFails` are the reader task. `Close` to `Reap` are `shutdown_lsp_managers` when the session is
closed, which happens when no call runs.

## 3. Runs

| Run | Question | Bounds, and why they are enough |
|---|---|---|
| `todo_manager` | does what lets a task end speak of the current list? | lists of up to 3 items with a limit of 2, so a list is cut; an item without id; 4 attempts as in the executor; two ids so a list can differ from the one before |
| `turn_writes` | preflight, approvals, reminder | batches of 2 (two writes, check and write, write and verify), one code and one document path, 6 node executions: a write held back, retried, and followed by another batch; several requests through both entry points |
| `turn_tasks` | plans, commands, delegation, ending | batches of 2 of todo, risky bash, serial and concurrent subagents, redirected and targetless writes; 5 node executions; requests through `send` |
| `session_history` | form and content of the history | 4 requests, or 3 and the screen for compression by hand (the second merge needs three summaries and a request after them), 2 recent messages, a batch of todo and another tool with a reminder, one restart |
| `acp_server` | answers, order, end | 3 lines (open a session, prompt, and a line that arrives meanwhile), 2 session ids, 2 events per turn, with and without automatic approval |
| `lsp_client` | whose answer, which server | 2 calls at a time and 3 in all: the third meets what two overlapping ones left behind; 1 file and queries without one; a server and its replacement |
| `subagent` | what is left behind, does it end | 2 of everything that repeats: tries, turns, attempts of a model call, runs of a tool; a batch is one call |
| `tui_desk` | is every question answered, every turn under control | 2 agents, 2 operations, 3 questions (one behind an abandoned one), 2 turns (the second submitted while the first is cancelled) |
| `tui_state` | are the rows true | a session and its subagent, 5 events, 2 turns, 5 rows: the limit is reached in a turn, and not in shorter ones |
| `provider_stream` | text shown, calls returned | texts of up to 4 pieces of 5 kinds (both markers, their common beginning, a call, other text) in every division into chunks, 2 native calls in 2 parts |
| `file_changes` | what changes, what is told | 2 files and 11 calls that differ in what can go wrong, 2 calls of a run, 1 retry, 1 edit by the user, a file with a line that looks like a header |
| `command_line` | are conversations and starts safe | 2 processes, 2 sessions, 2 skill files, 3 launches, 2 turns, 1 crash |

Deadlock is checked where the system never stops: `todo_manager`, the two turns, `tui_desk`. In the
others the user may stop, or the task, response or server ends, so those configurations switch it off.

Many properties name a race or a failure after which they do not hold ("unless two questions shared a
key"). The exception is where the code does break the rule: the run shows that it holds in every other
case, and section 5 lists the exceptions that contradict a document.

What the properties say:

- `TodoTypeOK`, `FinishMeansListCompleted`, `CurrentListUnfinished`, `RepeatIsAboutCurrentList`: flags,
  lists and counters of the Task State speak of the same list, across emptied, repeated, cut and
  failing updates.
- `WritesWerePreflighted`: no write takes effect before both preflight tools ran in the same turn.
- `ImplementsContract`: refinement of `TurnContract`: approved operations take effect only under an
  approval of the same turn, a finished turn has a complete Task State, nothing happens afterwards
  except an effect already in flight.
- `SerialCallsUndisturbed`: while a serial call waits, no other call changes what it checked.
- `ReminderExact`: when the verify reminder is given, exactly.
- `FinishedMeansPlanned`: a finished turn had a list of its own. `TurnEnds`: liveness, below.
- `ProviderAccepts`: both services accept the history, in memory, on disk, in what the graph gets and
  in what a compression by hand is about to install, and nothing that was kept is missing from it.
- `RecentKept`, `HistoryKept`, `MergeKeepsFacts`, `SavedAtRest`, `ManualAsChosen`: what compression,
  the end of a turn, merging, saving and compression by hand must not lose.
- `ShownIsAnswer`, `CallsAsMade`: however a response is divided or cut, the user sees the text outside
  the calls, and each call comes back once, in order, with its own arguments.
- `NothingLeftRunning`, `FinishedUnlessCut`, `InterruptStops`, `TaskEnds`: tasks and threads of a
  delegated task, its end, and what cancelling it does.
- `ChangesApproved`, `AsPreviewed`, `SummaryCounts`: only approved files change, a call does what was
  previewed and once, and its diff is counted and attributed right, in two parsers.
- `ConversationKept`, `StartsWhole`: the file of a session that is not shared is exactly its
  conversation, or the one before while a save is under way or was cut off, and a file that is no
  session is never replaced by one; a first start under crashes and other processes.
- `WaiterReachable`, `QuestionsAnswered`, `TurnTracked`: an agent that waits can be answered and is,
  and Ctrl+C would cancel the turn that runs.
- `TextShownOnce`, `WaitRowsClosed`, `SummaryExact`: the rows of the timeline against what happened.
- `AnsweredInOrder`, `UpdatesInside`, `ControllerTracksPrompt`, `EofStops`: the protocol side of the
  ACP server.
- `OwnAnswer`, `ServerUsedProperly`, `ServersStopped`: answers reach their calls; handshake before
  queries, documents before questions about them; no server survives the session.

`session_history` runs with `Overlap = FALSE`: a compression by hand does not overlap a turn. Nothing
in the code ensures that; with `TRUE`, `HistoryKept` and `ProviderAccepts` do not hold (section 5).


## 4. Fairness

`AgentTurn`: weak fairness on the model step, the task guard, closing a batch, and each call's own
steps. Model calls and handlers return or time out (`llm_retry.py`, `tool_retry.py`), and the event
loop runs what is ready. No fairness on the user's answers, on cancelling or on sending: `TurnEnds`
therefore allows a turn to wait for an approval.

`Subagent`: weak fairness on the steps of the task, on the model answering, failing or timing out
(its own timeout), on the wind-up, on the end of a tool call (its timeout), on the delivery of a
cancellation and on the timer of the delegated call. None on the user, who may never answer or cancel,
and none on threads: `TaskEnds` therefore excepts a question nobody answers after the timer was
swallowed.

`TuiDesk`: weak fairness on the refresh after an event, on an agent whose future is done, and on the
user answering what the panel shows; the last is the assumption under which "every question is
answered" makes sense. None on submitting, cancelling, or on a turn ending.

`AcpServer`: weak fairness on the read loop, the turn's steps, the answer of a prompt and the
shutdown, and on the client answering a permission it was asked for. None on sending, closing stdin or
interrupting. `EofStops` is claimed for automatic approval only (section 5).

All other modules claim safety only.

## 5. Where code and documents disagree

Met while modelling. Each can be seen in the model by stating the sentence as a property; they are
described here and in the notes of `PROJECT.json` instead of as runs that must fail.

- A todo list beyond the limit counts as completed when its kept part is (`todo_manager.py:63`);
  `docs/core_workflow.md:249` demands that every todo is completed.
- A document written after code takes the verify reminder back (`workflow_guard.py:167`);
  `docs/code_agent_roadmap.md:347` demands verification whenever code is among the changes.
- The second write of a batch passes on the preflight that the first triggered
  (`workflow_guard.py:145`); `docs/code_agent_roadmap.md:59` has the model review its output first.
- A request through `send_stream` may end on the plan of the one before (`session.py:455`);
  `docs/core_workflow.md:248` demands a Task State for every task.
- Merging summaries a second time forgets the requests of the first merge (`task_memory.py:177`).
- A compression by hand that overlaps `send` can remove the new request (`session.py:369`).
- The ACP server never reads the answer to a permission request, because the loop that would read it
  awaits the turn that waits for the answer (`acp/server.py:54`);
  `docs/acp_research_and_implementation_plan.md:631` has the turn go on after the answer. For the same
  reason `session/cancel` finds no running prompt.
- A refusal inside a subagent is retried like any error, so the task is run and the user asked again
  (`tool_retry.py:84`); `docs/full_tui_design.md:690` has the task stop.

## 6. Proofs

### What is assumed

The theorems hold for every value of the constants under the named assumptions of the modules:
`TodoAssumption`, `TurnAssumption`, `HistoryAssumption`, `SubagentAssumption`, `CommandLineAssumption`,
`DeskAssumption`, `TimelineAssumption`, `ContentsAssumption`, `AcpAssumption`, `LspAssumption`,
`FilesAssumption`. They give the constants their types and say that a
sentinel is not a member of the set it stands outside of. So: any calls, lists, paths, batch sizes,
messages, processes, sessions, agents, callers, and any value of the bounds that keep TLC's instances
finite. The timeline holds more than one row (`MaxItems`, 500 in the code): with room for one, the row
that `submit_nowait` adds would push out the request it belongs to. TLC evaluates each assumption in the
runs of its module. Three theorems assume more, and say so:

- `SendFinishesPlanned`: every request comes in through `Session.send`. A request through
  `send_stream` is the counterexample without it (section 5).
- `HistoryIsKept`, `HistoryIsAccepted`: a compression by hand does not overlap a turn (section 5).

### What is proved

| Theorem | States | Invariant it rests on |
|---|---|---|
| `TodoTypeCorrect`, `FinishTracksList`, `CurrentUnfinished`, `RepeatAboutCurrent` | `TodoTypeOK`, `FinishMeansListCompleted`, `CurrentListUnfinished`, `RepeatIsAboutCurrentList` | each inductive with the type |
| `TypeCorrect` | `TypeOK` of the turn | `TypeInv` |
| `WritesPreflighted` | `WritesWerePreflighted` | `GuardInv` |
| `TurnKeepsContract` | `ImplementsContract`, the refinement of `TurnContract` | `TypeInv`, `GuardInv` |
| `SendFinishesPlanned` | `FinishedMeansPlanned` | `PlanInv` |
| `SerialCallsAlone` | `SerialCallsUndisturbed` | `StartedInOrder` |
| `RemindersExact` | `ReminderExact` | `ReminderInv` |
| `HistoryTypeCorrect` | `TypeOK` of the history | itself |
| `SavedWhenAtRest` | `SavedAtRest`, overlapping compressions included | itself |
| `RecentAreKept`, `MergingKeepsFacts` | `RecentKept`, `MergeKeepsFacts` | `TypeOK`; lemmas about the operators |
| `HistoryIsKept` | `HistoryKept` | `TurnInv` |
| `ManualIsAsChosen` | `ManualAsChosen` | `ScreenInv` |
| `HistoryIsAccepted` | `ProviderAccepts` | `FormInv` |
| `ServerTypeCorrect` | types of the ACP server | `TypeInv` |
| `AnswersComeInOrder`, `UpdatesStayInside` | `AnsweredInOrder`, `UpdatesInside` | `WireInv` |
| `ControllerIsCurrent` | `ControllerTracksPrompt`, and that no question outlives its turn | `Control` |
| `RetriesBounded` | every loop of a delegated task stays within its limit | `LoopInv` |
| `NothingIsLeftRunning`, `ShownRunsFinish`, `CancellationStops` | `NothingLeftRunning`, `FinishedUnlessCut`, `InterruptStops` | each inductive with `LoopInv` |
| `WaitersAreReachable` | `WaiterReachable` | `QuestionInv` |
| `RunningTurnIsTracked` | `TurnTracked` | `TurnInv` of `Approvals_proofs` |
| `WaitInvHolds`, `WaitRowsClosedHolds` | types of the timeline, `WaitRowsClosed` | `WaitInv` |
| `SummaryInvHolds`, `SummaryExactHolds` | `SummaryExact` | `SummaryInv`, on top of `WaitInv` |
| `TextInvHolds`, `TextShownOnceHolds` | `TextShownOnce` | `TextInv`, on top of both |
| `ShownInvHolds`, `ShownIsAnswerHolds` | `ShownIsAnswer` | `ShownInv` |
| `CallInvHolds`, `CallsAsMadeHolds` | `CallsAsMade` | `CallInv`, and `ShownInv` for the ids of calls in the text |
| `ClientTypeCorrect` | types of the language server client | `TypeInv` |
| `AnswersAreOwn` | `OwnAnswer` | `Shape`, `IdsInv` |
| `ServersUsedProperly`, `NoServerSurvives` | `ServerUsedProperly`, `ServersStopped` | `ProcessInv`, `GreetInv`, `TellInv`, `OnceInv` |
| `ChangesAreApproved` | `ChangesApproved` | `ShapeInv`, `AllowedInv` |
| `CallsAreAsPreviewed` | `AsPreviewed` | `ShapeInv`, `SettledInv` |
| `SummariesCount` | `SummaryCounts` | `DiffInv`, on top of `ShapeInv`; induction over the lines of a diff |
| `DirectoryTypeCorrect` | types of the data directory and the processes | `DirectoryTypes` |
| `ConversationIsKept` | `ConversationKept` | `SessionInv` |
| `UndisturbedStartsWhole` | `StartsWhole` | `StartInv` |

### The arguments

TLC checked each invariant on the instance of its module before it was proved, except `FormInv`,
which quantifies over sets of lists; there TLC checks what follows from it.

**`AgentTurn`.** `WritesWerePreflighted` alone is not inductive: a step that performs a write must
know that its call passed the checks earlier. `GuardInv` adds that approvals in the workflow state are
those the user gave (`ApprovalsKept`), that its flags mean the tools ran (`ChecksRan`), and that every
call waiting for the user or for its handler got past preflight, redirect and approval (`AllCleared`).
The last holds because checks and approvals only grow within a turn (`ClearedGrows`), which is the
reason the code may check before it waits. `ReminderExact` needs that a write whose handler runs has a
target (`WritesHaveTargets`): one without would count as the latest write and leave the flag alone.

**`SessionHistory`.** `ScreenInv`: what an open screen offers is still an old tool output where the
screen saw it, or the screen's list counts as replaced; appending keeps positions, and messages only
grow older. `TurnInv`: while the graph runs the history is what it was given, and afterwards begins
with it.

**`MessageFormat`.** That both services accept a history is not a property its operations preserve:
they filter, cut and join lists, and the property speaks of neighbours. `FormInv` says instead how the
list came about. A *block* is a request, summary or reminder, or a response followed by the results of
its calls in order; `Conversations` is the smallest set of lists that contains the empty one and is
closed under appending a block. Of it is shown, by induction over the set:

- both conversions map the joining of lists to joining, every block is accepted, and so is what is
  joined of accepted lists (`ConversationAccepted`);
- a transcript of the graph is a conversation, and joining two gives one (`TranscriptsConverse`);
- cutting outputs changes no kind and no call (`SimilarConverses`); what follows a summary is a
  conversation (`RestConverses`), so a merge leaves one;
- without the messages about todos, calls and results lose the same positions (`AnswersKept`) and a
  response that is left with neither text nor calls is dropped with all its results
  (`ExchangePruned`); so reducing a turn leaves a conversation (`CompactedConverses`).

**`AcpServer`.** `ControllerTracksPrompt` needs that a turn runs exactly while its prompt is handled
and that no question outlives it (`Control`). For the order of answers, `WireInv` describes the whole
wire: between lines nothing read is unanswered, and while a prompt is handled everything but this
prompt is answered and every update since belongs to it.

**`Subagent`.** The run is somewhere exactly while its tool call waits for it (`RunHeld`), and a loop
that will go round again has an attempt left (`WithinLimits`).

**`TuiDesk`.** An agent that stops waiting clears the entry of its operation, whosever it is; so the
invariant must say that two agents waiting on one operation are known as doubled (`SharedIsDoubled`).

**`TuiState`.** What a row means depends on the rows around it, and one event may close rows in place,
drop some, extend the last or add one, after which the oldest are cut off. So the reducer is described
once (`AppliedElse`): what an event leaves comes from the rows before it in their order (`Comes`), no
row starts to spin by it (`Calms`), what lasts is kept (`Keeps`), and at most one row is new, at the
end. Three invariants follow, each on the one before. `WaitInv`: every spinning row is the newest
waiting row of its session (`Newest`), which needs that an event of a session closes the one before it
opens another, and that a subagent runs only inside a tool call of the main session. `SummaryInv`:
while a turn runs with all its rows, the row of its request is where `start` says, and its rows tell a
change and an attempted one exactly when there was one; between turns the last request is followed by
a summary exactly when one was due. `TextInv`: what the rows of a session show, joined, is the pieces
it said from 1 to the last, less the one that a provider without streaming hands over at the end of the
turn, which `reply` then holds. `Finish` may add that reply a second time only if it is not already
among the rows of the turn, and that is where `Streamed` is needed.

**`ProviderStream`.** What the filter shows depends on where the text is cut; what is visible does not.
`ShownInv` joins the two: for every text y that may still come, what is visible of the text so far
followed by y is what was shown, followed by what is visible of the buffer and y. Here `Visible` is the
reference definition, by quantifiers over markers. It follows from three facts about one `Round`: it
cuts only where no block is open, what it lets out is visible, and what it keeps is either the start of an open
block or the beginning of a marker (`Held`). Begin and end marker differ only in their last symbol, so
no two markers overlap, which the cuts need. For the answer that is kept, `Blocks` are shown to be just
the pairs of markers that `Visible` leaves out, when none is open. `CallInv`: the entry k of a response
holds the parts of call k in order and at most its id; an entry is missing only for a call of which
nothing came. Ids from the text name their block and place (`Told`), so no two are equal, and native
ids are of another form.

**`LspClient`.** `IdsInv`: a request's future is registered under an id below `nextId`, no two
requests of a client share one, and what the server holds or has put under that id is about this
request. `ProcessInv`: a process that is up is the client's own unless two starts raced. `GreetInv`:
a server nobody greeted has its start still under way. `TellInv` and `OnceInv`: what counts as opened
was told to the server, and what was told counts as opened or a call is at it.

**`FileChanges`.** A thread may change files long after its call was answered, so `AllowedInv` keeps
with every thread that the key of its call was approved; it stays so because a key depends on the
action and the files that are named, never on what they hold (`KeyIsOfNames`). `SettledInv` says how
far the awaited attempt is: until it touches anything the files are those the call was made on and
the preview is of them (`Untouched`), and what it then does is that preview (`TouchAsPreviewed`). It
is stated for runs in which no attempt was given up; after that two threads may be at one file, and
TLC shows that the promise is then lost.

`SummaryCounts` is proved in three parts. `DiffInv`: every diff that an attempt holds, or that was
told, is `WellFormed`: it begins with a header, a hunk follows the two names of its file, and signed
lines follow a hunk. To know that, what an attempt has read of the files must be fit for its change
(`Fit`), since that change is made to other files than those it was checked on. `SectionsCount`, by
induction over the lines: the sections of a well-formed diff count every signed line once, whatever
it looks like (`CountedTo`), and if no line of a file looks like a header the current section is that
of the last header (`SortedTo`), which is why a section may end only when it has changes. `SnapshotIs`
and `TotalsTold`: merging the sections by path and adding up the files loses nothing (`SumIn`).

**`CommandLine`.** `Held` and `Left` follow a session's file from `said` to `prior` and back through
the two steps of a save, for sessions with one user (`Alone`); `ForeignStays` and `ForeignKnown` keep
files that are no sessions apart. `CopyInv`: what the skills directory lacks somebody has still to
copy; `Completes`: who left a file incomplete is still at it.

### How induction is done

The library's induction theorems take an operator as a parameter, which the provers here cannot
instantiate. `SetInduction` and `SeqInduction` (in `ListTheorems`) say the same of *sets*: a set of
naturals, or of sequences, that contains the first and is closed under the next is the whole set.
They follow from `WFMin`, which needs no operator. With them `FlattenSeq`, and so every filter of
`SessionHistory`, is described for sequences of any length. A recursive function needs one step more:
that its equation has a solution at all, which is shown by extending one for 0..n to n + 1 (`Feed`,
`Blocks`, `Sections`, `Total`); then its values follow from the equation.

### What is only model-checked

- `TurnEnds`, `TaskEnds`, `QuestionsAnswered`, `EofStops`: liveness under fairness is outside the prover.

## 7. Not modelled

- Effects of commands: a `bash` command may write without preflight; `performed` records commands and
  writes under their approval keys only. Subagent writes are not in `AgentTurn` either (their calls go
  through an executor of their own).
- Exceptions thrown by event callbacks, and a client that closes stdout.
- `consume_reminder_message` is an operation of `TodoManager` but no node calls it at this commit; the
  undo of a compression is reachable from tests only and is left out.
- At most 24 merged items are kept by a merge of summaries; the instance stays below that.
- Which errors are worth a retry, and how long pauses, timeouts and heartbeats are: in the models a
  timeout may come at any time it can come at all.
- What is inside a JSON object, a result of a language server, a skill file or a setting.
- Usage counters, token arithmetic, texts of prompts, summaries and events. A token count is above or
  below a threshold by free choice, so which histories are due for a merge is not stated.
- The replay of a resumed session and the plan snapshot: views computed from state that is modelled.
- Widgets, key bindings and renderers (a third of the source by lines), vendor libraries, git, the
  network, reading and search tools, logging, examples and evaluations: input, output and layout.

## 8. Plan

The model covers what keeps state, and every invariant and action property that a run checks is
proved. What is left is what the last two sections name: liveness, which stays with TLC, and the parts
of the program that are input, output and layout.
