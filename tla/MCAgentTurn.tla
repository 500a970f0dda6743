---------------------------- MODULE MCAgentTurn ----------------------------
(* Small alphabets of tool calls for AgentTurn: one code file, one document, *)
(* todo lists cut at one item.                                               *)
EXTENDS AgentTurn

Pending   == <<[id |-> "a", status |-> "in_progress"]>>
Completed == <<[id |-> "a", status |-> "completed"]>>

Plain(tool) ==
    [tool |-> tool, paths |-> {}, plan |-> <<>>, notes |-> {}, mode |-> "plain"]
Write(tool, paths) == [Plain(tool) EXCEPT !.paths = paths]
Plan(list) == [Plain("todo") EXCEPT !.plan = list]
Mode(tool, mode) == [Plain(tool) EXCEPT !.mode = mode]

\* Cut at a limit of one item, this list counts as completed.
Long == Completed \o Pending

\* An item without a text, which the handler cannot display.
Broken == <<[id |-> NoId, status |-> "pending"]>>

MCLists == {<<>>, Pending, Completed, Long, Broken}

\* Writes, checks and the reminder.
WriteCalls ==
    {Plan(Completed), Plain("workspace_state"), Plain("git_diff"), Plain("verify"),
     Write("apply_patch", {"code"}), Write("write_file", {"doc"}), Write("apply_patch", {})}

\* Task State, commands, delegation and the remaining executor paths.
TaskCalls ==
    {Plan(<<>>), Plan(Pending), Plan(Completed), Plan(Long), Plan(Broken),
     Mode("bash", "risky"), Mode("subagent", "worker"), Mode("subagent", "plain"),
     Write("edit_file", {"code"})}

=============================================================================
