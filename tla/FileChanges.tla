---------------------------- MODULE FileChanges ----------------------------
(***************************************************************************)
(* How a run of the agent changes files: write_file and apply_patch, from  *)
(* the request that the user approves, with its preview, to the attempt    *)
(* that touches the file in a thread, and what the model and the user are  *)
(* told of it.  A tool that takes too long is started again while the      *)
(* thread of the first attempt goes on (asyncio.wait_for cannot stop it),  *)
(* and the user may edit the same files meanwhile.                         *)
(*                                                                         *)
(* A file is a sequence of lines.  With the sign of a diff before it, a    *)
(* line "-- x" or "++ x" looks like the header of a file, and a line "--x" *)
(* or "++x" does to those who do not look for the space.  The others look  *)
(* like what they are.                                                     *)
(*                                                                         *)
(* A patch names a file with a prefix, a/ or b/, or without one; git apply *)
(* takes the first component of a name away, whatever it is.               *)
(* The workspace state has been reviewed (module AgentTurn).               *)
(***************************************************************************)
EXTENDS Naturals, SequencesExt, FiniteSetsExt

CONSTANTS
    Paths,               \* files of the workspace
    Absent,              \* no file
    Below,               \* path -> the file git takes it for, without a prefix
    Lines,               \* ordinary lines
    Calls,               \* calls that a model makes
    Starts,              \* files at the start
    Edits,               \* contents that a user's editor saves
    MaxReplacementLines, \* MAX_REPLACEMENT_LINES
    MaxDiffLines,        \* MAX_DIFF_CHARS and MAX_TOOL_RESULT_PREVIEW_CHARS, in lines
    MaxRetries,          \* max_retries of a tool
    MaxCalls, MaxEdits   \* bounds: calls of a run, edits by the user

Dash == "dash"
Plus == "plus"
Decrement == "decrement"
Increment == "increment"
Contents == Seq(Lines \cup {Dash, Plus, Decrement, Increment})

ASSUME FilesAssumption ==
    /\ \A c \in Calls :
          /\ c.tool \in {"write_file", "edit_file", "replacement", "diff"}
          /\ c.tool \in {"write_file", "replacement"} => c.path \in Paths /\ c.new \in Contents
          /\ c.tool = "replacement" => c.old \in Contents
          /\ c.tool = "diff" =>
                c.sections \in Seq([from : Paths, to : Paths, bare : BOOLEAN,
                                   effect : {"edit", "create", "delete"},
                                   old : Contents, new : Contents])
    /\ {Dash, Plus, Decrement, Increment} \cap (Lines \cup Paths) = {}
    /\ Below \in [Paths -> Paths]
    /\ Edits \subseteq Contents /\ Starts \subseteq [Paths -> Contents \cup {Absent}]
    /\ MaxReplacementLines \in Nat /\ MaxDiffLines \in Nat /\ MaxRetries \in Nat
    /\ MaxCalls \in Nat /\ MaxEdits \in Nat

VARIABLES
    files,    \* path -> content
    approved, \* WorkflowState.approved_write_keys
    stage,    \* "idle", "asked", "running", "retrying", or "over": denied
    call,     \* the call at hand, or the last one
    preview,  \* ApprovalRequest.diff_preview: path -> content, or none
    threads,  \* attempts whose thread still runs; the last one is awaited
    tries,    \* attempts of the call
    told,     \* what the call returned: its result, and the lines of its diff
    before,   \* history: files when the call was made
    effects,  \* history: times the call changed files
    edits,    \* edits by the user
    late,     \* history: an attempt was given up while its thread went on
    calls     \* calls made

vars == <<files, approved, stage, call, preview, threads, tries, told, before, effects, edits, late, calls>>

\* str.replace(old, new, 1)
Places(s, old) == {i \in 1..(Len(s) - Len(old) + 1) : SubSeq(s, i, i + Len(old) - 1) = old}
ReplacedAt(s, i, old, new) == SubSeq(s, 1, i - 1) \o new \o SubSeq(s, i + Len(old), Len(s))
Replaced(s, old, new) == ReplacedAt(s, Min(Places(s, old)), old, new)

\* The files that git apply takes the names of a section for.
OldFile(s) == IF s.bare THEN Below[s.from] ELSE s.from
NewFile(s) == IF s.bare THEN Below[s.to] ELSE s.to

(* git apply: a hunk applies where its old lines are; a file that a patch  *)
(* creates, or renames another to, must not exist.                         *)
Applies(fs, sections) ==
    \A n \in DOMAIN sections :
        LET s == sections[n] IN
        /\ (s.effect = "create" \/ s.from # s.to) => fs[NewFile(s)] = Absent
        /\ s.effect # "create" => fs[OldFile(s)] # Absent /\ Places(fs[OldFile(s)], s.old) # {}
Patched(fs, sections) ==
    LET At(p) == {n \in DOMAIN sections : NewFile(sections[n]) = p}
        Content(s) == IF s.effect = "create" THEN s.new ELSE Replaced(fs[OldFile(s)], s.old, s.new)
    IN [p \in Paths |->
          IF At(p) # {} THEN Content(sections[Min(At(p))])
          ELSE IF \E n \in DOMAIN sections : OldFile(sections[n]) = p THEN Absent ELSE fs[p]]

\* git apply, killed when only some of the files were written.
Torn(fs, sections, written) == [p \in Paths |-> IF p \in written THEN Patched(fs, sections)[p] ELSE fs[p]]

Deletes(c) == c.tool = "diff" /\ \E n \in DOMAIN c.sections : c.sections[n].effect = "delete"
-----------------------------------------------------------------------------
\* mutant: the first file of a patch stands for the others
NamedFirst(c) == IF c.tool # "diff" THEN {c.path} ELSE {c.sections[1].to}

(* ApprovalRequest.path: the argument, or _paths_from_unified_diff, which  *)
(* takes the new side of a header, and an added line that looks like one.  *)
Named(c) ==
    IF c.tool # "diff" THEN {c.path}
    ELSE {c.sections[n].to : n \in DOMAIN c.sections} \cup
         UNION {ToSet(c.sections[n].new) \cap {Plus} : n \in DOMAIN c.sections}

\* What the user is shown.  A unified diff is its own preview.
PreviewWrite(c) == IF files[c.path] = Absent THEN <<[files EXCEPT ![c.path] = c.new]>> ELSE <<>>
PreviewReplacement(c) ==
    IF files[c.path] # Absent /\ Places(files[c.path], c.old) # {}
    THEN <<[files EXCEPT ![c.path] = Replaced(@, c.old, c.new)]>> ELSE <<>>
PreviewDiff(c) == IF Applies(files, c.sections) /\ ~Deletes(c) THEN <<Patched(files, c.sections)>> ELSE <<>>

\* approval_request_for_tool
Request(c) ==
    [action |-> IF c.tool = "write_file" THEN "create_file" ELSE "edit_file",
     path |-> Named(c),
     preview |-> CASE c.tool = "write_file" -> PreviewWrite(c)
                   [] c.tool = "replacement" -> PreviewReplacement(c)
                   [] c.tool = "diff" -> PreviewDiff(c)]

\* approval_cache_key
Key(request) == <<request.action, request.path>>

\* WorkflowGuard.should_require_apply_patch
Redirected(c) == c.tool = "edit_file" \/ (c.tool = "write_file" /\ files[c.path] # Absent)

Thread(c) == [call |-> c, at |-> "start", content |-> <<>>, result |-> "none", diff |-> <<>>]
NoCall == [tool |-> "none"]
NoAnswer == [result |-> "none", diff |-> <<>>]

Init ==
    /\ files \in Starts /\ approved = {}
    /\ stage = "idle" /\ call = NoCall /\ preview = <<>>
    /\ threads = <<>> /\ tries = 0 /\ told = NoAnswer
    /\ before = files /\ effects = 0 /\ edits = 0 /\ late = FALSE /\ calls = 0

Begin(c) == stage' = "running" /\ threads' = Append(threads, Thread(c)) /\ tries' = 1

\* ToolExecutor.execute up to the approval, and ApprovalService.approve.
Call(c) ==
    /\ stage = "idle" /\ calls < MaxCalls
    /\ calls' = calls + 1 /\ call' = c /\ before' = files /\ effects' = 0
    /\ CASE Redirected(c) ->
              told' = [NoAnswer EXCEPT !.result = "blocked"] /\ UNCHANGED <<stage, preview, threads, tries>>
         [] ~Redirected(c) /\ Key(Request(c)) \in approved -> Begin(c) /\ told' = NoAnswer /\ preview' = <<>>
         [] OTHER -> stage' = "asked" /\ preview' = Request(c).preview /\ told' = NoAnswer /\ UNCHANGED <<threads, tries>>
    /\ UNCHANGED <<files, approved, edits, late>>

Approve ==
    /\ stage = "asked" /\ Begin(call) /\ approved' = approved \cup {Key(Request(call))}
    /\ UNCHANGED <<files, call, preview, told, before, effects, edits, late, calls>>

\* ApprovalDenied ends the run.
Deny ==
    /\ stage = "asked" /\ stage' = "over"
    /\ UNCHANGED <<files, approved, call, preview, threads, tries, told, before, effects, edits, late, calls>>
-----------------------------------------------------------------------------
(* The lines of a diff, each with what it looks like: a removed line "-- x" *)
(* is written "--- x", and "--x" is written "---x"; the added likewise.     *)
RemovedLooks(line) == CASE line = Dash -> "---" [] line = Decrement -> "---x" [] OTHER -> "-"
AddedLooks(line) == CASE line = Plus -> "+++" [] line = Increment -> "+++x" [] OTHER -> "+"
Common(s, t) == Max({0} \cup {n \in 1..Min({Len(s), Len(t)}) : SubSeq(s, 1, n) = SubSeq(t, 1, n)})
Body(s, t) ==
    LET n == Common(s, t) IN
    [i \in 1..(Len(s) - n) |-> [looks |-> RemovedLooks(s[n + i]), path |-> s[n + i], sign |-> "-"]] \o
    [i \in 1..(Len(t) - n) |-> [looks |-> AddedLooks(t[n + i]), path |-> t[n + i], sign |-> "+"]]
Header(looks, p) == [looks |-> looks, path |-> p, sign |-> ""]

Text(content) == IF content = Absent THEN <<>> ELSE content

\* _diff_sections: files that differ
Section(s, t, p) ==
    IF s = t THEN <<>>
    ELSE <<Header("---", p), Header("+++", p), Header("@@", p)>> \o Body(s, t)
OperationDiff(old, new, ps) ==
    FlattenSeq([n \in DOMAIN ps |-> Section(Text(old[ps[n]]), Text(new[ps[n]]), ps[n])])

\* format_diff_result of a file that git does not track yet
CreationDiff(new, p) ==
    LET all == <<Header("diff", p), Header("---", Absent), Header("+++", p), Header("@@", p)>> \o Body(<<>>, new)
    IN SubSeq(all, 1, Min({Len(all), MaxDiffLines}))

\* _changed_paths, as far as they are files
PatchPaths(c) ==
    SetToSeq(UNION {{c.sections[n].from, c.sections[n].to} : n \in DOMAIN c.sections})

Done(i, result, diff) == threads' = [threads EXCEPT ![i].at = "done", ![i].result = result, ![i].diff = diff]
Effect(i) == effects' = IF threads[i].call = call THEN effects + 1 ELSE effects

\* The first step of a thread: why a tool refuses, if it does.
RefusesWrite(c) == IF files[c.path] # Absent THEN "blocked" ELSE ""
RefusesReplacement(c) ==
    IF \/ files[c.path] = Absent \/ Places(files[c.path], c.old) = {}
       \/ Len(c.old) > MaxReplacementLines \/ Len(c.new) > MaxReplacementLines
    THEN "error" ELSE ""
RefusesDiff(c) ==
    IF Deletes(c) THEN "approval_required"
    ELSE IF ~Applies(files, c.sections) THEN "error" ELSE ""

\* It keeps what it has read of the files.
Look(i) ==
    LET t == threads[i]
        refusal == CASE t.call.tool = "write_file" -> RefusesWrite(t.call)
                     [] t.call.tool = "replacement" -> RefusesReplacement(t.call)
                     [] t.call.tool = "diff" -> RefusesDiff(t.call)
    IN
    /\ t.at = "start"
    /\ IF refusal # "" THEN Done(i, refusal, <<>>)
       ELSE threads' = [threads EXCEPT ![i].at = "looked", ![i].content = files]
    /\ UNCHANGED <<files, approved, stage, call, preview, tries, told, before, effects, edits, late, calls>>

\* mutant: every occurrence of a line is replaced
WrittenAll(c, old) ==
    [old EXCEPT ![c.path] = FlattenSeq([i \in DOMAIN @ |-> IF <<@[i]>> = c.old THEN c.new ELSE <<@[i]>>])]

\* _apply_replacement: what was read, with the new text in it
Written(c, old) == [old EXCEPT ![c.path] = Replaced(@, c.old, c.new)]

(* The second step: the change, and then the diff that is read off the     *)
(* files.  Whatever fails on the way, the tool returns an error.           *)
Fail(i) == Done(i, "error", <<>>)
Report(i, diff) == Done(i, "done", diff) \/ Fail(i)

\* Where git has no diff of the file, the result says so.
TouchWrite(i, c) ==
    /\ files' = [files EXCEPT ![c.path] = c.new] /\ Effect(i)
    /\ \E diff \in {CreationDiff(c.new, c.path), <<>>} : Report(i, diff)
TouchReplacement(i, c) ==
    /\ files' = [files EXCEPT ![c.path] = Written(c, threads[i].content)[c.path]] /\ Effect(i)
    /\ Report(i, OperationDiff(threads[i].content, files', <<c.path>>))

\* git has as much time as the tool, from a later start: when its own
\* timeout kills it, nobody waits for the attempt any more.
GivenUp(i) == stage # "running" \/ i # Len(threads)
TouchDiff(i, c) ==
    /\ Applies(files, c.sections) /\ Effect(i)
    /\ \/ /\ files' = Patched(files, c.sections)
          /\ Report(i, OperationDiff(threads[i].content, files', PatchPaths(c)))
       \/ /\ GivenUp(i)
          /\ \E written \in SUBSET Paths : files' = Torn(files, c.sections, written)
          /\ Fail(i)

Touch(i) ==
    LET c == threads[i].call IN
    /\ threads[i].at = "looked"
    /\ \/ c.tool = "write_file" /\ TouchWrite(i, c)
       \/ c.tool = "replacement" /\ TouchReplacement(i, c)
       \/ c.tool = "diff" /\ TouchDiff(i, c)
       \/ Fail(i) /\ UNCHANGED <<files, effects>>
    /\ UNCHANGED <<approved, stage, call, preview, tries, told, before, edits, late, calls>>

\* asyncio.wait_for gives up; the thread goes on.
TimeOut ==
    /\ stage = "running" /\ late' = TRUE
    /\ IF tries > MaxRetries
       THEN stage' = "idle" /\ told' = [NoAnswer EXCEPT !.result = "timeout"]
       ELSE stage' = "retrying" /\ UNCHANGED told
    /\ UNCHANGED <<files, approved, call, preview, threads, tries, before, effects, edits, calls>>

Retry ==
    /\ stage = "retrying" /\ stage' = "running"
    /\ threads' = Append(threads, Thread(call)) /\ tries' = tries + 1
    /\ UNCHANGED <<files, approved, call, preview, told, before, effects, edits, late, calls>>

\* The awaited thread has ended.
Return ==
    LET t == threads[Len(threads)] IN
    /\ stage = "running" /\ t.at = "done"
    /\ stage' = "idle" /\ told' = [result |-> t.result, diff |-> t.diff]
    /\ threads' = Front(threads)
    /\ UNCHANGED <<files, approved, call, preview, tries, before, effects, edits, late, calls>>

\* The user saves a file.
Edit(p, content) ==
    /\ edits < MaxEdits /\ edits' = edits + 1
    /\ files[p] # content /\ files' = [files EXCEPT ![p] = content]
    /\ UNCHANGED <<approved, stage, call, preview, threads, tries, told, before, effects, late, calls>>

Next ==
    \/ \E c \in Calls : Call(c)
    \/ Approve \/ Deny
    \/ \E i \in DOMAIN threads : Look(i) \/ Touch(i)
    \/ TimeOut \/ Retry \/ Return
    \/ \E p \in Paths, content \in Edits : Edit(p, content)

Spec == Init /\ [][Next]_vars
-----------------------------------------------------------------------------
(* build_changed_files_snapshot: the sections of a diff, the last of them  *)
(* the current one.                                                        *)
NewSection(p) == [path |-> p, added |-> 0, removed |-> 0, hunk |-> FALSE]
HasChanges(s) == s.added > 0 \/ s.removed > 0 \/ s.hunk

\* mutant: only a "diff --git" line begins the section of another file
EndsNoSection(sections) == sections = <<>>

EndsSection(sections) == sections = <<>> \/ HasChanges(Last(sections))

\* A line within a section.
Counted(s, line) ==
    CASE line.looks = "+++" -> [s EXCEPT !.path = line.path]
      [] line.looks = "@@" -> [s EXCEPT !.hunk = TRUE]
      [] line.looks \in {"+", "+++x"} -> [s EXCEPT !.added = @ + 1]
      [] line.looks \in {"-", "---x"} -> [s EXCEPT !.removed = @ + 1]
      [] OTHER -> s

Parse(sections, line) ==
    IF line.looks = "diff" \/ (line.looks = "---" /\ EndsSection(sections))
    THEN Append(sections, NewSection(line.path))
    ELSE IF sections = <<>> THEN <<>>
    ELSE [sections EXCEPT ![Len(sections)] = Counted(@, line)]

Sections(diff) ==
    LET parsed[n \in 0..Len(diff)] == IF n = 0 THEN <<>> ELSE Parse(parsed[n - 1], diff[n])
    IN parsed[Len(diff)]

\* The first n numbers of f together.
Total(f, n) ==
    LET sum[k \in 0..n] == IF k = 0 THEN 0 ELSE sum[k - 1] + f[k]
    IN sum[n]

Amount(s, sign) == IF sign = "+" THEN s.added ELSE s.removed

\* _merge_changed_file_sections
Merged(sections, p, sign) ==
    Total([n \in DOMAIN sections |-> IF sections[n].path = p THEN Amount(sections[n], sign) ELSE 0],
          Len(sections))
Snapshot(diff) ==
    LET sections == Sections(diff) IN
    [p \in {s.path : s \in {s \in ToSet(sections) : s.added + s.removed > 0}} |->
        [added |-> Merged(sections, p, "+"), removed |-> Merged(sections, p, "-")]]

\* total_added and total_removed
SnapshotTotal(snapshot, sign) ==
    LET ps == SetToSeq(DOMAIN snapshot)
    IN Total([n \in DOMAIN ps |-> Amount(snapshot[ps[n]], sign)], Len(ps))

\* diff_preview_from_output: what the user is shown of a diff
Displayed(diff) == SubSeq(diff, 1, Min({Len(diff), MaxDiffLines}))

\* _changed_files_from_diff
DiffFiles(diff) == {diff[i].path : i \in {j \in DOMAIN diff : diff[j].looks \in {"diff", "+++"}}}

\* _compact_diff_output: what the model gets of a diff
ModelSummary(diff) ==
    LET Count(looks) == Cardinality({i \in DOMAIN diff : diff[i].looks = looks}) IN
    [added |-> Count("+"), removed |-> Count("-"),
     files |-> DiffFiles(diff)]
-----------------------------------------------------------------------------
(* The files a patch changes under another name than those it is approved  *)
(* for: a rename names its new side only, and a name without a prefix is   *)
(* not the file that git takes it for.                                     *)
Unnamed(c) ==
    IF c.tool # "diff" THEN {}
    ELSE {s.from : s \in {s \in ToSet(c.sections) : s.from # s.to}} \cup
         UNION {{OldFile(s), NewFile(s)} : s \in {s \in ToSet(c.sections) : s.bare}}

NamedByApproval(p) == \E k \in approved : p \in k[2]

(* ApprovalService and the tools: a file that a tool changes is one that   *)
(* the user approved, now or for an earlier call on the same files, or one *)
(* that an approved patch renames, or names without a prefix.  No late     *)
(* attempt, retry, cut patch or edit of the user makes it another file.    *)
ChangesApproved ==
    [][edits' = edits => \A p \in Paths : files'[p] # files[p] =>
         \/ NamedByApproval(p)
         \/ \E i \in DOMAIN threads : threads[i].at = "looked" /\ p \in Unnamed(threads[i].call)
                                      /\ Key(Request(threads[i].call)) \in approved]_vars

(* What the model and the user are told of a call, unless an attempt of    *)
(* the run was given up while its thread went on: a call reported as done  *)
(* was done exactly once, one that was turned back not at all, and one     *)
(* that failed at most once; and unless the user edited the files, what it *)
(* did is what the user saw before approving it.                           *)
AsPreviewed ==
    [][stage = "running" /\ stage' = "idle" /\ ~late' =>
         /\ effects \in CASE told'.result = "done" -> {1}
                          [] told'.result = "error" -> {0, 1}
                          [] OTHER -> {0}
         /\ edits = 0 /\ effects = 0 => files = before
         /\ edits = 0 /\ effects = 1 /\ preview # <<>> => files = preview[1]]_vars

\* What a diff tells of p: the lines below a header that names it.
Headers(diff) == {i \in DOMAIN diff : diff[i].looks = "+++" /\ diff[i].sign = ""}
Under(diff, i, p) ==
    \E s \in Headers(diff) :
        s < i /\ diff[s].path = p /\ \A r \in Headers(diff) : r < i => r <= s
Count(diff, p, sign) == Cardinality({i \in DOMAIN diff : diff[i].sign = sign /\ Under(diff, i, p)})
Real(diff, p) == [added |-> Count(diff, p, "+"), removed |-> Count(diff, p, "-")]
Changed(diff) == {p \in Paths : Real(diff, p) # [added |-> 0, removed |-> 0]}

(* build_changed_files_snapshot and _compact_diff_output on what a tool    *)
(* returns, unless its diff is too long to be shown: then the user is told *)
(* of the part that was.  The user's totals are the model's and those      *)
(* lines that only the model's summary takes for headers; and unless a     *)
(* line looks like a header to both, the user is told the files that       *)
(* changed, with the lines added and removed, and the model those files.   *)
SummaryCounts ==
    LET diff == told.diff
        snapshot == Snapshot(Displayed(diff))
        model == ModelSummary(diff)
        Missed(looks) == Cardinality({i \in DOMAIN diff : diff[i].looks = looks})
    IN Len(diff) <= MaxDiffLines =>
       /\ SnapshotTotal(snapshot, "+") = model.added + Missed("+++x")
       /\ SnapshotTotal(snapshot, "-") = model.removed + Missed("---x")
       /\ (\A i \in DOMAIN diff : diff[i].looks \in {"---", "+++"} => diff[i].sign = "") =>
            /\ snapshot = [p \in Changed(diff) |-> Real(diff, p)]
            /\ Changed(diff) \subseteq model.files
=============================================================================
