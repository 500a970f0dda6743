--------------------------- MODULE SessionHistory ---------------------------
(***************************************************************************)
(* The message history of a session (agent/session.py): what a turn adds   *)
(* to it, how it is compressed before the turn and reduced to a summary    *)
(* after it, and what of it is on disk.  The agent graph itself is the     *)
(* module AgentTurn; here it returns one of the possible Transcripts.      *)
(*                                                                         *)
(* Session.send waits for the provider's token count, for the graph and    *)
(* for the event callback.  The user may compress old tool outputs by hand *)
(* during any of these waits, and that operation waits for a token count   *)
(* of its own between reading the history and replacing it.                *)
(*                                                                         *)
(* Token counts are not modelled: whether one is above the threshold, and  *)
(* whether an estimate is below an exact count, is a free choice.          *)
(***************************************************************************)
EXTENDS Naturals, SequencesExt, FiniteSets

CONSTANTS
    Rounds,      \* what one model response with tool calls may look like
    MaxRounds,   \* bound: such responses in one turn
    KeepRecent,  \* newest messages that no compression touches
    Facts,       \* entries that the summary of a task may have in a section
    TaskFacts,   \* the lists of them that a task may end with
    Preview,     \* entry -> the entry as a merged summary lists it, cut if it is long
    MaxMerged,   \* MAX_MERGED_ITEMS_PER_SECTION
    MaxTurns,    \* bound: user requests
    MaxOpenings, \* bound: openings of the screen for compression by hand
    MaxRestarts  \* bound: restarts of the process

ToolCalls == {"todo", "work"}
Sizes == {"big", "small", "cut"}

ASSUME HistoryAssumption ==
    /\ \A r \in Rounds : r.calls \in Seq(ToolCalls) /\ r.calls # <<>>
    /\ \A r \in Rounds : r.text \in BOOLEAN /\ r.size \in Sizes \ {"cut"}
    /\ \A r \in Rounds : r.notice \in BOOLEAN
    /\ TaskFacts \subseteq Seq(Facts)
    /\ Preview \in [Facts -> Facts] /\ \A f \in Facts : Preview[Preview[f]] = Preview[f]
    /\ {MaxRounds, KeepRecent, MaxMerged, MaxTurns, MaxOpenings, MaxRestarts} \subseteq Nat

VARIABLES
    messages, \* Session.messages
    at,       \* which wait of Session.send the turn is in, or "idle"
    turn,     \* number of the last user request
    input,    \* the messages handed to the graph, while it runs; its length is
              \* task_start_index
    manual,   \* the list that a compression by hand is about to install, or <<>>
    opened,   \* openings of the screen so far
    offers,   \* the choices that the open MessageTokenManagerScreen lists
    persist,  \* persist_messages, with a message store
    disk,     \* messages in the session file
    restarts, \* restarts of the process so far
    \* History, read by properties only:
    unsaved,  \* a turn was cut off since the last save
    replaced, \* messages that the screen lists were changed or removed since
    stale,    \* the history has changed since manual was computed from it
    overtaken,\* in this turn, a stale list replaced the history
    misplaced \* a stale list, longer than the turn's input, did so before the turn was reduced

turnVars == <<at, turn, input>>
manualVars == <<manual, opened>>
diskVars == <<persist, disk, unsaved>>
screen == <<offers, replaced>>
overlap == <<stale, overtaken, misplaced>>
vars == <<messages, turnVars, manualVars, diskVars, restarts, screen, overlap>>
-----------------------------------------------------------------------------
(* Messages.  A summary carries the requests of the turns it stands for    *)
(* and the facts about them, one of its sections for all; a notice is a    *)
(* reminder marked context_ephemeral.                                      *)
User(t) == [kind |-> "user", turn |-> t]
Response(calls, text) == [kind |-> "ai", calls |-> calls, text |-> text]
Result(call, size) == [kind |-> "tool", call |-> call, size |-> size]
Notice == [kind |-> "notice"]
Summary(requests, facts, merged) ==
    [kind |-> "summary", requests |-> requests, facts |-> facts, merged |-> merged]

Answer == Response(<<>>, TRUE)
IsSummary(m) == m.kind = "summary"
IsHuman(m) == m.kind \in {"user", "notice", "summary"}

(* The elements that pass the test. *)
Only(s, Test(_)) == FlattenSeq([i \in DOMAIN s |-> IF Test(s[i]) THEN <<s[i]>> ELSE <<>>])
WithoutTodoCalls(calls) == Only(calls, LAMBDA c : c # "todo")

RoundMessages(r) ==
    <<Response(r.calls, r.text)>>
        \o [i \in DOMAIN r.calls |->
              Result(r.calls[i], IF r.calls[i] = "todo" THEN "small" ELSE r.size)]
        \o (IF r.notice THEN <<Notice>> ELSE <<>>)

Transcripts ==
    {Append(FlattenSeq([i \in DOMAIN rs |-> RoundMessages(rs[i])]), Answer) :
        rs \in UNION {[1..n -> Rounds] : n \in 0..MaxRounds}}
-----------------------------------------------------------------------------
(* Compression of old tool outputs.                                        *)
Cutoff(s) == IF Len(s) > KeepRecent THEN Len(s) - KeepRecent ELSE 0

TrimSizes(s, chosen) ==
    [i \in DOMAIN s |-> IF i \in chosen THEN [s[i] EXCEPT !.size = "cut"] ELSE s[i]]

OldResults(s, sizes) ==
    {i \in 1..Cutoff(s) : s[i].kind = "tool" /\ s[i].size \in sizes}

Trimmed(s) == TrimSizes(s, OldResults(s, {"big"}))

(* Merging of old summaries: everything up to the last summary that is     *)
(* older than both the recent messages and the latest request.             *)
LatestHuman(s) == Max({0} \cup {i \in DOMAIN s : IsHuman(s[i])})

\* mutant: only the latest request limits the merge
OnlyRequestLimit(s) == IF LatestHuman(s) = 0 THEN Cutoff(s) ELSE LatestHuman(s) - 1

MergeLimit(s) ==
    IF LatestHuman(s) = 0 THEN Cutoff(s) ELSE Min({Cutoff(s), LatestHuman(s) - 1})

MergeEnd(s) ==
    LET found == {i \in 1..MergeLimit(s) : IsSummary(s[i])}
    IN  IF \/ found = {}
           \/ Cardinality(found) < 2 /\ Max(found) >= MergeLimit(s)
          THEN 0 ELSE Max(found)

(* _append_unique: the first of each, as long as there is room.            *)
Firsts(s) == {i \in DOMAIN s : \A j \in 1..(i - 1) : s[j] # s[i]}
Unique(s) == FlattenSeq([i \in DOMAIN s |-> IF i \in Firsts(s) THEN <<s[i]>> ELSE <<>>])
Listed(s) == SubSeq(Unique(s), 1, Min({Len(Unique(s)), MaxMerged}))

(* A merged summary lists the requests it stands for in a section that the *)
(* next merge does not read back; the sentence it has for a goal it does.  *)
Entries == {"request", "goal", "notice", "merged"} \X Nat
ReadBack(m) == IF m.merged THEN <<<<"merged", 0>>>> ELSE m.requests

RequestsOf(m) ==
    CASE m.kind = "summary" -> ReadBack(m)
      [] m.kind = "user" -> <<<<"request", m.turn>>>>
      [] m.kind = "notice" -> <<<<"notice", 0>>>>
      [] OTHER -> <<>>

FactsOf(m) ==
    IF IsSummary(m) THEN [k \in DOMAIN m.facts |-> Preview[m.facts[k]]] ELSE <<>>

\* mutant: a merged summary is not read back at all
ForgetsMerged(s) ==
    Summary(<<>>, Listed(FlattenSeq([i \in DOMAIN s |->
        IF IsSummary(s[i]) /\ s[i].merged THEN <<>> ELSE FactsOf(s[i])])), TRUE)

MergedSummary(s) ==
    Summary(Listed(FlattenSeq([i \in DOMAIN s |-> RequestsOf(s[i])])),
            Listed(FlattenSeq([i \in DOMAIN s |-> FactsOf(s[i])])), TRUE)

Merged(s) ==
    <<MergedSummary(SubSeq(s, 1, MergeEnd(s)))>> \o SubSeq(s, MergeEnd(s) + 1, Len(s))
-----------------------------------------------------------------------------
(* What remains of a completed task.                                       *)
IsTodoArtifact(m) ==
    \/ m.kind = "notice"
    \/ m.kind = "tool" /\ m.call = "todo"
    \/ m.kind = "ai" /\ ~m.text /\ m.calls # <<>> /\ Range(m.calls) = {"todo"}

WithoutTodo(m) ==
    IF m.kind = "ai" THEN [m EXCEPT !.calls = WithoutTodoCalls(@)] ELSE m

After(s, start) == SubSeq(s, start + 1, Len(s))

Prune(s, start) ==
    LET kept == Only(After(s, start), LAMBDA m : ~IsTodoArtifact(m))
    IN  SubSeq(s, 1, start) \o [i \in DOMAIN kept |-> WithoutTodo(kept[i])]

Collapse(s, start) ==
    LET summaries == Only(After(s, start), IsSummary)
    IN  IF summaries = <<>> THEN s ELSE SubSeq(s, 1, start) \o summaries

\* mutant: the turn is taken to begin with the request
CompactedFromRequest(s, start) ==
    IF start >= Len(s) THEN s ELSE Collapse(Prune(s, start - 1), start - 1)

Compacted(s, start) ==
    IF start >= Len(s) THEN s ELSE Collapse(Prune(s, start), start)
-----------------------------------------------------------------------------
Init ==
    /\ messages = <<>> /\ at = "idle" /\ turn = 0 /\ input = <<>>
    /\ manual = <<>> /\ opened = 0 /\ offers = {} /\ replaced = FALSE
    /\ stale = FALSE /\ overtaken = FALSE /\ misplaced = FALSE
    /\ persist = TRUE /\ disk = <<>> /\ unsaved = FALSE
    /\ restarts = 0

(* A failed save turns persistence off for the rest of the process; then   *)
(* saving does nothing.                                                    *)
Save(s) ==
    \/ persist /\ disk' = s /\ unsaved' = FALSE /\ UNCHANGED persist
    \/ persist' = FALSE /\ UNCHANGED <<disk, unsaved>>

(* The screen lists what it has read, and a compression by hand installs   *)
(* what it has computed; neither follows the history.                      *)
Watch ==
    /\ UNCHANGED offers
    /\ replaced' = (offers # {} /\ (replaced \/ ~IsPrefix(messages, messages')))
    /\ stale' = (manual # <<>> /\ (stale \/ messages' # messages))
    /\ overtaken' = (at # "idle" /\ overtaken)
    /\ UNCHANGED misplaced

(* Install and save; the turn, if there was one, is over. *)
Settle(s) == messages' = s /\ Save(s) /\ at' = "idle" /\ input' = <<>> /\ UNCHANGED turn

Send ==
    /\ at = "idle" /\ turn < MaxTurns
    /\ turn' = turn + 1
    /\ messages' = Append(messages, User(turn + 1))
    /\ at' = "counting"
    /\ UNCHANGED <<input, manualVars, diskVars, restarts>>
    /\ Watch

(* The first token count returned and old tool outputs are cut. *)
CompressContext ==
    /\ at = "counting"
    /\ Trimmed(messages) # messages
    /\ messages' = Trimmed(messages)
    /\ at' = "merging"
    /\ UNCHANGED <<turn, input, manualVars, diskVars, restarts>>
    /\ Watch

(* The count taken after it returned and is still above the threshold. *)
MergeSummaries ==
    /\ at = "merging"
    /\ MergeEnd(messages) > 0
    /\ messages' = Merged(messages)
    /\ at' = "merged"
    /\ UNCHANGED <<turn, input, manualVars, diskVars, restarts>>
    /\ Watch

(* No (further) reduction is due, and the graph begins. *)
StartGraph ==
    /\ at \in {"counting", "merging", "merged"}
    /\ at' = "running"
    /\ input' = messages
    /\ UNCHANGED <<messages, turn, manualVars, diskVars, restarts>>
    /\ Watch

(* The graph ended without a completed plan. *)
EndUnplanned ==
    /\ at = "running"
    /\ \E new \in Transcripts : Settle(input \o new)
    /\ UNCHANGED <<manualVars, restarts>>
    /\ Watch

(* The graph ended with the plan completed: a summary is appended, and its *)
(* event is sent before the rest of the turn is removed.                   *)
EndPlanned ==
    /\ at = "running"
    /\ \E new \in Transcripts, facts \in TaskFacts :
          messages' = Append(input \o new, Summary(<<<<"goal", turn>>>>, facts, FALSE))
    /\ at' = "compacting"
    /\ UNCHANGED <<turn, input, manualVars, diskVars, restarts>>
    /\ Watch

\* mutant: saved before it is compacted
SaveThenCompact ==
    /\ at = "compacting"
    /\ messages' = Compacted(messages, Len(input)) /\ Save(messages)
    /\ at' = "idle" /\ input' = <<>>
    /\ UNCHANGED <<turn, manualVars, restarts>>
    /\ Watch

Compact ==
    /\ at = "compacting"
    /\ Settle(Compacted(messages, Len(input)))
    /\ UNCHANGED <<manualVars, restarts>>
    /\ Watch

(* The user denied an approval, or the model calls failed: what the graph  *)
(* produced is lost, and a closing message takes its place.                *)
StopTurn ==
    /\ at = "running"
    /\ Settle(Append(messages, Answer))
    /\ UNCHANGED <<manualVars, restarts>>
    /\ Watch

(* Cancellation, or an exception that send does not handle. *)
CutOff ==
    /\ at # "idle"
    /\ at' = "idle" /\ unsaved' = TRUE /\ input' = <<>>
    /\ UNCHANGED <<messages, turn, manualVars, persist, disk, restarts>>
    /\ Watch

Clear ==
    /\ at = "idle" /\ Settle(<<>>)
    /\ UNCHANGED <<manualVars, restarts>>
    /\ Watch

(* MessageTokenManagerScreen: it offers to cut one old tool output, or all *)
(* those that are long.  The offer that is taken, by pressing its key a    *)
(* second time, is one of those the screen listed when it was opened.      *)
Offers(s) == {{i} : i \in OldResults(s, {"big", "small"})} \cup ({OldResults(s, {"big"})} \ {{}})

OpenScreen ==
    /\ offers = {} /\ opened < MaxOpenings
    /\ Offers(messages) # {} /\ offers' = Offers(messages)
    /\ opened' = opened + 1
    /\ UNCHANGED <<messages, turnVars, manual, diskVars, restarts, replaced, overlap>>

CloseScreen ==
    /\ offers # {} /\ offers' = {} /\ replaced' = FALSE
    /\ UNCHANGED <<messages, turnVars, manualVars, diskVars, restarts, overlap>>

\* mutant: a position stands for the last message but so many
FromTheEnd(chosen, s) == {Len(s) + 1 - i : i \in chosen} \cap OldResults(s, {"big", "small"})

\* compress_selected: what the chosen positions hold now, if it may be cut
Compressible(chosen, s) == chosen \cap OldResults(s, {"big", "small"})

StartManual ==
    /\ manual = <<>>
    /\ \E chosen \in offers :
          /\ Compressible(chosen, messages) # {}
          /\ manual' = TrimSizes(messages, Compressible(chosen, messages))
    /\ stale' = FALSE
    /\ UNCHANGED <<messages, turnVars, opened, diskVars, restarts, screen, overtaken, misplaced>>

(* Whatever the history is by now, what was computed from it before the    *)
(* wait replaces it.  The screen is listed again.                          *)
FinishManual ==
    /\ manual # <<>>
    /\ messages' = manual /\ Save(manual)
    /\ manual' = <<>> /\ stale' = FALSE
    /\ overtaken' = (overtaken \/ (stale /\ at # "idle"))
    /\ misplaced' = (misplaced \/ (stale /\ at = "compacting" /\ Len(manual) > Len(input)))
    /\ offers' = (IF offers = {} THEN {} ELSE Offers(manual)) /\ replaced' = FALSE
    /\ UNCHANGED <<turnVars, opened, restarts>>

(* The process ends, at any point, and the session is resumed from its     *)
(* file.  A file that cannot be read back turns persistence off.           *)
Restart ==
    /\ restarts < MaxRestarts
    /\ restarts' = restarts + 1
    /\ \/ messages' = disk /\ persist' = TRUE
       \/ messages' = <<>> /\ persist' = FALSE
    /\ at' = "idle" /\ manual' = <<>> /\ unsaved' = FALSE
    /\ offers' = {} /\ replaced' = FALSE
    /\ stale' = FALSE /\ overtaken' = FALSE
    /\ input' = <<>>
    /\ UNCHANGED <<turn, opened, disk, misplaced>>

Next ==
    \/ Send \/ CompressContext \/ MergeSummaries \/ StartGraph
    \/ EndUnplanned \/ EndPlanned \/ Compact \/ StopTurn \/ CutOff
    \/ Clear \/ Restart
    \/ OpenScreen \/ CloseScreen \/ StartManual \/ FinishManual

Spec == Init /\ [][Next]_vars
-----------------------------------------------------------------------------
Message ==
    [kind : {"user"}, turn : Nat]
      \cup [kind : {"ai"}, calls : Seq(ToolCalls), text : BOOLEAN]
      \cup [kind : {"tool"}, call : ToolCalls, size : Sizes]
      \cup [kind : {"notice"}]
      \cup [kind : {"summary"}, requests : Seq(Entries), facts : Seq(Facts), merged : BOOLEAN]

\* Every list of messages the session holds consists of messages, whatever
\* was filtered, merged or cut, and the turn is in one of the waits of
\* Session.send.
TypeOK ==
    /\ messages \in Seq(Message) /\ input \in Seq(Message)
    /\ manual \in Seq(Message) /\ disk \in Seq(Message)
    /\ at \in {"idle", "counting", "merging", "merged", "running", "compacting"}
    /\ turn \in Nat /\ opened \in Nat /\ restarts \in Nat
    /\ {persist, unsaved, replaced, stale, overtaken, misplaced} \subseteq BOOLEAN
    /\ offers \subseteq SUBSET Nat

Recent(s) == SubSeq(s, Cutoff(s) + 1, Len(s))

\* Compressing and merging before a turn leave the newest KeepRecent messages
\* as they were, the user's new request among them
\* (ContextCompressor.maybe_compress, Session._task_summary_merge_end_index).
RecentKept ==
    [][at' # at /\ at' \in {"merging", "merged"} =>
          IsSuffix(Recent(messages), messages')]_vars

\* t begins with s, where outputs may have been cut meanwhile.
Continues(s, t) ==
    /\ Len(s) <= Len(t)
    /\ \A i \in DOMAIN s : t[i] = s[i] \/ (s[i].kind = "tool" /\ t[i] = [s[i] EXCEPT !.size = "cut"])

\* Session.send: the user's request is the last that the model is given, and
\* however the turn ends, the conversation that the model was given is still
\* the beginning of the history afterwards, but for outputs that were cut by
\* hand meanwhile; unless the process restarted, or a compression by hand
\* installed a list that it had computed from an earlier history.
HistoryKept ==
    [][/\ at' = "running" /\ at # "running" => overtaken \/ Last(input') = User(turn)
       /\ at' = "idle" /\ at \in {"running", "compacting"} =>
             restarts' # restarts \/ overtaken \/ Continues(input, messages')]_vars

\* Between turns the session file holds the session's history, unless a turn
\* was cut off since the last save or saving has failed: a crash at rest
\* loses nothing, and a resumed session is the one that was left.
SavedAtRest ==
    at = "idle" /\ persist /\ ~unsaved => disk = messages

Records(m, f) == IsSummary(m) /\ f \in Range(m.facts)

\* build_merged_task_summary_memory: merging old summaries invents no fact, and
\* loses none but those for which there was no room after facts as old or
\* older; a long one keeps its beginning.
MergeKeepsFacts ==
    [][at = "merging" /\ at' = "merged" =>
         /\ \A j \in DOMAIN messages', f \in Facts : Records(messages'[j], f) =>
               \E i \in DOMAIN messages, g \in Facts : Records(messages[i], g) /\ f \in {g, Preview[g]}
         /\ \A i \in DOMAIN messages, f \in Facts : Records(messages[i], f) =>
               \/ \E j \in DOMAIN messages' : \E g \in {f, Preview[f]} : Records(messages'[j], g)
               \/ /\ Len(messages'[1].facts) = MaxMerged
                  /\ \A g \in Range(messages'[1].facts) :
                       \E j \in 1..i, h \in Facts : Records(messages[j], h) /\ g = Preview[h]]_vars

(* The positions that a list of messages differs in from another.          *)
Differing(s, t) == {i \in DOMAIN s : t[i] # s[i]}

(* MessageTokenManagerScreen and compress_message_context: what is cut by  *)
(* hand is an offer that the screen showed, and all of it, however long    *)
(* the screen has been open and many turns have been added meanwhile;      *)
(* unless what it listed has itself been merged, cut, cleared or reduced.  *)
(* Even then the newest messages are left as they are.                     *)
ManualAsChosen ==
    [][manual = <<>> /\ manual' # <<>> =>
          /\ Len(manual') = Len(messages) /\ Recent(manual') = Recent(messages)
          /\ replaced \/ Differing(messages, manual') \in offers]_vars
=============================================================================
