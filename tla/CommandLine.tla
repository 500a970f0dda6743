---------------------------- MODULE CommandLine ----------------------------
(***************************************************************************)
(* Processes of yycode that share the user's data directory: main() with   *)
(* its options, the files that the first start creates (config.json and    *)
(* the skills directory), and the saved sessions, which one process may    *)
(* resume, list or delete while another has them open.  No lock guards     *)
(* any of this.  A process may die at any step, and a save may fail.       *)
(*                                                                         *)
(* A history is the sequence of its turns; module SessionHistory has what  *)
(* happens within a turn.                                                  *)
(***************************************************************************)
EXTENDS Naturals, SequencesExt, FiniteSetsExt

CONSTANTS
    Procs, Ids, \* processes, session ids
    Skills,     \* files of the bundled skills
    Absent,     \* no session file
    Foreign,    \* a session file that load refuses: version, workspace, JSON
    MaxLaunches, MaxTurns, MaxFaults \* bounds

ASSUME CommandLineAssumption ==
    /\ Absent # Foreign /\ Absent \notin Seq(Nat) /\ Foreign \notin Seq(Nat)
    /\ MaxLaunches \in Nat /\ MaxTurns \in Nat /\ MaxFaults \in Nat

VARIABLES
    config,    \* config.json: "absent", "empty" or "whole"
    hasSkills, \* the skills directory exists
    skills,    \* files in it
    saved,     \* id -> the session's file
    pc, opts,  \* process -> where it is, its command line
    id,        \* process -> Session.id
    messages,  \* process -> Session.messages
    persist,   \* process -> Session.persist_messages
    known,     \* process -> skill files that SkillRegistry found or is still to copy
    used,      \* ids that a new session, a user or a file has; a new uuid is none of them
    turns, launches, faults, \* counters
    said,      \* history: id -> what its file should hold
    prior,     \* history: id -> what it held before the last change
    cut,       \* history: ids whose last save was cut off or failed
    shared,    \* history: ids used by two processes at a time
    overlap,   \* history: process -> another one was starting meanwhile
    spoiled,   \* history: a process died while it started
    failed     \* history: processes whose save failed

cliVars == <<config, hasSkills, skills, saved, pc, opts, id, messages, persist, known, used,
             turns, launches, faults, said, prior, cut, shared, overlap, spoiled, failed>>
disk == <<config, hasSkills, skills, saved>>
own == <<opts, id, messages, persist, known>>
counters == <<used, turns, launches, faults>>
conversation == <<said, prior, cut, shared>>
marks == <<overlap, spoiled, failed>>

Starting == {"config", "create", "fill", "read", "update", "skills", "make", "copy", "load"}
Open == {"ready", "saving", "rename"}

(* build_arg_parser, as far as main tells the options apart.  resume and   *)
(* delete take an id.                                                      *)
Options ==
    [do : {"chat"}, resume : Ids \cup {Absent}, temp : BOOLEAN] \cup
    [do : {"sessions", "update"}, resume : {Absent}, temp : {FALSE}] \cup
    [do : {"delete"}, resume : Ids, temp : {FALSE}]

CliInit ==
    /\ config = "absent" /\ hasSkills = FALSE /\ skills = {}
    /\ saved \in [Ids -> {Absent, Foreign}] /\ used = {i \in Ids : saved[i] = Foreign}
    /\ pc = [p \in Procs |-> "off"]
    /\ opts \in [Procs -> {[do |-> "sessions", resume |-> Absent, temp |-> FALSE]}]
    /\ id = [p \in Procs |-> Absent] /\ messages = [p \in Procs |-> <<>>]
    /\ persist = [p \in Procs |-> FALSE] /\ known = [p \in Procs |-> {}]
    /\ turns = 0 /\ launches = 0 /\ faults = 0
    /\ said = saved /\ prior = saved /\ cut = {} /\ shared = {}
    /\ overlap = [p \in Procs |-> FALSE] /\ spoiled = FALSE /\ failed = {}

Users(i) == {q \in Procs : pc[q] \in Open /\ id[q] = i /\ persist[q]}
Goto(p, label) == pc' = [pc EXCEPT ![p] = label]
-----------------------------------------------------------------------------
Launch(p, o) ==
    LET others == {q \in Procs : pc[q] \in Starting} IN
    /\ pc[p] = "off" /\ launches < MaxLaunches /\ launches' = launches + 1
    /\ Goto(p, "config") /\ opts' = [opts EXCEPT ![p] = o]
    /\ used' = used \cup ({o.resume} \cap Ids)
    /\ overlap' = [q \in Procs |-> IF q = p THEN others # {} ELSE overlap[q] \/ q \in others]
    /\ UNCHANGED <<disk, id, messages, persist, known, turns, faults, conversation, spoiled, failed>>

(* _load_json_config_defaults: the file is created if it is not there.     *)
(* write_text opens it, which empties it, and writes.                      *)
CheckConfig(p) ==
    /\ pc[p] = "config" /\ Goto(p, IF config = "absent" THEN "create" ELSE "read")
    /\ UNCHANGED <<disk, own, counters, conversation, marks>>
CreateConfig(p) ==
    /\ pc[p] = "create" /\ Goto(p, "fill") /\ config' = "empty"
    /\ UNCHANGED <<hasSkills, skills, saved, own, counters, conversation, marks>>
FillConfig(p) ==
    /\ pc[p] = "fill" /\ Goto(p, "read") /\ config' = "whole"
    /\ UNCHANGED <<hasSkills, skills, saved, own, counters, conversation, marks>>

\* json.loads
Parses(file) == file # "empty"

(* The rest of main: what the options ask for; SystemExit if the file does *)
(* not parse.                                                              *)
ReadConfig(p) ==
    /\ pc[p] = "read"
    /\ Goto(p, CASE ~Parses(config) -> "refused"
                 [] Parses(config) /\ opts[p].do = "chat" -> "skills"
                 [] OTHER -> opts[p].do)
    /\ known' = [known EXCEPT ![p] = Skills]
    /\ UNCHANGED <<disk, opts, id, messages, persist, counters, conversation, marks>>

\* sync_default_skills_dir: one file after the other
UpdateSkills(p) ==
    /\ pc[p] = "update" /\ hasSkills' = TRUE
    /\ IF known[p] = {} THEN Goto(p, "over") /\ UNCHANGED <<skills, known>>
       ELSE \E s \in known[p] :
              skills' = skills \cup {s} /\ known' = [known EXCEPT ![p] = @ \ {s}] /\ UNCHANGED pc
    /\ UNCHANGED <<config, saved, opts, id, messages, persist, counters, conversation, marks>>

\* list_sessions_for_workdir
ListSessions(p) ==
    /\ pc[p] = "sessions" /\ Goto(p, "over")
    /\ UNCHANGED <<disk, own, counters, conversation, marks>>

\* delete_session_for_workdir
Delete(p) ==
    LET i == opts[p].resume IN
    /\ pc[p] = "delete" /\ Goto(p, "over")
    /\ saved' = [saved EXCEPT ![i] = Absent]
    /\ said' = [said EXCEPT ![i] = Absent] /\ prior' = [prior EXCEPT ![i] = Absent]
    /\ shared' = IF Users(i) # {} THEN shared \cup {i} ELSE shared
    /\ UNCHANGED <<config, hasSkills, skills, own, counters, cut, marks>>
-----------------------------------------------------------------------------
\* mutant: the directory is copied at every start
CheckSkillsNever(p) ==
    /\ pc[p] = "skills" /\ Goto(p, "make")
    /\ UNCHANGED <<disk, own, counters, conversation, marks>>

(* Session.__init__.  ensure_default_skills_dir: a directory that exists   *)
(* is taken as it is; copytree fails if there is one by then.              *)
CheckSkills(p) ==
    /\ pc[p] = "skills" /\ Goto(p, IF hasSkills THEN "load" ELSE "make")
    /\ UNCHANGED <<disk, own, counters, conversation, marks>>
MakeSkills(p) ==
    /\ pc[p] = "make"
    /\ IF hasSkills THEN Goto(p, "refused") /\ UNCHANGED hasSkills
       ELSE Goto(p, "copy") /\ hasSkills' = TRUE
    /\ UNCHANGED <<config, skills, saved, own, counters, conversation, marks>>
CopySkill(p) ==
    /\ pc[p] = "copy"
    /\ IF known[p] = {} THEN Goto(p, "load") /\ UNCHANGED <<skills, known>>
       ELSE \E s \in known[p] :
              skills' = skills \cup {s} /\ known' = [known EXCEPT ![p] = @ \ {s}] /\ UNCHANGED pc
    /\ UNCHANGED <<config, hasSkills, saved, opts, id, messages, persist, counters, conversation, marks>>

\* _iter_all_skill_files
SkillFiles == IF hasSkills THEN skills ELSE {}

History(file) == IF file \in {Absent, Foreign} THEN <<>> ELSE file

(* SkillRegistry reads the skills; then the messages are loaded, unless    *)
(* the session is new or temporary.  After an error the session goes on    *)
(* without its store.                                                      *)
Load(p) ==
    LET o == opts[p] IN
    /\ pc[p] = "load" /\ Goto(p, "ready")
    /\ known' = [known EXCEPT ![p] = SkillFiles]
    /\ \E i \in IF o.resume = Absent THEN Ids \ used ELSE {o.resume} :
         LET loads == o.resume # Absent /\ ~o.temp
             stores == ~o.temp /\ (loads => saved[i] # Foreign)
         IN
         /\ id' = [id EXCEPT ![p] = i] /\ used' = used \cup {i}
         /\ persist' = [persist EXCEPT ![p] = stores]
         /\ messages' = [messages EXCEPT ![p] = IF loads THEN History(saved[i]) ELSE <<>>]
         /\ IF stores /\ Users(i) = {}
            THEN /\ shared' = shared \ {i} /\ cut' = cut \ {i}
                 /\ said' = [said EXCEPT ![i] = saved[i]] /\ prior' = [prior EXCEPT ![i] = saved[i]]
            ELSE shared' = (IF stores THEN shared \cup {i} ELSE shared) /\ UNCHANGED <<said, prior, cut>>
    /\ UNCHANGED <<disk, opts, turns, launches, faults, marks>>

\* A new content of the history, on its way to the disk.
Says(p, history) ==
    /\ messages' = [messages EXCEPT ![p] = history]
    /\ IF persist[p]
       THEN /\ Goto(p, "saving")
            /\ said' = [said EXCEPT ![id[p]] = history] /\ prior' = [prior EXCEPT ![id[p]] = said[id[p]]]
       ELSE UNCHANGED <<pc, said, prior>>

\* run_agent_task: a turn, up to Session._save_messages
TakeTurn(p) ==
    /\ pc[p] = "ready" /\ turns < MaxTurns /\ turns' = turns + 1
    /\ Says(p, Append(messages[p], turns'))
    /\ UNCHANGED <<disk, opts, id, persist, known, used, launches, faults, cut, shared, marks>>

\* Session.clear
Clear(p) ==
    /\ pc[p] = "ready" /\ messages[p] # <<>> /\ Says(p, <<>>)
    /\ UNCHANGED <<disk, opts, id, persist, known, counters, cut, shared, marks>>

\* mutant: the file is written in place
WhileWrittenInPlace(p) == Foreign

\* _atomic_write_json: the session's file while its successor is written
WhileWritten(p) == saved[id[p]]

\* FileSessionStore.save: a file beside the session's, and its renaming
WriteTemp(p) ==
    /\ pc[p] = "saving" /\ Goto(p, "rename")
    /\ saved' = [saved EXCEPT ![id[p]] = WhileWritten(p)]
    /\ UNCHANGED <<config, hasSkills, skills, own, counters, conversation, marks>>
Rename(p) ==
    /\ pc[p] = "rename" /\ Goto(p, "ready")
    /\ saved' = [saved EXCEPT ![id[p]] = messages[p]]
    /\ UNCHANGED <<config, hasSkills, skills, own, counters, conversation, marks>>

\* Either fails, with an OSError: the session goes on without its store.
SaveFails(p) ==
    /\ pc[p] \in {"saving", "rename"} /\ faults < MaxFaults /\ faults' = faults + 1
    /\ Goto(p, "ready") /\ persist' = [persist EXCEPT ![p] = FALSE]
    /\ cut' = cut \cup {id[p]} /\ failed' = failed \cup {p}
    /\ UNCHANGED <<disk, opts, id, messages, known, used, turns, launches, said, prior, shared,
                   overlap, spoiled>>

\* The end of run_plain_loop, and the next use of the terminal.
Quit(p) ==
    /\ pc[p] = "ready" /\ Goto(p, "over")
    /\ UNCHANGED <<disk, own, counters, conversation, marks>>
Leave(p) ==
    /\ pc[p] \in {"over", "refused"} /\ Goto(p, "off")
    /\ opts' = [opts EXCEPT ![p] = [do |-> "sessions", resume |-> Absent, temp |-> FALSE]]
    /\ id' = [id EXCEPT ![p] = Absent] /\ messages' = [messages EXCEPT ![p] = <<>>]
    /\ persist' = [persist EXCEPT ![p] = FALSE] /\ known' = [known EXCEPT ![p] = {}]
    /\ overlap' = [overlap EXCEPT ![p] = FALSE] /\ failed' = failed \ {p}
    /\ UNCHANGED <<disk, counters, conversation, spoiled>>

Crash(p) ==
    /\ pc[p] \in Starting \cup Open /\ faults < MaxFaults /\ faults' = faults + 1
    /\ Goto(p, "over") /\ spoiled' = (spoiled \/ pc[p] \in Starting)
    /\ cut' = IF pc[p] \in {"saving", "rename"} THEN cut \cup {id[p]} ELSE cut
    /\ UNCHANGED <<disk, own, used, turns, launches, said, prior, shared, overlap, failed>>

CliNext ==
    \E p \in Procs :
        \/ \E o \in Options : Launch(p, o)
        \/ CheckConfig(p) \/ CreateConfig(p) \/ FillConfig(p) \/ ReadConfig(p)
        \/ UpdateSkills(p) \/ ListSessions(p) \/ Delete(p)
        \/ CheckSkills(p) \/ MakeSkills(p) \/ CopySkill(p) \/ Load(p)
        \/ TakeTurn(p) \/ Clear(p) \/ WriteTemp(p) \/ Rename(p) \/ SaveFails(p)
        \/ Quit(p) \/ Leave(p) \/ Crash(p)

CliSpec == CliInit /\ [][CliNext]_cliVars
-----------------------------------------------------------------------------
(* FileSessionStore and Session._save_messages: whoever crashes and        *)
(* whatever save fails, a session's file is what its user last gave it of  *)
(* the conversation, or what it was before while that is being saved, or   *)
(* if the save was cut off or failed; after a failed save the process does *)
(* not write to it any more.  A file that cannot be read is never          *)
(* overwritten.  Except while two processes have the session open, or one  *)
(* deletes it under the other.                                             *)
ConversationKept ==
    \A i \in Ids \ shared :
        /\ \/ saved[i] = said[i]
           \/ /\ saved[i] = prior[i]
              /\ i \in cut \/ \E p \in Users(i) : pc[p] \in {"saving", "rename"}
        /\ prior[i] = Foreign => said[i] = Foreign

(* The first start: a process starts, and with all bundled skills, unless  *)
(* another one was starting at the same time or has died while it started. *)
(* (Either may leave a config.json that is empty, for which every later    *)
(* start is refused, or a skills directory that nothing completes.)        *)
StartsWhole ==
    \A p \in Procs :
        ~overlap[p] /\ ~spoiled => pc[p] # "refused" /\ (pc[p] \in Open => known[p] = Skills)
=============================================================================
