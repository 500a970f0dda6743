----------------------------- MODULE LspClient -----------------------------
(***************************************************************************)
(* The language server behind the navigation tools: the lazily started     *)
(* client of LspManager (agent/lsp/manager.py), the JSON-RPC requests of   *)
(* LspClient with the reader task that completes them                      *)
(* (agent/lsp/client.py), and run_lsp_tool, which turns every failure into *)
(* text (tools/lsp_utils.py).                                              *)
(*                                                                         *)
(* Navigation tools are marked safe for concurrency, so several calls are  *)
(* inside the manager at once; they switch at the awaits: while a process  *)
(* is spawned, while a message is drained, while an answer is awaited.     *)
(* The server is external: it answers in any order, or not, sends requests *)
(* of its own, numbered as it likes, sends rubbish, or exits.              *)
(***************************************************************************)
EXTENDS Naturals, FiniteSets

CONSTANTS
    Callers,    \* tool calls that may run at once
    Closer,     \* Session.close, which runs when no call does
    Files,      \* Python files of the workspace
    NoFile,     \* a query about the whole workspace
    ServerIds,  \* numbers that a server may give to its own requests
    MaxCalls,   \* bound: tool calls
    MaxServers  \* bound: clients the manager creates

ASSUME LspAssumption ==
    /\ Closer \notin Callers /\ NoFile \notin Files /\ ServerIds \subseteq Nat
    /\ MaxCalls \in Nat /\ MaxServers \in Nat

VARIABLES
    client,   \* LspManager._client: its number, 0 for None
    opened,   \* LspManager._opened
    created,  \* clients created so far
    link,     \* client number -> the LspClient's own state
    server,   \* client number -> its process, and what it was told
    call,     \* caller -> where its call stands
    calls,    \* calls so far
    closing,  \* "no", "asking", "reaping" or "closed"
    past      \* what has happened, for the properties

vars == <<client, opened, created, link, server, call, calls, closing, past>>

Clients == 1..MaxServers
Users == Callers \cup {Closer}
Asks == {"initialize", "query", "shutdown"}   \* messages that expect an answer
-----------------------------------------------------------------------------
\* The value of a future: still open, the reader's exception, a response
\* with the request it answers, or a request of the server, which has neither
\* result nor error and so counts as a null result.
Open == [kind |-> "open", of |-> 0, what |-> ""]
Broken == [kind |-> "broken", of |-> 0, what |-> ""]
Foreign == [kind |-> "foreign", of |-> 0, what |-> ""]

NewLink == [running |-> FALSE, reading |-> FALSE, nextId |-> 1, pending |-> <<>>]
NewServer == [alive |-> "none", greeted |-> FALSE, docs |-> {}, asked |-> {},
              own |-> {}, faults |-> {}]
Idle == [at |-> "idle", n |-> 0, file |-> NoFile, on |-> 0, what |-> "", id |-> 0]

\* mutant: a client whose reader has stopped is replaced, its process is not
UsableReading(c) == c # 0 /\ link[c].running /\ server[c].alive = "up" /\ link[c].reading

\* process is not None and process.returncode is None
Usable(c) == c # 0 /\ link[c].running /\ server[c].alive = "up"

\* Some call is starting the server: it has stored the client and waits.
Starting ==
    \E t \in Callers : call[t].at = "spawn" \/ call[t].what \in {"initialize", "initialized"}

Init ==
    /\ client = 0 /\ opened = {} /\ created = 0
    /\ link = [c \in Clients |-> NewLink] /\ server = [c \in Clients |-> NewServer]
    /\ call = [t \in Users |-> Idle] /\ calls = 0
    /\ closing = "no" /\ past = {}
-----------------------------------------------------------------------------
(* The server takes a message: what it is asked, and what it was asked     *)
(* before it was greeted, about a document it was not told of, or told     *)
(* twice.                                                                  *)
Received(s, msg) ==
    LET early == msg.what \in {"open", "query"} /\ ~s.greeted
        blind == msg.what = "query" /\ msg.file # NoFile /\ msg.file \notin s.docs
        twice == msg.what = "open" /\ msg.file \in s.docs
    IN [s EXCEPT !.greeted = @ \/ msg.what = "initialized",
                 !.docs = IF msg.what = "open" THEN @ \cup {msg.file} ELSE @,
                 !.asked = IF msg.what \in Asks
                           THEN @ \cup {[id |-> msg.id, of |-> msg.n, what |-> msg.what]} ELSE @,
                 !.faults = @ \cup {f \in {"early", "blind", "twice"} :
                                      \/ f = "early" /\ early
                                      \/ f = "blind" /\ blind
                                      \/ f = "twice" /\ twice}]

\* mutant: ids are reused once their futures are gone
NextIdReused(c) == Cardinality(DOMAIN link[c].pending) + 1

\* request and notify up to the drain: the future is registered before the
\* message is written.
NextId(c) == link[c].nextId
Register(p, id) == [i \in DOMAIN p \cup {id} |-> IF i = id THEN Open ELSE p[i]]

Post(t, own, c, what) ==
    LET msg == [own EXCEPT !.at = "drain", !.on = c, !.what = what,
                               !.id = IF what \in Asks THEN NextId(c) ELSE 0]
    IN /\ call' = [call EXCEPT ![t] = msg]
       /\ link' = IF what \in Asks
                  THEN [link EXCEPT ![c].nextId = @ + 1,
                                    ![c].pending = Register(@, msg.id)]
                  ELSE link
       /\ server' = IF server[c].alive = "up"
                    THEN [server EXCEPT ![c] = Received(@, msg)] ELSE server

\* The tool returns a result or an error text; the finally of request.
Return(t) == call' = [call EXCEPT ![t] = Idle]
Forget(p, id) == [i \in DOMAIN p \ {id} |-> p[i]]
Popped(t) == link' = [link EXCEPT ![call[t].on].pending = Forget(@, call[t].id)]
Drop(t) == Return(t) /\ Popped(t) /\ UNCHANGED server

\* mutant: the query goes first
UseUnopened(t, own, c) ==
    IF ~link[c].running THEN Return(t) /\ UNCHANGED <<link, server>> ELSE Post(t, own, c, "query")

\* With a client at hand: open the file if it was not opened, then ask.
\* diagnostics opens and does not ask; a client without a process raises.
Use(t, own, c) ==
    IF ~link[c].running THEN Return(t) /\ UNCHANGED <<link, server>>
    ELSE IF own.file # NoFile /\ own.file \notin opened THEN Post(t, own, c, "open")
    ELSE \/ Post(t, own, c, "query")
         \/ Return(t) /\ UNCHANGED <<link, server>>
-----------------------------------------------------------------------------
(* A tool is called: _client_for_python stores a new client before it has  *)
(* been started, unless the stored one has a running process; then no      *)
(* await separates finding the client from writing to it.                  *)
Begin(t) ==
    /\ closing = "no" /\ call[t].at = "idle" /\ calls < MaxCalls
    /\ calls' = calls + 1
    /\ past' = past \cup {e \in {"raced", "overlap"} :
                            \/ e = "raced" /\ Starting
                            \/ e = "overlap" /\ \E u \in Callers : call[u].at # "idle"}
    /\ \E file \in Files \cup {NoFile} :
         LET own == [Idle EXCEPT !.n = calls + 1, !.file = file]
         IN IF Usable(client)
            THEN Use(t, own, client) /\ UNCHANGED <<client, created>>
            ELSE /\ created < MaxServers
                 /\ client' = created + 1 /\ created' = created + 1
                 /\ call' = [call EXCEPT ![t] = [own EXCEPT !.at = "spawn", !.on = created + 1]]
                 /\ UNCHANGED <<link, server>>
    /\ UNCHANGED <<opened, closing>>

\* start: the process runs and the reader is created, or the spawn fails.
Spawned(t) ==
    /\ call[t].at = "spawn"
    /\ LET c == call[t].on
           id == NextId(c)
           hello == [call[t] EXCEPT !.at = "drain", !.what = "initialize", !.id = id]
       IN \/ /\ call' = [call EXCEPT ![t] = hello]
             /\ link' = [link EXCEPT ![c] = [running |-> TRUE, reading |-> TRUE, nextId |-> id + 1,
                                             pending |-> Register(<<>>, id)]]
             /\ server' = [server EXCEPT ![c] = Received([NewServer EXCEPT !.alive = "up"], hello)]
          \/ Return(t) /\ UNCHANGED <<link, server>>
    /\ UNCHANGED <<client, opened, created, calls, closing, past>>

\* A message has been drained.  After the handshake _client_for_python
\* returns the client that is stored by then; after didOpen the file counts
\* as opened.  Writing to an exited process may fail: its future stays.
Drained(t) ==
    LET c == call[t].on what == call[t].what IN
    /\ call[t].at = "drain"
    /\ \/ /\ what \in Asks
          /\ call' = [call EXCEPT ![t].at = "wait"]
          /\ UNCHANGED <<link, server, opened>>
       \/ /\ what = "initialized"
          /\ Use(t, call[t], client)
          /\ UNCHANGED opened
       \/ /\ what = "open"
          /\ opened' = opened \cup {call[t].file}
          /\ \/ Post(t, call[t], c, "query")
             \/ Return(t) /\ UNCHANGED <<link, server>>
    /\ UNCHANGED <<client, created, calls, closing, past>>

\* A step of the call that ends it early during the handshake leaves a
\* running client that was never initialised.
Botched(t) == IF call[t].what \in {"initialize", "initialized"} THEN {"botched"} ELSE {}

DrainFails(t) ==
    /\ call[t].at = "drain" /\ server[call[t].on].alive = "gone"
    /\ Return(t)
    /\ past' = past \cup Botched(t)
    /\ UNCHANGED <<client, opened, created, link, server, calls, closing>>

Answered(t) ==
    LET c == call[t].on answer == link[c].pending[call[t].id] IN
    /\ call[t].at = "wait" /\ answer.kind # "open"
    /\ \/ /\ call[t].what = "initialize" /\ answer.kind = "result"
          /\ LET msg == [call[t] EXCEPT !.at = "drain", !.what = "initialized"]
             IN /\ call' = [call EXCEPT ![t] = msg]
                /\ server' = IF server[c].alive = "up"
                             THEN [server EXCEPT ![c] = Received(@, msg)] ELSE server
          /\ Popped(t)
          /\ UNCHANGED past
       \/ /\ call[t].what = "initialize" /\ answer.kind # "result"
          /\ Drop(t)
          /\ past' = past \cup {"botched"}
       \/ /\ call[t].what = "query"
          /\ Drop(t)
          /\ UNCHANGED past
    /\ UNCHANGED <<client, opened, created, calls, closing>>

TimedOut(t) ==
    /\ call[t].at = "wait"
    /\ Drop(t)
    /\ past' = past \cup Botched(t)
    /\ UNCHANGED <<client, opened, created, calls, closing>>

\* The tool's own timeout, or a cancelled turn.  Only request's wait has a
\* finally; a spawn that is cancelled takes the process with it.
Cancel(t) ==
    /\ call[t].at \in {"spawn", "drain", "wait"}
    /\ IF call[t].at = "wait" THEN Drop(t) ELSE Return(t) /\ UNCHANGED <<link, server>>
    /\ past' = past \cup Botched(t)
                 \cup (IF call[t].at = "drain" THEN {"cut"} ELSE {})
    /\ UNCHANGED <<client, opened, created, calls, closing>>
-----------------------------------------------------------------------------
(* The server and the reader task.  A null or an error for an answer       *)
(* matters to the handshake only; one that nobody reads matters to nobody. *)
Complete(c, id, value) ==
    link' = [link EXCEPT ![c].pending =
               IF id \in DOMAIN @ /\ @[id] = Open THEN [@ EXCEPT ![id] = value] ELSE @]

Respond(c) ==
    /\ server[c].alive = "up" /\ link[c].reading
    /\ \E q \in server[c].asked, kind \in {"result", "error"} :
         /\ kind = "error" => q.what = "initialize"
         /\ server' = [server EXCEPT ![c].asked = @ \ {q}]
         /\ Complete(c, q.id, [kind |-> kind, of |-> q.of, what |-> q.what])
    /\ UNCHANGED <<client, opened, created, call, calls, closing, past>>

(* A request of the server: the reader looks at its number and not at its  *)
(* method, and nobody answers it.  The number need not be one, and then it *)
(* ends the reader, as ReaderFails does.                                   *)
AskBack(c) ==
    /\ server[c].alive = "up" /\ link[c].reading
    /\ \E id \in ServerIds \ server[c].own :
         /\ server' = [server EXCEPT ![c].own = @ \cup {id}]
         /\ Complete(c, id, Foreign)
    /\ UNCHANGED <<client, opened, created, call, calls, closing, past>>

Died(s) == [NewServer EXCEPT !.alive = "gone", !.own = s.own, !.faults = s.faults]

Exit(c) ==
    /\ server[c].alive = "up"
    /\ server' = [server EXCEPT ![c] = Died(@)]
    /\ UNCHANGED <<client, opened, created, link, call, calls, closing, past>>

\* End of the output, or a message that does not parse or whose id is no
\* number: every open future gets the exception and nobody reads any more.
ReaderFails(c) ==
    /\ link[c].reading
    /\ link' = [link EXCEPT ![c].reading = FALSE,
                            ![c].pending = [i \in DOMAIN @ |-> IF @[i] = Open THEN Broken ELSE @[i]]]
    /\ UNCHANGED <<client, opened, created, server, call, calls, closing, past>>
-----------------------------------------------------------------------------
(* Session.close, after the turn: LspManager.shutdown, LspClient.shutdown. *)
Stopped ==
    /\ closing' = "closed"
    /\ client' = 0 /\ opened' = {}
    /\ link' = IF client = 0 THEN link
               ELSE [link EXCEPT ![client].running = FALSE, ![client].reading = FALSE]

Close ==
    /\ closing = "no" /\ \A t \in Callers : call[t].at = "idle"
    /\ IF Usable(client)
       THEN /\ Post(Closer, Idle, client, "shutdown")
            /\ closing' = "asking"
            /\ UNCHANGED <<client, opened>>
       ELSE Stopped /\ UNCHANGED <<call, server>>
    /\ UNCHANGED <<created, calls, past>>

\* shutdown was answered and exit sent, or anything failed and the process
\* was told to terminate.
CloseAsked ==
    /\ closing = "asking"
    /\ \/ /\ call[Closer].at = "drain"
          /\ \/ call' = [call EXCEPT ![Closer].at = "wait"] /\ UNCHANGED <<closing, link, server>>
             \/ server[client].alive = "gone" /\ Return(Closer) /\ closing' = "reaping"
                /\ UNCHANGED <<link, server>>
       \/ /\ call[Closer].at = "wait"
          /\ Drop(Closer)
          /\ closing' = "reaping"
    /\ UNCHANGED <<client, opened, created, calls, past>>

\* Two seconds later it is killed.
Kill == server' = [server EXCEPT ![client] = Died(@)]

Reap ==
    /\ closing = "reaping"
    /\ IF server[client].alive = "gone" THEN UNCHANGED server ELSE Kill
    /\ Stopped
    /\ UNCHANGED <<created, call, calls, past>>
-----------------------------------------------------------------------------
Next ==
    \/ \E t \in Callers : \/ Begin(t) \/ Spawned(t) \/ Drained(t) \/ DrainFails(t)
                          \/ Answered(t) \/ TimedOut(t) \/ Cancel(t)
    \/ \E c \in Clients : Respond(c) \/ AskBack(c) \/ Exit(c) \/ ReaderFails(c)
    \/ Close \/ CloseAsked \/ Reap

Spec == Init /\ [][Next]_vars
-----------------------------------------------------------------------------
Completed == {"result", "error", "foreign"}

IsAnswerTo(answer, t) == answer.of = call[t].n /\ answer.what = call[t].what

(* LspClient.request: whatever was dropped, timed out or answered late, a  *)
(* call that waits has its future registered, and what completes it is the *)
(* answer to its request, unless the server has given the same number to a *)
(* request of its own.                                                     *)
OwnAnswer ==
    \A t \in Users : call[t].at = "wait" =>
        LET pending == link[call[t].on].pending
        IN /\ call[t].id \in DOMAIN pending
           /\ pending[call[t].id].kind \in Completed =>
                \/ IsAnswerTo(pending[call[t].id], t)
                \/ call[t].id \in server[call[t].on].own

(* LspManager: a server is queried before the handshake only after calls   *)
(* raced for it or a handshake failed, is queried about a document it was  *)
(* never told of only when it replaced another server, and is told of a    *)
(* document twice only after calls overlapped or one was cut off.          *)
ServerUsedProperly ==
    \A c \in Clients :
        /\ "early" \in server[c].faults => past \cap {"raced", "botched"} # {}
        /\ "blind" \in server[c].faults => c > 1
        /\ "twice" \in server[c].faults => past \cap {"overlap", "cut"} # {}

(* shutdown_lsp_managers at Session.close: no server survives it, unless   *)
(* calls raced to start one and the loser's process was forgotten.         *)
ServersStopped ==
    closing = "closed" =>
        "raced" \in past \/ \A c \in Clients : server[c].alive # "up"
=============================================================================
