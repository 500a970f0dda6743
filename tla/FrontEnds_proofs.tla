-------------------------- MODULE FrontEnds_proofs -------------------------
(***************************************************************************)
(* The two ways to start yycode without the terminal interface.            *)
(*                                                                         *)
(* What the ACP server promises its client (AcpServer), for every set of   *)
(* sessions, every number of lines and every number of events in a turn:   *)
(* answers come once and in order, what is shown lies inside its exchange, *)
(* and a controller never holds the task of an earlier prompt.             *)
(*                                                                         *)
(* What the data directory is worth that the processes of the command line *)
(* share (CommandLine), for any number of processes, sessions and skill    *)
(* files: a saved conversation after any crash, and an undisturbed start.  *)
(***************************************************************************)
EXTENDS AcpServer, CommandLine, SequenceTheorems, TLAPS

Line ==
    [kind : {"new", "simple", "malformed", "notification"}, sid : {NoSession}, id : 0..MaxLines]
        \cup [kind : {"load", "prompt", "cancel"}, sid : Sids, id : 0..MaxLines]
        \cup [kind : {"decision"}, sid : {NoSession}, id : Nat, yes : BOOLEAN]

Answers == {"result", "error", "cancelled", "not_running", "end_turn"}

Event ==
    [kind : {"read"}, sid : Sids \cup {NoSession}, id : 0..MaxLines]
        \cup [kind : {"update"}, sid : Sids]
        \cup [kind : {"ask"}, sid : Sids, id : Nat]
        \cup [kind : {"answer"}, id : 0..MaxLines, what : Answers]
-----------------------------------------------------------------------------
(* The wire only grows.  Three things happen to it: a request is read, its *)
(* exchange shows something, and it is answered.                           *)

\* The request at j has been answered.
Settled(w, j) == \E k \in DOMAIN w : j < k /\ Exchange(w, j, k)

AnswersPaired(w) ==
    \A k \in DOMAIN w : w[k].kind = "answer" =>
        w[k].id = 0 \/ \E j \in 1..(k - 1) : Exchange(w, j, k)

ShownInside(w) ==
    \A k \in DOMAIN w : Shows(w[k]) =>
        \E j \in 1..(k - 1) :
            w[j].kind = "read" /\ w[j].sid \in {w[k].sid, NoSession} /\ OnlyShows(w, j, k)

\* Every request but the one at r has been answered; 0 excepts none.
SettledBut(w, r) == \A j \in DOMAIN w : w[j].kind = "read" /\ j # r => Settled(w, j)

Quiet(w) == AnswersPaired(w) /\ ShownInside(w) /\ SettledBut(w, 0)

\* The exchange of the request at r is under way.
Awaiting(w, r, sid, rid) ==
    /\ AnswersPaired(w) /\ ShownInside(w) /\ SettledBut(w, r)
    /\ r \in DOMAIN w
    /\ w[r].kind = "read" /\ w[r].sid = sid /\ w[r].id = rid
    /\ OnlyShows(w, r, Len(w))

LEMMA Grown ==
    ASSUME NEW w \in Seq(Event), NEW x \in Seq(Event)
    PROVE  /\ w \o x \in Seq(Event)
           /\ DOMAIN w = 1..Len(w) /\ Len(w) \in Nat /\ Len(x) \in Nat
           /\ DOMAIN (w \o x) = 1..(Len(w) + Len(x)) /\ Len(w \o x) = Len(w) + Len(x)
           /\ \A i \in 1..Len(w) : (w \o x)[i] = w[i]
           /\ \A i \in 1..Len(x) : (w \o x)[Len(w) + i] = x[i]
BY ConcatProperties

\* What has been settled stays so.
LEMMA PrefixKept ==
    ASSUME NEW w \in Seq(Event), NEW x \in Seq(Event)
    PROVE  /\ \A j \in DOMAIN w : Settled(w, j) => Settled(w \o x, j)
           /\ AnswersPaired(w) => \A k \in DOMAIN w : w[k].kind = "answer" =>
                 w[k].id = 0 \/ \E j \in 1..(k - 1) : Exchange(w \o x, j, k)
           /\ ShownInside(w) => \A k \in DOMAIN w : Shows(w[k]) =>
                 \E j \in 1..(k - 1) :
                     /\ (w \o x)[j].kind = "read" /\ (w \o x)[j].sid \in {w[k].sid, NoSession}
                     /\ OnlyShows(w \o x, j, k)
<1> DEFINE v == w \o x
<1>1. /\ DOMAIN w = 1..Len(w) /\ Len(w) \in Nat /\ Len(x) \in Nat
      /\ DOMAIN v = 1..(Len(w) + Len(x))
      /\ \A i \in 1..Len(w) : v[i] = w[i]
  BY Grown
<1> HIDE DEF v
<1>2. \A j \in 1..Len(w), k \in 1..Len(w) : OnlyShows(w, j, k) => OnlyShows(v, j, k)
  BY <1>1 DEF OnlyShows
<1>3. \A j \in 1..Len(w), k \in 1..Len(w) : Exchange(w, j, k) => Exchange(v, j, k)
  BY <1>1 DEF Exchange, OnlyShows
<1>4. \A j \in DOMAIN w : Settled(w, j) => Settled(v, j)
  BY <1>1, <1>3 DEF Settled
<1>5. AnswersPaired(w) => \A k \in DOMAIN w : w[k].kind = "answer" =>
         w[k].id = 0 \/ \E j \in 1..(k - 1) : Exchange(v, j, k)
  BY <1>1, <1>3 DEF AnswersPaired
<1>6. ShownInside(w) => \A k \in DOMAIN w : Shows(w[k]) =>
         \E j \in 1..(k - 1) :
             v[j].kind = "read" /\ v[j].sid \in {w[k].sid, NoSession} /\ OnlyShows(v, j, k)
  BY <1>1, <1>2 DEF ShownInside
<1> QED
  BY <1>4, <1>5, <1>6 DEF v

LEMMA ReadOpens ==
    ASSUME NEW w \in Seq(Event), Quiet(w), NEW e \in Event, e.kind = "read"
    PROVE  Awaiting(w \o <<e>>, Len(w) + 1, e.sid, e.id)
<1> DEFINE v == w \o <<e>>
           r == Len(w) + 1
<1>1. <<e>> \in Seq(Event) /\ Len(<<e>>) = 1 /\ <<e>>[1] = e
  OBVIOUS
<1>2. /\ DOMAIN w = 1..Len(w) /\ Len(w) \in Nat
      /\ DOMAIN v = 1..r /\ Len(v) = r
      /\ \A i \in 1..Len(w) : v[i] = w[i]
  BY <1>1, Grown
<1>3. v[r] = e
  BY <1>1, Grown
<1>4. /\ \A j \in DOMAIN w : Settled(w, j) => Settled(v, j)
      /\ \A k \in DOMAIN w : w[k].kind = "answer" =>
            w[k].id = 0 \/ \E j \in 1..(k - 1) : Exchange(v, j, k)
      /\ \A k \in DOMAIN w : Shows(w[k]) =>
            \E j \in 1..(k - 1) :
                v[j].kind = "read" /\ v[j].sid \in {w[k].sid, NoSession} /\ OnlyShows(v, j, k)
  BY <1>1, PrefixKept DEF Quiet
<1> HIDE DEF v
<1>5. ~Shows(e)
  BY DEF Shows
<1>6. AnswersPaired(v)
  BY <1>2, <1>3, <1>4 DEF AnswersPaired
<1>7. ShownInside(v)
  BY <1>2, <1>3, <1>4, <1>5 DEF ShownInside
<1>8. SettledBut(v, r)
  BY <1>2, <1>4 DEF SettledBut, Quiet
<1>9. OnlyShows(v, r, Len(v))
  BY <1>2 DEF OnlyShows
<1> QED
  BY <1>2, <1>3, <1>6, <1>7, <1>8, <1>9 DEF Awaiting, v

\* Updates and permission requests of one session.
ShowOnly(x, s) == \A i \in 1..Len(x) : Shows(x[i]) /\ x[i].sid = s

LEMMA ShowsInside ==
    ASSUME NEW w \in Seq(Event), NEW r, NEW sid, NEW rid, Awaiting(w, r, sid, rid),
           NEW x \in Seq(Event), NEW s, sid \in {s, NoSession},
           ShowOnly(x, s)
    PROVE  Awaiting(w \o x, r, sid, rid)
<1> DEFINE v == w \o x
<1>1. /\ DOMAIN w = 1..Len(w) /\ Len(w) \in Nat /\ Len(x) \in Nat
      /\ DOMAIN v = 1..(Len(w) + Len(x)) /\ Len(v) = Len(w) + Len(x)
      /\ \A i \in 1..Len(w) : v[i] = w[i]
      /\ \A i \in 1..Len(x) : v[Len(w) + i] = x[i]
  BY Grown
<1>2. /\ \A j \in DOMAIN w : Settled(w, j) => Settled(v, j)
      /\ \A k \in DOMAIN w : w[k].kind = "answer" =>
            w[k].id = 0 \/ \E j \in 1..(k - 1) : Exchange(v, j, k)
      /\ \A k \in DOMAIN w : Shows(w[k]) =>
            \E j \in 1..(k - 1) :
                v[j].kind = "read" /\ v[j].sid \in {w[k].sid, NoSession} /\ OnlyShows(v, j, k)
  BY PrefixKept DEF Awaiting
<1> HIDE DEF v
<1>3. \A k \in DOMAIN v \ DOMAIN w : Shows(v[k]) /\ v[k].sid = s
  <2> SUFFICES ASSUME NEW k \in DOMAIN v \ DOMAIN w PROVE Shows(v[k]) /\ v[k].sid = s
    OBVIOUS
  <2>1. k - Len(w) \in 1..Len(x) /\ k = Len(w) + (k - Len(w))
    BY <1>1
  <2> QED
    BY <1>1, <2>1 DEF ShowOnly
<1>4. r \in 1..Len(w) /\ v[r] = w[r]
  BY <1>1 DEF Awaiting
<1>5. \A k \in DOMAIN v : OnlyShows(v, r, k)
  BY <1>1, <1>3, <1>4 DEF OnlyShows, Awaiting
<1>6. AnswersPaired(v)
  BY <1>1, <1>2, <1>3 DEF AnswersPaired, Shows
<1>7. ShownInside(v)
  <2>1. ASSUME NEW k \in DOMAIN v \ DOMAIN w
        PROVE  /\ r \in 1..(k - 1)
               /\ v[r].kind = "read" /\ v[r].sid \in {v[k].sid, NoSession} /\ OnlyShows(v, r, k)
    BY <2>1, <1>1, <1>3, <1>4, <1>5 DEF Awaiting
  <2>2. \A k \in DOMAIN w : v[k] = w[k]
    BY <1>1
  <2> QED
    BY <1>2, <2>1, <2>2 DEF ShownInside
<1>8. SettledBut(v, r)
  <2>1. \A k \in DOMAIN v : v[k].kind = "read" => k \in DOMAIN w /\ v[k] = w[k]
    BY <1>1, <1>3 DEF Shows
  <2> QED
    BY <1>2, <2>1 DEF SettledBut, Awaiting
<1> QED
  BY <1>1, <1>4, <1>5, <1>6, <1>7, <1>8 DEF Awaiting, v

LEMMA AnswerCloses ==
    ASSUME NEW w \in Seq(Event), NEW r, NEW sid, NEW rid, Awaiting(w, r, sid, rid),
           NEW e \in Event, e.kind = "answer", e.id = rid
    PROVE  Quiet(w \o <<e>>)
<1> DEFINE v == w \o <<e>>
           z == Len(w) + 1
<1>1. <<e>> \in Seq(Event) /\ Len(<<e>>) = 1 /\ <<e>>[1] = e
  OBVIOUS
<1>2. /\ DOMAIN w = 1..Len(w) /\ Len(w) \in Nat
      /\ DOMAIN v = 1..z
      /\ \A i \in 1..Len(w) : v[i] = w[i]
  BY <1>1, Grown
<1>3. v[z] = e
  BY <1>1, Grown
<1>4. /\ \A j \in DOMAIN w : Settled(w, j) => Settled(v, j)
      /\ \A k \in DOMAIN w : w[k].kind = "answer" =>
            w[k].id = 0 \/ \E j \in 1..(k - 1) : Exchange(v, j, k)
      /\ \A k \in DOMAIN w : Shows(w[k]) =>
            \E j \in 1..(k - 1) :
                v[j].kind = "read" /\ v[j].sid \in {w[k].sid, NoSession} /\ OnlyShows(v, j, k)
  BY <1>1, PrefixKept DEF Awaiting
<1> HIDE DEF v
<1>5. ~Shows(e)
  BY DEF Shows
<1>6. r \in 1..Len(w) /\ Exchange(v, r, z)
  BY <1>2, <1>3 DEF Awaiting, Exchange, OnlyShows
<1>7. AnswersPaired(v)
  <2>1. r \in 1..(z - 1)
    BY <1>2, <1>6
  <2> QED
    BY <1>2, <1>4, <1>6, <2>1 DEF AnswersPaired
<1>8. ShownInside(v)
  BY <1>2, <1>3, <1>4, <1>5 DEF ShownInside
<1>9. SettledBut(v, 0)
  <2>1. Settled(v, r)
    BY <1>2, <1>6 DEF Settled
  <2> QED
    BY <1>2, <1>3, <1>4, <2>1 DEF SettledBut, Awaiting
<1> QED
  BY <1>7, <1>8, <1>9 DEF Quiet, v

\* A line that is no request is answered without an id.
LEMMA RejectionKeeps ==
    ASSUME NEW w \in Seq(Event), Quiet(w), NEW e \in Event, e.kind = "answer", e.id = 0
    PROVE  Quiet(w \o <<e>>)
<1> DEFINE v == w \o <<e>>
           z == Len(w) + 1
<1>1. <<e>> \in Seq(Event) /\ Len(<<e>>) = 1 /\ <<e>>[1] = e
  OBVIOUS
<1>2. /\ DOMAIN w = 1..Len(w) /\ Len(w) \in Nat
      /\ DOMAIN v = 1..z
      /\ \A i \in 1..Len(w) : v[i] = w[i]
  BY <1>1, Grown
<1>3. v[z] = e
  BY <1>1, Grown
<1>4. /\ \A j \in DOMAIN w : Settled(w, j) => Settled(v, j)
      /\ \A k \in DOMAIN w : w[k].kind = "answer" =>
            w[k].id = 0 \/ \E j \in 1..(k - 1) : Exchange(v, j, k)
      /\ \A k \in DOMAIN w : Shows(w[k]) =>
            \E j \in 1..(k - 1) :
                v[j].kind = "read" /\ v[j].sid \in {w[k].sid, NoSession} /\ OnlyShows(v, j, k)
  BY <1>1, PrefixKept DEF Quiet
<1> HIDE DEF v
<1>5. ~Shows(e)
  BY DEF Shows
<1>6. AnswersPaired(v)
  BY <1>2, <1>3, <1>4 DEF AnswersPaired
<1>7. ShownInside(v)
  BY <1>2, <1>3, <1>4, <1>5 DEF ShownInside
<1>8. SettledBut(v, 0)
  BY <1>2, <1>3, <1>4 DEF SettledBut, Quiet
<1> QED
  BY <1>6, <1>7, <1>8 DEF Quiet, v
-----------------------------------------------------------------------------
(* Types.                                                                  *)
TypeInv ==
    /\ TypeOK
    /\ lines \in Seq(Line) /\ wire \in Seq(Event)
    /\ created \in Nat /\ asked \in Nat

LEMMA NumberedType ==
    ASSUME NEW line \in Requests \cup OtherLines, sent \in 0..MaxLines, sent < MaxLines
    PROVE  Numbered(line) \in Line
<1> USE AcpAssumption
<1>1. sent + 1 \in 0..MaxLines /\ 0 \in 0..MaxLines
  OBVIOUS
<1>2. CASE line \in [kind : {"new", "simple"}] \cup OtherLines
  <2>1. DOMAIN line = {"kind"} /\ line.kind \in {"new", "simple", "malformed", "notification"}
    BY <1>2 DEF OtherLines
  <2>2. SidOf(line) = NoSession
    BY <2>1 DEF SidOf
  <2> QED
    BY <1>1, <2>1, <2>2 DEF Numbered, Line
<1>3. CASE line \in [kind : {"load", "prompt", "cancel"}, sid : Sids]
  <2>1. DOMAIN line = {"kind", "sid"} /\ line.kind \in {"load", "prompt", "cancel"} /\ line.sid \in Sids
    BY <1>3
  <2>2. SidOf(line) = line.sid
    BY <2>1 DEF SidOf
  <2> QED
    BY <1>1, <2>1, <2>2 DEF Numbered, Line
<1> QED
  BY <1>2, <1>3 DEF Requests

LEMMA HeadType ==
    ASSUME lines \in Seq(Line), lines # <<>>
    PROVE  /\ Head(lines) \in Line /\ Tail(lines) \in Seq(Line)
           /\ Head(lines).kind # "decision" => Head(lines).id \in 0..MaxLines
           /\ Head(lines).kind \in {"load", "prompt", "cancel"} => Head(lines).sid \in Sids
           /\ Head(lines).kind \notin {"load", "prompt", "cancel"} => Head(lines).sid = NoSession
<1>1. Head(lines) \in Line /\ Tail(lines) \in Seq(Line)
  OBVIOUS
<1> QED
  BY <1>1 DEF Line

LEMMA ReadType ==
    ASSUME NEW line \in Line, line.kind # "decision"
    PROVE  /\ line.id \in 0..MaxLines
           /\ ReadEvent(line) \in Event /\ ReadEvent(line).kind = "read"
           /\ ReadEvent(line).sid = line.sid /\ ReadEvent(line).id = line.id
BY DEF ReadEvent, Event, Line

LEMMA AnswerType ==
    ASSUME NEW rid \in 0..MaxLines, NEW what \in Answers
    PROVE  AnswerEvent(rid, what) \in Event /\ AnswerEvent(rid, what).kind = "answer"
           /\ AnswerEvent(rid, what).id = rid
BY DEF AnswerEvent, Event

LEMMA UpdatesType ==
    ASSUME NEW s \in Sids, NEW n \in Nat
    PROVE  /\ Updates(s, n) \in Seq(Event)
           /\ ShowOnly(Updates(s, n), s)
<1>1. Update(s) \in Event /\ Shows(Update(s)) /\ Update(s).sid = s
  BY DEF Update, Event, Shows
<1>2. Updates(s, n) \in Seq(Event) /\ Len(Updates(s, n)) = n
  BY <1>1, IsASeq, LenProperties DEF Updates
<1> QED
  BY <1>1, <1>2 DEF Updates, ShowOnly

LEMMA AppendOne ==
    ASSUME NEW w \in Seq(Event), NEW e \in Event
    PROVE  Append(w, e) = w \o <<e>> /\ <<e>> \in Seq(Event) /\ w \o <<e>> \in Seq(Event)
<1>1. Append(w, e) = w \o <<e>>
  BY AppendIsConcat
<1>2. <<e>> \in Seq(Event)
  OBVIOUS
<1> QED
  BY <1>1, <1>2, Grown

\* A line that is answered at once: the whole exchange, with what it shows.
Said(w, line, x, what) == w \o <<ReadEvent(line)>> \o x \o <<AnswerEvent(line.id, what)>>

LEMMA SaidKeeps ==
    ASSUME NEW w \in Seq(Event), Quiet(w), NEW line \in Line, line.kind # "decision",
           NEW x \in Seq(Event), NEW s, line.sid \in {s, NoSession}, ShowOnly(x, s),
           NEW what \in Answers
    PROVE  Said(w, line, x, what) \in Seq(Event) /\ Quiet(Said(w, line, x, what))
<1> DEFINE w1 == w \o <<ReadEvent(line)>>
           w2 == w1 \o x
           w3 == w2 \o <<AnswerEvent(line.id, what)>>
           r == Len(w) + 1
<1>1. Said(w, line, x, what) = w3
  BY DEF Said
<1>2. ReadEvent(line) \in Event /\ AnswerEvent(line.id, what) \in Event
  BY ReadType, AnswerType
<1>3. w1 \in Seq(Event) /\ w2 \in Seq(Event) /\ w3 \in Seq(Event)
  BY <1>2, AppendOne, Grown
<1>4. Awaiting(w1, r, line.sid, line.id)
  BY <1>2, ReadType, ReadOpens
<1>5. Awaiting(w2, r, line.sid, line.id)
  <2> HIDE DEF w1, r
  <2>1. line.sid \in {s, NoSession}
    OBVIOUS
  <2>2. w1 \in Seq(Event) /\ Awaiting(w1, r, line.sid, line.id)
    BY <1>3, <1>4
  <2> HIDE DEF w3
  <2>4. Awaiting(w1 \o x, r, line.sid, line.id)
    BY <2>1, <2>2, ShowsInside
  <2> QED
    BY <2>4
<1>6. Quiet(w3)
  BY <1>2, <1>3, <1>5, ReadType, AnswerType, AnswerCloses
<1> QED
  BY <1>1, <1>3, <1>6
-----------------------------------------------------------------------------
(* The prompt, its turn and its controller.  ControllerTracksPrompt is not *)
(* inductive alone: that a turn ends needs the prompt to be in its session *)
(* and no question to be left behind.                                      *)
Control ==
    /\ at = "prompting" <=> turn # "none"
    /\ at = "prompting" => who \in Sids /\ sessions[who] # 0
    /\ waiting # {} => turn = "running"
    /\ ControllerTracksPrompt

\* What the wire holds while a prompt is handled, and between lines.
WireInv ==
    /\ at = "prompting" => \E r \in DOMAIN wire : Awaiting(wire, r, who, request)
    /\ at # "prompting" => Quiet(wire)

Inv == TypeInv /\ Control /\ WireInv

LEMMA InvInit == Init => Inv
<1> SUFFICES ASSUME Init PROVE Inv
  OBVIOUS
<1> USE AcpAssumption DEF Init
<1>1. TypeInv
  <2>1. 0 \in 0..MaxLines /\ 0 \in 0..MaxEvents
    OBVIOUS
  <2>2. sessions \in [Sids -> 0..created]
    OBVIOUS
  <2>3. eof \in BOOLEAN /\ interrupted \in BOOLEAN
    BY Zenon
  <2>4. lines \in Seq(Line) /\ wire \in Seq(Event)
    OBVIOUS
  <2> QED
    BY <2>1, <2>2, <2>3, <2>4 DEF TypeInv, TypeOK
<1>2. Control
  BY DEF Control, ControllerTracksPrompt
<1>3. Quiet(wire)
  <2>1. DOMAIN wire = {}
    OBVIOUS
  <2> QED
    BY <2>1 DEF Quiet, AnswersPaired, ShownInside, SettledBut
<1> QED
  BY <1>1, <1>2, <1>3 DEF Inv, WireInv

\* A line is taken between prompts.
LEMMA TakeFacts ==
    ASSUME Inv, NEW kind, Take(kind)
    PROVE  /\ at = "reading" /\ turn = "none" /\ waiting = {} /\ current = {} /\ Quiet(wire)
           /\ lines # <<>> /\ Head(lines).kind = kind /\ lines' \in Seq(Line)
           /\ kind \in {"load", "prompt", "cancel"} => Head(lines).sid \in Sids
           /\ kind \notin {"load", "prompt", "cancel"} => Head(lines).sid = NoSession
           /\ kind # "decision" => Head(lines).id \in 0..MaxLines
BY HeadType DEF Inv, TypeInv, Control, ControllerTracksPrompt, WireInv, Take

\* The next line is read with the prompt, the turn and the table as they were.
LEMMA TakeKeeps ==
    ASSUME Inv, NEW kind, Take(kind), UNCHANGED <<at, current, askVars, turnVars, tableVars>>,
           wire' \in Seq(Event), Quiet(wire')
    PROVE  Inv'
<1>1. TypeInv'
  BY TakeFacts DEF Inv, TypeInv, TypeOK, Take, askVars, turnVars, tableVars
<1>2. Control'
  BY DEF Inv, Control, ControllerTracksPrompt, askVars, turnVars, tableVars
<1>3. WireInv'
  BY TakeFacts DEF WireInv
<1> QED
  BY <1>1, <1>2, <1>3 DEF Inv

LEMMA ReplyNothing ==
    ASSUME Inv, NEW kind, Take(kind), kind # "decision", NEW what \in Answers, Reply(<<>>, what)
    PROVE  wire' \in Seq(Event) /\ Quiet(wire')
<1>1. wire' = Said(wire, Head(lines), <<>>, what)
  BY DEF Reply, Said
<1>2. wire \in Seq(Event) /\ Quiet(wire) /\ Head(lines) \in Line /\ Head(lines).kind # "decision"
  BY TakeFacts, HeadType DEF Inv, TypeInv
<1>3. ASSUME NEW x \in Seq(Event), x = <<>>
      PROVE  /\ Said(wire, Head(lines), x, what) \in Seq(Event)
             /\ Quiet(Said(wire, Head(lines), x, what))
  <2>1. ShowOnly(x, Head(lines).sid)
    BY <1>3 DEF ShowOnly
  <2> QED
    BY <1>2, <2>1, SaidKeeps
<1>4. <<>> \in Seq(Event)
  OBVIOUS
<1> QED
  BY <1>1, <1>3, <1>4

LEMMA ManageKeeps ==
    ASSUME Inv, NEW kind, Take(kind), kind # "decision", NEW s \in Sids, NEW replayed \in 0..1,
           Head(lines).sid \in {s, NoSession}, Manage(s, replayed)
    PROVE  Inv'
<1>1. wire' \in Seq(Event) /\ Quiet(wire')
  <2>1. 1 + replayed \in Nat
    OBVIOUS
  <2>2. Updates(s, 1 + replayed) \in Seq(Event) /\ ShowOnly(Updates(s, 1 + replayed), s)
    BY <2>1, UpdatesType
  <2>3. wire \in Seq(Event) /\ Quiet(wire) /\ Head(lines) \in Line /\ Head(lines).kind # "decision"
    BY TakeFacts, HeadType DEF Inv, TypeInv
  <2>4. wire' = Said(wire, Head(lines), Updates(s, 1 + replayed), "result")
    BY DEF Manage, Reply, Said
  <2>5. /\ Said(wire, Head(lines), Updates(s, 1 + replayed), "result") \in Seq(Event)
        /\ Quiet(Said(wire, Head(lines), Updates(s, 1 + replayed), "result"))
    BY <2>2, <2>3, SaidKeeps DEF Answers
  <2> QED
    BY <2>4, <2>5
<1>2. TypeInv'
  <2>1. created' = created + 1 /\ created \in Nat
    BY DEF Manage, Inv, TypeInv
  <2>2. 0..created \subseteq 0..created' /\ 1..created \subseteq 1..created' /\ created + 1 \in 0..created'
    BY <2>1
  <2>3. sessions' \in [Sids -> 0..created']
    BY <2>2 DEF Manage, Inv, TypeInv, TypeOK
  <2>4. closed' \subseteq 1..created' /\ current' \subseteq 1..created'
    BY <2>2 DEF Manage, Stay, Inv, TypeInv, TypeOK
  <2>5. lines' \in Seq(Line)
    BY TakeFacts
  <2>6. UNCHANGED <<auto, sent, replied, eof, request, interrupted, at, askVars, turnVars>>
    BY DEF Manage, Stay, Take
  <2>7. TypeOK
    BY DEF Inv, TypeInv
  <2>8. UNCHANGED <<pending, asked, waiting, turn, who, events>>
    BY <2>6 DEF askVars, turnVars
  <2>9. auto' \in BOOLEAN /\ eof' \in BOOLEAN /\ interrupted' \in BOOLEAN
    BY <2>6, <2>7 DEF TypeOK
  <2>10. sent' \in 0..MaxLines /\ request' \in 0..MaxLines /\ events' \in 0..MaxEvents
    BY <2>6, <2>7, <2>8 DEF TypeOK
  <2>11. /\ at' \in {"reading", "prompting", "closing", "stopped"}
         /\ turn' \in {"none", "running", "done", "failed", "cut"}
         /\ who' \in Sids \cup {NoSession}
    BY <2>6, <2>7, <2>8 DEF TypeOK
  <2>12. waiting' \subseteq pending' /\ pending' \subseteq 1..asked' /\ replied' \subseteq 1..asked'
    BY <2>6, <2>7, <2>8 DEF TypeOK
  <2>13. TypeOK'
    BY <2>3, <2>4, <2>9, <2>10, <2>11, <2>12 DEF TypeOK
  <2>14. asked' \in Nat /\ created' \in Nat
    BY <2>1, <2>8 DEF Inv, TypeInv
  <2> QED
    BY <1>1, <2>5, <2>13, <2>14 DEF TypeInv
<1>3. Control'
  BY TakeFacts DEF Manage, Stay, Inv, Control, ControllerTracksPrompt, askVars, turnVars
<1>4. WireInv'
  BY <1>1, TakeFacts DEF WireInv, Manage, Stay
<1> QED
  BY <1>2, <1>3, <1>4 DEF Inv

\* Steps that touch neither the wire nor the prompt.
LEMMA ElsewhereKeeps ==
    ASSUME Inv, UNCHANGED <<at, wire, request, turn, who, current, sessions, waiting>>
    PROVE  Control' /\ WireInv'
BY DEF Inv, Control, ControllerTracksPrompt, WireInv

\* While the turn runs, its events add to the wire inside the exchange.
LEMMA EventKeeps ==
    ASSUME Inv, TurnRuns, NEW x \in Seq(Event), ShowOnly(x, who), wire' = wire \o x
    PROVE  wire' \in Seq(Event) /\ WireInv'
<1>1. at = "prompting" /\ UNCHANGED <<at, who, request>>
  BY DEF Inv, Control, TurnRuns
<1>2. wire \in Seq(Event)
  BY DEF Inv, TypeInv
<1>3. PICK r \in DOMAIN wire : Awaiting(wire, r, who, request)
  BY <1>1 DEF Inv, WireInv
<1>4. Awaiting(wire \o x, r, who, request)
  BY <1>2, <1>3, ShowsInside
<1>5. r \in DOMAIN wire'
  BY <1>4 DEF Awaiting
<1> QED
  BY <1>1, <1>2, <1>4, <1>5, Grown DEF WireInv

LEMMA InvStep == Inv /\ [Next]_vars => Inv'
<1> SUFFICES ASSUME Inv, [Next]_vars PROVE Inv'
  OBVIOUS
<1> USE AcpAssumption
<1>1. CASE SendLine
  <2>1. lines' \in Seq(Line)
    <3>1. PICK line \in Requests \cup OtherLines : lines' = Append(lines, Numbered(line))
      BY <1>1 DEF SendLine
    <3>2. Numbered(line) \in Line
      BY <1>1, NumberedType DEF SendLine, Inv, TypeInv, TypeOK
    <3> QED
      BY <3>1, <3>2 DEF Inv, TypeInv
  <2>2. sent' \in 0..MaxLines
    BY <1>1 DEF SendLine, Inv, TypeInv, TypeOK
  <2>3. UNCHANGED <<auto, replied, eof, at, wire, request, tableVars, current, askVars, turnVars, interrupted>>
    BY <1>1 DEF SendLine
  <2>4. TypeInv'
    BY <2>1, <2>2, <2>3 DEF Inv, TypeInv, TypeOK, tableVars, askVars, turnVars
  <2> QED
    BY <2>3, <2>4, ElsewhereKeeps DEF tableVars, askVars, turnVars, Inv
<1>2. CASE AnswerPermission
  <2>1. PICK p \in (1..asked) \ replied, yes \in BOOLEAN :
          /\ replied' = replied \cup {p}
          /\ lines' = Append(lines, [kind |-> "decision", sid |-> NoSession, id |-> p, yes |-> yes])
    BY <1>2 DEF AnswerPermission
  <2>2. p \in Nat /\ [kind |-> "decision", sid |-> NoSession, id |-> p, yes |-> yes] \in Line
    BY <2>1 DEF Inv, TypeInv, Line
  <2>3. lines' \in Seq(Line)
    BY <2>1, <2>2 DEF Inv, TypeInv
  <2>4. UNCHANGED <<auto, sent, eof, at, wire, request, tableVars, current, askVars, turnVars, interrupted>>
    BY <1>2 DEF AnswerPermission
  <2>5. TypeInv'
    BY <2>1, <2>3, <2>4 DEF Inv, TypeInv, TypeOK, tableVars, askVars, turnVars
  <2> QED
    BY <2>4, <2>5, ElsewhereKeeps DEF tableVars, askVars, turnVars, Inv
<1>3. CASE CloseStdin
  <2>1. eof' \in BOOLEAN
    BY <1>3, Zenon DEF CloseStdin
  <2>2. UNCHANGED <<auto, lines, sent, replied, at, wire, request, tableVars, current, askVars, turnVars,
                    interrupted>>
    BY <1>3 DEF CloseStdin
  <2>3. TypeInv'
    BY <2>1, <2>2 DEF Inv, TypeInv, TypeOK, tableVars, askVars, turnVars
  <2> QED
    BY <2>2, <2>3, ElsewhereKeeps DEF tableVars, askVars, turnVars, Inv
<1>4. CASE Reject
  <2> DEFINE e == AnswerEvent(0, "error")
  <2>1. Take("malformed") /\ wire' = Append(wire, e) /\ UNCHANGED tableVars /\ Stay
    BY <1>4 DEF Reject
  <2>2. e \in Event /\ e.kind = "answer" /\ e.id = 0
    <3>1. 0 \in 0..MaxLines /\ "error" \in Answers
      BY DEF Answers
    <3> QED
      BY <3>1, AnswerType
  <2>3. wire \in Seq(Event) /\ Quiet(wire)
    BY <2>1, TakeFacts DEF Inv, TypeInv
  <2> HIDE DEF e
  <2>4. wire' = wire \o <<e>> /\ wire \o <<e>> \in Seq(Event)
    BY <2>1, <2>2, <2>3, AppendOne
  <2>5. Quiet(wire \o <<e>>)
    BY <2>2, <2>3, RejectionKeeps
  <2> QED
    BY <2>1, <2>4, <2>5, TakeKeeps DEF Stay
<1>5. CASE IgnoreNotification
  <2>1. Take("notification") /\ wire' = wire /\ UNCHANGED tableVars /\ Stay
    BY <1>5 DEF IgnoreNotification
  <2>2. wire' \in Seq(Event) /\ Quiet(wire')
    BY <2>1, TakeFacts DEF Inv, TypeInv
  <2> QED
    BY <2>1, <2>2, TakeKeeps DEF Stay
<1>6. ASSUME NEW kind, kind # "decision", Take(kind), NEW what \in Answers, Reply(<<>>, what),
             UNCHANGED tableVars, Stay
      PROVE  Inv'
  <2>1. wire' \in Seq(Event) /\ Quiet(wire')
    BY <1>6, ReplyNothing
  <2> QED
    BY <1>6, <2>1, TakeKeeps DEF Stay
<1>7. CASE AnswerSimple
  <2>1. PICK what \in {"result", "error"} : Reply(<<>>, what)
    BY <1>7 DEF AnswerSimple
  <2> QED
    BY <1>6, <1>7, <2>1 DEF AnswerSimple, Answers
<1>8. ASSUME NEW kind \in {"new", "load"}, BadDirectory(kind)
      PROVE  Inv'
  BY <1>6, <1>8 DEF BadDirectory, Answers
<1>9. ASSUME NEW kind \in {"cancel", "prompt"}, UnknownSession(kind)
      PROVE  Inv'
  BY <1>6, <1>9 DEF UnknownSession, Answers
<1>10. CASE NewSession
  <2>1. ASSUME Take("new"), NEW s \in Sids, Manage(s, 0)
        PROVE  Inv'
    <3>1. 0 \in 0..1 /\ Head(lines).sid = NoSession
      BY <2>1, TakeFacts
    <3> QED
      BY <2>1, <3>1, ManageKeeps
  <2> QED
    BY <1>8, <1>10, <2>1 DEF NewSession
<1>11. CASE LoadSession
  <2>1. ASSUME Take("load"), NEW replayed \in 0..1, Manage(Head(lines).sid, replayed)
        PROVE  Inv'
    BY <2>1, TakeFacts, ManageKeeps
  <2> QED
    BY <1>8, <1>11, <2>1 DEF LoadSession
<1>12. CASE Cancel
  <2>1. ASSUME Take("cancel"), NEW what \in Answers, Reply(<<>>, what),
               current' = current \ {sessions[Head(lines).sid]},
               UNCHANGED <<at, tableVars, askVars, turnVars>>
        PROVE  Inv'
    <3>1. current = {} /\ current' = current
      BY <2>1, TakeFacts
    <3> QED
      BY <1>6, <2>1, <3>1 DEF Stay
  <2> QED
    BY <1>9, <1>12, <2>1 DEF Cancel, Answers
<1>13. CASE Prompt
  <2>1. ASSUME at = "reading", lines # <<>>, Head(lines).kind = "prompt",
               sessions[Head(lines).sid] # 0,
               lines' = Tail(lines), wire' = Append(wire, ReadEvent(Head(lines))),
               request' = Head(lines).id, at' = "prompting", turn' = "running",
               who' = Head(lines).sid, events' = 0,
               current' = current \cup {sessions[Head(lines).sid]},
               UNCHANGED <<auto, sent, replied, eof, tableVars, askVars, interrupted>>
        PROVE  Inv'
    <3> DEFINE e == ReadEvent(Head(lines))
    <3>1. /\ Head(lines) \in Line /\ Tail(lines) \in Seq(Line)
          /\ Head(lines).sid \in Sids /\ Head(lines).id \in 0..MaxLines
      BY <2>1, HeadType DEF Inv, TypeInv
    <3>2. e \in Event /\ e.kind = "read" /\ e.sid = who' /\ e.id = request'
      BY <2>1, <3>1, ReadType
    <3>3. wire \in Seq(Event) /\ Quiet(wire) /\ current = {} /\ waiting = {}
      BY <2>1 DEF Inv, TypeInv, WireInv, Control, ControllerTracksPrompt
    <3>4. wire' = wire \o <<e>>
      BY <2>1, <3>2, <3>3, AppendOne
    <3> HIDE DEF e
    <3>5. Awaiting(wire \o <<e>>, Len(wire) + 1, who', request') /\ wire \o <<e>> \in Seq(Event)
      BY <3>2, <3>3, AppendOne, ReadOpens
    <3>6. Len(wire) + 1 \in DOMAIN (wire \o <<e>>)
      BY <3>5 DEF Awaiting
    <3>7. WireInv'
      BY <2>1, <3>4, <3>5, <3>6 DEF WireInv
    <3>8. sessions[Head(lines).sid] \in 1..created
      BY <2>1, <3>1 DEF Inv, TypeInv, TypeOK
    <3>9. TypeInv'
      <4>1. 0 \in 0..MaxEvents
        OBVIOUS
      <4> QED
        BY <2>1, <3>1, <3>4, <3>5, <3>8, <4>1 DEF Inv, TypeInv, TypeOK, tableVars, askVars
    <3>10. Control'
      BY <2>1, <3>1, <3>3 DEF Control, ControllerTracksPrompt, tableVars, askVars
    <3> QED
      BY <3>7, <3>9, <3>10 DEF Inv
  <2> QED
    BY <1>9, <1>13, <2>1 DEF Prompt
<1>14. CASE ReadDecision
  <2>1. Take("decision") /\ waiting = {} /\ Quiet(wire)
    BY <1>14, TakeFacts DEF ReadDecision
  <2>2. TypeInv'
    BY <1>14, TakeFacts DEF ReadDecision, Take, Inv, TypeInv, TypeOK, tableVars, turnVars
  <2>3. Control'
    BY <1>14, <2>1 DEF ReadDecision, Inv, Control, ControllerTracksPrompt, tableVars, turnVars
  <2>4. WireInv'
    BY <1>14, <2>1 DEF ReadDecision, Take, WireInv
  <2> QED
    BY <2>2, <2>3, <2>4 DEF Inv
<1>15. CASE ReadEof
  <2>1. TypeInv'
    BY <1>15 DEF ReadEof, Inv, TypeInv, TypeOK, clientVars, tableVars, askVars, turnVars
  <2>2. Control'
    BY <1>15 DEF ReadEof, Inv, Control, ControllerTracksPrompt, tableVars, askVars, turnVars
  <2>3. WireInv'
    BY <1>15 DEF ReadEof, Inv, WireInv
  <2> QED
    BY <2>1, <2>2, <2>3 DEF Inv
<1>16. CASE Emit
  <2>1. PICK n \in EventUpdates : wire' = wire \o Updates(who, n)
    BY <1>16 DEF Emit
  <2>2. who \in Sids /\ n \in Nat
    BY <1>16, <2>1 DEF Emit, TurnRuns, Inv, Control, EventUpdates
  <2>3. Updates(who, n) \in Seq(Event) /\ ShowOnly(Updates(who, n), who)
    BY <2>2, UpdatesType
  <2>4. wire' \in Seq(Event) /\ WireInv'
    BY <1>16, <2>1, <2>3, EventKeeps DEF Emit
  <2>5. events' \in 0..MaxEvents
    BY <1>16 DEF Emit, Inv, TypeInv, TypeOK
  <2>6. UNCHANGED <<auto, clientVars, at, request, tableVars, current, who, interrupted, askVars, turn>>
    BY <1>16 DEF Emit, TurnRuns
  <2>7. TypeInv'
    BY <2>4, <2>5, <2>6 DEF Inv, TypeInv, TypeOK, clientVars, tableVars, askVars
  <2>8. Control'
    BY <2>6 DEF Inv, Control, ControllerTracksPrompt, tableVars, askVars
  <2> QED
    BY <2>4, <2>7, <2>8 DEF Inv
<1>17. CASE Ask
  <2> DEFINE e == AskEvent(who, asked + 1)
  <2>1. turn = "running" /\ who \in Sids /\ asked \in Nat /\ wire \in Seq(Event)
    BY <1>17 DEF Ask, TurnRuns, Inv, Control, TypeInv
  <2>2. e \in Event /\ Shows(e) /\ e.sid = who
    BY <2>1 DEF AskEvent, Event, Shows
  <2>3. wire' = Append(wire, e)
    BY <1>17 DEF Ask
  <2> HIDE DEF e
  <2>4. <<e>> \in Seq(Event) /\ ShowOnly(<<e>>, who) /\ wire' = wire \o <<e>>
    BY <2>1, <2>2, <2>3, AppendOne DEF ShowOnly
  <2>5. wire' \in Seq(Event) /\ WireInv'
    <3>1. ASSUME NEW x \in Seq(Event), x = <<e>>
          PROVE  wire' \in Seq(Event) /\ WireInv'
      BY <1>17, <2>4, <3>1, EventKeeps DEF Ask
    <3> QED
      BY <2>4, <3>1
  <2>6. events' \in 0..MaxEvents
    BY <1>17 DEF Ask, Inv, TypeInv, TypeOK
  <2>7. /\ UNCHANGED <<auto, clientVars, at, request, tableVars, current, who, interrupted, turn>>
        /\ asked' = asked + 1 /\ pending' = pending \cup {asked + 1}
        /\ waiting' = waiting \cup {asked + 1}
    BY <1>17 DEF Ask, TurnRuns
  <2>8. TypeInv'
    <3>1. 1..asked \subseteq 1..asked' /\ asked' \in Nat /\ asked + 1 \in 1..asked'
      BY <2>1, <2>7
    <3> QED
      BY <2>5, <2>6, <2>7, <3>1 DEF Inv, TypeInv, TypeOK, clientVars, tableVars
  <2>9. Control'
    BY <2>1, <2>7 DEF Inv, Control, ControllerTracksPrompt, tableVars
  <2> QED
    BY <2>5, <2>8, <2>9 DEF Inv
<1>18. CASE EndTurn
  <2>1. /\ turn = "running" /\ turn' \in {"done", "failed"} /\ waiting = {}
        /\ UNCHANGED <<auto, clientVars, at, request, tableVars, current, who, interrupted, wire,
                       askVars, events>>
    BY <1>18 DEF EndTurn, TurnRuns
  <2>2. TypeInv'
    BY <2>1 DEF Inv, TypeInv, TypeOK, clientVars, tableVars, askVars
  <2>3. Control' /\ WireInv'
    BY <2>1 DEF Inv, Control, ControllerTracksPrompt, WireInv, tableVars, askVars
  <2> QED
    BY <2>2, <2>3 DEF Inv
<1>19. CASE PromptReturns
  <2>1. /\ at = "prompting" /\ turn \in {"done", "failed", "cut"} /\ waiting = {}
        /\ who \in Sids /\ request \in 0..MaxLines /\ wire \in Seq(Event)
        /\ current = {sessions[who]}
    BY <1>19 DEF PromptReturns, Return, Inv, Control, ControllerTracksPrompt, TypeInv, TypeOK
  <2>2. PICK r \in DOMAIN wire : Awaiting(wire, r, who, request)
    BY <2>1 DEF Inv, WireInv
  <2>3. ASSUME NEW w \in Seq(Event), Awaiting(w, r, who, request), NEW what \in Answers,
               wire' = w \o <<AnswerEvent(request, what)>>
        PROVE  wire' \in Seq(Event) /\ Quiet(wire')
    <3> DEFINE e == AnswerEvent(request, what)
    <3>1. e \in Event /\ e.kind = "answer" /\ e.id = request
      BY <2>1, AnswerType
    <3> HIDE DEF e
    <3>2. Quiet(w \o <<e>>) /\ w \o <<e>> \in Seq(Event)
      BY <2>3, <3>1, AnswerCloses, AppendOne
    <3> QED
      BY <2>3, <3>2 DEF e
  <2>4. wire' \in Seq(Event) /\ Quiet(wire')
    <3>1. CASE turn = "done"
      <4> DEFINE u == Update(who)
                 a == AnswerEvent(request, "end_turn")
      <4>1. u \in Event /\ a \in Event /\ Shows(u) /\ u.sid = who
        BY <2>1, AnswerType DEF Update, Event, Shows, Answers
      <4>2. wire' = wire \o <<u, a>>
        BY <1>19, <3>1 DEF PromptReturns, Return, Outcome
      <4> HIDE DEF u, a
      <4>3. <<u>> \in Seq(Event) /\ <<a>> \in Seq(Event)
        <5>1. \A e \in Event : <<e>> \in Seq(Event)
          OBVIOUS
        <5> QED
          BY <4>1, <5>1
      <4>4. wire' = (wire \o <<u>>) \o <<a>>
        <5>1. <<u, a>> = <<u>> \o <<a>>
          <6> DEFINE x == <<u>>
                     y == <<a>>
                     z == <<u, a>>
          <6>1. x \in Seq(Event) /\ y \in Seq(Event) /\ Len(x) = 1 /\ Len(y) = 1
            BY <4>3
          <6>2. x[1] = u /\ y[1] = a /\ Len(z) = 2 /\ z[1] = u /\ z[2] = a
            OBVIOUS
          <6>4. z \in Seq(Event)
            <7>1. \A e, f \in Event : <<e, f>> \in Seq(Event)
              OBVIOUS
            <7> QED
              BY <4>1, <7>1
          <6> HIDE DEF x, y, z
          <6>3. /\ x \o y \in Seq(Event) /\ Len(x \o y) = 2
                /\ (x \o y)[1] = u /\ (x \o y)[2] = a
            BY <6>1, <6>2, ConcatProperties
          <6>5. \A i \in 1..Len(z) : z[i] = (x \o y)[i]
            BY <6>2, <6>3
          <6>6. z = x \o y
            BY <6>2, <6>3, <6>4, <6>5, SeqEqual
          <6> QED
            BY <6>6 DEF x, y, z
        <5>2. wire \o (<<u>> \o <<a>>) = (wire \o <<u>>) \o <<a>>
          BY <2>1, <4>3, ConcatAssociative
        <5> QED
          BY <4>2, <5>1, <5>2
      <4>5. ASSUME NEW x \in Seq(Event), x = <<u>>
            PROVE  wire \o x \in Seq(Event) /\ Awaiting(wire \o x, r, who, request)
        <5>1. ShowOnly(x, who)
          BY <4>1, <4>5 DEF ShowOnly
        <5> QED
          BY <2>1, <2>2, <5>1, ShowsInside, Grown
      <4> QED
        BY <2>3, <4>3, <4>4, <4>5 DEF a, Answers
    <3>2. CASE turn = "cut"
      BY <1>19, <2>1, <2>2, <2>3, <3>2 DEF PromptReturns, Return, Outcome, Answers
    <3>3. CASE turn = "failed"
      BY <1>19, <2>1, <2>2, <2>3, <3>3 DEF PromptReturns, Return, Outcome, Answers
    <3> QED
      BY <2>1, <3>1, <3>2, <3>3
  <2>5. /\ at' = "reading" /\ request' = 0 /\ turn' = "none" /\ who' = NoSession /\ events' = 0
        /\ current' = current \ {sessions[who]}
        /\ UNCHANGED <<auto, clientVars, tableVars, askVars, interrupted>>
    BY <1>19 DEF PromptReturns, Return
  <2>6. TypeInv'
    <3>1. 0 \in 0..MaxLines /\ 0 \in 0..MaxEvents
      OBVIOUS
    <3> QED
      BY <2>4, <2>5, <3>1 DEF Inv, TypeInv, TypeOK, clientVars, tableVars, askVars
  <2>7. Control'
    BY <2>1, <2>5 DEF Control, ControllerTracksPrompt, askVars
  <2> QED
    BY <2>4, <2>5, <2>6, <2>7 DEF Inv, WireInv
<1>20. CASE Interrupt
  <2>1. interrupted' \in BOOLEAN
    BY <1>20, Zenon DEF Interrupt
  <2>2. /\ waiting' \in {waiting, {}}
        /\ \/ at = "reading" /\ at' = "closing" /\ turn' = turn /\ waiting' = waiting
           \/ at = "closing" /\ at' = "stopped" /\ turn' = turn /\ waiting' = waiting
           \/ at = "prompting" /\ at' = at /\ turn' = "cut" /\ waiting' = {}
           \/ waiting' = {} /\ at' = at /\ turn' = turn
        /\ UNCHANGED <<auto, clientVars, wire, request, tableVars, current, pending, asked, who, events>>
    BY <1>20 DEF Interrupt
  <2>3. TypeInv'
    BY <2>1, <2>2 DEF Inv, TypeInv, TypeOK, clientVars, tableVars
  <2>4. Control'
    BY <2>2 DEF Inv, Control, ControllerTracksPrompt, tableVars
  <2>5. WireInv'
    BY <2>2 DEF Inv, WireInv
  <2> QED
    BY <2>3, <2>4, <2>5 DEF Inv
<1>21. CASE CloseSession
  <2>1. PICK m \in Managed \ closed :
          /\ at = "closing" /\ at' \in {"closing", "stopped"} /\ closed' \in {closed, closed \cup {m}}
          /\ UNCHANGED <<auto, clientVars, wire, request, sessions, created, current, askVars,
                         turnVars, interrupted>>
    BY <1>21 DEF CloseSession
  <2>2. m \in 1..created
    BY <2>1 DEF Managed, Inv, TypeInv, TypeOK
  <2>3. TypeInv'
    BY <2>1, <2>2 DEF Inv, TypeInv, TypeOK, clientVars, askVars, turnVars
  <2>4. Control' /\ WireInv'
    BY <2>1 DEF Inv, Control, ControllerTracksPrompt, WireInv, askVars, turnVars
  <2> QED
    BY <2>3, <2>4 DEF Inv
<1>22. CASE Stop
  <2>1. /\ at = "closing" /\ at' = "stopped" /\ sessions' = [s \in Sids |-> 0]
        /\ UNCHANGED <<auto, clientVars, wire, request, created, closed, current, askVars, turnVars,
                       interrupted>>
    BY <1>22 DEF Stop
  <2>2. sessions' \in [Sids -> 0..created']
    BY <2>1 DEF Inv, TypeInv
  <2>3. TypeInv'
    BY <2>1, <2>2 DEF Inv, TypeInv, TypeOK, clientVars, askVars, turnVars
  <2>4. Control' /\ WireInv'
    BY <2>1 DEF Inv, Control, ControllerTracksPrompt, WireInv, askVars, turnVars
  <2> QED
    BY <2>3, <2>4 DEF Inv
<1>23. CASE UNCHANGED vars
  <2>1. TypeInv'
    BY <1>23 DEF Inv, TypeInv, TypeOK, vars, clientVars, tableVars, askVars, turnVars
  <2> QED
    BY <1>23, <2>1, ElsewhereKeeps DEF vars, tableVars, askVars, turnVars, Inv
<1> QED
  BY <1>1, <1>2, <1>3, <1>4, <1>5, <1>7, <1>10, <1>11, <1>12, <1>13, <1>14, <1>15, <1>16, <1>17,
     <1>18, <1>19, <1>20, <1>21, <1>22, <1>23 DEF Next, ReadLine, TurnStep
-----------------------------------------------------------------------------
LEMMA InvHolds == Spec => []Inv
BY InvInit, InvStep, PTL DEF Spec

\* Every variable keeps its type, and a turn waits only for permission
\* requests whose answer the server can still route to it.
THEOREM ServerTypeCorrect == Spec => []TypeOK
<1>1. Inv => TypeOK
  BY DEF Inv, TypeInv
<1> QED
  BY <1>1, InvHolds, PTL

\* handle_line: whatever the client pipelines and however turns end, requests
\* are answered once each, in order, one before the next is read.
THEOREM AnswersComeInOrder == Spec => []AnsweredInOrder
<1>1. Inv => AnsweredInOrder
  <2> SUFFICES ASSUME Inv PROVE AnsweredInOrder
    OBVIOUS
  <2>1. AnswersPaired(wire)
    BY DEF Inv, WireInv, Quiet, Awaiting
  <2>2. ASSUME NEW j \in DOMAIN wire, wire[j].kind = "read"
        PROVE  \/ \E k \in DOMAIN wire : j < k /\ Exchange(wire, j, k)
               \/ at = "prompting" /\ wire[j].id = request /\ OnlyShows(wire, j, Len(wire))
    <3>1. CASE at = "prompting"
      BY <2>2, <3>1 DEF Inv, WireInv, Awaiting, SettledBut, Settled
    <3>2. CASE at # "prompting"
      <4>1. j # 0
        BY DEF Inv, TypeInv
      <4> QED
        BY <2>2, <3>2, <4>1 DEF Inv, WireInv, Quiet, SettledBut, Settled
    <3> QED
      BY <3>1, <3>2
  <2> QED
    BY <2>1, <2>2 DEF AnsweredInOrder, AnswersPaired
<1> QED
  BY <1>1, InvHolds, PTL

\* _send_update and request_client: what the server shows of a session lies
\* between the line that asked for it and its answer.
THEOREM UpdatesStayInside == Spec => []UpdatesInside
<1>1. Inv => UpdatesInside
  BY DEF Inv, WireInv, Quiet, Awaiting, ShownInside, UpdatesInside
<1> QED
  BY <1>1, InvHolds, PTL

\* CancellationController: it holds the task of the prompt being handled and
\* never that of an earlier one; and no question outlives its turn.
THEOREM ControllerIsCurrent ==
    Spec => [](ControllerTracksPrompt /\ (waiting # {} => turn = "running"))
<1>1. Inv => ControllerTracksPrompt /\ (waiting # {} => turn = "running")
  BY DEF Inv, Control
<1> QED
  BY <1>1, InvHolds, PTL
-----------------------------------------------------------------------------
Places == {"off", "sessions", "delete", "over", "refused"} \cup Starting \cup Open
File == {Absent, Foreign} \cup Seq(Nat)

(* A process is somewhere in main(), with the state that belongs there; a  *)
(* file of a session is absent, foreign or a history.                      *)
DirectoryTypes ==
    /\ config \in {"absent", "empty", "whole"} /\ hasSkills \in BOOLEAN /\ skills \subseteq Skills
    /\ saved \in [Ids -> File] /\ said \in [Ids -> File] /\ prior \in [Ids -> File]
    /\ pc \in [Procs -> Places] /\ opts \in [Procs -> Options]
    /\ id \in [Procs -> Ids \cup {Absent}] /\ messages \in [Procs -> Seq(Nat)]
    /\ persist \in [Procs -> BOOLEAN] /\ known \in [Procs -> SUBSET Skills]
    /\ used \subseteq Ids /\ {turns, launches, faults} \subseteq Nat
    /\ overlap \in [Procs -> BOOLEAN] /\ spoiled \in BOOLEAN

(* Where a process is agrees with its options and its session.             *)
PlaceInv ==
    \A p \in Procs :
        /\ pc[p] \in Open => id[p] \in Ids
        /\ pc[p] = "delete" => opts[p].resume \in Ids
        /\ pc[p] \in {"saving", "rename"} => persist[p]

(* A session that is not shared has one user at most, who knows what its   *)
(* file holds; one that nobody has open, or only one that has given up its *)
(* store, was saved, or the save was cut off or failed.                    *)
Alone == \A i \in Ids \ shared : \A p, q \in Users(i) : p = q
Held ==
    \A i \in Ids \ shared : \A p \in Users(i) :
        /\ said[i] # Foreign
        /\ pc[p] = "ready" => saved[i] = said[i]
        /\ pc[p] \in {"saving", "rename"} => saved[i] = prior[i] /\ said[i] = messages[p]
Left ==
    \A i \in Ids \ shared :
        Users(i) = {} => saved[i] = said[i] \/ (saved[i] = prior[i] /\ i \in cut)
ForeignStays == \A i \in Ids \ shared : prior[i] = Foreign => said[i] = Foreign

(* The id of a new session is not that of a foreign file.                  *)
ForeignKnown == \A i \in Ids : saved[i] = Foreign => i \in used

SessionInv == PlaceInv /\ Alone /\ Held /\ Left /\ ForeignStays /\ ForeignKnown

(* Who is not overlapped starts alone.                                     *)
StartsAlone ==
    \A p, q \in Procs : p # q /\ pc[p] \in Starting /\ ~overlap[p] => pc[q] \notin Starting

(* What is missing in the skills directory, someone has still to copy.     *)
CopyInv ==
    \A p \in Procs :
        /\ pc[p] \in {"update", "skills", "make", "copy"} => known[p] \cup skills = Skills
        /\ pc[p] \in {"copy", "load"} => hasSkills

(* Unless a start was cut off, who left a file incomplete is still at it.  *)
Completes ==
    ~spoiled =>
        /\ config = "empty" => \E p \in Procs : pc[p] = "fill"
        /\ hasSkills /\ skills # Skills => \E p \in Procs : pc[p] \in {"copy", "update"}

Undisturbed ==
    ~spoiled => \A p \in Procs :
        ~overlap[p] =>
            /\ pc[p] = "make" => ~hasSkills
            /\ pc[p] # "refused"
            /\ pc[p] \in Open => known[p] = Skills

StartInv == StartsAlone /\ CopyInv /\ Completes /\ Undisturbed

CliInv == DirectoryTypes /\ SessionInv /\ StartInv
-----------------------------------------------------------------------------
USE DEF Goto, disk, own, counters, conversation, marks, Starting, Open

(* Initially nobody has started. *)
LEMMA CliInvInit == CliInit => CliInv
<1>1. CliInit => DirectoryTypes
  <2> SUFFICES ASSUME CliInit PROVE DirectoryTypes
    OBVIOUS
  <2>1. pc \in [Procs -> Places]
    BY DEF CliInit, Places
  <2>3. opts \in [Procs -> Options]
    <3>1. [do |-> "sessions", resume |-> Absent, temp |-> FALSE] \in Options
      BY DEF Options
    <3>2. opts \in [Procs -> {[do |-> "sessions", resume |-> Absent, temp |-> FALSE]}]
      BY DEF CliInit
    <3> QED
      BY <3>1, <3>2
  <2>4. overlap \in [Procs -> BOOLEAN] /\ persist \in [Procs -> BOOLEAN] /\ known \in [Procs -> SUBSET Skills]
    BY DEF CliInit
  <2>2. /\ saved \in [Ids -> File] /\ said \in [Ids -> File] /\ prior \in [Ids -> File]
        /\ id \in [Procs -> Ids \cup {Absent}] /\ messages \in [Procs -> Seq(Nat)]
    BY DEF CliInit, File
  <2>5. config \in {"absent", "empty", "whole"} /\ skills \subseteq Skills /\ used \subseteq Ids
        /\ {turns, launches, faults} \subseteq Nat
    BY DEF CliInit
  <2>6. hasSkills \in BOOLEAN /\ spoiled \in BOOLEAN
    BY Zenon DEF CliInit
  <2> QED
    BY <2>1, <2>2, <2>3, <2>4, <2>5, <2>6 DEF DirectoryTypes
<1>2. CliInit => SessionInv
  BY DEF CliInit, SessionInv, PlaceInv, Alone, Held, Left, ForeignStays, ForeignKnown, Users
<1>3. CliInit => StartInv
  BY DEF CliInit, StartInv, StartsAlone, CopyInv, Completes, Undisturbed
<1> QED
  BY <1>1, <1>2, <1>3 DEF CliInv

(* Every step leaves a process somewhere in main() and files as files. *)
LEMMA TypeStep == DirectoryTypes /\ PlaceInv /\ [CliNext]_cliVars => DirectoryTypes'
<1> SUFFICES ASSUME DirectoryTypes, PlaceInv, [CliNext]_cliVars PROVE DirectoryTypes'
  OBVIOUS
<1> USE DEF DirectoryTypes, Places
<1>1. CASE UNCHANGED cliVars
  BY <1>1 DEF cliVars
<1>2. ASSUME NEW p \in Procs, NEW o \in Options, Launch(p, o) PROVE DirectoryTypes'
  <2>1. pc' \in [Procs -> Places]
    BY <1>2 DEF Launch
  <2>2. opts' \in [Procs -> Options]
    BY <1>2 DEF Launch
  <2>3. overlap' \in [Procs -> BOOLEAN]
    BY <1>2, Zenon DEF Launch
  <2> HIDE DEF Places
  <2> QED
    BY <1>2, <2>1, <2>2, <2>3 DEF Launch
<1>3. ASSUME NEW p \in Procs, CheckConfig(p) \/ CreateConfig(p) \/ FillConfig(p) PROVE DirectoryTypes'
  BY <1>3 DEF CheckConfig, CreateConfig, FillConfig
<1>4. ASSUME NEW p \in Procs, ReadConfig(p) PROVE DirectoryTypes'
  BY <1>4 DEF ReadConfig, Options
<1>5. ASSUME NEW p \in Procs, UpdateSkills(p) \/ CopySkill(p) PROVE DirectoryTypes'
  <2>1. pc' \in [Procs -> Places]
    BY <1>5 DEF UpdateSkills, CopySkill
  <2>2. skills' \subseteq Skills /\ known' \in [Procs -> SUBSET Skills]
    <3>1. \/ UNCHANGED <<skills, known>>
          \/ \E s \in known[p] :
               skills' = skills \cup {s} /\ known' = [known EXCEPT ![p] = known[p] \ {s}]
      BY <1>5, Zenon DEF UpdateSkills, CopySkill
    <3>2. known[p] \subseteq Skills
      OBVIOUS
    <3> QED
      BY <3>1, <3>2
  <2>3. hasSkills' = TRUE \/ hasSkills' = hasSkills
    BY <1>5, Zenon DEF UpdateSkills, CopySkill
  <2> HIDE DEF Places
  <2> QED
    BY <1>5, <2>1, <2>2, <2>3 DEF UpdateSkills, CopySkill
<1>6. ASSUME NEW p \in Procs, Delete(p) PROVE DirectoryTypes'
  BY <1>6 DEF Delete, File
<1>7. ASSUME NEW p \in Procs, ListSessions(p) \/ CheckSkills(p) \/ MakeSkills(p) \/ Quit(p)
      PROVE DirectoryTypes'
  BY <1>7 DEF ListSessions, CheckSkills, MakeSkills, Quit
<1>8. ASSUME NEW p \in Procs, Load(p) PROVE DirectoryTypes'
  <2>1. pc' \in [Procs -> Places] /\ known' \in [Procs -> SUBSET Skills]
    BY <1>8 DEF Load, SkillFiles
  <2>2. PICK i \in Ids :
          /\ id' = [id EXCEPT ![p] = i] /\ used' = used \cup {i}
          /\ \E stores \in BOOLEAN : persist' = [persist EXCEPT ![p] = stores]
          /\ \E loads \in BOOLEAN :
               messages' = [messages EXCEPT ![p] = IF loads THEN History(saved[i]) ELSE <<>>]
          /\ \/ said' = [said EXCEPT ![i] = saved[i]] /\ prior' = [prior EXCEPT ![i] = saved[i]]
             \/ UNCHANGED <<said, prior>>
    BY <1>8 DEF Load, Options
  <2>3. saved[i] \in File /\ History(saved[i]) \in Seq(Nat) /\ <<>> \in Seq(Nat)
    BY DEF History, File
  <2>4. messages' \in [Procs -> Seq(Nat)]
    BY <2>2, <2>3
  <2>5. said' \in [Ids -> File] /\ prior' \in [Ids -> File]
    BY <2>2, <2>3
  <2>6. persist' \in [Procs -> BOOLEAN]
    BY <2>2
  <2> HIDE DEF Places
  <2> QED
    BY <1>8, <2>1, <2>2, <2>4, <2>5, <2>6 DEF Load
<1>9. ASSUME NEW p \in Procs, TakeTurn(p) \/ Clear(p) PROVE DirectoryTypes'
  <2>5. turns' \in Nat
    BY <1>9 DEF TakeTurn, Clear
  <2>0. messages[p] \in Seq(Nat) /\ Append(messages[p], turns') \in Seq(Nat) /\ <<>> \in Seq(Nat)
    BY <2>5
  <2>1. PICK new \in Seq(Nat) : Says(p, new)
    BY <1>9, <2>0, Zenon DEF TakeTurn, Clear
  <2>2. pc' \in [Procs -> Places]
    BY <2>1 DEF Says
  <2>3. said' \in [Ids -> File] /\ prior' \in [Ids -> File]
    <3>1. CASE ~persist[p]
      BY <2>1, <3>1 DEF Says
    <3>2. CASE persist[p] /\ id[p] \in Ids
      BY <2>1, <3>2 DEF Says, File
    <3>3. pc[p] \in Open => id[p] \in Ids
      BY DEF PlaceInv
    <3> QED
      BY <1>9, <3>1, <3>2, <3>3 DEF TakeTurn, Clear
  <2>4. messages' \in [Procs -> Seq(Nat)]
    BY <2>1 DEF Says
  <2> HIDE DEF Places
  <2> QED
    BY <1>9, <2>2, <2>3, <2>4, <2>5 DEF TakeTurn, Clear
<1>10. ASSUME NEW p \in Procs, WriteTemp(p) \/ Rename(p) PROVE DirectoryTypes'
  <2>1. pc' \in [Procs -> Places]
    BY <1>10 DEF WriteTemp, Rename
  <2>2. saved' \in [Ids -> File]
    <3>1. id[p] \in Ids /\ messages[p] \in File /\ saved[id[p]] \in File
      BY <1>10 DEF WriteTemp, Rename, PlaceInv, File
    <3>2. saved' = [saved EXCEPT ![id[p]] = saved[id[p]]] \/ saved' = [saved EXCEPT ![id[p]] = messages[p]]
      BY <1>10 DEF WriteTemp, Rename, WhileWritten
    <3> QED
      BY <3>1, <3>2
  <2> HIDE DEF Places
  <2> QED
    BY <1>10, <2>1, <2>2 DEF WriteTemp, Rename
<1>11. ASSUME NEW p \in Procs, Leave(p) PROVE DirectoryTypes'
  <2>1. pc' \in [Procs -> Places]
    BY <1>11 DEF Leave
  <2>2. opts' \in [Procs -> Options]
    BY <1>11 DEF Leave, Options
  <2> HIDE DEF Places
  <2> QED
    BY <1>11, <2>1, <2>2 DEF Leave
<1>12. ASSUME NEW p \in Procs, Crash(p) PROVE DirectoryTypes'
  BY <1>12 DEF Crash
<1>13. ASSUME NEW p \in Procs, SaveFails(p) PROVE DirectoryTypes'
  <2>1. pc' \in [Procs -> Places]
    BY <1>13 DEF SaveFails
  <2>2. persist' \in [Procs -> BOOLEAN] /\ faults' \in Nat
    BY <1>13 DEF SaveFails
  <2> HIDE DEF Places
  <2> QED
    BY <1>13, <2>1, <2>2 DEF SaveFails
<1> QED
  BY <1>1, <1>2, <1>3, <1>4, <1>5, <1>6, <1>7, <1>8, <1>9, <1>10, <1>11, <1>12, <1>13 DEF CliNext

(* A start that nothing disturbs stays undisturbed. *)
LEMMA StartStep == DirectoryTypes /\ StartInv /\ [CliNext]_cliVars => StartInv'
<1> SUFFICES ASSUME DirectoryTypes, StartInv, [CliNext]_cliVars PROVE StartInv'
  OBVIOUS
<1> USE DEF StartInv, StartsAlone, CopyInv, Completes, Undisturbed
<1>0. pc \in [Procs -> Places] /\ known \in [Procs -> SUBSET Skills] /\ overlap \in [Procs -> BOOLEAN]
  BY DEF DirectoryTypes
<1>1. CASE UNCHANGED cliVars
  BY <1>1 DEF cliVars
<1>2. ASSUME NEW p \in Procs, NEW o \in Options, Launch(p, o) PROVE StartInv'
  BY <1>0, <1>2 DEF Launch
<1>3. ASSUME NEW p \in Procs, CheckConfig(p) \/ CreateConfig(p) \/ FillConfig(p) PROVE StartInv'
  BY <1>0, <1>3 DEF CheckConfig, CreateConfig, FillConfig
<1>4. ASSUME NEW p \in Procs, ReadConfig(p) PROVE StartInv'
  <2>1. opts[p].do \in {"chat", "sessions", "update", "delete"}
    BY DEF DirectoryTypes, Options
  <2>2. \E l \in {"refused", "skills", "sessions", "update", "delete"} :
          pc' = [pc EXCEPT ![p] = l] /\ (l = "refused" => config = "empty")
    BY <1>4, <2>1 DEF ReadConfig, Parses
  <2>3. pc[p] = "read" /\ known' = [known EXCEPT ![p] = Skills]
        /\ UNCHANGED <<config, hasSkills, skills, overlap, spoiled>>
    BY <1>4 DEF ReadConfig
  <2>4. StartsAlone'
    BY <1>0, <2>2, <2>3
  <2>5. CopyInv' /\ Completes'
    BY <1>0, <2>2, <2>3 DEF DirectoryTypes
  <2>6. Undisturbed'
    BY <1>0, <2>2, <2>3
  <2> QED
    BY <2>4, <2>5, <2>6
<1>5. ASSUME NEW p \in Procs, UpdateSkills(p) \/ CopySkill(p) PROVE StartInv'
  <2>1. CASE known[p] = {}
    <3>1. /\ \/ pc[p] = "update" /\ hasSkills' = TRUE /\ pc' = [pc EXCEPT ![p] = "over"]
             \/ pc[p] = "copy" /\ hasSkills' = hasSkills /\ pc' = [pc EXCEPT ![p] = "load"]
          /\ UNCHANGED <<skills, known, config, overlap, spoiled>>
      BY <1>5, <2>1 DEF UpdateSkills, CopySkill
    <3>2. skills = Skills
      BY <2>1, <3>1
    <3>3. StartsAlone' /\ CopyInv'
      BY <1>0, <3>1
    <3>4. Completes'
      BY <1>0, <3>1, <3>2
    <3>5. Undisturbed'
      BY <1>0, <3>1
    <3> QED
      BY <3>3, <3>4, <3>5
  <2>2. CASE known[p] # {}
    <3>1. PICK s \in known[p] :
            /\ skills' = skills \cup {s} /\ known' = [known EXCEPT ![p] = known[p] \ {s}]
            /\ UNCHANGED <<pc, config, overlap, spoiled>> /\ pc[p] \in {"update", "copy"}
            /\ hasSkills' = TRUE \/ UNCHANGED hasSkills
      BY <1>5, <2>2, Zenon DEF UpdateSkills, CopySkill
    <3>3. StartsAlone' /\ CopyInv'
      BY <1>0, <3>1 DEF DirectoryTypes
    <3>4. Completes'
      BY <1>0, <3>1
    <3>5. Undisturbed'
      BY <1>0, <3>1
    <3> QED
      BY <3>3, <3>4, <3>5
  <2> QED
    BY <2>1, <2>2
<1>6. ASSUME NEW p \in Procs, Delete(p) PROVE StartInv'
  BY <1>0, <1>6 DEF Delete
<1>7. ASSUME NEW p \in Procs, ListSessions(p) \/ CheckSkills(p) PROVE StartInv'
  BY <1>0, <1>7 DEF ListSessions, CheckSkills
<1>13. ASSUME NEW p \in Procs, MakeSkills(p) \/ Quit(p) PROVE StartInv'
  BY <1>0, <1>13 DEF MakeSkills, Quit
<1>8. ASSUME NEW p \in Procs, Load(p) PROVE StartInv'
  BY <1>0, <1>8 DEF Load, SkillFiles
<1>9. ASSUME NEW p \in Procs, TakeTurn(p) \/ Clear(p) PROVE StartInv'
  BY <1>0, <1>9 DEF TakeTurn, Clear, Says
<1>10. ASSUME NEW p \in Procs, WriteTemp(p) \/ Rename(p) PROVE StartInv'
  BY <1>0, <1>10 DEF WriteTemp, Rename
<1>11. ASSUME NEW p \in Procs, Leave(p) PROVE StartInv'
  BY <1>0, <1>11 DEF Leave
<1>12. ASSUME NEW p \in Procs, Crash(p) PROVE StartInv'
  BY <1>0, <1>12 DEF Crash
<1>14. ASSUME NEW p \in Procs, SaveFails(p) PROVE StartInv'
  BY <1>0, <1>14 DEF SaveFails
<1> QED
  BY <1>1, <1>2, <1>3, <1>4, <1>5, <1>6, <1>7, <1>8, <1>9, <1>10, <1>11, <1>12, <1>13, <1>14 DEF CliNext
-----------------------------------------------------------------------------
(* Only what happens to a process that has a session open, or gets one,    *)
(* changes who uses which session.                                         *)

LEMMA UsersKept ==
    ASSUME DirectoryTypes, NEW p \in Procs, NEW l, pc[p] \notin Open, l \notin Open,
           pc' = [pc EXCEPT ![p] = l],
           \A q \in Procs \ {p} : id'[q] = id[q] /\ persist'[q] = persist[q]
    PROVE  \A i : Users(i)' = Users(i)
BY DEF Users, DirectoryTypes

(* Where nobody gains or loses a session, and no file changes, what is     *)
(* known of the sessions stays.                                            *)
LEMMA SessionKept ==
    ASSUME DirectoryTypes, SessionInv, NEW p \in Procs, NEW l, pc[p] \notin Open, l \notin Open,
           pc' = [pc EXCEPT ![p] = l], l = "delete" => opts'[p].resume \in Ids,
           \A q \in Procs \ {p} : UNCHANGED <<id[q], persist[q], opts[q], messages[q]>>,
           used \subseteq used', UNCHANGED <<saved, conversation>>
    PROVE  SessionInv'
<1>1. \A i : Users(i)' = Users(i)
  BY UsersKept
<1>2. \A q \in Procs : q # p => pc'[q] = pc[q]
  BY DEF DirectoryTypes
<1>3. pc'[p] = l
  BY DEF DirectoryTypes
<1>4. \A i : p \notin Users(i)
  BY DEF Users
<1>5. PlaceInv'
  BY <1>2, <1>3 DEF SessionInv, PlaceInv
<1>6. Alone' /\ Left' /\ ForeignStays' /\ ForeignKnown'
  BY <1>1 DEF SessionInv, Alone, Left, ForeignStays, ForeignKnown
<1>7. Held'
  <2> SUFFICES ASSUME NEW i \in Ids \ shared, NEW q \in Users(i)
               PROVE  /\ said[i] # Foreign
                      /\ pc'[q] = "ready" => saved[i] = said[i]
                      /\ pc'[q] \in {"saving", "rename"} => saved[i] = prior[i] /\ said[i] = messages'[q]
    BY <1>1 DEF Held
  <2>1. q \in Procs /\ q # p
    BY <1>4 DEF Users
  <2> QED
    BY <1>2, <2>1 DEF SessionInv, Held
<1> QED
  BY <1>5, <1>6, <1>7 DEF SessionInv

(* A deleted file is gone for whoever has the session open, too.           *)
LEMMA DeleteKeeps == ASSUME DirectoryTypes, SessionInv, NEW p \in Procs, Delete(p) PROVE SessionInv'
<1> DEFINE i == opts[p].resume
<1>1. i \in Ids
  BY DEF Delete, SessionInv, PlaceInv
<1>2. pc[p] = "delete" /\ pc' = [pc EXCEPT ![p] = "over"] /\ UNCHANGED <<id, persist, opts, messages, used, cut>>
  BY DEF Delete
<1>3. \A j : Users(j)' = Users(j)
  BY <1>2, UsersKept
<1>4. \A q \in Procs : q # p => pc'[q] = pc[q]
  BY <1>2
<1>5. pc'[p] = "over"
  BY <1>2 DEF DirectoryTypes
<1>6. \A j \in Ids \ shared' : j \notin shared /\ (j = i => Users(j) = {})
  BY DEF Delete
<1>7. \A j \in Ids : j # i => saved'[j] = saved[j] /\ said'[j] = said[j] /\ prior'[j] = prior[j]
  BY DEF Delete, DirectoryTypes
<1>8. saved'[i] = Absent /\ said'[i] = Absent /\ prior'[i] = Absent
  BY <1>1 DEF Delete, DirectoryTypes
<1> HIDE DEF i
<1>9. PlaceInv'
  BY <1>2, <1>4, <1>5 DEF SessionInv, PlaceInv
<1>10. Alone'
  BY <1>3, <1>6 DEF SessionInv, Alone
<1>11. Held'
  <2> SUFFICES ASSUME NEW j \in Ids \ shared', NEW q \in Users(j)
               PROVE  /\ said'[j] # Foreign
                      /\ pc'[q] = "ready" => saved'[j] = said'[j]
                      /\ pc'[q] \in {"saving", "rename"} => saved'[j] = prior'[j] /\ said'[j] = messages'[q]
    BY <1>3 DEF Held
  <2>1. q \in Procs /\ q # p /\ j \notin shared /\ j # i
    BY <1>2, <1>6 DEF Users
  <2> QED
    BY <1>2, <1>4, <1>7, <2>1 DEF SessionInv, Held
<1>12. Left' /\ ForeignStays' /\ ForeignKnown'
  BY <1>2, <1>3, <1>6, <1>7, <1>8, CommandLineAssumption DEF SessionInv, Left, ForeignStays, ForeignKnown
<1> QED
  BY <1>9, <1>10, <1>11, <1>12 DEF SessionInv

(* Who opens a session that nobody has open takes it as its file is.       *)
LEMMA LoadKeeps == ASSUME DirectoryTypes, SessionInv, NEW p \in Procs, Load(p) PROVE SessionInv'
<1>1. PICK i \in Ids, stores \in BOOLEAN :
        /\ id' = [id EXCEPT ![p] = i] /\ used' = used \cup {i}
        /\ persist' = [persist EXCEPT ![p] = stores]
        /\ stores => saved[i] # Foreign
        /\ IF stores /\ Users(i) = {}
           THEN /\ shared' = shared \ {i} /\ cut' = cut \ {i}
                /\ said' = [said EXCEPT ![i] = saved[i]] /\ prior' = [prior EXCEPT ![i] = saved[i]]
           ELSE shared' = (IF stores THEN shared \cup {i} ELSE shared) /\ UNCHANGED <<said, prior, cut>>
  <2>1. opts[p].resume \in Ids \cup {Absent}
    BY DEF DirectoryTypes, Options
  <2>2. PICK i \in Ids :
          /\ opts[p].resume = Absent => i \notin used
          /\ opts[p].resume # Absent => i = opts[p].resume
          /\ LET loads == opts[p].resume # Absent /\ ~opts[p].temp
                 stores == ~opts[p].temp /\ (loads => saved[i] # Foreign)
             IN  /\ id' = [id EXCEPT ![p] = i] /\ used' = used \cup {i}
                 /\ persist' = [persist EXCEPT ![p] = stores]
                 /\ IF stores /\ Users(i) = {}
                    THEN /\ shared' = shared \ {i} /\ cut' = cut \ {i}
                         /\ said' = [said EXCEPT ![i] = saved[i]]
                         /\ prior' = [prior EXCEPT ![i] = saved[i]]
                    ELSE /\ shared' = (IF stores THEN shared \cup {i} ELSE shared)
                         /\ UNCHANGED <<said, prior, cut>>
    BY <2>1 DEF Load
  <2> DEFINE stores == ~opts[p].temp /\ (opts[p].resume # Absent => saved[i] # Foreign)
  <2>3. stores <=> (~opts[p].temp /\ (opts[p].resume # Absent /\ ~opts[p].temp => saved[i] # Foreign))
    OBVIOUS
  <2>4. stores => saved[i] # Foreign
    BY <2>2 DEF SessionInv, ForeignKnown
  <2> QED
    BY <2>2, <2>3, <2>4
<1>2. pc[p] = "load" /\ pc' = [pc EXCEPT ![p] = "ready"] /\ UNCHANGED <<saved, opts>>
  BY DEF Load
<1>3. \A q \in Procs : q # p => pc'[q] = pc[q] /\ id'[q] = id[q] /\ persist'[q] = persist[q]
  BY <1>1, <1>2
<1>4. pc'[p] = "ready" /\ id'[p] = i /\ persist'[p] = stores
  BY <1>1, <1>2 DEF DirectoryTypes
<1>5. \A j : Users(j)' = IF stores /\ j = i THEN Users(i) \cup {p} ELSE Users(j)
  BY <1>2, <1>3, <1>4 DEF Users
<1>6. \A j \in Ids \ shared' : (j # i => j \notin shared) /\ (j = i => IF stores THEN Users(i) = {} ELSE i \notin shared)
  BY <1>1
<1>7. \A j \in Ids : (j # i \/ ~stores) => (said'[j] = said[j] /\ prior'[j] = prior[j] /\ (j \in cut' <=> j \in cut))
  BY <1>1 DEF DirectoryTypes
<1>8. stores /\ Users(i) = {} => said'[i] = saved[i] /\ prior'[i] = saved[i] /\ saved[i] # Foreign
  BY <1>1 DEF DirectoryTypes
<1>9. PlaceInv'
  BY <1>2, <1>3, <1>4 DEF SessionInv, PlaceInv
<1>10. Alone'
  BY <1>5, <1>6 DEF SessionInv, Alone
<1>11. Held'
  <2> SUFFICES ASSUME NEW j \in Ids \ shared', NEW q \in Users(j)'
               PROVE  /\ said'[j] # Foreign
                      /\ pc'[q] = "ready" => saved'[j] = said'[j]
                      /\ pc'[q] \in {"saving", "rename"} => saved'[j] = prior'[j] /\ said'[j] = messages'[q]
    BY DEF Held
  <2>1. CASE stores /\ j = i
    BY <1>2, <1>4, <1>5, <1>6, <1>8, <2>1
  <2>2. CASE ~(stores /\ j = i)
    <3>1. q \in Users(j) /\ q \in Procs /\ q # p /\ j \notin shared
      BY <1>2, <1>5, <1>6, <2>2 DEF Users
    <3>2. messages'[q] = messages[q]
      BY <3>1 DEF Load, DirectoryTypes
    <3> QED
      BY <1>2, <1>3, <1>7, <2>2, <3>1, <3>2 DEF SessionInv, Held
  <2> QED
    BY <2>1, <2>2
<1>12. Left'
  BY <1>2, <1>5, <1>6, <1>7 DEF SessionInv, Left
<1>13. ForeignStays' /\ ForeignKnown'
  BY <1>1, <1>2, <1>6, <1>7, <1>8 DEF SessionInv, ForeignStays, ForeignKnown
<1> QED
  BY <1>9, <1>10, <1>11, <1>12, <1>13 DEF SessionInv

(* What its only user makes of a conversation is on its way to the file.   *)
LEMMA SayKeeps ==
    ASSUME DirectoryTypes, SessionInv, NEW p \in Procs, NEW new \in Seq(Nat), pc[p] = "ready",
           Says(p, new), UNCHANGED <<saved, opts, id, persist, used, cut, shared>>
    PROVE  SessionInv'
<1> DEFINE i == id[p]
<1>0. i \in Ids
  BY DEF SessionInv, PlaceInv
<1>1. \A q \in Procs : q # p => messages'[q] = messages[q] /\ pc'[q] = pc[q]
  BY DEF Says, DirectoryTypes
<1>2. CASE ~persist[p]
  <2>1. UNCHANGED <<pc, said, prior>>
    BY <1>2 DEF Says
  <2>2. \A j : Users(j)' = Users(j) /\ p \notin Users(j)
    BY <1>2, <2>1 DEF Users
  <2>3. Held'
    BY <1>1, <2>1, <2>2 DEF SessionInv, Held, Users
  <2> QED
    BY <2>1, <2>2, <2>3 DEF SessionInv, PlaceInv, Alone, Left, ForeignStays, ForeignKnown
<1>3. CASE persist[p]
  <2>1. pc'[p] = "saving" /\ messages'[p] = new
    BY <1>3 DEF Says, DirectoryTypes
  <2>2. \A j : Users(j)' = Users(j)
    BY <1>1, <2>1 DEF Users
  <2>3. \A j \in Ids : j # i => said'[j] = said[j] /\ prior'[j] = prior[j]
    BY <1>3 DEF Says, DirectoryTypes
  <2>4. said'[i] = new /\ prior'[i] = said[i]
    BY <1>0, <1>3 DEF Says, DirectoryTypes
  <2>5. p \in Users(i)
    BY <1>3 DEF Users
  <2>6. i \notin shared => said[i] # Foreign /\ saved[i] = said[i] /\ \A q \in Users(i) : q = p
    BY <1>0, <2>5 DEF SessionInv, Held, Alone
  <2>7. \A j : j # i => p \notin Users(j)
    BY DEF Users
  <2>8. new # Foreign
    BY CommandLineAssumption
  <2> HIDE DEF i
  <2>9. PlaceInv'
    BY <1>1, <1>3, <2>1 DEF SessionInv, PlaceInv
  <2>10. Held'
    <3> SUFFICES ASSUME NEW j \in Ids \ shared, NEW q \in Users(j)
                 PROVE  /\ said'[j] # Foreign
                        /\ pc'[q] = "ready" => saved[j] = said'[j]
                        /\ pc'[q] \in {"saving", "rename"} => saved[j] = prior'[j] /\ said'[j] = messages'[q]
      BY <2>2 DEF Held
    <3>1. CASE j = i
      BY <2>1, <2>4, <2>6, <2>8, <3>1
    <3>2. CASE j # i
      <4>1. q \in Procs /\ q # p
        BY <2>7, <3>2 DEF Users
      <4> QED
        BY <1>1, <2>3, <3>2, <4>1 DEF SessionInv, Held
    <3> QED
      BY <3>1, <3>2
  <2>11. Alone' /\ ForeignKnown'
    BY <2>2 DEF SessionInv, Alone, ForeignKnown
  <2>12. Left' /\ ForeignStays'
    BY <2>2, <2>3, <2>4, <2>5, <2>6 DEF SessionInv, Left, ForeignStays
  <2> QED
    BY <2>9, <2>10, <2>11, <2>12 DEF SessionInv
<1> QED
  BY <1>2, <1>3

(* The file of a session is what it was until the new one takes its place. *)
LEMMA WriteKeeps == ASSUME DirectoryTypes, SessionInv, NEW p \in Procs, WriteTemp(p) PROVE SessionInv'
<1>1. pc[p] = "saving" /\ pc' = [pc EXCEPT ![p] = "rename"]
      /\ UNCHANGED <<opts, id, messages, persist, used, said, prior, cut, shared>>
  BY DEF WriteTemp
<1>2. saved' = saved
  BY DEF WriteTemp, WhileWritten, DirectoryTypes
<1>3. \A q \in Procs : pc'[q] = pc[q] \/ (pc[q] = "saving" /\ pc'[q] = "rename")
  BY <1>1 DEF DirectoryTypes
<1>4. \A j : Users(j)' = Users(j)
  BY <1>1, <1>3 DEF Users
<1>5. PlaceInv'
  BY <1>1, <1>3 DEF SessionInv, PlaceInv
<1>6. Held'
  BY <1>1, <1>2, <1>3, <1>4 DEF SessionInv, Held, Users
<1> QED
  BY <1>1, <1>2, <1>4, <1>5, <1>6 DEF SessionInv, Alone, Left, ForeignStays, ForeignKnown

LEMMA RenameKeeps == ASSUME DirectoryTypes, SessionInv, NEW p \in Procs, Rename(p) PROVE SessionInv'
<1> DEFINE i == id[p]
<1>1. pc[p] = "rename" /\ pc' = [pc EXCEPT ![p] = "ready"]
      /\ UNCHANGED <<opts, id, messages, persist, used, said, prior, cut, shared>>
  BY DEF Rename
<1>2. i \in Ids /\ p \in Users(i)
  BY <1>1 DEF SessionInv, PlaceInv, Users
<1>3. saved'[i] = messages[p] /\ \A j \in Ids : j # i => saved'[j] = saved[j]
  BY <1>2 DEF Rename, DirectoryTypes
<1>4. \A q \in Procs : q # p => pc'[q] = pc[q]
  BY <1>1
<1>5. pc'[p] = "ready"
  BY <1>1 DEF DirectoryTypes
<1>6. \A j : Users(j)' = Users(j)
  BY <1>1, <1>4, <1>5 DEF Users
<1>7. i \notin shared => said[i] = messages[p] /\ said[i] # Foreign /\ \A q \in Users(i) : q = p
  BY <1>1, <1>2 DEF SessionInv, Held, Alone
<1>8. messages[p] # Foreign
  BY CommandLineAssumption DEF DirectoryTypes
<1>9. \A j : j # i => p \notin Users(j)
  BY DEF Users
<1> HIDE DEF i
<1>10. PlaceInv'
  BY <1>1, <1>4, <1>5 DEF SessionInv, PlaceInv
<1>11. Held'
  <2> SUFFICES ASSUME NEW j \in Ids \ shared, NEW q \in Users(j)
               PROVE  /\ said[j] # Foreign
                      /\ pc'[q] = "ready" => saved'[j] = said[j]
                      /\ pc'[q] \in {"saving", "rename"} => saved'[j] = prior[j] /\ said[j] = messages[q]
    BY <1>1, <1>6 DEF Held
  <2>1. CASE j = i
    BY <1>3, <1>5, <1>7, <2>1
  <2>2. CASE j # i
    <3>1. q \in Procs /\ q # p
      BY <1>9, <2>2 DEF Users
    <3> QED
      BY <1>3, <1>4, <2>2, <3>1 DEF SessionInv, Held
  <2> QED
    BY <2>1, <2>2
<1>12. Alone' /\ Left'
  BY <1>1, <1>2, <1>3, <1>6 DEF SessionInv, Alone, Left
<1>13. ForeignStays' /\ ForeignKnown'
  BY <1>1, <1>3, <1>8 DEF SessionInv, ForeignStays, ForeignKnown
<1> QED
  BY <1>10, <1>11, <1>12, <1>13 DEF SessionInv

(* Who goes, or goes on without its store, leaves the file saved, or its   *)
(* save cut off or failed.                                                 *)
LEMMA GoKeeps ==
    ASSUME DirectoryTypes, SessionInv, NEW p \in Procs, pc[p] \in Open,
           NEW l \in {"over", "ready"}, pc' = [pc EXCEPT ![p] = l],
           \A q \in Procs \ {p} : persist'[q] = persist[q],
           l = "ready" => persist'[p] = FALSE,
           \/ pc[p] = "ready" /\ cut' = cut
           \/ pc[p] # "ready" /\ cut' = cut \cup {id[p]},
           UNCHANGED <<saved, opts, id, messages, used, said, prior, shared>>
    PROVE  SessionInv'
<1> DEFINE i == id[p]
<1>1. \A q \in Procs : q # p => pc'[q] = pc[q] /\ persist'[q] = persist[q]
  OBVIOUS
<1>2. pc'[p] = l
  BY DEF DirectoryTypes
<1>3. \A j : Users(j)' = Users(j) \ {p}
  BY <1>1, <1>2 DEF Users
<1>4. \A j : j # i => p \notin Users(j)
  BY DEF Users
<1>5. PlaceInv'
  BY <1>1, <1>2 DEF SessionInv, PlaceInv
<1>6. Alone' /\ ForeignStays' /\ ForeignKnown'
  BY <1>3 DEF SessionInv, Alone, ForeignStays, ForeignKnown
<1>7. Held'
  <2> SUFFICES ASSUME NEW j \in Ids \ shared, NEW q \in Users(j), q # p
               PROVE  /\ said[j] # Foreign
                      /\ pc'[q] = "ready" => saved[j] = said[j]
                      /\ pc'[q] \in {"saving", "rename"} => saved[j] = prior[j] /\ said[j] = messages[q]
    BY <1>3 DEF Held
  <2> QED
    BY <1>1 DEF SessionInv, Held, Users
<1>8. Left'
  <2> SUFFICES ASSUME NEW j \in Ids \ shared, Users(j) \ {p} = {}
               PROVE  saved[j] = said[j] \/ (saved[j] = prior[j] /\ j \in cut')
    BY <1>3 DEF Left
  <2>1. CASE Users(j) = {}
    BY <2>1 DEF SessionInv, Left
  <2>2. CASE Users(j) # {}
    <3>1. p \in Users(j) /\ j = i
      BY <1>4, <2>2
    <3> QED
      BY <3>1 DEF SessionInv, Held
  <2> QED
    BY <2>1, <2>2
<1> QED
  BY <1>5, <1>6, <1>7, <1>8 DEF SessionInv

(* Every step keeps what is known of the sessions. *)
LEMMA SessionStep == DirectoryTypes /\ SessionInv /\ [CliNext]_cliVars => SessionInv'
<1> SUFFICES ASSUME DirectoryTypes, SessionInv, [CliNext]_cliVars PROVE SessionInv'
  OBVIOUS
<1>1. CASE UNCHANGED cliVars
  BY <1>1 DEF cliVars, SessionInv, PlaceInv, Alone, Held, Left, ForeignStays, ForeignKnown, Users
<1>2. ASSUME NEW p \in Procs, NEW o \in Options, Launch(p, o) PROVE SessionInv'
  <2>1. pc[p] = "off" /\ pc' = [pc EXCEPT ![p] = "config"] /\ UNCHANGED <<saved, conversation>>
        /\ used \subseteq used' /\ \A q \in Procs \ {p} : UNCHANGED <<id[q], persist[q], opts[q], messages[q]>>
    BY <1>2 DEF Launch
  <2> QED
    BY <2>1, SessionKept
<1>3. ASSUME NEW p \in Procs,
             \/ CheckConfig(p) \/ CreateConfig(p) \/ FillConfig(p) \/ ListSessions(p)
             \/ CheckSkills(p) \/ MakeSkills(p)
      PROVE  SessionInv'
  <2>1. PICK l \in {"create", "read", "fill", "over", "load", "make", "refused", "copy"} : Goto(p, l)
    BY <1>3 DEF CheckConfig, CreateConfig, FillConfig, ListSessions, CheckSkills, MakeSkills
  <2>2. pc[p] \in {"config", "create", "fill", "sessions", "skills", "make"}
        /\ UNCHANGED <<saved, conversation, own, used>>
    BY <1>3 DEF CheckConfig, CreateConfig, FillConfig, ListSessions, CheckSkills, MakeSkills
  <2> QED
    BY <2>1, <2>2, SessionKept
<1>4. ASSUME NEW p \in Procs, ReadConfig(p) PROVE SessionInv'
  <2>1. opts[p] \in Options
    BY DEF DirectoryTypes
  <2>2. PICK l \in {"refused", "skills", "sessions", "update", "delete"} :
          Goto(p, l) /\ (l = "delete" => opts[p].do = "delete")
    BY <1>4, <2>1 DEF ReadConfig, Options
  <2>3. l = "delete" => opts[p].resume \in Ids
    BY <2>1, <2>2 DEF Options
  <2>4. pc[p] = "read" /\ UNCHANGED <<saved, conversation, opts, id, persist, messages, used>>
    BY <1>4 DEF ReadConfig
  <2> QED
    BY <2>2, <2>3, <2>4, SessionKept
<1>5. ASSUME NEW p \in Procs, UpdateSkills(p) \/ CopySkill(p) PROVE SessionInv'
  <2>1. PICK l \in {"update", "copy", "over", "load"} : Goto(p, l)
    <3>1. UNCHANGED pc => Goto(p, pc[p])
      BY DEF DirectoryTypes
    <3> QED
      BY <1>5, <3>1 DEF UpdateSkills, CopySkill
  <2>2. pc[p] \in {"update", "copy"} /\ UNCHANGED <<saved, conversation, opts, id, persist, messages, used>>
    BY <1>5 DEF UpdateSkills, CopySkill
  <2> QED
    BY <2>1, <2>2, SessionKept
<1>6. ASSUME NEW p \in Procs, Delete(p) PROVE SessionInv'
  BY <1>6, DeleteKeeps
<1>7. ASSUME NEW p \in Procs, Load(p) PROVE SessionInv'
  BY <1>7, LoadKeeps
<1>8. ASSUME NEW p \in Procs, TakeTurn(p) \/ Clear(p) PROVE SessionInv'
  <2>1. turns' \in Nat
    BY <1>8 DEF TakeTurn, Clear, DirectoryTypes
  <2>2. Append(messages[p], turns') \in Seq(Nat) /\ <<>> \in Seq(Nat)
    BY <2>1 DEF DirectoryTypes
  <2>3. PICK new \in Seq(Nat) : Says(p, new)
    BY <1>8, <2>2, Zenon DEF TakeTurn, Clear
  <2>4. pc[p] = "ready" /\ UNCHANGED <<saved, opts, id, persist, used, cut, shared>>
    BY <1>8 DEF TakeTurn, Clear
  <2> QED
    BY <2>3, <2>4, SayKeeps
<1>9. ASSUME NEW p \in Procs, WriteTemp(p) \/ Rename(p) PROVE SessionInv'
  BY <1>9, WriteKeeps, RenameKeeps
<1>10. ASSUME NEW p \in Procs, Leave(p) PROVE SessionInv'
  <2>1. pc[p] \in {"over", "refused"} /\ Goto(p, "off") /\ UNCHANGED <<saved, conversation, used>>
        /\ \A q \in Procs \ {p} : UNCHANGED <<id[q], persist[q], opts[q], messages[q]>>
    BY <1>10 DEF Leave, DirectoryTypes
  <2> QED
    BY <2>1, SessionKept
<1>11. ASSUME NEW p \in Procs, Quit(p) PROVE SessionInv'
  <2>1. pc[p] = "ready" /\ Goto(p, "over") /\ UNCHANGED <<disk, own, counters, conversation>>
    BY <1>11 DEF Quit
  <2> QED
    BY <2>1, GoKeeps
<1>12. ASSUME NEW p \in Procs, Crash(p) PROVE SessionInv'
  <2>1. CASE pc[p] \in Starting
    BY <1>12, <2>1, SessionKept DEF Crash
  <2>2. CASE pc[p] \in Open
    <3>1. /\ Goto(p, "over") /\ UNCHANGED <<disk, own, used, said, prior, shared>>
          /\ \/ pc[p] = "ready" /\ cut' = cut
             \/ pc[p] # "ready" /\ cut' = cut \cup {id[p]}
      BY <1>12, <2>2 DEF Crash
    <3> QED
      BY <2>2, <3>1, GoKeeps
  <2> QED
    BY <1>12, <2>1, <2>2 DEF Crash
<1>13. ASSUME NEW p \in Procs, SaveFails(p) PROVE SessionInv'
  <2>1. /\ pc[p] \in Open /\ pc[p] # "ready" /\ Goto(p, "ready") /\ cut' = cut \cup {id[p]}
        /\ UNCHANGED <<disk, opts, id, messages, used, said, prior, shared>>
    BY <1>13 DEF SaveFails
  <2>2. persist'[p] = FALSE /\ \A q \in Procs \ {p} : persist'[q] = persist[q]
    BY <1>13 DEF SaveFails, DirectoryTypes
  <2> QED
    BY <2>1, <2>2, GoKeeps
<1> QED
  BY <1>1, <1>2, <1>3, <1>4, <1>5, <1>6, <1>7, <1>8, <1>9, <1>10, <1>11, <1>12, <1>13 DEF CliNext
-----------------------------------------------------------------------------
(* Every reachable state satisfies the invariant. *)
LEMMA CliInvHolds == CliSpec => []CliInv
<1>1. CliInv /\ [CliNext]_cliVars => CliInv'
  <2> HIDE DEF Goto, disk, own, counters, conversation, marks, Starting, Open
  <2> QED
    BY TypeStep, StartStep, SessionStep DEF CliInv, SessionInv
<1> QED
  BY CliInvInit, <1>1, PTL DEF CliSpec

(* Command line and data directory: every process is at a place of main()  *)
(* with the state that belongs there, and every session file is absent,    *)
(* foreign or a history.                                                   *)
THEOREM DirectoryTypeCorrect == CliSpec => []DirectoryTypes
<1>1. CliInv => DirectoryTypes
  BY DEF CliInv
<1> QED
  BY CliInvHolds, <1>1, PTL

(* FileSessionStore and Session._save_messages, for any number of          *)
(* processes and sessions, whoever crashes and whatever save fails: the    *)
(* file of a session that is not shared holds what its user last gave it   *)
(* of the conversation, or what it held before while that is being saved   *)
(* or if the save was cut off or failed, and replaces no foreign file.     *)
THEOREM ConversationIsKept == CliSpec => []ConversationKept
<1>1. CliInv => ConversationKept
  <2> SUFFICES ASSUME CliInv, NEW i \in Ids \ shared
               PROVE  /\ \/ saved[i] = said[i]
                         \/ /\ saved[i] = prior[i]
                            /\ i \in cut \/ \E p \in Users(i) : pc[p] \in {"saving", "rename"}
                      /\ prior[i] = Foreign => said[i] = Foreign
    BY DEF ConversationKept
  <2>1. CASE Users(i) = {}
    BY <2>1 DEF CliInv, SessionInv, Left, ForeignStays
  <2>2. CASE Users(i) # {}
    <3>1. PICK p \in Users(i) : TRUE
      BY <2>2
    <3>2. pc[p] \in Open
      BY <3>1 DEF Users
    <3> QED
      BY <3>1, <3>2 DEF CliInv, SessionInv, Held, ForeignStays
  <2> QED
    BY <2>1, <2>2
<1> QED
  BY CliInvHolds, <1>1, PTL

(* The first start, for any number of processes and skill files: a process *)
(* that nobody overlaps, where none died while it started, is not refused  *)
(* and finds all bundled skills.                                           *)
THEOREM UndisturbedStartsWhole == CliSpec => []StartsWhole
<1>1. CliInv => StartsWhole
  BY DEF CliInv, StartInv, Undisturbed, StartsWhole
<1> QED
  BY CliInvHolds, <1>1, PTL
=============================================================================
