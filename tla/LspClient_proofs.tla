-------------------------- MODULE LspClient_proofs -------------------------
(***************************************************************************)
(* What holds of the language server client for every set of callers and   *)
(* files and any number of calls and servers: a call gets its own answer,  *)
(* a server is used as the protocol wants it, and closing the session      *)
(* stops it.                                                               *)
(***************************************************************************)
EXTENDS LspClient, TLAPS

Whats == {"", "initialize", "initialized", "open", "query", "shutdown"}

Value == [kind : {"open", "broken", "result", "error", "foreign"}, of : Nat, what : Whats]
Futures == UNION {[ids -> Value] : ids \in SUBSET Nat}

Link == [running : BOOLEAN, reading : BOOLEAN, nextId : Nat, pending : Futures]

Server ==
    [alive : {"none", "up", "gone"}, greeted : BOOLEAN, docs : SUBSET Files,
     asked : SUBSET [id : Nat, of : Nat, what : Whats], own : SUBSET Nat,
     faults : SUBSET {"early", "blind", "twice"}]

Call ==
    [at : {"idle", "spawn", "drain", "wait"}, n : Nat, file : Files \cup {NoFile},
     on : 0..MaxServers, what : Whats, id : Nat]

TypeInv ==
    /\ client \in 0..MaxServers /\ created \in 0..MaxServers
    /\ opened \subseteq Files /\ calls \in Nat
    /\ link \in [Clients -> Link] /\ server \in [Clients -> Server]
    /\ call \in [Users -> Call]
    /\ closing \in {"no", "asking", "reaping", "closed"}
-----------------------------------------------------------------------------
(* The clients and the calls.                                              *)
Fresh(c) == link[c] = NewLink /\ server[c] = NewServer

Busy(t) == call[t].at # "idle"

\* A client is used only once its process runs; until then it is the
\* business of the call that spawns it.
ClientsInv ==
    /\ client = IF closing = "closed" THEN 0 ELSE created
    /\ \A c \in Clients : /\ c > created => Fresh(c)
                          /\ link[c].running => server[c].alive # "none"
    /\ \A t \in Callers : call[t].at = "spawn" =>
          Fresh(call[t].on) /\ \A u \in Users : u # t /\ Busy(u) => call[u].on # call[t].on
    /\ \A t \in Users : call[t].at \in {"drain", "wait"} => server[call[t].on].alive # "none"

CallsInv ==
    /\ \A t \in Users : IF Busy(t) THEN call[t].on \in 1..created ELSE call[t] = Idle
    /\ \A t \in Callers :
          /\ call[t].at = "spawn" => call[t].what = ""
          /\ call[t].at = "drain" => call[t].what \in {"initialize", "initialized", "open", "query"}
          /\ call[t].at = "wait" => call[t].what \in {"initialize", "query"}
          /\ call[t].what = "open" => call[t].file # NoFile
    /\ closing # "no" => \A t \in Callers : ~Busy(t)
    /\ Busy(Closer) => /\ closing = "asking" /\ call[Closer].at \in {"drain", "wait"}
                       /\ call[Closer].what = "shutdown" /\ call[Closer].on = client
    /\ closing \in {"asking", "reaping"} => client # 0
    /\ closing = "asking" => Busy(Closer)

Shape == TypeInv /\ ClientsInv /\ CallsInv
-----------------------------------------------------------------------------
(* Requests.                                                               *)

\* The call has a future registered.
Asking(t) == call[t].at \in {"drain", "wait"} /\ call[t].what \in Asks

\* Ids are given out once, and only a server that has used one itself has
\* completed a future with it otherwise than by an answer.
IdsInv ==
    /\ \A c \in Clients :
          /\ \A i \in DOMAIN link[c].pending : i < link[c].nextId
          /\ \A q \in server[c].asked : q.id < link[c].nextId
          /\ \A i \in DOMAIN link[c].pending :
                link[c].pending[i].kind = "foreign" => i \in server[c].own
    /\ \A t \in Users : Asking(t) =>
          /\ call[t].id \in DOMAIN link[call[t].on].pending
          /\ \A u \in Users : u # t /\ Asking(u) /\ call[u].on = call[t].on => call[u].id # call[t].id
          /\ \A q \in server[call[t].on].asked :
                q.id = call[t].id => q.of = call[t].n /\ q.what = call[t].what
          /\ LET answer == link[call[t].on].pending[call[t].id]
             IN answer.kind \in {"result", "error"} => answer.of = call[t].n /\ answer.what = call[t].what
-----------------------------------------------------------------------------
(* Processes.                                                              *)

Up(c) == server[c].alive = "up"

\* The call is starting the server it is on.
Handshaking(t) == call[t].at = "spawn" \/ call[t].what \in {"initialize", "initialized"}

ProcessInv ==
    /\ closing # "closed" => \A c \in Clients : Up(c) => link[c].running
    /\ "raced" \notin past =>
          /\ \A c \in Clients : Up(c) => c = client
          /\ \A t \in Callers : Handshaking(t) => call[t].on = client

Excused == past \cap {"raced", "botched"} # {}

\* Who speaks to a server that was not greeted?
GreetInv ==
    /\ \A c \in Clients : "early" \in server[c].faults => Excused
    /\ \A c \in Clients : Up(c) /\ ~server[c].greeted =>
          "botched" \in past \/ \E t \in Callers : call[t].on = c /\ call[t].what = "initialize"
    /\ \A t \in Callers : call[t].what \in {"initialized", "open", "query"} /\ Up(call[t].on) =>
          server[call[t].on].greeted \/ Excused

\* The first server was told of every file that counts as opened.
TellInv ==
    /\ \A c \in Clients : "blind" \in server[c].faults => c > 1
    /\ created = 0 \/ (created = 1 /\ server[1].alive = "none") => opened = {}
    /\ created = 1 /\ closing # "closed" /\ Up(1) => opened \subseteq server[1].docs
    /\ \A t \in Callers : call[t].what = "open" /\ Up(call[t].on) =>
          call[t].file \in server[call[t].on].docs

Disturbed == past \cap {"overlap", "cut"} # {}

\* What a server was told of counts as opened, or a call is at it.
OnceInv ==
    /\ \A c \in Clients : "twice" \in server[c].faults => Disturbed
    /\ ~Disturbed =>
          /\ \A t, u \in Callers : Busy(t) /\ Busy(u) => t = u
          /\ closing # "closed" => \A c \in Clients : Up(c) => \A f \in server[c].docs :
                \/ f \in opened
                \/ \E t \in Callers : call[t].what = "open" /\ call[t].on = c /\ call[t].file = f

Inv == Shape /\ IdsInv /\ ProcessInv /\ GreetInv /\ TellInv /\ OnceInv
-----------------------------------------------------------------------------
(* What the steps do, field by field.                                      *)
LEMMA NewTypes ==
    /\ NewLink \in Link /\ NewLink.nextId = 1 /\ DOMAIN NewLink.pending = {} /\ ~NewLink.running
    /\ NewServer \in Server /\ NewServer.alive = "none" /\ ~NewServer.greeted
    /\ NewServer.docs = {} /\ NewServer.asked = {} /\ NewServer.faults = {}
    /\ Foreign \in Value /\ Foreign.kind = "foreign"
    /\ Idle \in Call /\ Idle.at = "idle" /\ Idle.what = "" /\ Idle.n = 0 /\ Idle.file = NoFile
    /\ Open \in Value /\ Open.kind = "open" /\ Broken \in Value /\ Broken.kind = "broken"
<1>1. <<>> \in Futures /\ DOMAIN <<>> = {}
  <2>1. <<>> \in [{} -> Value]
    OBVIOUS
  <2> QED
    BY <2>1 DEF Futures
<1>2. NewLink \in Link /\ NewLink.nextId = 1 /\ DOMAIN NewLink.pending = {} /\ ~NewLink.running
  BY <1>1 DEF NewLink, Link
<1>3. NewServer \in Server /\ NewServer.alive = "none" /\ ~NewServer.greeted
      /\ NewServer.docs = {} /\ NewServer.asked = {} /\ NewServer.faults = {}
  BY DEF NewServer, Server
<1>4. Idle \in Call /\ Idle.at = "idle" /\ Idle.what = "" /\ Idle.n = 0 /\ Idle.file = NoFile
  BY LspAssumption DEF Idle, Call, Whats
<1>5. /\ Open \in Value /\ Open.kind = "open" /\ Broken \in Value /\ Broken.kind = "broken"
      /\ Foreign \in Value /\ Foreign.kind = "foreign"
  BY DEF Open, Broken, Foreign, Value, Whats
<1> QED
  BY <1>2, <1>3, <1>4, <1>5

\* A future is added to those of a client.
LEMMA Registered ==
    ASSUME NEW p \in Futures, NEW id \in Nat
    PROVE  LET q == Register(p, id)
           IN  /\ q \in Futures /\ DOMAIN q = DOMAIN p \cup {id} /\ q[id] = Open
               /\ \A i \in DOMAIN p : i # id => q[i] = p[i]
<1> DEFINE q == Register(p, id)
<1>1. PICK ids \in SUBSET Nat : p \in [ids -> Value]
  BY DEF Futures
<1>2. q = [i \in DOMAIN p \cup {id} |-> IF i = id THEN Open ELSE p[i]]
  BY DEF Register
<1>3. q \in [ids \cup {id} -> Value]
  BY <1>1, <1>2, NewTypes
<1>4. q \in Futures
  BY <1>3 DEF Futures
<1> QED
  BY <1>2, <1>4

LEMMA Forgotten ==
    ASSUME NEW p \in Futures, NEW id
    PROVE  /\ Forget(p, id) \in Futures /\ DOMAIN Forget(p, id) = DOMAIN p \ {id}
           /\ \A i \in DOMAIN p : i # id => Forget(p, id)[i] = p[i]
<1>1. PICK ids \in SUBSET Nat : p \in [ids -> Value]
  BY DEF Futures
<1>2. Forget(p, id) \in [ids \ {id} -> Value]
  BY <1>1 DEF Forget
<1> QED
  BY <1>2 DEF Forget, Futures

\* A server takes a message.
LEMMA Receives ==
    ASSUME NEW s \in Server, NEW msg \in Call, msg.what = "open" => msg.file # NoFile
    PROVE  LET r == Received(s, msg)
           IN  /\ r \in Server /\ r.alive = s.alive /\ r.own = s.own
               /\ r.greeted <=> s.greeted \/ msg.what = "initialized"
               /\ r.docs = IF msg.what = "open" THEN s.docs \cup {msg.file} ELSE s.docs
               /\ \A q \in r.asked : q \in s.asked \/ (/\ msg.what \in Asks
                                                       /\ q.id = msg.id /\ q.of = msg.n
                                                       /\ q.what = msg.what)
               /\ "early" \in r.faults => \/ "early" \in s.faults
                                          \/ msg.what \in {"open", "query"} /\ ~s.greeted
               /\ "blind" \in r.faults => \/ "blind" \in s.faults
                                          \/ /\ msg.what = "query" /\ msg.file # NoFile
                                             /\ msg.file \notin s.docs
               /\ "twice" \in r.faults => \/ "twice" \in s.faults
                                          \/ msg.what = "open" /\ msg.file \in s.docs
<1> DEFINE r == Received(s, msg)
           new == [id |-> msg.id, of |-> msg.n, what |-> msg.what]
<1>1. /\ r.alive = s.alive /\ r.own = s.own
      /\ r.docs = IF msg.what = "open" THEN s.docs \cup {msg.file} ELSE s.docs
      /\ r.asked = IF msg.what \in Asks THEN s.asked \cup {new} ELSE s.asked
  BY DEF Received, Server
<1>2. r.greeted = (s.greeted \/ msg.what = "initialized")
  BY DEF Received, Server
<1>3. r.faults = s.faults \cup
         {f \in {"early", "blind", "twice"} :
              \/ f = "early" /\ msg.what \in {"open", "query"} /\ ~s.greeted
              \/ f = "blind" /\ msg.what = "query" /\ msg.file # NoFile /\ msg.file \notin s.docs
              \/ f = "twice" /\ msg.what = "open" /\ msg.file \in s.docs}
  BY DEF Received, Server
<1>4. new \in [id : Nat, of : Nat, what : Whats]
  BY DEF Call
<1>5. r \in Server
  BY <1>1, <1>2, <1>3, <1>4 DEF Server, Received, Call
<1>6. new.id = msg.id /\ new.of = msg.n /\ new.what = msg.what
  OBVIOUS
<1> HIDE DEF r, new
<1>7. \A q \in r.asked : q \in s.asked \/ (/\ msg.what \in Asks
                                          /\ q.id = msg.id /\ q.of = msg.n
                                          /\ q.what = msg.what)
  BY <1>1, <1>6
<1>8. r.greeted <=> s.greeted \/ msg.what = "initialized"
  BY <1>2, <1>5 DEF Server
<1> QED
  BY <1>1, <1>3, <1>5, <1>7, <1>8 DEF r

\* A message is posted for a call: what that changes, and what it leaves.
Delivers(t, own, c, what) ==
    /\ call' \in [Users -> Call] /\ link' \in [Clients -> Link]
    /\ server' \in [Clients -> Server]
    /\ \A u \in Users : u # t => call'[u] = call[u]
    /\ \A d \in Clients : d # c => link'[d] = link[d] /\ server'[d] = server[d]
    /\ call'[t].at = "drain" /\ call'[t].on = c /\ call'[t].what = what
    /\ call'[t].n = own.n /\ call'[t].file = own.file
    /\ what # "open" => call'[t].id = link[c].nextId
    /\ link'[c].running = link[c].running
    /\ what = "open" => link' = link
    /\ what # "open" =>
         /\ link'[c].nextId = link[c].nextId + 1
         /\ DOMAIN link'[c].pending = DOMAIN link[c].pending \cup {link[c].nextId}
         /\ link'[c].pending[link[c].nextId] = Open
         /\ \A i \in DOMAIN link[c].pending :
               i # link[c].nextId => link'[c].pending[i] = link[c].pending[i]
    /\ server'[c].alive = server[c].alive /\ server'[c].own = server[c].own
    /\ server[c].greeted => server'[c].greeted
    /\ server'[c].docs = IF what = "open" /\ server[c].alive = "up"
                         THEN server[c].docs \cup {own.file} ELSE server[c].docs
    /\ \A q \in server'[c].asked : q \in server[c].asked \/ (/\ what # "open"
                                                            /\ q.id = link[c].nextId
                                                            /\ q.of = own.n /\ q.what = what)
    /\ "early" \in server'[c].faults => \/ "early" \in server[c].faults
                                        \/ /\ server[c].alive = "up" /\ what \in {"open", "query"}
                                           /\ ~server[c].greeted
    /\ "blind" \in server'[c].faults => \/ "blind" \in server[c].faults
                                        \/ /\ server[c].alive = "up" /\ what = "query"
                                           /\ own.file # NoFile /\ own.file \notin server[c].docs
    /\ "twice" \in server'[c].faults => \/ "twice" \in server[c].faults
                                        \/ /\ server[c].alive = "up" /\ what = "open"
                                           /\ own.file \in server[c].docs

LEMMA Posted ==
    ASSUME TypeInv, NEW t \in Users, NEW own \in Call, NEW c \in Clients,
           NEW what \in {"open", "query", "shutdown"}, what = "open" => own.file # NoFile,
           Post(t, own, c, what)
    PROVE  Delivers(t, own, c, what)
<1> DEFINE id == link[c].nextId
           msg == [own EXCEPT !.at = "drain", !.on = c, !.what = what,
                              !.id = IF what \in Asks THEN id ELSE 0]
           r == Received(server[c], msg)
           p == Register(link[c].pending, msg.id)
<1>1. what \in Asks <=> what # "open"
  BY DEF Asks
<1>2. link[c] \in Link /\ server[c] \in Server /\ id \in Nat /\ link[c].pending \in Futures
      /\ c \in 0..MaxServers
  BY LspAssumption DEF TypeInv, Link, Clients
<1>3. msg \in Call
  BY <1>2 DEF Call, Whats
<1>4. /\ msg.at = "drain" /\ msg.on = c /\ msg.what = what /\ msg.n = own.n /\ msg.file = own.file
      /\ what # "open" => msg.id = id
      /\ msg.id \in Nat
  BY <1>1, <1>2 DEF Call
<1>5. call' = [call EXCEPT ![t] = msg]
  BY DEF Post, NextId
<1>6. link' = IF what \in Asks
              THEN [link EXCEPT ![c].nextId = @ + 1, ![c].pending = p] ELSE link
  BY DEF Post, NextId
<1>7. server' = IF server[c].alive = "up" THEN [server EXCEPT ![c] = r] ELSE server
  BY DEF Post, NextId
<1>8. /\ r \in Server /\ r.alive = server[c].alive /\ r.own = server[c].own
      /\ server[c].greeted => r.greeted
      /\ r.docs = IF what = "open" THEN server[c].docs \cup {own.file} ELSE server[c].docs
      /\ \A q \in r.asked : q \in server[c].asked \/ (/\ what # "open" /\ q.id = id
                                                      /\ q.of = own.n /\ q.what = what)
      /\ "early" \in r.faults => "early" \in server[c].faults
                                 \/ (what \in {"open", "query"} /\ ~server[c].greeted)
      /\ "blind" \in r.faults => "blind" \in server[c].faults
                                 \/ (/\ what = "query" /\ own.file # NoFile
                                     /\ own.file \notin server[c].docs)
      /\ "twice" \in r.faults => "twice" \in server[c].faults
                                 \/ (what = "open" /\ own.file \in server[c].docs)
  <2> HIDE DEF msg, id
  <2>1. msg.what = "open" => msg.file # NoFile
    BY <1>4
  <2>2. /\ r \in Server /\ r.alive = server[c].alive /\ r.own = server[c].own
        /\ r.greeted <=> server[c].greeted \/ msg.what = "initialized"
        /\ r.docs = IF msg.what = "open" THEN server[c].docs \cup {msg.file} ELSE server[c].docs
        /\ \A q \in r.asked : q \in server[c].asked \/ (/\ msg.what \in Asks
                                                        /\ q.id = msg.id /\ q.of = msg.n
                                                        /\ q.what = msg.what)
        /\ "early" \in r.faults => \/ "early" \in server[c].faults
                                   \/ msg.what \in {"open", "query"} /\ ~server[c].greeted
        /\ "blind" \in r.faults => \/ "blind" \in server[c].faults
                                   \/ /\ msg.what = "query" /\ msg.file # NoFile
                                      /\ msg.file \notin server[c].docs
        /\ "twice" \in r.faults => \/ "twice" \in server[c].faults
                                   \/ msg.what = "open" /\ msg.file \in server[c].docs
    BY <1>2, <1>3, <2>1, Receives
  <2> HIDE DEF r
  <2>3. server[c].greeted => r.greeted
    BY <2>2, Zenon
  <2>4. \A q \in r.asked : q \in server[c].asked \/ (/\ what # "open" /\ q.id = id
                                                      /\ q.of = own.n /\ q.what = what)
    BY <1>1, <1>4, <2>2
  <2>5. /\ r \in Server /\ r.alive = server[c].alive /\ r.own = server[c].own
        /\ r.docs = IF what = "open" THEN server[c].docs \cup {own.file} ELSE server[c].docs
    BY <1>4, <2>2
  <2>6. /\ "early" \in r.faults => "early" \in server[c].faults
                                   \/ (what \in {"open", "query"} /\ ~server[c].greeted)
        /\ "blind" \in r.faults => "blind" \in server[c].faults
                                   \/ (/\ what = "query" /\ own.file # NoFile
                                       /\ own.file \notin server[c].docs)
        /\ "twice" \in r.faults => "twice" \in server[c].faults
                                   \/ (what = "open" /\ own.file \in server[c].docs)
    BY <1>4, <2>2
  <2> QED
    BY <2>3, <2>4, <2>5, <2>6
<1>9. /\ p \in Futures /\ DOMAIN p = DOMAIN link[c].pending \cup {msg.id} /\ p[msg.id] = Open
      /\ \A i \in DOMAIN link[c].pending : i # msg.id => p[i] = link[c].pending[i]
  BY <1>2, <1>4, Registered
<1> HIDE DEF msg, id, r, p
<1>10. /\ call' \in [Users -> Call] /\ call'[t] = msg
       /\ \A u \in Users : u # t => call'[u] = call[u]
  BY <1>3, <1>5 DEF TypeInv
<1>11. /\ server' \in [Clients -> Server]
       /\ server'[c] = IF server[c].alive = "up" THEN r ELSE server[c]
       /\ \A d \in Clients : d # c => server'[d] = server[d]
  BY <1>2, <1>7, <1>8 DEF TypeInv
<1>12. /\ link' \in [Clients -> Link] /\ link'[c].running = link[c].running
       /\ \A d \in Clients : d # c => link'[d] = link[d]
       /\ what = "open" => link' = link
       /\ what # "open" => link'[c].nextId = id + 1 /\ link'[c].pending = p
  <2>1. CASE what = "open"
    BY <2>1, <1>1, <1>6 DEF TypeInv
  <2>2. CASE what # "open"
    <3>1. link' = [link EXCEPT ![c] = [link[c] EXCEPT !.nextId = @ + 1, !.pending = p]]
      BY <2>2, <1>1, <1>2, <1>6 DEF TypeInv
    <3>2. [link[c] EXCEPT !.nextId = @ + 1, !.pending = p] \in Link
      <4>1. link[c].nextId + 1 \in Nat
        BY <1>2 DEF id
      <4> QED
        BY <4>1, <1>2, <1>9 DEF Link
    <3> QED
      BY <2>2, <3>1, <3>2, <1>2 DEF TypeInv, Link, id
  <2> QED
    BY <2>1, <2>2
<1>13. /\ what # "open" =>
                /\ link'[c].nextId = link[c].nextId + 1
                /\ DOMAIN link'[c].pending = DOMAIN link[c].pending \cup {link[c].nextId}
                /\ link'[c].pending[link[c].nextId] = Open
                /\ \A i \in DOMAIN link[c].pending :
                      i # link[c].nextId => link'[c].pending[i] = link[c].pending[i]
  BY <1>4, <1>9, <1>12 DEF id
<1>14. /\ server'[c].alive = server[c].alive /\ server'[c].own = server[c].own
       /\ server[c].greeted => server'[c].greeted
       /\ server'[c].docs = IF what = "open" /\ server[c].alive = "up"
                                THEN server[c].docs \cup {own.file} ELSE server[c].docs
  BY <1>8, <1>11
<1>15. \A q \in server'[c].asked : q \in server[c].asked \/ (/\ what # "open"
                                                             /\ q.id = link[c].nextId
                                                             /\ q.of = own.n /\ q.what = what)
  BY <1>8, <1>11 DEF id
<1>16. "early" \in server'[c].faults => \/ "early" \in server[c].faults
                                        \/ /\ server[c].alive = "up" /\ what \in {"open", "query"}
                                           /\ ~server[c].greeted
  BY <1>8, <1>11
<1>17. "blind" \in server'[c].faults => \/ "blind" \in server[c].faults
                                        \/ /\ server[c].alive = "up" /\ what = "query"
                                           /\ own.file # NoFile /\ own.file \notin server[c].docs
  BY <1>8, <1>11
<1>18. "twice" \in server'[c].faults => \/ "twice" \in server[c].faults
                                        \/ /\ server[c].alive = "up" /\ what = "open"
                                           /\ own.file \in server[c].docs
  BY <1>8, <1>11
<1>19. /\ call'[t].at = "drain" /\ call'[t].on = c /\ call'[t].what = what
       /\ call'[t].n = own.n /\ call'[t].file = own.file
       /\ what # "open" => call'[t].id = link[c].nextId
  BY <1>4, <1>10 DEF id
<1> QED
  BY <1>10, <1>11, <1>12, <1>13, <1>14, <1>15, <1>16, <1>17, <1>18, <1>19 DEF Delivers

\* A call comes to its end, and its request is forgotten or was none.
Ends(t) ==
    /\ call' = [call EXCEPT ![t] = Idle]
    /\ link' = link \/ (call[t].at = "wait" /\ Popped(t))
    /\ server' = server

Frees(t) ==
    /\ call' \in [Users -> Call] /\ link' \in [Clients -> Link]
    /\ call'[t] = Idle /\ \A u \in Users : u # t => call'[u] = call[u]
    /\ server' = server
    /\ \A c \in Clients :
         /\ call[t].at # "wait" \/ call[t].on # c => link'[c] = link[c]
         /\ link'[c].running = link[c].running /\ link'[c].nextId = link[c].nextId
         /\ \A i \in DOMAIN link'[c].pending :
               i \in DOMAIN link[c].pending /\ link'[c].pending[i] = link[c].pending[i]
         /\ \A i \in DOMAIN link[c].pending :
               ~(call[t].at = "wait" /\ call[t].on = c /\ call[t].id = i) =>
                  i \in DOMAIN link'[c].pending /\ link'[c].pending[i] = link[c].pending[i]

LEMMA Ended ==
    ASSUME TypeInv, NEW t \in Users, call[t].at = "wait" => call[t].on \in Clients, Ends(t)
    PROVE  Frees(t)
<1> USE DEF Ends
<1>1. call' \in [Users -> Call] /\ call'[t] = Idle /\ \A u \in Users : u # t => call'[u] = call[u]
  BY NewTypes DEF TypeInv
<1>2. CASE link' = link
  BY <1>1, <1>2 DEF TypeInv, Frees
<1>3. CASE call[t].at = "wait" /\ Popped(t)
  <2> DEFINE o == call[t].on
             p == Forget(link[o].pending, call[t].id)
  <2>1. o \in Clients /\ link[o] \in Link /\ link[o].pending \in Futures
    BY <1>3 DEF TypeInv, Link
  <2>2. p \in Futures /\ DOMAIN p = DOMAIN link[o].pending \ {call[t].id}
        /\ \A i \in DOMAIN link[o].pending : i # call[t].id => p[i] = link[o].pending[i]
    BY <2>1, Forgotten
  <2>3. link' = [link EXCEPT ![o] = [link[o] EXCEPT !.pending = p]]
    BY <1>3, <2>1 DEF Popped, TypeInv
  <2> HIDE DEF p, o
  <2>4. [link[o] EXCEPT !.pending = p] \in Link
    BY <2>1, <2>2 DEF Link
  <2>5. link' \in [Clients -> Link] /\ \A c \in Clients : c # o => link'[c] = link[c]
    BY <2>1, <2>3, <2>4 DEF TypeInv
  <2>6. link'[o].running = link[o].running /\ link'[o].nextId = link[o].nextId
        /\ link'[o].pending = p
    BY <2>1, <2>3 DEF TypeInv, Link
  <2> QED
    BY <1>1, <1>3, <2>2, <2>5, <2>6 DEF o, Frees
<1> QED
  BY <1>2, <1>3
-----------------------------------------------------------------------------
(* A message is posted: by a tool call, or to shut the server down.        *)

LEMMA BusyOn ==
    ASSUME Shape, NEW u \in Users, Busy(u)
    PROVE  call[u].on \in 1..created /\ call[u].on \in Clients
<1>1. call[u].on \in 1..created
  BY DEF Shape, CallsInv
<1>2. created \in 0..MaxServers
  BY DEF Shape, TypeInv
<1> QED
  BY <1>1, <1>2, LspAssumption DEF Clients

LEMMA NaturalIds ==
    ASSUME TypeInv, NEW c \in Clients
    PROVE  /\ link[c].nextId \in Nat
           /\ \A i \in DOMAIN link[c].pending : i \in Nat
           /\ \A q \in server[c].asked : q.id \in Nat
<1>1. link[c] \in Link /\ server[c] \in Server
  BY DEF TypeInv
<1>2. link[c].nextId \in Nat /\ \A q \in server[c].asked : q.id \in Nat
  BY <1>1 DEF Link, Server
<1>3. PICK ids \in SUBSET Nat : link[c].pending \in [ids -> Value]
  BY <1>1 DEF Link, Futures
<1> QED
  BY <1>2, <1>3

LEMMA PostKeepsShape ==
    ASSUME Shape, NEW t \in Users, NEW own \in Call, NEW c \in Clients,
           NEW what \in {"open", "query", "shutdown"}, what = "open" => own.file # NoFile,
           Post(t, own, c, what),
           c \in 1..created, server[c].alive # "none",
           \/ t \in Callers /\ what # "shutdown" /\ closing = "no" /\ closing' = "no"
           \/ /\ t = Closer /\ what = "shutdown" /\ closing = "no" /\ closing' = "asking"
              /\ c = client /\ \A u \in Callers : ~Busy(u),
           client' = client, created' = created, opened' \subseteq Files, calls' \in Nat
    PROVE  Shape'
<1> USE DEF Shape
<1>0. Delivers(t, own, c, what)
  BY Posted
<1>1. c \in Nat /\ created \in 0..MaxServers /\ created \in Nat /\ c # 0 /\ c <= created
  BY LspAssumption DEF TypeInv, Clients
<1>2. closing' \in {"no", "asking"}
  OBVIOUS
<1>3. TypeInv'
  BY <1>2, <1>0 DEF TypeInv, Delivers
<1>4. ClientsInv'
  <2>1. \A d \in Clients : d # c => (Fresh(d) => Fresh(d)')
    BY <1>0 DEF Fresh, Delivers
  <2>2. \A u \in Callers : call[u].at = "spawn" => call[u].on # c
    BY NewTypes DEF ClientsInv, Fresh
  <2>3. (client = IF closing = "closed" THEN 0 ELSE created)'
    BY <1>2 DEF ClientsInv
  <2>4. ASSUME NEW d \in Clients PROVE (d > created => Fresh(d))' /\ (link[d].running => server[d].alive # "none")'
    <3>1. CASE d = c
      BY <3>1, <1>1, <1>0 DEF ClientsInv, Delivers
    <3>2. CASE d # c
      <4>1. (d > created => Fresh(d)) /\ (link[d].running => server[d].alive # "none")
        BY DEF ClientsInv
      <4>2. (d > created => Fresh(d))'
        BY <4>1, <3>2, <2>1
      <4>3. (link[d].running => server[d].alive # "none")'
        BY <4>1, <3>2, <1>0 DEF Delivers
      <4> QED
        BY <4>2, <4>3
    <3> QED
      BY <3>1, <3>2
  <2>5. ASSUME NEW u \in Callers, call'[u].at = "spawn"
        PROVE  Fresh(call[u].on)' /\ \A w \in Users : w # u /\ Busy(w)' => call'[w].on # call'[u].on
    <3>1. u # t /\ u \in Users /\ call'[u] = call[u]
      BY <2>5, <1>0 DEF Users, Delivers
    <3>2. call[u].on \in Clients /\ call[u].on # c /\ Fresh(call[u].on)
      BY <2>2, <2>5, <3>1, BusyOn DEF ClientsInv, Busy
    <3>3. Fresh(call[u].on)'
      BY <2>1, <3>1, <3>2 DEF Fresh
    <3>4. \A w \in Users : w # u /\ Busy(w)' => call'[w].on # call'[u].on
      BY <2>5, <3>1, <3>2, <1>0 DEF ClientsInv, Busy, Delivers
    <3> QED
      BY <3>3, <3>4
  <2>6. \A u \in Users : call'[u].at \in {"drain", "wait"} => server'[call'[u].on].alive # "none"
    <3>1. SUFFICES ASSUME NEW u \in Users, u # t, call[u].at \in {"drain", "wait"}
                   PROVE  server'[call[u].on].alive # "none"
      BY <1>0 DEF Delivers
    <3>2. call[u].on \in Clients /\ server[call[u].on].alive # "none"
      BY <3>1, BusyOn DEF ClientsInv, Busy
    <3> QED
      BY <3>2, <1>0 DEF Delivers
  <2> QED
    BY <2>3, <2>4, <2>5, <2>6 DEF ClientsInv
<1>5. CallsInv'
  <2>1. \A u \in Users : IF Busy(u)' THEN call'[u].on \in 1..created' ELSE call'[u] = Idle
    <3>1. ASSUME NEW u \in Users PROVE IF Busy(u)' THEN call'[u].on \in 1..created' ELSE call'[u] = Idle
      <4>1. CASE u = t
        BY <4>1, <1>0 DEF Busy, Delivers
      <4>2. CASE u # t
        <5>1. call'[u] = call[u]
          BY <4>2, <1>0 DEF Delivers
        <5> QED
          BY <5>1 DEF CallsInv, Busy
      <4> QED
        BY <4>1, <4>2
    <3> QED
      BY <3>1
  <2>2. ASSUME NEW u \in Callers
        PROVE  (/\ call[u].at = "spawn" => call[u].what = ""
                /\ call[u].at = "drain" => call[u].what \in {"initialize", "initialized", "open", "query"}
                /\ call[u].at = "wait" => call[u].what \in {"initialize", "query"}
                /\ call[u].what = "open" => call[u].file # NoFile)'
    <3>1. CASE u = t
      <4>1. call'[u].at = "drain" /\ call'[u].what = what /\ call'[u].file = own.file
        BY <3>1, <1>0 DEF Delivers
      <4>2. what # "shutdown"
        BY <3>1, LspAssumption
      <4> QED
        BY <4>1, <4>2
    <3>2. CASE u # t
      <4>1. call'[u] = call[u]
        BY <3>2, <1>0 DEF Users, Delivers
      <4> QED
        BY <4>1 DEF CallsInv
    <3> QED
      BY <3>1, <3>2
  <2>3. closing' # "no" => \A u \in Callers : ~Busy(u)'
    BY <1>0, LspAssumption DEF Users, Busy, Delivers
  <2>4. Busy(Closer)' => /\ closing' = "asking" /\ call'[Closer].at \in {"drain", "wait"}
                         /\ call'[Closer].what = "shutdown" /\ call'[Closer].on = client'
    <3>1. Closer \in Users
      BY DEF Users
    <3>2. CASE t = Closer
      BY <3>2, <1>0, LspAssumption DEF Delivers
    <3>3. CASE t # Closer
      BY <3>1, <3>3, <1>0 DEF CallsInv, Busy, Delivers
    <3> QED
      BY <3>2, <3>3
  <2>5. closing' \in {"asking", "reaping"} => client' # 0
    BY <1>1, <1>2
  <2>6. closing' = "asking" => Busy(Closer)'
    <3>1. closing' = "asking" => t = Closer /\ call'[t].at = "drain"
      BY <1>0 DEF Delivers
    <3> QED
      BY <3>1 DEF Busy
  <2> QED
    BY <2>1, <2>2, <2>3, <2>4, <2>5, <2>6 DEF CallsInv
<1> QED
  BY <1>3, <1>4, <1>5

LEMMA PostKeepsIds ==
    ASSUME Shape, IdsInv, NEW t \in Users, NEW own \in Call, NEW c \in Clients,
           NEW what \in {"open", "query", "shutdown"}, what = "open" => own.file # NoFile,
           Post(t, own, c, what)
    PROVE  IdsInv'
<1> DEFINE id == link[c].nextId
<1>0. Delivers(t, own, c, what)
  BY Posted DEF Shape
<1>1. id \in Nat /\ \A d \in Clients : link[d].nextId \in Nat
  BY DEF Shape, TypeInv, Link
<1>2. ASSUME NEW d \in Clients
      PROVE  /\ \A i \in DOMAIN link'[d].pending : i < link'[d].nextId
             /\ \A q \in server'[d].asked : q.id < link'[d].nextId
             /\ \A i \in DOMAIN link'[d].pending :
                   link'[d].pending[i].kind = "foreign" => i \in server'[d].own
  <2>1. CASE d # c
    BY <2>1, <1>0 DEF IdsInv, Shape, Delivers
  <2>2. CASE d = c /\ what = "open"
    BY <2>2, <1>0 DEF IdsInv, Shape, Delivers
  <2>3. CASE d = c /\ what # "open"
    <3>1. \A i \in DOMAIN link[c].pending : i < id
      BY DEF IdsInv
    <3>2. \A q \in server[c].asked : q.id < id
      BY DEF IdsInv
    <3>3. \A i \in DOMAIN link[c].pending : i \in Nat
      BY NaturalIds DEF Shape
    <3>4. \A q \in server[c].asked : q.id \in Nat
      BY NaturalIds DEF Shape
    <3>5. link'[c].nextId = id + 1 /\ DOMAIN link'[c].pending = DOMAIN link[c].pending \cup {id}
      BY <2>3, <1>0 DEF Delivers
    <3>6. \A q \in server'[c].asked : q \in server[c].asked \/ q.id = id
      BY <2>3, <1>0 DEF Delivers
    <3>9. \A i \in DOMAIN link'[c].pending :
             link'[c].pending[i].kind = "foreign" => i \in server'[c].own
      <4>1. server'[c].own = server[c].own /\ link'[c].pending[id].kind = "open"
        BY <2>3, <1>0, NewTypes DEF Delivers
      <4>2. \A i \in DOMAIN link[c].pending : i # id => link'[c].pending[i] = link[c].pending[i]
        BY <2>3, <1>0 DEF Delivers
      <4>3. \A i \in DOMAIN link[c].pending : link[c].pending[i].kind = "foreign" => i \in server[c].own
        BY DEF IdsInv
      <4> HIDE DEF id
      <4> QED
        BY <3>5, <4>1, <4>2, <4>3
    <3> HIDE DEF id
    <3>7. \A i \in DOMAIN link'[c].pending : i < link'[c].nextId
      BY <1>1, <3>1, <3>3, <3>5
    <3>8. \A q \in server'[c].asked : q.id < link'[c].nextId
      BY <1>1, <3>2, <3>4, <3>5, <3>6
    <3> QED
      BY <2>3, <3>7, <3>8, <3>9
  <2> QED
    BY <2>1, <2>2, <2>3
<1>3. ASSUME NEW u \in Users, Asking(u)'
      PROVE  (/\ call[u].id \in DOMAIN link[call[u].on].pending
              /\ \A w \in Users : w # u /\ Asking(w) /\ call[w].on = call[u].on => call[w].id # call[u].id
              /\ \A q \in server[call[u].on].asked :
                    q.id = call[u].id => q.of = call[u].n /\ q.what = call[u].what
              /\ LET answer == link[call[u].on].pending[call[u].id]
                 IN answer.kind \in {"result", "error"} => answer.of = call[u].n /\ answer.what = call[u].what)'
  <2>1. \A w \in Users : Asking(w) /\ call[w].on = c => call[w].id # id
    BY <1>1 DEF IdsInv
  <2>2. \A q \in server[c].asked : q.id # id
    BY <1>1 DEF IdsInv
  <2>3. \A w \in Users : w # t => (Asking(w)' <=> Asking(w)) /\ call'[w] = call[w]
    BY <1>0 DEF Asking, Delivers
  <2>4. CASE u = t
    <3>1. what # "open" /\ call'[t].id = id /\ call'[t].on = c /\ call'[t].n = own.n /\ call'[t].what = what
      BY <1>3, <2>4, <1>0 DEF Asking, Asks, Delivers
    <3>2. link'[c].pending[id] = Open /\ id \in DOMAIN link'[c].pending
      BY <3>1, <1>0 DEF Delivers
    <3>3. \A q \in server'[c].asked : q.id = id => q.of = own.n /\ q.what = what
      BY <2>2, <3>1, <1>0 DEF Delivers
    <3>4. \A w \in Users : w # t /\ Asking(w)' /\ call'[w].on = c => call'[w].id # id
      BY <2>1, <2>3
    <3> HIDE DEF id
    <3> QED
      BY <2>4, <3>1, <3>2, <3>3, <3>4, NewTypes
  <2>5. CASE u # t
    <3> DEFINE o == call[u].on
               i == call[u].id
    <3>1. Asking(u) /\ call'[u] = call[u]
      BY <1>3, <2>3, <2>5
    <3>2. o \in Clients
      BY <3>1, BusyOn DEF Busy, Asking
    <3>3. /\ i \in DOMAIN link[o].pending
          /\ \A w \in Users : w # u /\ Asking(w) /\ call[w].on = o => call[w].id # i
          /\ \A q \in server[o].asked : q.id = i => q.of = call[u].n /\ q.what = call[u].what
          /\ link[o].pending[i].kind \in {"result", "error"} =>
                link[o].pending[i].of = call[u].n /\ link[o].pending[i].what = call[u].what
      BY <3>1 DEF IdsInv
    <3>4. o = c => i # id
      BY <2>1, <3>1
    <3>5. i \in DOMAIN link'[o].pending /\ link'[o].pending[i] = link[o].pending[i]
      <4>1. CASE o # c
        BY <4>1, <3>2, <3>3, <1>0 DEF Delivers
      <4>2. CASE o = c /\ what = "open"
        BY <4>2, <3>3, <1>0 DEF Delivers
      <4>3. CASE o = c /\ what # "open"
        BY <4>3, <3>3, <3>4, <1>0 DEF Delivers
      <4> QED
        BY <4>1, <4>2, <4>3
    <3>6. \A q \in server'[o].asked : q.id = i => q \in server[o].asked
      BY <3>2, <3>4, <1>0 DEF Delivers
    <3>7. \A w \in Users : w # u /\ Asking(w)' /\ call'[w].on = o => call'[w].id # i
      <4>1. call'[t].on = c
        BY <1>0 DEF Delivers
      <4>2. Asking(t)' => call'[t].id = id
        BY <1>0 DEF Asking, Asks, Delivers
      <4> QED
        BY <2>3, <3>3, <3>4, <4>1, <4>2
    <3>8. call'[u].on = o /\ call'[u].id = i /\ call'[u].n = call[u].n /\ call'[u].what = call[u].what
      BY <3>1
    <3> HIDE DEF id, o, i
    <3> QED
      BY <3>3, <3>5, <3>6, <3>7, <3>8
  <2> QED
    BY <2>4, <2>5
<1> HIDE DEF id
<1> QED
  BY <1>2, <1>3 DEF IdsInv

LEMMA PostKeepsProcess ==
    ASSUME Shape, ProcessInv, NEW t \in Users, NEW own \in Call, NEW c \in Clients,
           NEW what \in {"open", "query", "shutdown"}, what = "open" => own.file # NoFile,
           Post(t, own, c, what),
           closing = "no", client' = client, past \subseteq past'
    PROVE  ProcessInv'
<1>0. Delivers(t, own, c, what)
  BY Posted DEF Shape
<1>1. \A d \in Clients : (Up(d)' <=> Up(d)) /\ link'[d].running = link[d].running
  BY <1>0 DEF Delivers, Up
<1>2. \A u \in Callers : Handshaking(u)' => Handshaking(u) /\ call'[u] = call[u]
  BY <1>0 DEF Delivers, Handshaking, Users
<1> QED
  BY <1>1, <1>2 DEF ProcessInv

LEMMA PostKeepsGreet ==
    ASSUME Shape, GreetInv, NEW t \in Users, NEW own \in Call, NEW c \in Clients,
           NEW what \in {"open", "query", "shutdown"}, what = "open" => own.file # NoFile,
           Post(t, own, c, what),
           past \subseteq past', call[t].what # "initialize",
           what # "shutdown" /\ Up(c) => server[c].greeted \/ Excused',
           what = "shutdown" => t = Closer
    PROVE  GreetInv'
<1>0. Delivers(t, own, c, what)
  BY Posted DEF Shape
<1>1. \A d \in Clients : (Up(d)' <=> Up(d)) /\ (server[d].greeted => server'[d].greeted)
  BY <1>0 DEF Delivers, Up
<1>2. Excused => Excused'
  BY DEF Excused
<1>3. \A d \in Clients : "early" \in server'[d].faults => Excused'
  <2>1. "early" \in server'[c].faults => Excused'
    BY <1>0, <1>2 DEF Delivers, GreetInv, Up
  <2> QED
    BY <1>0, <1>2, <2>1 DEF Delivers, GreetInv
<1>4. \A d \in Clients : Up(d)' /\ ~server'[d].greeted =>
          "botched" \in past' \/ \E u \in Callers : call'[u].on = d /\ call'[u].what = "initialize"
  <2>1. SUFFICES ASSUME NEW d \in Clients, Up(d), ~server[d].greeted, "botched" \notin past
                 PROVE  \E u \in Callers : call'[u].on = d /\ call'[u].what = "initialize"
    BY <1>1
  <2>2. PICK u \in Callers : call[u].on = d /\ call[u].what = "initialize"
    BY <2>1 DEF GreetInv
  <2>3. call'[u] = call[u]
    BY <2>2, <1>0 DEF Delivers, Users
  <2> QED
    BY <2>2, <2>3
<1>5. ASSUME NEW u \in Callers, call'[u].what \in {"initialized", "open", "query"}, Up(call[u].on)'
      PROVE  server'[call'[u].on].greeted \/ Excused'
  <2>1. CASE u = t
    <3>1. what # "shutdown" /\ call'[u].on = c
      BY <1>0, <2>1, LspAssumption DEF Delivers
    <3> QED
      BY <1>1, <1>5, <3>1
  <2>2. CASE u # t
    <3>1. u \in Users /\ call'[u] = call[u]
      BY <1>0, <2>2 DEF Delivers, Users
    <3>2. Busy(u)
      BY <1>5, <3>1, NewTypes DEF Shape, CallsInv, Busy
    <3>3. call[u].on \in Clients
      BY <3>1, <3>2, BusyOn
    <3>4. Up(call[u].on)
      BY <1>1, <1>5, <3>1, <3>3 DEF Up
    <3>5. server[call[u].on].greeted \/ Excused
      BY <1>5, <3>1, <3>4 DEF GreetInv
    <3> QED
      BY <1>1, <1>2, <3>1, <3>3, <3>5, Zenon
  <2> QED
    BY <2>1, <2>2
<1> QED
  BY <1>3, <1>4, <1>5 DEF GreetInv

LEMMA PostKeepsTell ==
    ASSUME Shape, TellInv, NEW t \in Users, NEW own \in Call, NEW c \in Clients,
           NEW what \in {"open", "query", "shutdown"}, what = "open" => own.file # NoFile,
           Post(t, own, c, what),
           c \in 1..created, server[c].alive # "none", created' = created, closing = "no",
           what = "query" /\ Up(c) /\ c = 1 /\ own.file # NoFile => own.file \in server[c].docs,
           opened' = opened \/ \E f \in Files : /\ opened' = opened \cup {f}
                                                /\ Up(c) => f \in server[c].docs
    PROVE  TellInv'
<1>0. Delivers(t, own, c, what)
  BY Posted DEF Shape
<1>1. \A d \in Clients : (Up(d)' <=> Up(d)) /\ server'[d].alive = server[d].alive
                         /\ server[d].docs \subseteq server'[d].docs
  BY <1>0 DEF Delivers, Up
<1>2. created = 1 => c = 1
  BY DEF Clients
<1>3. \A d \in Clients : "blind" \in server'[d].faults => d > 1
  <2>1. c = 1 \/ c > 1
    BY LspAssumption DEF Clients
  <2> QED
    BY <1>0, <2>1 DEF Delivers, TellInv, Up
<1>4. created' = 0 \/ (created' = 1 /\ server'[1].alive = "none") => opened' = {}
  BY <1>1, <1>2
<1>5. created' = 1 /\ closing' # "closed" /\ Up(1)' => opened' \subseteq server'[1].docs
  BY <1>1, <1>2 DEF TellInv
<1>6. ASSUME NEW u \in Callers, call'[u].what = "open", Up(call[u].on)'
      PROVE  call'[u].file \in server'[call'[u].on].docs
  <2>1. CASE u = t
    <3>1. what = "open" /\ call'[u].on = c /\ call'[u].file = own.file /\ server[c].alive = "up"
      BY <1>0, <1>1, <1>6, <2>1 DEF Delivers, Up
    <3> QED
      BY <1>0, <3>1 DEF Delivers
  <2>2. CASE u # t
    <3>1. u \in Users /\ call'[u] = call[u]
      BY <1>0, <2>2 DEF Delivers, Users
    <3>2. Busy(u)
      BY <1>6, <3>1, NewTypes DEF Shape, CallsInv, Busy
    <3>3. call[u].on \in Clients
      BY <3>1, <3>2, BusyOn
    <3>4. Up(call[u].on)
      BY <1>1, <1>6, <3>1, <3>3 DEF Up
    <3> QED
      BY <1>1, <1>6, <3>1, <3>3, <3>4 DEF TellInv
  <2> QED
    BY <2>1, <2>2
<1> QED
  BY <1>3, <1>4, <1>5, <1>6 DEF TellInv

LEMMA PostKeepsOnce ==
    ASSUME Shape, OnceInv, NEW t \in Users, NEW own \in Call, NEW c \in Clients,
           NEW what \in {"open", "query", "shutdown"}, what = "open" => own.file # NoFile,
           Post(t, own, c, what),
           past \subseteq past', closing = "no", opened \subseteq opened',
           call[t].what = "open" => call[t].file \in opened',
           what = "open" /\ Up(c) /\ own.file \in server[c].docs => Disturbed',
           Disturbed' \/ \A u \in Callers : u # t => ~Busy(u),
           what = "shutdown" \/ t \in Callers
    PROVE  OnceInv'
<1>0. Delivers(t, own, c, what)
  BY Posted DEF Shape
<1>1. \A d \in Clients : Up(d)' <=> Up(d)
  BY <1>0 DEF Delivers, Up
<1>2. Disturbed => Disturbed'
  BY DEF Disturbed
<1>3. \A d \in Clients : "twice" \in server'[d].faults => Disturbed'
  BY <1>0, <1>2 DEF Delivers, OnceInv, Up
<1>4. ASSUME ~Disturbed'
      PROVE  /\ \A u, w \in Callers : Busy(u)' /\ Busy(w)' => u = w
             /\ closing' # "closed" => \A d \in Clients : Up(d)' => \A f \in server'[d].docs :
                   \/ f \in opened'
                   \/ \E u \in Callers : call'[u].what = "open" /\ call'[u].on = d /\ call'[u].file = f
  <2>1. \A u, w \in Callers : Busy(u)' /\ Busy(w)' => u = w
    <3>1. \A u \in Callers : Busy(u)' => u = t
      BY <1>0, <1>4 DEF Delivers, Busy, Users
    <3> QED
      BY <3>1
  <2>2. ASSUME NEW d \in Clients, Up(d), NEW f \in server'[d].docs
        PROVE  \/ f \in opened'
               \/ \E u \in Callers : call'[u].what = "open" /\ call'[u].on = d /\ call'[u].file = f
    <3>1. CASE f \in server[d].docs
      <4>1. CASE f \in opened
        BY <4>1
      <4>2. CASE f \notin opened
        <5>1. PICK u \in Callers : call[u].what = "open" /\ call[u].on = d /\ call[u].file = f
          BY <1>2, <1>4, <2>2, <3>1, <4>2 DEF OnceInv
        <5>2. CASE u = t
          BY <5>1, <5>2
        <5>3. CASE u # t
          <6>1. call'[u] = call[u]
            BY <1>0, <5>3 DEF Delivers, Users
          <6> QED
            BY <5>1, <6>1
        <5> QED
          BY <5>2, <5>3
      <4> QED
        BY <4>1, <4>2
    <3>2. CASE f \notin server[d].docs
      <4>1. d = c /\ what = "open" /\ f = own.file
        BY <1>0, <2>2, <3>2 DEF Delivers
      <4>2. t \in Callers
        BY <4>1
      <4> QED
        BY <1>0, <4>1, <4>2 DEF Delivers
    <3> QED
      BY <3>1, <3>2
  <2> QED
    BY <1>1, <2>1, <2>2
<1> QED
  BY <1>3, <1>4 DEF OnceInv
-----------------------------------------------------------------------------
(* A call ends: with a result, an error, a timeout or a cancellation.      *)
LEMMA EndKeepsShape ==
    ASSUME Shape, NEW t \in Users, Ends(t),
           \/ t \in Callers /\ closing' = closing
           \/ t = Closer /\ closing = "asking" /\ closing' = "reaping",
           client' = client, created' = created, opened' \subseteq Files, calls' \in Nat
    PROVE  Shape'
<1> USE DEF Shape
<1>0. Frees(t)
  BY BusyOn, Ended DEF Busy
<1>1. TypeInv'
  <2>1. closing' \in {"no", "asking", "reaping", "closed"}
    BY DEF TypeInv
  <2> QED
    BY <1>0, <2>1 DEF TypeInv, Frees
<1>2. ClientsInv'
  <2>1. \A c \in Clients : Fresh(c) => Fresh(c)'
    <3>1. \A c \in Clients : Fresh(c) => call[t].at # "wait" \/ call[t].on # c
      BY NewTypes DEF ClientsInv, Fresh
    <3> QED
      BY <1>0, <3>1 DEF Fresh, Frees
  <2>2. (client = IF closing = "closed" THEN 0 ELSE created)'
    BY DEF ClientsInv
  <2>3. \A c \in Clients : (c > created => Fresh(c))' /\ (link[c].running => server[c].alive # "none")'
    BY <1>0, <2>1 DEF ClientsInv, Frees
  <2>4. ASSUME NEW u \in Callers, call'[u].at = "spawn"
        PROVE  Fresh(call[u].on)' /\ \A w \in Users : w # u /\ Busy(w)' => call'[w].on # call'[u].on
    <3>1. u # t /\ u \in Users /\ call'[u] = call[u]
      BY <1>0, <2>4, NewTypes DEF Frees, Users
    <3>2. call[u].on \in Clients
      BY <2>4, <3>1, BusyOn DEF Busy
    <3>3. Fresh(call[u].on)'
      BY <2>1, <2>4, <3>1, <3>2 DEF ClientsInv, Fresh
    <3>4. \A w \in Users : w # u /\ Busy(w)' => call'[w].on # call'[u].on
      <4>1. \A w \in Users : Busy(w)' => Busy(w) /\ call'[w] = call[w]
        BY <1>0, NewTypes DEF Busy, Frees
      <4> QED
        BY <2>4, <3>1, <4>1 DEF ClientsInv
    <3> QED
      BY <3>3, <3>4
  <2>5. \A u \in Users : call'[u].at \in {"drain", "wait"} => server'[call'[u].on].alive # "none"
    BY <1>0, NewTypes DEF ClientsInv, Frees
  <2> QED
    BY <2>2, <2>3, <2>4, <2>5 DEF ClientsInv
<1>3. CallsInv'
  <2>1. \A u \in Users : call'[u] = call[u] \/ call'[u] = Idle
    BY <1>0 DEF Frees
  <2>2. \A u \in Users : IF Busy(u)' THEN call'[u].on \in 1..created' ELSE call'[u] = Idle
    BY <2>1, NewTypes DEF CallsInv, Busy
  <2>3. \A u \in Callers : u \in Users
    BY DEF Users
  <2>4. ASSUME NEW u \in Callers
        PROVE  (/\ call[u].at = "spawn" => call[u].what = ""
                /\ call[u].at = "drain" => call[u].what \in {"initialize", "initialized", "open", "query"}
                /\ call[u].at = "wait" => call[u].what \in {"initialize", "query"}
                /\ call[u].what = "open" => call[u].file # NoFile)'
    BY <2>1, <2>3, NewTypes DEF CallsInv
  <2>5. closing' # "no" => \A u \in Callers : ~Busy(u)'
    BY <2>1, <2>3, NewTypes DEF CallsInv, Busy
  <2>6. CASE t \in Callers
    <3>1. call'[Closer] = call[Closer]
      BY <1>0, <2>6, LspAssumption DEF Users, Frees
    <3> QED
      BY <2>2, <2>4, <2>5, <2>6, <3>1, LspAssumption DEF CallsInv, Busy
  <2>7. CASE t = Closer
    <3>1. ~Busy(Closer)' /\ closing' = "reaping" /\ client # 0
      BY <1>0, <2>7, NewTypes, LspAssumption DEF CallsInv, Busy, Frees
    <3> QED
      BY <2>2, <2>4, <2>5, <3>1 DEF CallsInv
  <2> QED
    BY <2>6, <2>7
<1> QED
  BY <1>1, <1>2, <1>3

LEMMA EndKeepsIds ==
    ASSUME Shape, IdsInv, NEW t \in Users, Ends(t)
    PROVE  IdsInv'
<1>0. Frees(t)
  BY BusyOn, Ended DEF Busy, Shape
<1>1. \A d \in Clients :
         /\ \A i \in DOMAIN link'[d].pending : i < link'[d].nextId
         /\ \A q \in server'[d].asked : q.id < link'[d].nextId
         /\ \A i \in DOMAIN link'[d].pending :
               link'[d].pending[i].kind = "foreign" => i \in server'[d].own
  BY <1>0 DEF IdsInv, Frees
<1>2. call[t].at = "wait" => Asking(t)
  BY LspAssumption DEF Asking, Asks, Shape, CallsInv, Busy, Users
<1>3. \A u \in Users : Asking(u)' => u # t /\ Asking(u) /\ call'[u] = call[u]
  BY <1>0, NewTypes DEF Frees, Asking
<1>4. ASSUME NEW u \in Users, Asking(u)'
      PROVE  (/\ call[u].id \in DOMAIN link[call[u].on].pending
              /\ \A w \in Users : w # u /\ Asking(w) /\ call[w].on = call[u].on => call[w].id # call[u].id
              /\ \A q \in server[call[u].on].asked :
                    q.id = call[u].id => q.of = call[u].n /\ q.what = call[u].what
              /\ LET answer == link[call[u].on].pending[call[u].id]
                 IN answer.kind \in {"result", "error"} => answer.of = call[u].n /\ answer.what = call[u].what)'
  <2> DEFINE o == call[u].on
             i == call[u].id
  <2>1. u # t /\ Asking(u) /\ call'[u] = call[u]
    BY <1>3, <1>4
  <2>2. o \in Clients
    BY <2>1, BusyOn DEF Busy, Asking
  <2>3. /\ i \in DOMAIN link[o].pending
        /\ \A w \in Users : w # u /\ Asking(w) /\ call[w].on = o => call[w].id # i
        /\ \A q \in server[o].asked : q.id = i => q.of = call[u].n /\ q.what = call[u].what
        /\ link[o].pending[i].kind \in {"result", "error"} =>
              link[o].pending[i].of = call[u].n /\ link[o].pending[i].what = call[u].what
    BY <2>1 DEF IdsInv
  <2>4. i \in DOMAIN link'[o].pending /\ link'[o].pending[i] = link[o].pending[i]
    BY <1>0, <1>2, <2>1, <2>2, <2>3 DEF Frees
  <2>5. \A w \in Users : w # u /\ Asking(w)' /\ call'[w].on = o => call'[w].id # i
    BY <1>3, <2>3
  <2>6. call'[u].on = o /\ call'[u].id = i /\ call'[u].n = call[u].n /\ call'[u].what = call[u].what
        /\ server' = server
    BY <1>0, <2>1 DEF Frees
  <2> HIDE DEF o, i
  <2> QED
    BY <2>3, <2>4, <2>5, <2>6
<1> QED
  BY <1>1, <1>4 DEF IdsInv

LEMMA EndKeepsProcess ==
    ASSUME Shape, ProcessInv, NEW t \in Users, Ends(t),
           client' = client, closing' = "closed" <=> closing = "closed", past \subseteq past'
    PROVE  ProcessInv'
<1>0. Frees(t)
  BY BusyOn, Ended DEF Busy, Shape
<1>1. \A c \in Clients : (Up(c)' <=> Up(c)) /\ link'[c].running = link[c].running
  BY <1>0 DEF Frees, Up
<1>2. \A u \in Callers : Handshaking(u)' => Handshaking(u) /\ call'[u] = call[u]
  BY <1>0, NewTypes DEF Frees, Handshaking, Users
<1> QED
  BY <1>1, <1>2 DEF ProcessInv

LEMMA EndKeepsGreet ==
    ASSUME Shape, GreetInv, NEW t \in Users, Ends(t), past \subseteq past',
           call[t].what = "initialize" => "botched" \in past'
    PROVE  GreetInv'
<1>0. Frees(t)
  BY BusyOn, Ended DEF Busy, Shape
<1>1. Excused => Excused'
  BY DEF Excused
<1>2. \A u \in Callers : u \in Users /\ (call'[u] = call[u] \/ call'[u].what = "")
  BY <1>0, NewTypes DEF Frees, Users
<1>3. \A c \in Clients : "early" \in server'[c].faults => Excused'
  BY <1>0, <1>1 DEF GreetInv, Frees
<1>4. \A c \in Clients : Up(c)' /\ ~server'[c].greeted =>
          "botched" \in past' \/ \E u \in Callers : call'[u].on = c /\ call'[u].what = "initialize"
  <2>1. SUFFICES ASSUME NEW c \in Clients, Up(c), ~server[c].greeted, "botched" \notin past'
                 PROVE  \E u \in Callers : call'[u].on = c /\ call'[u].what = "initialize"
    BY <1>0 DEF Frees, Up
  <2>2. PICK u \in Callers : call[u].on = c /\ call[u].what = "initialize"
    BY <2>1 DEF GreetInv
  <2>3. u # t /\ call'[u] = call[u]
    BY <1>0, <1>2, <2>1, <2>2 DEF Frees
  <2> QED
    BY <2>2, <2>3
<1>5. ASSUME NEW u \in Callers, call'[u].what \in {"initialized", "open", "query"}, Up(call[u].on)'
      PROVE  server'[call'[u].on].greeted \/ Excused'
  <2>1. call'[u] = call[u] /\ server' = server
    BY <1>0, <1>2, <1>5 DEF Frees
  <2>2. server[call[u].on].greeted \/ Excused
    BY <1>5, <2>1 DEF GreetInv, Up
  <2> QED
    BY <1>1, <2>1, <2>2, Zenon
<1> QED
  BY <1>3, <1>4, <1>5 DEF GreetInv

LEMMA EndKeepsTell ==
    ASSUME Shape, TellInv, NEW t \in Users, Ends(t),
           created' = created, closing' = "closed" <=> closing = "closed",
           \/ opened' = opened
           \/ /\ call[t].at = "drain"
              /\ \E f \in Files : /\ opened' = opened \cup {f}
                                  /\ Up(call[t].on) => f \in server[call[t].on].docs
    PROVE  TellInv'
<1>0. Frees(t)
  BY BusyOn, Ended DEF Busy, Shape
<1>1. server' = server /\ \A u \in Callers : u \in Users /\ (call'[u] = call[u] \/ call'[u].what = "")
  BY <1>0, NewTypes DEF Frees, Users
<1>2. \A u \in Callers : call'[u].what = "open" /\ Up(call[u].on)' =>
          call'[u].file \in server'[call'[u].on].docs
  BY <1>1 DEF TellInv, Up
<1>3. CASE opened' = opened
  BY <1>1, <1>2, <1>3 DEF TellInv, Up
<1>4. CASE /\ call[t].at = "drain"
           /\ \E f \in Files : /\ opened' = opened \cup {f}
                               /\ Up(call[t].on) => f \in server[call[t].on].docs
  <2>1. call[t].on \in 1..created /\ server[call[t].on].alive # "none"
    BY <1>4, BusyOn DEF Shape, ClientsInv, Busy
  <2>2. created # 0 /\ (created = 1 => call[t].on = 1)
    BY <2>1
  <2> QED
    BY <1>1, <1>2, <1>4, <2>1, <2>2 DEF TellInv, Up
<1> QED
  BY <1>3, <1>4

LEMMA EndKeepsOnce ==
    ASSUME Shape, OnceInv, NEW t \in Users, Ends(t),
           past \subseteq past', closing' = "closed" <=> closing = "closed", opened \subseteq opened',
           call[t].what = "open" => \/ call[t].file \in opened' \/ Disturbed'
                                    \/ ~Up(call[t].on)
    PROVE  OnceInv'
<1>0. Frees(t)
  BY BusyOn, Ended DEF Busy, Shape
<1>1. server' = server /\ \A u \in Callers : u \in Users /\ (Busy(u)' => Busy(u))
  BY <1>0, NewTypes DEF Frees, Users, Busy
<1>2. Disturbed => Disturbed'
  BY DEF Disturbed
<1>3. ASSUME ~Disturbed', closing' # "closed",
             NEW c \in Clients, Up(c), NEW f \in server[c].docs, f \notin opened'
      PROVE  \E u \in Callers : call'[u].what = "open" /\ call'[u].on = c /\ call'[u].file = f
  <2>1. PICK u \in Callers : call[u].what = "open" /\ call[u].on = c /\ call[u].file = f
    BY <1>2, <1>3 DEF OnceInv
  <2>2. u # t
    BY <1>3, <2>1
  <2>3. call'[u] = call[u]
    BY <1>0, <1>1, <2>2 DEF Frees
  <2> QED
    BY <2>1, <2>3
<1> QED
  BY <1>1, <1>2, <1>3 DEF OnceInv, Up
-----------------------------------------------------------------------------
(* A message with an answer was drained: the call waits.                   *)
LEMMA WaitKeeps ==
    ASSUME Inv, NEW t \in Users, call[t].at = "drain", call[t].what \in Asks,
           call' = [call EXCEPT ![t].at = "wait"],
           UNCHANGED <<client, opened, created, link, server, calls, closing, past>>
    PROVE  Inv'
<1>1. /\ call' \in [Users -> Call]
      /\ \A u \in Users : /\ call'[u].n = call[u].n /\ call'[u].file = call[u].file
                          /\ call'[u].on = call[u].on /\ call'[u].what = call[u].what
                          /\ call'[u].id = call[u].id
      /\ \A u \in Users : u # t => call'[u] = call[u]
      /\ call'[t].at = "wait"
  <2>1. call \in [Users -> Call]
    BY DEF Inv, Shape, TypeInv
  <2>2. call' = [call EXCEPT ![t] = [call[t] EXCEPT !.at = "wait"]]
    BY <2>1
  <2>3. [call[t] EXCEPT !.at = "wait"] \in Call
    BY <2>1 DEF Call
  <2> QED
    BY <2>1, <2>2, <2>3 DEF Call
<1>2. \A u \in Users : /\ (Busy(u)' <=> Busy(u)) /\ (Asking(u)' <=> Asking(u))
                       /\ (call'[u].at = "spawn" => call[u].at = "spawn" /\ call'[u] = call[u])
  BY <1>1 DEF Busy, Asking
<1>3. \A u \in Callers : u \in Users
  BY DEF Users
<1>4. TypeInv'
  BY <1>1 DEF Inv, Shape, TypeInv
<1>5. ClientsInv'
  BY <1>1, <1>2, <1>3 DEF Inv, Shape, ClientsInv, Fresh
<1>6. CallsInv'
  <2>1. \A u \in Users : IF Busy(u)' THEN call'[u].on \in 1..created' ELSE call'[u] = Idle
    BY <1>1, <1>2 DEF Inv, Shape, CallsInv, Busy
  <2>2. t \in Callers => call[t].what \in {"initialize", "query"}
    BY DEF Inv, Shape, CallsInv, Asks
  <2>3. ASSUME NEW u \in Callers
        PROVE  (/\ call[u].at = "spawn" => call[u].what = ""
                /\ call[u].at = "drain" => call[u].what \in {"initialize", "initialized", "open", "query"}
                /\ call[u].at = "wait" => call[u].what \in {"initialize", "query"}
                /\ call[u].what = "open" => call[u].file # NoFile)'
    <3>1. CASE u = t
      BY <1>1, <2>2, <3>1 DEF Inv, Shape, CallsInv
    <3>2. CASE u # t
      BY <1>1, <1>3, <3>2 DEF Inv, Shape, CallsInv
    <3> QED
      BY <3>1, <3>2
  <2>4. closing' # "no" => \A u \in Callers : ~Busy(u)'
    BY <1>2, <1>3 DEF Inv, Shape, CallsInv
  <2>5. Closer \in Users
    BY DEF Users
  <2>6. call'[Closer].at = "wait" \/ call'[Closer].at = call[Closer].at
    BY <1>1, <2>5
  <2>7. Busy(Closer)' => /\ closing' = "asking" /\ call'[Closer].at \in {"drain", "wait"}
                         /\ call'[Closer].what = "shutdown" /\ call'[Closer].on = client'
    BY <1>1, <1>2, <2>5, <2>6 DEF Inv, Shape, CallsInv
  <2>8. /\ closing' \in {"asking", "reaping"} => client' # 0
        /\ closing' = "asking" => Busy(Closer)'
    BY <1>2, <2>5 DEF Inv, Shape, CallsInv
  <2> QED
    BY <2>1, <2>3, <2>4, <2>7, <2>8 DEF CallsInv
<1>7. IdsInv'
  BY <1>1, <1>2 DEF Inv, IdsInv
<1>8. ProcessInv'
  <2>1. \A u \in Callers : Handshaking(u)' => Handshaking(u)
    BY <1>1, <1>2, <1>3 DEF Handshaking
  <2> QED
    BY <1>1, <1>3, <2>1 DEF Inv, ProcessInv, Up
<1>9. GreetInv'
  <2>1. \A u \in Callers : call'[u].what = call[u].what /\ call'[u].on = call[u].on
    BY <1>1, <1>3
  <2> QED
    BY <2>1 DEF Inv, GreetInv, Up, Excused
<1>10. TellInv'
  BY <1>1, <1>3 DEF Inv, TellInv, Up
<1>11. OnceInv'
  BY <1>1, <1>2, <1>3 DEF Inv, OnceInv, Up, Disturbed
<1> QED
  BY <1>4, <1>5, <1>6, <1>7, <1>8, <1>9, <1>10, <1>11 DEF Inv, Shape

(* No client can be used: a new one is stored.                             *)
LEMMA NewClientKeeps ==
    ASSUME Inv, NEW t \in Callers, NEW file \in Files \cup {NoFile},
           closing = "no", call[t].at = "idle", ~Usable(client), created < MaxServers,
           calls' = calls + 1, client' = created + 1, created' = created + 1,
           call' = [call EXCEPT ![t] = [Idle EXCEPT !.n = calls + 1, !.file = file,
                                                    !.at = "spawn", !.on = created + 1]],
           past \subseteq past', Starting => "raced" \in past',
           (\E u \in Callers : call[u].at # "idle") => "overlap" \in past',
           UNCHANGED <<link, server, opened, closing>>
    PROVE  Inv'
<1>0. PICK new \in Nat : new = created + 1
  BY DEF Inv, Shape, TypeInv
<1>1. /\ t \in Users /\ created \in Nat /\ calls \in Nat /\ new \in Clients /\ new \in 0..MaxServers
      /\ client = created /\ new > created /\ new \in 1..new
      /\ \A u \in Callers : u \in Users
  BY <1>0, LspAssumption DEF Inv, Shape, ClientsInv, TypeInv, Users, Clients
<1>2. /\ call' \in [Users -> Call] /\ \A u \in Users : u # t => call'[u] = call[u]
      /\ call'[t].at = "spawn" /\ call'[t].on = new /\ call'[t].what = "" /\ call'[t].file = file
  <2> DEFINE own == [Idle EXCEPT !.n = calls + 1, !.file = file, !.at = "spawn", !.on = new]
  <2>1. calls + 1 \in Nat
    BY <1>1
  <2>2. own \in Call /\ own.at = "spawn" /\ own.on = new /\ own.what = "" /\ own.file = file
    BY <1>1, <2>1, NewTypes DEF Call
  <2>3. call' = [call EXCEPT ![t] = own]
    BY <1>0
  <2> HIDE DEF own
  <2> QED
    BY <1>1, <2>2, <2>3 DEF Inv, Shape, TypeInv
<1>3. call[t] = Idle
  BY <1>1 DEF Inv, Shape, CallsInv, Busy
<1>4. Fresh(new) /\ Fresh(new)'
  BY <1>1 DEF Inv, Shape, ClientsInv, Fresh
<1>5. client' = new /\ created' = new
  BY <1>0
<1>6. \A u \in Users : Busy(u) => call[u].on \in 1..created /\ call[u].on # new /\ call[u].on \in Clients
  <2>1. \A u \in Users : Busy(u) => call[u].on \in 1..created /\ call[u].on \in Clients
    BY BusyOn DEF Inv
  <2> QED
    BY <1>0, <1>1, <2>1
<1>7. TypeInv'
  <2>1. calls' \in Nat
    BY <1>1
  <2> QED
    BY <1>1, <1>2, <1>5, <2>1 DEF Inv, Shape, TypeInv
<1>8. ClientsInv'
  <2>1. \A c \in Clients : c > new => c > created
    BY <1>0, <1>1 DEF Clients
  <2>2. \A c \in Clients : (c > created' => Fresh(c)') /\ (link'[c].running => server'[c].alive # "none")
    BY <1>5, <2>1 DEF Inv, Shape, ClientsInv, Fresh
  <2>3. ASSUME NEW u \in Callers, call'[u].at = "spawn"
        PROVE  Fresh(call[u].on)' /\ \A w \in Users : w # u /\ Busy(w)' => call'[w].on # call'[u].on
    <3>1. CASE u = t
      BY <1>2, <1>4, <1>6, <3>1 DEF Fresh, Busy
    <3>2. CASE u # t
      <4>1. call'[u] = call[u] /\ Busy(u) /\ call[u].at = "spawn"
        BY <1>1, <1>2, <2>3, <3>2 DEF Busy
      <4>2. Fresh(call[u].on)'
        BY <4>1 DEF Inv, Shape, ClientsInv, Fresh
      <4>3. call[u].on # new
        BY <1>1, <1>6, <4>1
      <4>4. \A w \in Users : w # u /\ Busy(w)' => call'[w].on # call'[u].on
        BY <1>2, <4>1, <4>3 DEF Inv, Shape, ClientsInv, Busy
      <4> QED
        BY <4>2, <4>4
    <3> QED
      BY <3>1, <3>2
  <2>4. \A u \in Users : call'[u].at \in {"drain", "wait"} => server'[call'[u].on].alive # "none"
    BY <1>2 DEF Inv, Shape, ClientsInv
  <2> QED
    BY <1>5, <2>2, <2>3, <2>4 DEF ClientsInv
<1>9. CallsInv'
  <2>1. \A u \in Users : IF Busy(u)' THEN call'[u].on \in 1..created' ELSE call'[u] = Idle
    <3>1. ASSUME NEW u \in Users, u # t PROVE IF Busy(u)' THEN call'[u].on \in 1..created' ELSE call'[u] = Idle
      <4>1. CASE Busy(u)
        <5>1. call[u].on \in 1..new
          BY <1>0, <1>1, <1>6, <4>1
        <5> QED
          BY <1>2, <1>5, <3>1, <4>1, <5>1 DEF Busy
      <4>2. CASE ~Busy(u)
        BY <1>2, <3>1, <4>2 DEF Inv, Shape, CallsInv, Busy
      <4> QED
        BY <4>1, <4>2
    <3> QED
      BY <1>1, <1>2, <1>5, <3>1 DEF Busy
  <2>2. ASSUME NEW u \in Callers
        PROVE  (/\ call[u].at = "spawn" => call[u].what = ""
                /\ call[u].at = "drain" => call[u].what \in {"initialize", "initialized", "open", "query"}
                /\ call[u].at = "wait" => call[u].what \in {"initialize", "query"}
                /\ call[u].what = "open" => call[u].file # NoFile)'
    BY <1>1, <1>2 DEF Inv, Shape, CallsInv
  <2>3. call'[Closer] = call[Closer] /\ closing' = "no" /\ Closer \in Users
    BY <1>2, LspAssumption DEF Users
  <2>4. ~Busy(Closer)'
    BY <2>3 DEF Inv, Shape, CallsInv, Busy
  <2> QED
    BY <2>1, <2>2, <2>3, <2>4 DEF CallsInv
<1>10. IdsInv'
  <2>1. \A u \in Users : Asking(u)' => u # t /\ Asking(u) /\ call'[u] = call[u]
    BY <1>2 DEF Asking
  <2> QED
    BY <2>1 DEF Inv, IdsInv
<1>11. \A c \in Clients : Up(c)' <=> Up(c)
  BY DEF Up
<1>12. ProcessInv'
  <2>1. closing' # "closed" => \A c \in Clients : Up(c)' => link'[c].running
    BY <1>11 DEF Inv, ProcessInv
  <2>2. ASSUME "raced" \notin past'
        PROVE  /\ \A c \in Clients : Up(c)' => c = client'
               /\ \A u \in Callers : Handshaking(u)' => call'[u].on = client'
    <3>1. "raced" \notin past /\ ~Starting
      BY <2>2
    <3>2. \A c \in Clients : ~Up(c)
      BY <3>1 DEF Inv, ProcessInv, Up, Usable, Clients
    <3>3. \A u \in Callers : ~Handshaking(u)
      BY <3>1 DEF Starting, Handshaking
    <3> QED
      BY <1>1, <1>2, <1>5, <1>11, <3>2, <3>3 DEF Handshaking
  <2> QED
    BY <2>1, <2>2 DEF ProcessInv
<1>13. \A u \in Callers : call'[u].what # "" => call'[u] = call[u]
  BY <1>1, <1>2
<1>14. GreetInv'
  <2>1. Excused => Excused'
    BY DEF Excused
  <2>2. \A u \in Callers : call[u].what = "initialize" => call'[u] = call[u]
    BY <1>1, <1>2, <1>3, NewTypes
  <2>3. \A c \in Clients : "early" \in server'[c].faults => Excused'
    BY <2>1 DEF Inv, GreetInv
  <2>4. \A c \in Clients : Up(c)' /\ ~server'[c].greeted =>
          "botched" \in past' \/ \E u \in Callers : call'[u].on = c /\ call'[u].what = "initialize"
    <3>1. SUFFICES ASSUME NEW c \in Clients, Up(c), ~server[c].greeted, "botched" \notin past
                   PROVE  \E u \in Callers : call'[u].on = c /\ call'[u].what = "initialize"
      BY <1>11
    <3>2. PICK u \in Callers : call[u].on = c /\ call[u].what = "initialize"
      BY <3>1 DEF Inv, GreetInv
    <3> QED
      BY <2>2, <3>2
  <2>5. ASSUME NEW u \in Callers, call'[u].what \in {"initialized", "open", "query"}, Up(call[u].on)'
        PROVE  server'[call'[u].on].greeted \/ Excused'
    <3>1. call'[u] = call[u]
      BY <1>13, <2>5
    <3>2. server[call[u].on].greeted \/ Excused
      BY <2>5, <3>1 DEF Inv, GreetInv, Up
    <3> QED
      BY <2>1, <3>1, <3>2, Zenon
  <2> QED
    BY <2>3, <2>4, <2>5 DEF GreetInv
<1>15. TellInv'
  <2>1. new = 1 => created = 0
    BY <1>0, <1>1
  <2>2. new # 0
    BY <1>0, <1>1
  <2>3. new = 1 => ~Up(1)'
    BY <1>4, NewTypes DEF Fresh, Up
  <2> QED
    BY <1>5, <1>13, <2>1, <2>2, <2>3 DEF Inv, TellInv, Up
<1>16. OnceInv'
  <2>1. Disturbed => Disturbed'
    BY DEF Disturbed
  <2>2. ~Disturbed' => \A u \in Callers : ~Busy(u)
    BY DEF Disturbed, Busy
  <2>3. \A u \in Callers : u # t => (Busy(u)' <=> Busy(u))
    BY <1>1, <1>2 DEF Busy
  <2>4. \A u \in Callers : call[u].what = "open" => call'[u] = call[u]
    BY <1>1, <1>2, <1>3, NewTypes
  <2>5. \A c \in Clients : "twice" \in server'[c].faults => Disturbed'
    BY <2>1 DEF Inv, OnceInv
  <2>6. ~Disturbed' => \A u, w \in Callers : Busy(u)' /\ Busy(w)' => u = w
    BY <2>2, <2>3
  <2>7. ASSUME ~Disturbed', closing # "closed",
               NEW c \in Clients, Up(c), NEW f \in server[c].docs, f \notin opened
        PROVE  \E u \in Callers : call'[u].what = "open" /\ call'[u].on = c /\ call'[u].file = f
    <3>1. PICK u \in Callers : call[u].what = "open" /\ call[u].on = c /\ call[u].file = f
      BY <2>1, <2>7 DEF Inv, OnceInv
    <3> QED
      BY <2>4, <3>1
  <2> QED
    BY <1>11, <2>5, <2>6, <2>7 DEF OnceInv
<1> QED
  BY <1>7, <1>8, <1>9, <1>10, <1>12, <1>14, <1>15, <1>16 DEF Inv, Shape

(* The process of a new client runs: initialize is sent.                   *)
Hello(t, c) == [call[t] EXCEPT !.at = "drain", !.what = "initialize", !.id = NextId(c)]
Begun(c) == [running |-> TRUE, reading |-> TRUE, nextId |-> NextId(c) + 1,
             pending |-> Register(<<>>, NextId(c))]
Born == [NewServer EXCEPT !.alive = "up"]

Greets(t, c) ==
    /\ call' = [call EXCEPT ![t] = Hello(t, c)]
    /\ link' = [link EXCEPT ![c] = Begun(c)]
    /\ server' = [server EXCEPT ![c] = Received(Born, Hello(t, c))]

LEMMA SpawnKeeps ==
    ASSUME Inv, NEW t \in Callers, call[t].at = "spawn", NEW c \in Clients, c = call[t].on, Greets(t, c),
           UNCHANGED <<client, opened, created, calls, closing, past>>
    PROVE  Inv'
<1>1. /\ t \in Users /\ Busy(t) /\ c \in 1..created /\ c \in Clients /\ Fresh(c) /\ NextId(c) = 1
      /\ call[t] \in Call /\ call[t].what = "" /\ created \in Nat
      /\ c \in Nat /\ c # 0 /\ c <= created
      /\ \A u \in Callers : u \in Users
      /\ \A u \in Users : u # t /\ Busy(u) => call[u].on # c
  <2>1. t \in Users /\ Busy(t) /\ \A u \in Callers : u \in Users
    BY DEF Users, Busy
  <2>2. c \in 1..created /\ c \in Clients
    BY <2>1, BusyOn DEF Inv
  <2>3. Fresh(c) /\ \A u \in Users : u # t /\ Busy(u) => call[u].on # c
    BY DEF Inv, Shape, ClientsInv
  <2>4. NextId(c) = 1
    BY <2>3, NewTypes DEF Fresh, NextId
  <2>5. call[t] \in Call /\ created \in Nat
    BY <2>1 DEF Inv, Shape, TypeInv
  <2>6. call[t].what = ""
    BY DEF Inv, Shape, CallsInv
  <2>7. c \in Nat /\ c # 0 /\ c <= created
    BY <2>2, <2>5 DEF Clients
  <2> QED
    BY <2>1, <2>2, <2>3, <2>4, <2>5, <2>6, <2>7
<1>range. /\ created \in Nat /\ c \in Nat /\ c # 0 /\ c <= created
  BY <1>1
<1>first. created # 0 /\ (created = 1 => c = 1) /\ ~(c > created)
  BY <1>range
<1>hello. PICK hello : hello = Hello(t, c)
  OBVIOUS
<1>2. /\ hello \in Call /\ hello.at = "drain" /\ hello.what = "initialize" /\ hello.id = 1
      /\ hello.on = c /\ hello.n = call[t].n /\ hello.file = call[t].file
  <2>1. hello = [call[t] EXCEPT !.at = "drain", !.what = "initialize", !.id = 1]
    BY <1>1, <1>hello DEF Hello
  <2> QED
    BY <1>1, <2>1 DEF Call, Whats
<1>3. /\ call' \in [Users -> Call] /\ call'[t] = hello
      /\ \A u \in Users : u # t => call'[u] = call[u]
  BY <1>1, <1>hello, <1>2 DEF Greets, Inv, Shape, TypeInv
<1>4. /\ link' \in [Clients -> Link] /\ link'[c].running /\ link'[c].nextId = 2
      /\ DOMAIN link'[c].pending = {1} /\ link'[c].pending[1] = Open
      /\ \A d \in Clients : d # c => link'[d] = link[d]
  <2>1. <<>> \in Futures /\ DOMAIN <<>> = {}
    <3>1. <<>> \in [{} -> Value]
      OBVIOUS
    <3> QED
      BY <3>1 DEF Futures
  <2>2. PICK p : p = Register(<<>>, 1)
    OBVIOUS
  <2>3. p \in Futures /\ DOMAIN p = {1} /\ p[1] = Open
    <3>1. p \in Futures /\ DOMAIN p = DOMAIN <<>> \cup {1} /\ p[1] = Open
      BY <2>1, <2>2, Registered
    <3> QED
      BY <2>1, <3>1
  <2>4. PICK l : l = Begun(c)
    OBVIOUS
  <2>5. l \in Link /\ l.running /\ l.nextId = 2 /\ l.pending = p
    <3>1. l = [running |-> TRUE, reading |-> TRUE, nextId |-> 2, pending |-> p]
      <4>1. l = [running |-> TRUE, reading |-> TRUE, nextId |-> NextId(c) + 1,
                 pending |-> Register(<<>>, NextId(c))]
        BY <2>4 DEF Begun
      <4>2. NextId(c) + 1 = 2
        <5>1. NextId(c) = 1
          BY <1>1
        <5>2. NextId(c) + 1 = 1 + 1
          BY <5>1, Zenon
        <5> QED
          BY <5>2
      <4>3. Register(<<>>, NextId(c)) = p
        BY <1>1, <2>2
      <4> QED
        BY <4>1, <4>2, <4>3, Zenon
    <3> QED
      BY <2>3, <3>1 DEF Link
  <2>6. link' = [link EXCEPT ![c] = l]
    BY <2>4 DEF Greets
  <2>7. link \in [Clients -> Link]
    BY DEF Inv, Shape, TypeInv
  <2> QED
    BY <1>1, <2>3, <2>5, <2>6, <2>7
<1>5. /\ server' \in [Clients -> Server] /\ server'[c].alive = "up" /\ server'[c].docs = {}
      /\ server'[c].faults = {}
      /\ \A q \in server'[c].asked : q.id = 1 /\ q.of = hello.n /\ q.what = "initialize"
      /\ \A d \in Clients : d # c => server'[d] = server[d]
  <2>1. PICK s : s = Born
    OBVIOUS
  <2>2. s \in Server /\ s.alive = "up" /\ s.docs = {} /\ s.asked = {} /\ s.faults = {}
    BY <2>1 DEF Born, NewServer, Server
  <2>3. PICK r : r = Received(s, hello)
    OBVIOUS
  <2>4. /\ r \in Server /\ r.alive = s.alive
        /\ r.docs = IF hello.what = "open" THEN s.docs \cup {hello.file} ELSE s.docs
        /\ \A q \in r.asked : q \in s.asked \/ (/\ hello.what \in Asks
                                                /\ q.id = hello.id /\ q.of = hello.n
                                                /\ q.what = hello.what)
        /\ "early" \in r.faults => \/ "early" \in s.faults
                                   \/ hello.what \in {"open", "query"} /\ ~s.greeted
        /\ "blind" \in r.faults => \/ "blind" \in s.faults
                                   \/ /\ hello.what = "query" /\ hello.file # NoFile
                                      /\ hello.file \notin s.docs
        /\ "twice" \in r.faults => \/ "twice" \in s.faults
                                   \/ hello.what = "open" /\ hello.file \in s.docs
    BY <1>2, <2>2, <2>3, Receives
  <2>5. r.alive = "up" /\ r.docs = {}
    BY <1>2, <2>2, <2>4
  <2>6. \A q \in r.asked : q.id = 1 /\ q.of = hello.n /\ q.what = "initialize"
    BY <1>2, <2>2, <2>4
  <2>7. r.faults = {}
    <3>1. r.faults \subseteq {"early", "blind", "twice"}
      BY <2>4 DEF Server
    <3> QED
      BY <1>2, <2>2, <2>4, <3>1
  <2>8. server' = [server EXCEPT ![c] = r]
    BY <1>hello, <2>1, <2>3 DEF Greets
  <2> QED
    BY <1>1, <2>4, <2>5, <2>6, <2>7, <2>8 DEF Inv, Shape, TypeInv
<1>6. \A u \in Users : Busy(u)' <=> Busy(u)
  BY <1>1, <1>2, <1>3 DEF Busy
<1>7. \A u \in Users : u # t /\ Busy(u) => /\ call[u].on \in Clients /\ call[u].on # c
                                           /\ server'[call[u].on] = server[call[u].on]
                                           /\ link'[call[u].on] = link[call[u].on]
  <2>1. \A u \in Users : Busy(u) => call[u].on \in Clients
    BY BusyOn DEF Inv
  <2> QED
    BY <1>1, <1>4, <1>5, <2>1
<1>8. TypeInv'
  BY <1>3, <1>4, <1>5 DEF Inv, Shape, TypeInv
<1>9. ClientsInv'
  <2>1. \A d \in Clients : (d > created' => Fresh(d)') /\ (link'[d].running => server'[d].alive # "none")
    <3>1. ~(c > created)
      BY <1>first
    <3> QED
      BY <1>4, <1>5, <3>1 DEF Inv, Shape, ClientsInv, Fresh
  <2>2. ASSUME NEW u \in Callers, call'[u].at = "spawn"
        PROVE  Fresh(call[u].on)' /\ \A w \in Users : w # u /\ Busy(w)' => call'[w].on # call'[u].on
    <3>1. u # t /\ call'[u] = call[u] /\ Busy(u) /\ u \in Users
      BY <1>1, <1>2, <1>3, <2>2 DEF Busy
    <3>2. Fresh(call[u].on)'
      BY <1>7, <2>2, <3>1 DEF Inv, Shape, ClientsInv, Fresh
    <3>3. \A w \in Users : Busy(w) => call'[w].on = call[w].on
      BY <1>1, <1>2, <1>3
    <3>4. \A w \in Users : w # u /\ Busy(w)' => call'[w].on # call'[u].on
      BY <1>6, <2>2, <3>1, <3>3 DEF Inv, Shape, ClientsInv
    <3> QED
      BY <3>2, <3>4
  <2>3. \A u \in Users : call'[u].at \in {"drain", "wait"} => server'[call'[u].on].alive # "none"
    <3>1. \A u \in Users : call[u].at \in {"drain", "wait"} => Busy(u)
      BY DEF Busy
    <3> QED
      BY <1>2, <1>3, <1>5, <1>7, <3>1 DEF Inv, Shape, ClientsInv
  <2> QED
    BY <2>1, <2>2, <2>3 DEF Inv, Shape, ClientsInv
<1>10. CallsInv'
  <2>1. \A u \in Users : IF Busy(u)' THEN call'[u].on \in 1..created' ELSE call'[u] = Idle
    <3>1. ASSUME NEW u \in Users, u # t
          PROVE  IF Busy(u)' THEN call'[u].on \in 1..created' ELSE call'[u] = Idle
      BY <1>3, <1>6, <3>1 DEF Inv, Shape, CallsInv
    <3> QED
      BY <1>1, <1>2, <1>3, <1>6, <3>1
  <2>2. ASSUME NEW u \in Callers
        PROVE  (/\ call[u].at = "spawn" => call[u].what = ""
                /\ call[u].at = "drain" => call[u].what \in {"initialize", "initialized", "open", "query"}
                /\ call[u].at = "wait" => call[u].what \in {"initialize", "query"}
                /\ call[u].what = "open" => call[u].file # NoFile)'
    <3>1. CASE u = t
      BY <1>2, <1>3, <3>1
    <3>2. CASE u # t
      BY <1>1, <1>3, <3>2 DEF Inv, Shape, CallsInv
    <3> QED
      BY <3>1, <3>2
  <2>3. call'[Closer] = call[Closer] /\ Closer \in Users
    BY <1>3, LspAssumption DEF Users
  <2> QED
    BY <1>1, <1>6, <2>1, <2>2, <2>3 DEF Inv, Shape, CallsInv
<1>11. IdsInv'
  <2>1. \A d \in Clients : /\ \A i \in DOMAIN link'[d].pending : i < link'[d].nextId
                           /\ \A q \in server'[d].asked : q.id < link'[d].nextId
                           /\ \A i \in DOMAIN link'[d].pending :
                                 link'[d].pending[i].kind = "foreign" => i \in server'[d].own
    <3>1. 1 < 2
      OBVIOUS
    <3>2. \A i \in DOMAIN link'[c].pending : link'[c].pending[i].kind # "foreign"
      BY <1>4, NewTypes
    <3> QED
      BY <1>4, <1>5, <3>1, <3>2 DEF Inv, IdsInv
  <2>2. \A u \in Users : Asking(u)' => u = t \/ (Asking(u) /\ call'[u] = call[u] /\ Busy(u))
    BY <1>3 DEF Asking, Busy
  <2>3. ASSUME NEW u \in Users, Asking(u)'
        PROVE  (/\ call[u].id \in DOMAIN link[call[u].on].pending
                /\ \A w \in Users : w # u /\ Asking(w) /\ call[w].on = call[u].on => call[w].id # call[u].id
                /\ \A q \in server[call[u].on].asked :
                      q.id = call[u].id => q.of = call[u].n /\ q.what = call[u].what
                /\ LET answer == link[call[u].on].pending[call[u].id]
                   IN answer.kind \in {"result", "error"} => answer.of = call[u].n /\ answer.what = call[u].what)'
    <3>1. CASE u = t
      <4>1. call'[u].id = 1 /\ call'[u].on = c /\ call'[u].n = hello.n /\ call'[u].what = "initialize"
        BY <1>2, <1>3, <3>1
      <4>2. \A w \in Users : w # u /\ Asking(w)' => call'[w].on # c
        BY <1>1, <2>2, <3>1
      <4>3. link'[c].pending[1].kind = "open"
        BY <1>4, NewTypes
      <4> QED
        BY <1>4, <1>5, <4>1, <4>2, <4>3
    <3>2. CASE u # t
      BY <1>2, <1>3, <1>7, <2>2, <2>3, <3>2 DEF Inv, IdsInv
    <3> QED
      BY <3>1, <3>2
  <2> QED
    BY <2>1, <2>3 DEF IdsInv
<1>12. \A d \in Clients : d # c => (Up(d)' <=> Up(d))
  BY <1>5 DEF Up
<1>13. \A u \in Callers : u # t => call'[u] = call[u]
  BY <1>1, <1>3
<1>14. \A u \in Callers : call[u].what # "" => Busy(u)
  BY <1>1, NewTypes DEF Inv, Shape, CallsInv
<1>15. ProcessInv'
  <2>1. \A u \in Callers : Handshaking(u)' => Handshaking(u) /\ call'[u].on = call[u].on
    BY <1>2, <1>3, <1>13 DEF Handshaking
  <2>2. "raced" \notin past' => c = client'
    BY DEF Inv, ProcessInv, Handshaking
  <2> QED
    BY <1>4, <1>12, <2>1, <2>2 DEF Inv, ProcessInv
<1>16. GreetInv'
  <2>1. \A d \in Clients : "early" \in server'[d].faults => Excused'
    BY <1>5 DEF Inv, GreetInv, Excused
  <2>2. ASSUME NEW d \in Clients, Up(d)', ~server'[d].greeted, "botched" \notin past'
        PROVE  \E u \in Callers : call'[u].on = d /\ call'[u].what = "initialize"
    <3>1. CASE d = c
      BY <1>2, <1>3, <3>1
    <3>2. CASE d # c
      <4>1. PICK u \in Callers : call[u].on = d /\ call[u].what = "initialize"
        BY <1>5, <2>2, <3>2 DEF Inv, GreetInv, Up
      <4> QED
        BY <1>1, <1>13, <4>1
    <3> QED
      BY <3>1, <3>2
  <2>3. ASSUME NEW u \in Callers, call'[u].what \in {"initialized", "open", "query"}, Up(call[u].on)'
        PROVE  server'[call'[u].on].greeted \/ Excused'
    <3>1. u # t /\ call'[u] = call[u]
      BY <1>2, <1>3, <1>13, <2>3
    <3>2. server'[call[u].on] = server[call[u].on]
      BY <1>1, <1>7, <1>14, <2>3, <3>1
    <3>3. server[call[u].on].greeted \/ Excused
      BY <2>3, <3>1, <3>2 DEF Inv, GreetInv, Up
    <3> QED
      BY <3>1, <3>2, <3>3, Zenon DEF Excused
  <2> QED
    BY <2>1, <2>2, <2>3 DEF GreetInv
<1>17. TellInv'
  <2>1. \A d \in Clients : "blind" \in server'[d].faults => d > 1
    BY <1>5 DEF Inv, TellInv
  <2>2. created # 0 /\ (created = 1 => c = 1)
    BY <1>first
  <2>3. server[c].alive = "none"
    BY <1>1, NewTypes DEF Fresh
  <2>4. created = 1 => opened = {}
    BY <2>2, <2>3 DEF Inv, TellInv
  <2>5. \A u \in Callers : call'[u].what = "open" => /\ u # t /\ call'[u] = call[u]
                                                     /\ server'[call[u].on] = server[call[u].on]
    BY <1>1, <1>2, <1>3, <1>7, <1>13, <1>14
  <2>6. \A u \in Callers : call'[u].what = "open" /\ Up(call[u].on)' =>
            call'[u].file \in server'[call'[u].on].docs
    BY <2>5 DEF Inv, TellInv, Up
  <2> QED
    BY <1>5, <2>1, <2>2, <2>4, <2>6 DEF TellInv
<1>18. OnceInv'
  <2>1. \A d \in Clients : "twice" \in server'[d].faults => Disturbed'
    BY <1>5 DEF Inv, OnceInv, Disturbed
  <2>2. ~Disturbed' => \A u, w \in Callers : Busy(u)' /\ Busy(w)' => u = w
    BY <1>1, <1>6 DEF Inv, OnceInv, Disturbed
  <2>3. ASSUME ~Disturbed', closing' # "closed", NEW d \in Clients, Up(d)', NEW f \in server'[d].docs,
               f \notin opened'
        PROVE  \E u \in Callers : call'[u].what = "open" /\ call'[u].on = d /\ call'[u].file = f
    <3>1. d # c /\ Up(d) /\ f \in server[d].docs
      BY <1>5, <1>12, <2>3
    <3>2. PICK u \in Callers : call[u].what = "open" /\ call[u].on = d /\ call[u].file = f
      BY <2>3, <3>1 DEF Inv, OnceInv, Disturbed
    <3> QED
      BY <1>1, <1>13, <3>2
  <2> QED
    BY <2>1, <2>2, <2>3 DEF OnceInv
<1> QED
  BY <1>8, <1>9, <1>10, <1>11, <1>15, <1>16, <1>17, <1>18 DEF Inv, Shape

(* initialize was answered: initialized is sent.                           *)
Noted(t) == [call[t] EXCEPT !.at = "drain", !.what = "initialized"]

Confirms(t, c) ==
    /\ call' = [call EXCEPT ![t] = Noted(t)]
    /\ server' = IF server[c].alive = "up"
                 THEN [server EXCEPT ![c] = Received(server[c], Noted(t))] ELSE server
    /\ Popped(t)

LEMMA ConfirmKeeps ==
    ASSUME Inv, NEW t \in Callers, call[t].at = "wait", call[t].what = "initialize",
           NEW c \in Clients, c = call[t].on, Confirms(t, c),
           UNCHANGED <<client, opened, created, calls, closing, past>>
    PROVE  Inv'
<1>1. /\ t \in Users /\ Busy(t) /\ Asking(t) /\ c \in 1..created /\ call[t] \in Call
      /\ \A u \in Callers : u \in Users
  <2>1. t \in Users /\ Busy(t) /\ Asking(t) /\ \A u \in Callers : u \in Users
    BY DEF Users, Busy, Asking, Asks
  <2> QED
    BY <2>1, BusyOn DEF Inv, Shape, TypeInv
<1>2. PICK msg : msg = Noted(t)
  OBVIOUS
<1>3. /\ msg \in Call /\ msg.at = "drain" /\ msg.what = "initialized" /\ msg.on = c
      /\ msg.n = call[t].n /\ msg.file = call[t].file /\ msg.id = call[t].id
  <2>1. msg = [call[t] EXCEPT !.at = "drain", !.what = "initialized"]
    BY <1>2 DEF Noted
  <2> QED
    BY <1>1, <2>1 DEF Call, Whats
<1>4. /\ call' \in [Users -> Call] /\ call'[t] = msg
      /\ \A u \in Users : u # t => call'[u] = call[u]
  BY <1>1, <1>2, <1>3 DEF Confirms, Inv, Shape, TypeInv
<1>5. /\ link' \in [Clients -> Link] /\ \A d \in Clients : d # c => link'[d] = link[d]
      /\ link'[c].running = link[c].running /\ link'[c].nextId = link[c].nextId
      /\ \A i \in DOMAIN link'[c].pending :
            i \in DOMAIN link[c].pending /\ link'[c].pending[i] = link[c].pending[i]
      /\ \A i \in DOMAIN link[c].pending : i # call[t].id =>
            i \in DOMAIN link'[c].pending /\ link'[c].pending[i] = link[c].pending[i]
  <2>1. link \in [Clients -> Link] /\ link[c].pending \in Futures
    BY DEF Inv, Shape, TypeInv, Link
  <2>2. PICK p : p = Forget(link[c].pending, call[t].id)
    OBVIOUS
  <2>3. p \in Futures /\ DOMAIN p = DOMAIN link[c].pending \ {call[t].id}
        /\ \A i \in DOMAIN link[c].pending : i # call[t].id => p[i] = link[c].pending[i]
    <3>1. PICK f \in Futures : f = link[c].pending
      BY <2>1
    <3>2. PICK i : i = call[t].id
      OBVIOUS
    <3>3. /\ Forget(f, i) \in Futures /\ DOMAIN Forget(f, i) = DOMAIN f \ {i}
          /\ \A j \in DOMAIN f : j # i => Forget(f, i)[j] = f[j]
      BY Forgotten
    <3> QED
      BY <2>2, <3>1, <3>2, <3>3
  <2>4. link' = [link EXCEPT ![c] = [link[c] EXCEPT !.pending = p]]
    BY <2>1, <2>2 DEF Confirms, Popped
  <2>5. PICK l : l = [link[c] EXCEPT !.pending = p]
    OBVIOUS
  <2>6. l \in Link /\ l.running = link[c].running /\ l.nextId = link[c].nextId /\ l.pending = p
    BY <2>1, <2>3, <2>5 DEF Link
  <2>7. link' \in [Clients -> Link] /\ link'[c] = l /\ \A d \in Clients : d # c => link'[d] = link[d]
    BY <2>1, <2>4, <2>5, <2>6
  <2> QED
    BY <2>3, <2>6, <2>7
<1>6. /\ server' \in [Clients -> Server] /\ \A d \in Clients : d # c => server'[d] = server[d]
      /\ server'[c].alive = server[c].alive /\ server'[c].docs = server[c].docs
      /\ server'[c].asked \subseteq server[c].asked /\ server'[c].faults \subseteq server[c].faults
      /\ server'[c].own = server[c].own
      /\ server[c].greeted => server'[c].greeted
      /\ server[c].alive = "up" => server'[c].greeted
  <2>1. server \in [Clients -> Server] /\ server[c] \in Server
    BY DEF Inv, Shape, TypeInv
  <2>2. CASE server[c].alive = "up"
    <3>1. PICK r : r = Received(server[c], msg)
      OBVIOUS
    <3>2. /\ r \in Server /\ r.alive = server[c].alive /\ r.own = server[c].own
          /\ r.docs = IF msg.what = "open" THEN server[c].docs \cup {msg.file} ELSE server[c].docs
          /\ \A q \in r.asked : q \in server[c].asked \/ (/\ msg.what \in Asks
                                                          /\ q.id = msg.id /\ q.of = msg.n
                                                          /\ q.what = msg.what)
          /\ "early" \in r.faults => \/ "early" \in server[c].faults
                                     \/ msg.what \in {"open", "query"} /\ ~server[c].greeted
          /\ "blind" \in r.faults => \/ "blind" \in server[c].faults
                                     \/ /\ msg.what = "query" /\ msg.file # NoFile
                                        /\ msg.file \notin server[c].docs
          /\ "twice" \in r.faults => \/ "twice" \in server[c].faults
                                     \/ msg.what = "open" /\ msg.file \in server[c].docs
      <4>1. PICK s \in Server : s = server[c]
        BY <2>1
      <4>2. msg \in Call /\ (msg.what = "open" => msg.file # NoFile)
        BY <1>3
      <4> QED
        BY <3>1, <4>1, <4>2, Receives
    <3>met. r.greeted <=> server[c].greeted \/ msg.what = "initialized"
      <4>1. server[c] \in Server /\ msg \in Call /\ (msg.what = "open" => msg.file # NoFile)
        BY <1>3, <2>1
      <4>2. Received(server[c], msg).greeted <=> server[c].greeted \/ msg.what = "initialized"
        BY <4>1, Receives
      <4> QED
        BY <3>1, <4>2, Zenon
    <3>3. server' = [server EXCEPT ![c] = r]
      BY <1>2, <2>2, <3>1 DEF Confirms
    <3>4. r.greeted
      BY <1>3, <3>met, Zenon
    <3>5. r.faults \subseteq server[c].faults
      <4>1. r.faults \subseteq {"early", "blind", "twice"}
        BY <3>2 DEF Server
      <4> QED
        BY <1>3, <3>2, <4>1
    <3>6. r.asked \subseteq server[c].asked /\ r.docs = server[c].docs
      BY <1>3, <3>2 DEF Asks
    <3>7. server'[c] = r /\ server' \in [Clients -> Server]
          /\ \A d \in Clients : d # c => server'[d] = server[d]
      BY <2>1, <3>2, <3>3
    <3> QED
      BY <3>2, <3>4, <3>5, <3>6, <3>7
  <2>3. CASE server[c].alive # "up"
    BY <2>1, <2>3 DEF Confirms
  <2> QED
    BY <2>2, <2>3
<1>7. /\ \A u \in Users : (Busy(u)' <=> Busy(u)) /\ call'[u].on = call[u].on
      /\ \A d \in Clients : /\ (Up(d)' <=> Up(d)) /\ server'[d].alive = server[d].alive
                            /\ server'[d].docs = server[d].docs
                            /\ server'[d].faults \subseteq server[d].faults
                            /\ server'[d].asked \subseteq server[d].asked
                            /\ link'[d].running = link[d].running /\ link'[d].nextId = link[d].nextId
  <2>1. \A u \in Users : (Busy(u)' <=> Busy(u)) /\ call'[u].on = call[u].on
    BY <1>1, <1>3, <1>4 DEF Busy
  <2>2. ASSUME NEW d \in Clients
        PROVE  /\ (Up(d)' <=> Up(d)) /\ server'[d].alive = server[d].alive
               /\ server'[d].docs = server[d].docs
               /\ server'[d].faults \subseteq server[d].faults
               /\ server'[d].asked \subseteq server[d].asked
    BY <1>6 DEF Up
  <2>3. \A d \in Clients : link'[d].running = link[d].running /\ link'[d].nextId = link[d].nextId
    BY <1>5
  <2> QED
    BY <2>1, <2>2, <2>3
<1>8. TypeInv'
  BY <1>4, <1>5, <1>6 DEF Inv, Shape, TypeInv
<1>9. ClientsInv'
  <2>1. ~Fresh(c)
    BY <1>1, NewTypes DEF Inv, Shape, ClientsInv, Fresh
  <2>2. \A d \in Clients : Fresh(d) => Fresh(d)'
    BY <1>5, <1>6, <2>1 DEF Fresh
  <2>3. \A d \in Clients : (d > created' => Fresh(d)') /\ (link'[d].running => server'[d].alive # "none")
    BY <1>7, <2>2 DEF Inv, Shape, ClientsInv
  <2>4. ASSUME NEW u \in Callers, call'[u].at = "spawn"
        PROVE  Fresh(call[u].on)' /\ \A w \in Users : w # u /\ Busy(w)' => call'[w].on # call'[u].on
    <3>1. u # t /\ call'[u] = call[u] /\ Busy(u) /\ u \in Users
      BY <1>1, <1>3, <1>4, <2>4 DEF Busy
    <3>2. call[u].on \in Clients
      BY <3>1, BusyOn DEF Inv
    <3>3. Fresh(call[u].on)'
      BY <2>2, <2>4, <3>1, <3>2 DEF Inv, Shape, ClientsInv, Fresh
    <3>4. \A w \in Users : w # u /\ Busy(w)' => call'[w].on # call'[u].on
      BY <1>7, <2>4, <3>1 DEF Inv, Shape, ClientsInv
    <3> QED
      BY <3>3, <3>4
  <2>5. \A u \in Users : call'[u].at \in {"drain", "wait"} => server'[call'[u].on].alive # "none"
    <3>1. ASSUME NEW u \in Users, call'[u].at \in {"drain", "wait"}
          PROVE  server'[call'[u].on].alive # "none"
      <4>1. call[u].at \in {"drain", "wait"} /\ call'[u].on = call[u].on /\ Busy(u)
        BY <1>3, <1>4, <3>1 DEF Busy
      <4>2. call[u].on \in Clients /\ server[call[u].on].alive # "none"
        BY <4>1, BusyOn DEF Inv, Shape, ClientsInv
      <4> QED
        BY <1>7, <4>1, <4>2
    <3> QED
      BY <3>1
  <2> QED
    BY <2>3, <2>4, <2>5 DEF Inv, Shape, ClientsInv
<1>10. CallsInv'
  <2>1. \A u \in Users : IF Busy(u)' THEN call'[u].on \in 1..created' ELSE call'[u] = Idle
    <3>1. ASSUME NEW u \in Users, u # t
          PROVE  IF Busy(u)' THEN call'[u].on \in 1..created' ELSE call'[u] = Idle
      BY <1>4, <1>7, <3>1 DEF Inv, Shape, CallsInv
    <3> QED
      BY <1>1, <1>3, <1>4, <1>7, <3>1
  <2>2. ASSUME NEW u \in Callers
        PROVE  (/\ call[u].at = "spawn" => call[u].what = ""
                /\ call[u].at = "drain" => call[u].what \in {"initialize", "initialized", "open", "query"}
                /\ call[u].at = "wait" => call[u].what \in {"initialize", "query"}
                /\ call[u].what = "open" => call[u].file # NoFile)'
    <3>1. CASE u = t
      BY <1>3, <1>4, <3>1
    <3>2. CASE u # t
      BY <1>1, <1>4, <3>2 DEF Inv, Shape, CallsInv
    <3> QED
      BY <3>1, <3>2
  <2>3. call'[Closer] = call[Closer] /\ Closer \in Users
    BY <1>4, LspAssumption DEF Users
  <2> QED
    BY <1>1, <1>7, <2>1, <2>2, <2>3 DEF Inv, Shape, CallsInv
<1>11. IdsInv'
  <2>1. \A d \in Clients : /\ \A i \in DOMAIN link'[d].pending : i < link'[d].nextId
                           /\ \A q \in server'[d].asked : q.id < link'[d].nextId
                           /\ \A i \in DOMAIN link'[d].pending :
                                 link'[d].pending[i].kind = "foreign" => i \in server'[d].own
    <3>1. ASSUME NEW d \in Clients
          PROVE  /\ \A i \in DOMAIN link[d].pending : i < link[d].nextId
                 /\ \A q \in server[d].asked : q.id < link[d].nextId
                 /\ \A i \in DOMAIN link[d].pending :
                       link[d].pending[i].kind = "foreign" => i \in server[d].own
      BY DEF Inv, IdsInv
    <3>2. ASSUME NEW d \in Clients
          PROVE  /\ server'[d].own = server[d].own /\ link'[d].nextId = link[d].nextId
                 /\ server'[d].asked \subseteq server[d].asked
                 /\ \A i \in DOMAIN link'[d].pending :
                       i \in DOMAIN link[d].pending /\ link'[d].pending[i] = link[d].pending[i]
      <4>1. CASE d = c
        BY <1>5, <1>6, <4>1
      <4>2. CASE d # c
        BY <1>5, <1>6, <4>2
      <4> QED
        BY <4>1, <4>2
    <3> QED
      BY <3>1, <3>2
  <2>2. \A u \in Users : Asking(u)' => u # t /\ Asking(u) /\ call'[u] = call[u] /\ Busy(u)
    BY <1>3, <1>4 DEF Asking, Asks, Busy
  <2>3. ASSUME NEW u \in Users, Asking(u)'
        PROVE  (/\ call[u].id \in DOMAIN link[call[u].on].pending
                /\ \A w \in Users : w # u /\ Asking(w) /\ call[w].on = call[u].on => call[w].id # call[u].id
                /\ \A q \in server[call[u].on].asked :
                      q.id = call[u].id => q.of = call[u].n /\ q.what = call[u].what
                /\ LET answer == link[call[u].on].pending[call[u].id]
                   IN answer.kind \in {"result", "error"} => answer.of = call[u].n /\ answer.what = call[u].what)'
    <3> DEFINE o == call[u].on
               i == call[u].id
    <3>1. u # t /\ Asking(u) /\ call'[u] = call[u] /\ o \in Clients
      BY <2>2, <2>3, BusyOn DEF Inv
    <3>2. /\ i \in DOMAIN link[o].pending
          /\ \A w \in Users : w # u /\ Asking(w) /\ call[w].on = o => call[w].id # i
          /\ \A q \in server[o].asked : q.id = i => q.of = call[u].n /\ q.what = call[u].what
          /\ link[o].pending[i].kind \in {"result", "error"} =>
                link[o].pending[i].of = call[u].n /\ link[o].pending[i].what = call[u].what
      BY <3>1 DEF Inv, IdsInv
    <3>3. i \in DOMAIN link'[o].pending /\ link'[o].pending[i] = link[o].pending[i]
      BY <1>1, <1>5, <3>1, <3>2
    <3>4. \A w \in Users : w # u /\ Asking(w)' /\ call'[w].on = o => call'[w].id # i
      BY <2>2, <3>2
    <3>5. \A q \in server'[o].asked : q \in server[o].asked
      BY <1>7, <3>1
    <3>6. call'[u].on = o /\ call'[u].id = i /\ call'[u].n = call[u].n /\ call'[u].what = call[u].what
      BY <3>1
    <3> HIDE DEF o, i
    <3> QED
      BY <3>2, <3>3, <3>4, <3>5, <3>6
  <2> QED
    BY <2>1, <2>3 DEF IdsInv
<1>12. \A u \in Callers : u # t => call'[u] = call[u]
  BY <1>1, <1>4
<1>13. ProcessInv'
  <2>1. \A u \in Callers : Handshaking(u)' => Handshaking(u)
    BY <1>12 DEF Handshaking
  <2> QED
    BY <1>1, <1>7, <2>1 DEF Inv, ProcessInv
<1>14. GreetInv'
  <2>1. \A d \in Clients : "early" \in server'[d].faults => Excused'
    BY <1>7 DEF Inv, GreetInv, Excused
  <2>2. ASSUME NEW d \in Clients, Up(d)', ~server'[d].greeted, "botched" \notin past'
        PROVE  \E u \in Callers : call'[u].on = d /\ call'[u].what = "initialize"
    <3>1. d # c
      BY <1>6, <1>7, <2>2 DEF Up
    <3>2. PICK u \in Callers : call[u].on = d /\ call[u].what = "initialize"
      BY <1>6, <1>7, <2>2, <3>1 DEF Inv, GreetInv
    <3> QED
      BY <1>12, <3>1, <3>2
  <2>3. ASSUME NEW u \in Callers, call'[u].what \in {"initialized", "open", "query"}, Up(call[u].on)'
        PROVE  server'[call'[u].on].greeted \/ Excused'
    <3>1. CASE u = t
      BY <1>3, <1>4, <1>6, <1>7, <2>3, <3>1 DEF Up
    <3>2. CASE u # t
      <4>1. call'[u] = call[u]
        BY <1>12, <3>2
      <4>2. call[u].on \in Clients
        BY <1>1, <2>3, <4>1, BusyOn, NewTypes DEF Inv, Shape, CallsInv, Busy
      <4>3. server[call[u].on].greeted \/ Excused
        BY <1>7, <2>3, <4>1, <4>2 DEF Inv, GreetInv, Up
      <4>4. server[call[u].on].greeted => server'[call[u].on].greeted
        BY <1>6, <4>2
      <4> QED
        BY <4>1, <4>3, <4>4, Zenon DEF Excused
    <3> QED
      BY <3>1, <3>2
  <2> QED
    BY <2>1, <2>2, <2>3 DEF GreetInv
<1>15. \A u \in Callers : call'[u].what = "open" <=> call[u].what = "open"
  BY <1>1, <1>3, <1>4
<1>16. TellInv'
  <2>1. \A d \in Clients : "blind" \in server'[d].faults => d > 1
    BY <1>7 DEF Inv, TellInv
  <2>2. created = 1 => 1 \in Clients
    BY LspAssumption DEF Inv, Shape, TypeInv, Clients
  <2>3. ASSUME NEW u \in Callers, call'[u].what = "open", Up(call[u].on)'
        PROVE  call'[u].file \in server'[call'[u].on].docs
    <3>1. call'[u] = call[u]
      BY <1>3, <1>4, <1>12, <2>3
    <3>2. call[u].on \in Clients
      BY <1>1, <2>3, <3>1, BusyOn, NewTypes DEF Inv, Shape, CallsInv, Busy
    <3> QED
      BY <1>7, <2>3, <3>1, <3>2 DEF Inv, TellInv, Up
  <2> QED
    BY <1>7, <2>1, <2>2, <2>3 DEF Inv, TellInv
<1>17. OnceInv'
  <2>1. \A d \in Clients : "twice" \in server'[d].faults => Disturbed'
    BY <1>7 DEF Inv, OnceInv, Disturbed
  <2>2. ~Disturbed' => \A u, w \in Callers : Busy(u)' /\ Busy(w)' => u = w
    BY <1>1, <1>7 DEF Inv, OnceInv, Disturbed
  <2>3. ASSUME ~Disturbed', closing' # "closed", NEW d \in Clients, Up(d)', NEW f \in server'[d].docs,
               f \notin opened'
        PROVE  \E u \in Callers : call'[u].what = "open" /\ call'[u].on = d /\ call'[u].file = f
    <3>1. PICK u \in Callers : call[u].what = "open" /\ call[u].on = d /\ call[u].file = f
      BY <1>7, <2>3 DEF Inv, OnceInv, Disturbed
    <3> QED
      BY <1>12, <3>1
  <2> QED
    BY <2>1, <2>2, <2>3 DEF OnceInv
<1> QED
  BY <1>8, <1>9, <1>10, <1>11, <1>13, <1>14, <1>16, <1>17 DEF Inv, Shape
-----------------------------------------------------------------------------
(* The server and the reader: no call moves, and what they change answers  *)
(* what was asked, breaks futures or ends the process.                     *)
Moves ==
    /\ UNCHANGED <<client, opened, created, call, calls, closing, past>>
    /\ link' \in [Clients -> Link] /\ server' \in [Clients -> Server]
    /\ \A d \in Clients :
         /\ Fresh(d) => link'[d] = link[d] /\ server'[d] = server[d]
         /\ link'[d].running = link[d].running /\ link'[d].nextId = link[d].nextId
         /\ DOMAIN link'[d].pending = DOMAIN link[d].pending
         /\ server'[d].faults = server[d].faults
         /\ \A q \in server'[d].asked : q \in server[d].asked
         /\ server[d].own \subseteq server'[d].own
         /\ server'[d].alive = "none" => server[d].alive = "none"
         /\ server'[d].alive = "up" => /\ server[d].alive = "up"
                                       /\ server'[d].docs = server[d].docs
                                       /\ server'[d].greeted = server[d].greeted
         /\ \A i \in DOMAIN link[d].pending :
               \/ link'[d].pending[i] = link[d].pending[i]
               \/ link'[d].pending[i].kind = "broken"
               \/ link'[d].pending[i].kind = "foreign" /\ i \in server'[d].own
               \/ \E q \in server[d].asked : /\ q.id = i /\ link'[d].pending[i].kind # "foreign"
                                             /\ link'[d].pending[i].of = q.of
                                             /\ link'[d].pending[i].what = q.what

LEMMA MoveKeeps ==
    ASSUME Inv, Moves
    PROVE  Inv'
<1>1. /\ UNCHANGED <<client, opened, created, call, calls, closing, past>>
      /\ \A u \in Callers : u \in Users
      /\ \A u \in Users : (Busy(u)' <=> Busy(u)) /\ (Asking(u)' <=> Asking(u))
      /\ \A u \in Users : Busy(u) => call[u].on \in Clients
      /\ \A d \in Clients : Up(d)' => Up(d)
  BY BusyOn DEF Moves, Users, Busy, Asking, Up, Inv
<1>2. TypeInv'
  BY DEF Moves, Inv, Shape, TypeInv
<1>3. ClientsInv'
  <2>1. \A d \in Clients : (Fresh(d) => Fresh(d)') /\ (d > created' => Fresh(d)')
                           /\ (link'[d].running => server'[d].alive # "none")
    BY <1>1 DEF Moves, Inv, Shape, ClientsInv, Fresh
  <2>2. ASSUME NEW u \in Callers, call'[u].at = "spawn"
        PROVE  Fresh(call[u].on)' /\ \A w \in Users : w # u /\ Busy(w)' => call'[w].on # call'[u].on
    <3>1. call'[u] = call[u] /\ call[u].on \in Clients
      BY <1>1, <2>2 DEF Busy
    <3> QED
      BY <1>1, <2>1, <2>2, <3>1 DEF Inv, Shape, ClientsInv, Fresh
  <2>3. ASSUME NEW u \in Users, call'[u].at \in {"drain", "wait"}
        PROVE  server'[call'[u].on].alive # "none"
    BY <1>1, <2>3 DEF Moves, Inv, Shape, ClientsInv, Busy
  <2> QED
    BY <1>1, <2>1, <2>2, <2>3 DEF Inv, Shape, ClientsInv
<1>4. CallsInv'
  BY <1>1 DEF Inv, Shape, CallsInv, Busy
<1>5. IdsInv'
  <2>1. \A d \in Clients : /\ \A i \in DOMAIN link'[d].pending : i < link'[d].nextId
                           /\ \A q \in server'[d].asked : q.id < link'[d].nextId
                           /\ \A i \in DOMAIN link'[d].pending :
                                 link'[d].pending[i].kind = "foreign" => i \in server'[d].own
    BY DEF Moves, Inv, IdsInv
  <2>2. ASSUME NEW u \in Users, Asking(u)'
        PROVE  (/\ call[u].id \in DOMAIN link[call[u].on].pending
                /\ \A w \in Users : w # u /\ Asking(w) /\ call[w].on = call[u].on => call[w].id # call[u].id
                /\ \A q \in server[call[u].on].asked :
                      q.id = call[u].id => q.of = call[u].n /\ q.what = call[u].what
                /\ LET answer == link[call[u].on].pending[call[u].id]
                   IN answer.kind \in {"result", "error"} => answer.of = call[u].n /\ answer.what = call[u].what)'
    <3>1. PICK o : o = call[u].on
      OBVIOUS
    <3>2. PICK i : i = call[u].id
      OBVIOUS
    <3>3. Asking(u) /\ call' = call /\ o \in Clients
      BY <1>1, <2>2, <3>1 DEF Asking, Busy
    <3>4. /\ i \in DOMAIN link[o].pending
          /\ \A w \in Users : w # u /\ Asking(w) /\ call[w].on = o => call[w].id # i
          /\ \A q \in server[o].asked : q.id = i => q.of = call[u].n /\ q.what = call[u].what
          /\ link[o].pending[i].kind \in {"result", "error"} =>
                link[o].pending[i].of = call[u].n /\ link[o].pending[i].what = call[u].what
      BY <3>1, <3>2, <3>3 DEF Inv, IdsInv
    <3>5. i \in DOMAIN link'[o].pending /\ \A q \in server'[o].asked : q \in server[o].asked
      BY <3>3, <3>4 DEF Moves
    <3>6. \/ link'[o].pending[i] = link[o].pending[i]
          \/ link'[o].pending[i].kind \in {"broken", "foreign"}
          \/ link'[o].pending[i].of = call[u].n /\ link'[o].pending[i].what = call[u].what
      BY <3>3, <3>4 DEF Moves
    <3> QED
      BY <1>1, <3>1, <3>2, <3>3, <3>4, <3>5, <3>6
  <2> QED
    BY <2>1, <2>2 DEF IdsInv
<1>6. ProcessInv'
  <2>1. \A u \in Callers : Handshaking(u)' <=> Handshaking(u)
    BY <1>1 DEF Handshaking
  <2>2. \A d \in Clients : link'[d].running = link[d].running
    BY DEF Moves
  <2> QED
    BY <1>1, <2>1, <2>2 DEF Inv, ProcessInv
<1>7. \A u \in Callers : call[u].what # "" => call[u].on \in Clients
  BY <1>1, NewTypes DEF Inv, Shape, CallsInv
<1>8. GreetInv'
  <2>1. \A d \in Clients : "early" \in server'[d].faults => Excused'
    BY <1>1 DEF Moves, Inv, GreetInv, Excused
  <2>2. ASSUME NEW d \in Clients, Up(d)', ~server'[d].greeted
        PROVE  "botched" \in past' \/ \E u \in Callers : call'[u].on = d /\ call'[u].what = "initialize"
    <3>1. Up(d) /\ server'[d].greeted = server[d].greeted
      BY <2>2 DEF Moves, Up
    <3>2. ~server[d].greeted
      BY <2>2, <3>1, Zenon
    <3> QED
      BY <1>1, <3>1, <3>2 DEF Inv, GreetInv
  <2>3. ASSUME NEW u \in Callers, call'[u].what \in {"initialized", "open", "query"}, Up(call[u].on)'
        PROVE  server'[call'[u].on].greeted \/ Excused'
    <3>1. call' = call /\ past' = past /\ call[u].on \in Clients
      BY <1>1, <1>7, <2>3
    <3>2. Up(call[u].on) /\ server'[call[u].on].greeted = server[call[u].on].greeted
      BY <2>3, <3>1 DEF Moves, Up
    <3>3. server[call[u].on].greeted \/ Excused
      BY <2>3, <3>1, <3>2 DEF Inv, GreetInv
    <3> QED
      BY <3>1, <3>2, <3>3, Zenon DEF Excused
  <2> QED
    BY <2>1, <2>2, <2>3 DEF GreetInv
<1>9. TellInv'
  <2>1. \A d \in Clients : "blind" \in server'[d].faults => d > 1
    BY DEF Moves, Inv, TellInv
  <2>2. created = 1 => 1 \in Clients
    BY LspAssumption DEF Inv, Shape, TypeInv, Clients
  <2>3. created' = 0 \/ (created' = 1 /\ server'[1].alive = "none") => opened' = {}
    BY <1>1, <2>2 DEF Moves, Inv, TellInv
  <2>4. created' = 1 /\ closing' # "closed" /\ Up(1)' => opened' \subseteq server'[1].docs
    BY <1>1, <2>2 DEF Moves, Inv, TellInv, Up
  <2>5. ASSUME NEW u \in Callers, call'[u].what = "open", Up(call[u].on)'
        PROVE  call'[u].file \in server'[call'[u].on].docs
    <3>1. call' = call /\ call[u].on \in Clients
      BY <1>1, <1>7, <2>5
    <3> QED
      BY <2>5, <3>1 DEF Moves, Inv, TellInv, Up
  <2> QED
    BY <2>1, <2>3, <2>4, <2>5 DEF TellInv
<1>10. OnceInv'
  <2>1. \A d \in Clients : Up(d)' => server'[d].docs = server[d].docs
    BY DEF Moves, Up
  <2>2. \A d \in Clients : server'[d].faults = server[d].faults
    BY DEF Moves
  <2> QED
    BY <1>1, <2>1, <2>2 DEF Inv, OnceInv, Disturbed
<1> QED
  BY <1>2, <1>3, <1>4, <1>5, <1>6, <1>8, <1>9, <1>10 DEF Inv, Shape

\* The reader completes a future, if it is open.
Completes(c, id, v) ==
    /\ link' \in [Clients -> Link] /\ \A d \in Clients : d # c => link'[d] = link[d]
    /\ link'[c].running = link[c].running /\ link'[c].nextId = link[c].nextId
    /\ DOMAIN link'[c].pending = DOMAIN link[c].pending
    /\ \A i \in DOMAIN link[c].pending :
          link'[c].pending[i] = link[c].pending[i] \/ (id = i /\ link'[c].pending[i] = v)

LEMMA Completing ==
    ASSUME link \in [Clients -> Link], NEW c \in Clients, NEW id \in Nat, NEW v \in Value,
           Complete(c, id, v)
    PROVE  Completes(c, id, v)
<1>1. PICK f \in Futures : f = link[c].pending
  BY DEF Link
<1>2. PICK g : g = IF id \in DOMAIN f /\ f[id] = Open THEN [f EXCEPT ![id] = v] ELSE f
  OBVIOUS
<1>3. PICK ids \in SUBSET Nat : f \in [ids -> Value]
  BY DEF Futures
<1>4. g \in [ids -> Value] /\ \A i \in ids : g[i] = f[i] \/ (id = i /\ g[i] = v)
  BY <1>2, <1>3
<1>5. g \in Futures
  BY <1>4 DEF Futures
<1>6. PICK l : l = [link[c] EXCEPT !.pending = g]
  OBVIOUS
<1>7. l \in Link /\ l.running = link[c].running /\ l.nextId = link[c].nextId /\ l.pending = g
  BY <1>1, <1>5, <1>6 DEF Link
<1>8. link' = [link EXCEPT ![c] = l]
  BY <1>1, <1>2, <1>6 DEF Complete
<1>9. link' \in [Clients -> Link] /\ link'[c] = l /\ \A d \in Clients : d # c => link'[d] = link[d]
  BY <1>1, <1>7, <1>8
<1> QED
  BY <1>1, <1>3, <1>4, <1>7, <1>9 DEF Completes

LEMMA RespondMoves ==
    ASSUME Inv, NEW c \in Clients, Respond(c)
    PROVE  Moves
<1>1. link \in [Clients -> Link] /\ server \in [Clients -> Server] /\ server[c].alive = "up"
  BY DEF Inv, Shape, TypeInv, Respond
<1>2. PICK q \in server[c].asked, kind \in {"result", "error"} :
         /\ server' = [server EXCEPT ![c].asked = @ \ {q}]
         /\ Complete(c, q.id, [kind |-> kind, of |-> q.of, what |-> q.what])
  BY DEF Respond
<1>3. PICK v : v = [kind |-> kind, of |-> q.of, what |-> q.what]
  OBVIOUS
<1>4. /\ q \in [id : Nat, of : Nat, what : Whats] /\ v \in Value /\ v.of = q.of /\ v.what = q.what
      /\ v.kind # "foreign"
  BY <1>1, <1>3 DEF Server, Value
<1>5. /\ server' \in [Clients -> Server] /\ \A d \in Clients : d # c => server'[d] = server[d]
      /\ server'[c].alive = server[c].alive /\ server'[c].docs = server[c].docs
      /\ server'[c].greeted = server[c].greeted /\ server'[c].faults = server[c].faults
      /\ server'[c].own = server[c].own
      /\ \A x \in server'[c].asked : x \in server[c].asked
  <2>1. PICK s : s = [server[c] EXCEPT !.asked = @ \ {q}]
    OBVIOUS
  <2>2. /\ s \in Server /\ s.alive = server[c].alive /\ s.docs = server[c].docs
        /\ s.faults = server[c].faults /\ \A x \in s.asked : x \in server[c].asked
        /\ s.own = server[c].own
    BY <1>1, <2>1 DEF Server
  <2>3. s.greeted = server[c].greeted
    BY <1>1, <2>1 DEF Server
  <2>4. server' = [server EXCEPT ![c] = s]
    BY <1>1, <1>2, <2>1
  <2>5. server' \in [Clients -> Server] /\ server'[c] = s /\ \A d \in Clients : d # c => server'[d] = server[d]
    BY <1>1, <2>2, <2>4
  <2> QED
    BY <2>2, <2>3, <2>5, Zenon
<1>6. Completes(c, q.id, v)
  BY <1>1, <1>2, <1>3, <1>4, Completing
<1>7. ~Fresh(c)
  BY <1>1, NewTypes DEF Fresh
<1>8. UNCHANGED <<client, opened, created, call, calls, closing, past>>
  BY DEF Respond
<1> QED
  BY <1>1, <1>4, <1>5, <1>6, <1>7, <1>8 DEF Moves, Completes

LEMMA AskBackMoves ==
    ASSUME Inv, NEW c \in Clients, AskBack(c)
    PROVE  Moves
<1>1. link \in [Clients -> Link] /\ server \in [Clients -> Server] /\ server[c].alive = "up"
  BY DEF Inv, Shape, TypeInv, AskBack
<1>2. PICK id \in ServerIds : /\ server' = [server EXCEPT ![c].own = @ \cup {id}]
                              /\ Complete(c, id, Foreign)
  BY DEF AskBack
<1>3. id \in Nat /\ Foreign \in Value /\ Foreign.kind = "foreign"
  BY LspAssumption, NewTypes
<1>4. Completes(c, id, Foreign)
  BY <1>1, <1>2, <1>3, Completing
<1>5. PICK s : s = [server[c] EXCEPT !.own = @ \cup {id}]
  OBVIOUS
<1>6. /\ s \in Server /\ s.alive = server[c].alive /\ s.docs = server[c].docs
      /\ s.faults = server[c].faults /\ s.asked = server[c].asked
      /\ s.own = server[c].own \cup {id}
  BY <1>1, <1>3, <1>5 DEF Server
<1>7. s.greeted = server[c].greeted
  BY <1>1, <1>5 DEF Server
<1>8. server' \in [Clients -> Server] /\ server'[c] = s /\ \A d \in Clients : d # c => server'[d] = server[d]
  BY <1>1, <1>2, <1>5, <1>6
<1>9. ~Fresh(c)
  BY <1>1, NewTypes DEF Fresh
<1>10. UNCHANGED <<client, opened, created, call, calls, closing, past>>
  BY DEF AskBack
<1>11. server'[c].greeted = server[c].greeted
  BY <1>7, <1>8, Zenon
<1> QED
  BY <1>1, <1>3, <1>4, <1>6, <1>8, <1>9, <1>10, <1>11 DEF Moves, Completes

LEMMA DiedTypes ==
    ASSUME NEW s \in Server
    PROVE  /\ Died(s) \in Server /\ Died(s).alive = "gone" /\ Died(s).asked = {}
           /\ Died(s).faults = s.faults /\ Died(s).own = s.own
BY DEF Died, NewServer, Server

LEMMA ExitMoves ==
    ASSUME Inv, NEW c \in Clients, Exit(c)
    PROVE  Moves
<1>1. link \in [Clients -> Link] /\ server \in [Clients -> Server] /\ server[c].alive = "up"
  BY DEF Inv, Shape, TypeInv, Exit
<1>2. PICK s : s = Died(server[c])
  OBVIOUS
<1>3. /\ s \in Server /\ s.alive = "gone" /\ s.asked = {} /\ s.faults = server[c].faults
      /\ s.own = server[c].own
  BY <1>1, <1>2, DiedTypes
<1>4. server' = [server EXCEPT ![c] = s]
  BY <1>1, <1>2 DEF Exit
<1>5. server' \in [Clients -> Server] /\ server'[c] = s /\ \A d \in Clients : d # c => server'[d] = server[d]
  BY <1>1, <1>3, <1>4
<1>6. ~Fresh(c)
  BY <1>1, NewTypes DEF Fresh
<1>7. UNCHANGED <<client, opened, created, link, call, calls, closing, past>>
  BY DEF Exit
<1> QED
  BY <1>1, <1>3, <1>5, <1>6, <1>7 DEF Moves

LEMMA ReaderMoves ==
    ASSUME Inv, NEW c \in Clients, ReaderFails(c)
    PROVE  Moves
<1>1. link \in [Clients -> Link] /\ server \in [Clients -> Server] /\ link[c].reading
  BY DEF Inv, Shape, TypeInv, ReaderFails
<1>2. PICK f \in Futures : f = link[c].pending
  BY <1>1 DEF Link
<1>3. PICK g : g = [i \in DOMAIN f |-> IF f[i] = Open THEN Broken ELSE f[i]]
  OBVIOUS
<1>4. PICK ids \in SUBSET Nat : f \in [ids -> Value]
  BY DEF Futures
<1>5. g \in [ids -> Value] /\ \A i \in ids : g[i] = f[i] \/ g[i].kind = "broken"
  BY <1>3, <1>4, NewTypes
<1>6. g \in Futures
  BY <1>5 DEF Futures
<1>7. PICK l : l = [link[c] EXCEPT !.reading = FALSE, !.pending = g]
  OBVIOUS
<1>8. l \in Link /\ l.running = link[c].running /\ l.nextId = link[c].nextId /\ l.pending = g
  BY <1>1, <1>6, <1>7 DEF Link
<1>9. link' = [link EXCEPT ![c] = l]
  BY <1>1, <1>2, <1>3, <1>7 DEF ReaderFails
<1>10. link' \in [Clients -> Link] /\ link'[c] = l /\ \A d \in Clients : d # c => link'[d] = link[d]
  BY <1>1, <1>8, <1>9
<1>11. ~Fresh(c)
  <2>1. ~NewLink.reading
    BY DEF NewLink
  <2>2. Fresh(c) => link[c] = NewLink
    BY DEF Fresh
  <2> QED
    BY <1>1, <2>1, <2>2, Zenon
<1>12. UNCHANGED <<client, opened, created, server, call, calls, closing, past>>
  BY DEF ReaderFails
<1> QED
  BY <1>1, <1>2, <1>4, <1>5, <1>8, <1>10, <1>11, <1>12 DEF Moves
-----------------------------------------------------------------------------
(* The session is closed.                                                  *)
LEMMA StopKeeps ==
    ASSUME Inv, Stopped, \A u \in Users : ~Busy(u),
           "raced" \notin past => \A d \in Clients : ~Up(d)',
           server' = server \/ (client # 0 /\ server' = [server EXCEPT ![client] = Died(@)]),
           closing # "closed",
           UNCHANGED <<created, call, calls, past>>
    PROVE  Inv'
<1>1. /\ link \in [Clients -> Link] /\ server \in [Clients -> Server]
      /\ client = created /\ client \in 0..MaxServers
  BY DEF Inv, Shape, TypeInv, ClientsInv
<1>2. /\ closing' = "closed" /\ client' = 0 /\ opened' = {}
      /\ UNCHANGED <<created, call, calls, past>>
  BY DEF Stopped
<1>3. client # 0 => client \in Clients
  BY <1>1, LspAssumption DEF Clients
<1>4. /\ link' \in [Clients -> Link]
      /\ \A d \in Clients : /\ d # client => link'[d] = link[d]
                            /\ link'[d].running => link[d].running
                            /\ link'[d].nextId = link[d].nextId /\ link'[d].pending = link[d].pending
  <2>1. CASE client = 0
    BY <1>1, <2>1 DEF Stopped
  <2>2. CASE client # 0
    <3>0. PICK k \in Link : k = link[client]
      BY <1>1, <1>3, <2>2
    <3>1. PICK l : l = [k EXCEPT !.running = FALSE, !.reading = FALSE]
      OBVIOUS
    <3>2. l \in Link /\ l.nextId = link[client].nextId /\ l.pending = link[client].pending
      <4>1. l \in Link /\ l.nextId = k.nextId /\ l.pending = k.pending
        BY <3>1 DEF Link
      <4> QED
        BY <3>0, <4>1
    <3>3. ~l.running
      BY <3>1 DEF Link
    <3>4. link' = [link EXCEPT ![client] = l]
      BY <1>1, <1>3, <2>2, <3>0, <3>1 DEF Stopped
    <3>5. link' \in [Clients -> Link] /\ link'[client] = l
          /\ \A d \in Clients : d # client => link'[d] = link[d]
      BY <1>1, <1>3, <2>2, <3>2, <3>4
    <3>6. \A d \in Clients : link'[d].running => link[d].running
      BY <3>3, <3>5, Zenon
    <3> QED
      BY <3>2, <3>5, <3>6
  <2> QED
    BY <2>1, <2>2
<1>5. /\ server' \in [Clients -> Server]
      /\ \A d \in Clients : /\ d # client => server'[d] = server[d]
                            /\ server'[d].alive = server[d].alive \/ server'[d].alive = "gone"
                            /\ server'[d] = server[d] \/ server'[d].alive = "gone"
                            /\ server'[d].faults = server[d].faults
                            /\ \A q \in server'[d].asked : q \in server[d].asked
                            /\ server'[d].own = server[d].own
  <2>1. CASE server' = server
    BY <1>1, <2>1
  <2>2. CASE client # 0 /\ server' = [server EXCEPT ![client] = Died(@)]
    <3>1. PICK s : s = Died(server[client])
      OBVIOUS
    <3>2. /\ s \in Server /\ s.alive = "gone" /\ s.asked = {} /\ s.faults = server[client].faults
          /\ s.own = server[client].own
      BY <1>1, <1>3, <2>2, <3>1, DiedTypes
    <3>3. server' = [server EXCEPT ![client] = s]
      BY <1>1, <1>3, <2>2, <3>1
    <3>4. server' \in [Clients -> Server] /\ server'[client] = s
          /\ \A d \in Clients : d # client => server'[d] = server[d]
      BY <1>1, <1>3, <2>2, <3>2, <3>3
    <3> QED
      BY <3>2, <3>4
  <2> QED
    BY <2>1, <2>2
<1>6. \A u \in Users : ~Busy(u) /\ ~Busy(u)' /\ call[u] = Idle /\ call'[u] = Idle
  BY <1>2 DEF Inv, Shape, CallsInv, Busy
<1>7. \A u \in Callers : u \in Users
  BY DEF Users
<1>8. TypeInv'
  <2>1. 0 \in 0..MaxServers
    BY LspAssumption
  <2> QED
    BY <1>2, <1>4, <1>5, <2>1 DEF Inv, Shape, TypeInv
<1>9. ClientsInv'
  <2>1. ASSUME NEW d \in Clients, d > created'
        PROVE  Fresh(d)'
    <3>1. d # client /\ Fresh(d)
      BY <1>1, <1>2, <2>1, LspAssumption DEF Clients, Inv, Shape, ClientsInv
    <3> QED
      BY <1>4, <1>5, <3>1 DEF Fresh
  <2>2. \A d \in Clients : link'[d].running => server'[d].alive # "none"
    BY <1>4, <1>5 DEF Inv, Shape, ClientsInv
  <2>3. \A u \in Users : call'[u].at = "idle"
    BY <1>6, NewTypes
  <2> QED
    BY <1>2, <1>7, <2>1, <2>2, <2>3 DEF ClientsInv
<1>10. CallsInv'
  <2>1. Closer \in Users
    BY DEF Users
  <2> QED
    BY <1>2, <1>6, <1>7, <2>1, NewTypes DEF CallsInv
<1>11. IdsInv'
  <2>1. \A u \in Users : ~Asking(u)'
    BY <1>6, NewTypes DEF Asking
  <2> QED
    BY <1>4, <1>5, <2>1 DEF Inv, IdsInv
<1>12. ProcessInv'
  <2>1. \A u \in Callers : ~Handshaking(u)'
    BY <1>6, <1>7, NewTypes DEF Handshaking
  <2> QED
    BY <1>2, <2>1 DEF ProcessInv
<1>13. \A d \in Clients : Up(d)' => Up(d) /\ server'[d] = server[d]
  BY <1>5 DEF Up
<1>14. GreetInv'
  <2>1. \A u \in Callers : call'[u].what = ""
    BY <1>6, <1>7, NewTypes
  <2>2. \A u \in Callers : call[u].what = ""
    BY <1>6, <1>7, NewTypes
  <2> QED
    BY <1>2, <1>5, <1>13, <2>1, <2>2 DEF Inv, GreetInv, Excused
<1>15. TellInv'
  <2>1. \A u \in Callers : call'[u].what = ""
    BY <1>6, <1>7, NewTypes
  <2> QED
    BY <1>2, <1>5, <2>1 DEF Inv, TellInv
<1>16. OnceInv'
  BY <1>2, <1>5, <1>6, <1>7 DEF Inv, OnceInv, Disturbed
<1> QED
  BY <1>8, <1>9, <1>10, <1>11, <1>12, <1>14, <1>15, <1>16 DEF Inv, Shape
-----------------------------------------------------------------------------
(* With a client at hand, a call opens its file, asks or ends.             *)
LEMMA UseKeeps ==
    ASSUME Inv, NEW t \in Callers, NEW own \in Call, Use(t, own, client),
           closing = "no", client # 0, call[t].at # "wait", call[t].what \notin {"initialize", "open"},
           Up(client) => server[client].greeted \/ Excused',
           Disturbed' \/ \A u \in Callers : u # t => ~Busy(u),
           past \subseteq past', calls' \in Nat,
           UNCHANGED <<client, opened, created, closing>>
    PROVE  Inv'
<1>1. PICK c \in Clients : c = client
  BY LspAssumption DEF Inv, Shape, TypeInv, Clients
<1>2. /\ t \in Users /\ c = created /\ c \in 1..created /\ opened \subseteq Files
      /\ client' = client /\ created' = created /\ opened' = opened /\ closing' = closing
  BY <1>1 DEF Users, Inv, Shape, ClientsInv, TypeInv, Clients
<1>3. CASE call' = [call EXCEPT ![t] = Idle] /\ link' = link /\ server' = server
  <2>1. Ends(t)
    BY <1>3 DEF Ends
  <2>2. Shape'
    BY <1>2, <2>1, EndKeepsShape DEF Inv
  <2>3. IdsInv'
    BY <1>2, <2>1, EndKeepsIds DEF Inv
  <2>4. ProcessInv'
    BY <1>2, <2>1, EndKeepsProcess DEF Inv
  <2>5. GreetInv'
    BY <1>2, <2>1, EndKeepsGreet DEF Inv
  <2>6. TellInv'
    BY <1>2, <2>1, EndKeepsTell DEF Inv
  <2>7. OnceInv'
    BY <1>2, <2>1, EndKeepsOnce DEF Inv
  <2> QED
    BY <2>2, <2>3, <2>4, <2>5, <2>6, <2>7 DEF Inv
<1>4. ASSUME NEW what \in {"open", "query"}, Post(t, own, c, what), link[c].running,
             what = "open" => own.file # NoFile /\ own.file \notin opened,
             what = "query" => own.file = NoFile \/ own.file \in opened
      PROVE  Inv'
  <2>1. what \in {"open", "query", "shutdown"} /\ (what = "open" => own.file # NoFile)
        /\ server[c].alive # "none"
    BY <1>4 DEF Inv, Shape, ClientsInv
  <2>2. Shape'
    BY <1>2, <1>4, <2>1, PostKeepsShape DEF Inv
  <2>3. IdsInv'
    BY <1>2, <1>4, <2>1, PostKeepsIds DEF Inv
  <2>4. ProcessInv'
    BY <1>2, <1>4, <2>1, PostKeepsProcess DEF Inv
  <2>5. GreetInv'
    <3>1. what # "shutdown" /\ Up(c) => server[c].greeted \/ Excused'
      BY <1>1
    <3> QED
      BY <1>2, <1>4, <2>1, <3>1, PostKeepsGreet DEF Inv
  <2>6. TellInv'
    <3>1. what = "query" /\ Up(c) /\ c = 1 /\ own.file # NoFile => own.file \in server[c].docs
      BY <1>2, <1>4 DEF Inv, TellInv
    <3> QED
      BY <1>2, <1>4, <2>1, <3>1, PostKeepsTell DEF Inv
  <2>7. OnceInv'
    <3>1. ASSUME what = "open", Up(c), own.file \in server[c].docs, ~Disturbed'
          PROVE  FALSE
      <4>1. ~Disturbed
        BY <3>1 DEF Disturbed
      <4>2. PICK u \in Callers : call[u].what = "open"
        BY <1>4, <3>1, <4>1 DEF Inv, OnceInv
      <4>3. u = t
        <5>1. u # t => call[u] = Idle
          BY <3>1, <4>2 DEF Inv, Shape, CallsInv, Users
        <5> QED
          BY <4>2, <5>1, NewTypes
      <4> QED
        BY <4>2, <4>3
    <3>2. what = "open" /\ Up(c) /\ own.file \in server[c].docs => Disturbed'
      BY <3>1
    <3> QED
      BY <1>2, <1>4, <2>1, <3>2, PostKeepsOnce DEF Inv
  <2> QED
    BY <2>2, <2>3, <2>4, <2>5, <2>6, <2>7 DEF Inv
<1>5. CASE ~link[client].running
  BY <1>3, <1>5 DEF Use, Return
<1>6. CASE link[client].running /\ own.file # NoFile /\ own.file \notin opened
  BY <1>1, <1>4, <1>6 DEF Use
<1>7. CASE link[client].running /\ ~(own.file # NoFile /\ own.file \notin opened)
  <2>1. Post(t, own, client, "query") \/ (Return(t) /\ UNCHANGED <<link, server>>)
    BY <1>7 DEF Use
  <2>2. CASE Post(t, own, client, "query")
    BY <1>1, <1>4, <1>7, <2>2
  <2>3. CASE Return(t) /\ UNCHANGED <<link, server>>
    BY <1>3, <2>3 DEF Return
  <2> QED
    BY <2>1, <2>2, <2>3
<1> QED
  BY <1>5, <1>6, <1>7

\* A call that opened nothing, or was cut off, or whose server is gone, ends.
LEMMA EndKeeps ==
    ASSUME Inv, NEW t \in Callers, Ends(t), past \subseteq past',
           call[t].what = "initialize" => "botched" \in past',
           call[t].what = "open" => Disturbed' \/ ~Up(call[t].on),
           UNCHANGED <<client, opened, created, calls, closing>>
    PROVE  Inv'
<1>1. /\ t \in Users /\ opened \subseteq Files /\ calls \in Nat
      /\ client' = client /\ created' = created /\ opened' = opened /\ closing' = closing /\ calls' = calls
  BY DEF Users, Inv, Shape, TypeInv
<1>2. Shape'
  BY <1>1, EndKeepsShape DEF Inv
<1>3. IdsInv'
  BY <1>1, EndKeepsIds DEF Inv
<1>4. ProcessInv'
  BY <1>1, EndKeepsProcess DEF Inv
<1>5. GreetInv'
  BY <1>1, EndKeepsGreet DEF Inv
<1>6. TellInv'
  BY <1>1, EndKeepsTell DEF Inv
<1>7. OnceInv'
  BY <1>1, EndKeepsOnce DEF Inv
<1> QED
  BY <1>2, <1>3, <1>4, <1>5, <1>6, <1>7 DEF Inv
-----------------------------------------------------------------------------
(* The actions.                                                            *)
LEMMA CallerFacts ==
    ASSUME Inv, NEW t \in Callers, Busy(t)
    PROVE  /\ t \in Users /\ call[t] \in Call /\ closing = "no" /\ client = created /\ client # 0
           /\ client \in Clients /\ call[t].on \in Clients /\ call[t].on \in 1..created
<1>1. t \in Users
  BY DEF Users
<1>2. call[t] \in Call /\ closing = "no" /\ client = created /\ created \in 0..MaxServers
  BY <1>1 DEF Inv, Shape, TypeInv, CallsInv, ClientsInv
<1>3. call[t].on \in Clients /\ call[t].on \in 1..created
  BY <1>1, BusyOn DEF Inv
<1>4. created # 0
  BY <1>2, <1>3
<1>5. client \in Clients
  BY <1>2, <1>4, LspAssumption DEF Clients
<1> QED
  BY <1>1, <1>2, <1>3, <1>4, <1>5

LEMMA BeginKeeps ==
    ASSUME Inv, NEW t \in Callers, Begin(t)
    PROVE  Inv'
<1>1. /\ closing = "no" /\ call[t].at = "idle" /\ calls' = calls + 1
      /\ UNCHANGED <<opened, closing>>
  BY DEF Begin
<1>2. /\ t \in Users /\ call[t] = Idle /\ calls \in Nat /\ calls' \in Nat /\ client = created
      /\ client \in 0..MaxServers
  <2>1. t \in Users /\ calls \in Nat /\ client = created /\ client \in 0..MaxServers
    BY <1>1 DEF Users, Inv, Shape, TypeInv, ClientsInv
  <2>2. call[t] = Idle
    BY <1>1, <2>1 DEF Inv, Shape, CallsInv, Busy
  <2> QED
    BY <1>1, <2>1, <2>2
<1>3. past' = past \cup {e \in {"raced", "overlap"} :
                            \/ e = "raced" /\ Starting
                            \/ e = "overlap" /\ \E u \in Callers : call[u].at # "idle"}
  BY DEF Begin
<1>4. /\ past \subseteq past' /\ (Starting => "raced" \in past')
      /\ (\E u \in Callers : call[u].at # "idle") => "overlap" \in past'
  BY <1>3
<1>5. PICK file \in Files \cup {NoFile} :
         LET own == [Idle EXCEPT !.n = calls + 1, !.file = file]
         IN IF Usable(client)
            THEN Use(t, own, client) /\ UNCHANGED <<client, created>>
            ELSE /\ created < MaxServers
                 /\ client' = created + 1 /\ created' = created + 1
                 /\ call' = [call EXCEPT ![t] = [own EXCEPT !.at = "spawn", !.on = created + 1]]
                 /\ UNCHANGED <<link, server>>
  BY DEF Begin
<1>6. CASE Usable(client)
  <2>1. PICK own : own = [Idle EXCEPT !.n = calls + 1, !.file = file]
    OBVIOUS
  <2>2. own \in Call
    BY <1>1, <1>2, <2>1, NewTypes DEF Call
  <2>3. Use(t, own, client) /\ UNCHANGED <<client, created>>
    BY <1>5, <1>6, <2>1
  <2>4. client # 0 /\ client \in Clients
    BY <1>2, <1>6, LspAssumption DEF Usable, Clients
  <2>5. Up(client) => server[client].greeted \/ Excused'
    <3>1. SUFFICES ASSUME Up(client), ~server[client].greeted PROVE Excused'
      OBVIOUS
    <3>2. "botched" \in past \/ \E u \in Callers : call[u].on = client /\ call[u].what = "initialize"
      BY <2>4, <3>1 DEF Inv, GreetInv
    <3>3. "botched" \in past' \/ "raced" \in past'
      BY <1>4, <3>2 DEF Starting
    <3> QED
      BY <3>3 DEF Excused
  <2>6. Disturbed' \/ \A u \in Callers : u # t => ~Busy(u)
    BY <1>4 DEF Disturbed, Busy
  <2>7. call[t].at # "wait" /\ call[t].what \notin {"initialize", "open"}
    BY <1>2, NewTypes
  <2> QED
    BY <1>1, <1>2, <1>4, <2>2, <2>3, <2>4, <2>5, <2>6, <2>7, UseKeeps
<1>7. CASE ~Usable(client)
  <2>1. /\ created < MaxServers /\ client' = created + 1 /\ created' = created + 1
        /\ call' = [call EXCEPT ![t] = [Idle EXCEPT !.n = calls + 1, !.file = file,
                                                    !.at = "spawn", !.on = created + 1]]
        /\ UNCHANGED <<link, server>>
    BY <1>5, <1>7, NewTypes DEF Call
  <2> QED
    BY <1>1, <1>4, <1>7, <2>1, NewClientKeeps
<1> QED
  BY <1>6, <1>7

LEMMA SpawnedKeeps ==
    ASSUME Inv, NEW t \in Callers, Spawned(t)
    PROVE  Inv'
<1>1. call[t].at = "spawn" /\ UNCHANGED <<client, opened, created, calls, closing, past>>
  BY DEF Spawned
<1>2. call[t].on \in Clients /\ call[t].what = ""
  BY <1>1, CallerFacts DEF Busy, Inv, Shape, CallsInv
<1>3. PICK c \in Clients : c = call[t].on
  BY <1>2
<1>4. Greets(t, c) \/ (Return(t) /\ UNCHANGED <<link, server>>)
  BY <1>3 DEF Spawned, Greets, Hello, Begun, Born
<1>5. CASE Greets(t, c)
  BY <1>1, <1>3, <1>5, SpawnKeeps
<1>6. CASE Return(t) /\ UNCHANGED <<link, server>>
  <2>1. Ends(t)
    BY <1>6 DEF Return, Ends
  <2> QED
    BY <1>1, <1>2, <2>1, EndKeeps
<1> QED
  BY <1>4, <1>5, <1>6

LEMMA DrainedKeeps ==
    ASSUME Inv, NEW t \in Callers, Drained(t)
    PROVE  Inv'
<1>1. call[t].at = "drain" /\ UNCHANGED <<client, created, calls, closing, past>>
  BY DEF Drained
<1>2. /\ t \in Users /\ call[t] \in Call /\ closing = "no" /\ client = created /\ client # 0
      /\ client \in Clients /\ call[t].on \in Clients /\ call[t].on \in 1..created
  BY <1>1, CallerFacts DEF Busy
<1>3. /\ past' = past /\ calls' \in Nat /\ opened \subseteq Files
      /\ closing' = closing /\ client' = client /\ created' = created
  BY <1>1 DEF Inv, Shape, TypeInv
<1>4. Disturbed' \/ \A u \in Callers : u # t => ~Busy(u)
  BY <1>1, <1>3 DEF Inv, OnceInv, Disturbed, Busy
<1>5. CASE /\ call[t].what \in Asks
           /\ call' = [call EXCEPT ![t].at = "wait"]
           /\ UNCHANGED <<link, server, opened>>
  BY <1>1, <1>2, <1>5, WaitKeeps
<1>6. CASE /\ call[t].what = "initialized"
           /\ Use(t, call[t], client)
           /\ UNCHANGED opened
  <2>1. Up(client) => server[client].greeted \/ Excused'
    <3>1. SUFFICES ASSUME Up(client), ~Excused PROVE server[client].greeted
      BY <1>3 DEF Excused
    <3>2. call[t].on = client
      BY <1>6, <3>1 DEF Inv, ProcessInv, Handshaking, Excused
    <3> QED
      BY <1>6, <3>1, <3>2 DEF Inv, GreetInv
  <2>2. call[t].at # "wait" /\ call[t].what \notin {"initialize", "open"}
    BY <1>1, <1>6
  <2>3. past \subseteq past' /\ opened' = opened
    BY <1>3, <1>6
  <2> QED
    BY <1>2, <1>3, <1>4, <1>6, <2>1, <2>2, <2>3, UseKeeps
<1>7. CASE /\ call[t].what = "open"
           /\ opened' = opened \cup {call[t].file}
           /\ Post(t, call[t], call[t].on, "query") \/ (Return(t) /\ UNCHANGED <<link, server>>)
  <2>1. PICK c \in Clients : c = call[t].on
    BY <1>2
  <2>2. /\ call[t].file \in Files /\ opened' \subseteq Files /\ opened \subseteq opened'
        /\ call[t].file \in opened'
        /\ Up(c) => call[t].file \in server[c].docs
        /\ opened' = opened \/ \E f \in Files : opened' = opened \cup {f} /\ (Up(c) => f \in server[c].docs)
    <3>1. call[t].file \in Files
      BY <1>2, <1>7 DEF Inv, Shape, CallsInv, Call
    <3>2. Up(c) => call[t].file \in server[c].docs
      BY <1>7, <2>1 DEF Inv, TellInv
    <3> QED
      BY <1>3, <1>7, <3>1, <3>2
  <2>3. server[c].alive # "none" /\ c \in 1..created
    BY <1>1, <1>2, <2>1 DEF Inv, Shape, ClientsInv
  <2>4. CASE Post(t, call[t], call[t].on, "query")
    <3>1. Post(t, call[t], c, "query")
      BY <2>1, <2>4
    <3>2. Up(c) => server[c].greeted \/ Excused'
      BY <1>3, <1>7, <2>1 DEF Inv, GreetInv, Excused
    <3>3. Shape'
      BY <1>2, <1>3, <2>2, <2>3, <3>1, PostKeepsShape DEF Inv
    <3>4. IdsInv'
      BY <1>2, <3>1, PostKeepsIds DEF Inv
    <3>5. ProcessInv'
      BY <1>2, <1>3, <3>1, PostKeepsProcess DEF Inv
    <3>6. GreetInv'
      BY <1>2, <1>3, <1>7, <3>1, <3>2, PostKeepsGreet DEF Inv
    <3>7. TellInv'
      BY <1>2, <1>3, <2>2, <2>3, <3>1, PostKeepsTell DEF Inv
    <3>8. OnceInv'
      BY <1>2, <1>3, <1>4, <2>2, <3>1, PostKeepsOnce DEF Inv
    <3> QED
      BY <3>3, <3>4, <3>5, <3>6, <3>7, <3>8 DEF Inv
  <2>5. CASE Return(t) /\ UNCHANGED <<link, server>>
    <3>1. Ends(t)
      BY <2>5 DEF Return, Ends
    <3>2. Shape'
      BY <1>2, <1>3, <2>2, <3>1, EndKeepsShape DEF Inv
    <3>3. IdsInv'
      BY <1>2, <3>1, EndKeepsIds DEF Inv
    <3>4. ProcessInv'
      BY <1>2, <1>3, <3>1, EndKeepsProcess DEF Inv
    <3>5. GreetInv'
      BY <1>2, <1>3, <1>7, <3>1, EndKeepsGreet DEF Inv
    <3>6. TellInv'
      BY <1>1, <1>2, <1>3, <2>1, <2>2, <3>1, EndKeepsTell DEF Inv
    <3>7. OnceInv'
      BY <1>2, <1>3, <2>2, <3>1, EndKeepsOnce DEF Inv
    <3> QED
      BY <3>2, <3>3, <3>4, <3>5, <3>6, <3>7 DEF Inv
  <2> QED
    BY <1>7, <2>4, <2>5
<1> QED
  BY <1>5, <1>6, <1>7 DEF Drained

LEMMA DrainFailsKeeps ==
    ASSUME Inv, NEW t \in Callers, DrainFails(t)
    PROVE  Inv'
<1>1. /\ call[t].at = "drain" /\ server[call[t].on].alive = "gone" /\ Ends(t)
      /\ past' = past \cup Botched(t)
      /\ UNCHANGED <<client, opened, created, calls, closing>>
  BY DEF DrainFails, Return, Ends
<1>2. past \subseteq past' /\ (call[t].what = "initialize" => "botched" \in past')
  BY <1>1 DEF Botched
<1>3. ~Up(call[t].on)
  BY <1>1 DEF Up
<1> QED
  BY <1>1, <1>2, <1>3, EndKeeps

LEMMA AnsweredKeeps ==
    ASSUME Inv, NEW t \in Callers, Answered(t)
    PROVE  Inv'
<1>1. call[t].at = "wait" /\ UNCHANGED <<client, opened, created, calls, closing>>
  BY DEF Answered
<1>2. PICK c \in Clients : c = call[t].on
  BY <1>1, CallerFacts DEF Busy
<1>3. CASE /\ call[t].what = "initialize"
           /\ Confirms(t, c)
           /\ UNCHANGED past
  BY <1>1, <1>2, <1>3, ConfirmKeeps
<1>4. CASE /\ call[t].what \in {"initialize", "query"} /\ Drop(t)
           /\ \/ call[t].what = "initialize" /\ past' = past \cup {"botched"}
              \/ call[t].what = "query" /\ past' = past
  <2>1. Ends(t)
    BY <1>1, <1>4 DEF Drop, Return, Ends
  <2>2. past \subseteq past' /\ (call[t].what = "initialize" => "botched" \in past')
        /\ call[t].what # "open"
    BY <1>4
  <2> QED
    BY <1>1, <2>1, <2>2, EndKeeps
<1> QED
  BY <1>2, <1>3, <1>4 DEF Answered, Confirms, Noted

LEMMA TimedOutKeeps ==
    ASSUME Inv, NEW t \in Callers, TimedOut(t)
    PROVE  Inv'
<1>1. /\ call[t].at = "wait" /\ Ends(t) /\ past' = past \cup Botched(t)
      /\ UNCHANGED <<client, opened, created, calls, closing>>
  BY DEF TimedOut, Drop, Return, Ends
<1>2. past \subseteq past' /\ (call[t].what = "initialize" => "botched" \in past')
  BY <1>1 DEF Botched
<1>3. call[t].what # "open"
  BY <1>1 DEF Inv, Shape, CallsInv
<1> QED
  BY <1>1, <1>2, <1>3, EndKeeps

LEMMA CancelKeeps ==
    ASSUME Inv, NEW t \in Callers, Cancel(t)
    PROVE  Inv'
<1>1. /\ call[t].at \in {"spawn", "drain", "wait"} /\ Ends(t)
      /\ past' = past \cup Botched(t) \cup (IF call[t].at = "drain" THEN {"cut"} ELSE {})
      /\ UNCHANGED <<client, opened, created, calls, closing>>
  BY DEF Cancel, Drop, Return, Ends
<1>2. past \subseteq past' /\ (call[t].what = "initialize" => "botched" \in past')
  BY <1>1 DEF Botched
<1>3. call[t].what = "open" => Disturbed'
  <2>1. call[t].what = "open" => call[t].at = "drain"
    BY <1>1 DEF Inv, Shape, CallsInv
  <2> QED
    BY <1>1, <2>1 DEF Disturbed
<1> QED
  BY <1>1, <1>2, <1>3, EndKeeps

LEMMA CloseKeeps ==
    ASSUME Inv, Close
    PROVE  Inv'
<1>1. /\ closing = "no" /\ \A u \in Callers : ~Busy(u) /\ u \in Users
      /\ UNCHANGED <<created, calls, past>>
  BY DEF Close, Busy, Users
<1>2. Closer \in Users /\ ~Busy(Closer) /\ call[Closer] = Idle
  BY <1>1 DEF Users, Inv, Shape, CallsInv
<1>3. client = created /\ client \in 0..MaxServers /\ calls \in Nat /\ opened \subseteq Files
  BY <1>1 DEF Inv, Shape, TypeInv, ClientsInv
<1>4. CASE Usable(client)
  <2>1. /\ Post(Closer, Idle, client, "shutdown") /\ closing' = "asking"
        /\ UNCHANGED <<client, opened>>
    BY <1>4 DEF Close
  <2>2. PICK c \in Clients : c = client
    BY <1>3, <1>4, LspAssumption DEF Usable, Clients
  <2>3. /\ Post(Closer, Idle, c, "shutdown") /\ c \in 1..created /\ server[c].alive # "none"
        /\ client' = client /\ created' = created /\ past' = past /\ opened' = opened
    <3>1. c \in 1..created
      BY <1>3, <2>2 DEF Clients
    <3> QED
      BY <1>1, <1>4, <2>1, <2>2, <3>1 DEF Usable
  <2>4. Idle \in Call /\ call[Closer].what = "" /\ Idle.file = NoFile
    BY <1>2, NewTypes
  <2>5. Shape'
    BY <1>1, <1>2, <1>3, <2>1, <2>2, <2>3, <2>4, PostKeepsShape DEF Inv
  <2>6. IdsInv'
    BY <1>2, <2>3, <2>4, PostKeepsIds DEF Inv
  <2>7. ProcessInv'
    BY <1>1, <1>2, <2>3, <2>4, PostKeepsProcess DEF Inv
  <2>8. GreetInv'
    BY <1>2, <2>3, <2>4, PostKeepsGreet DEF Inv
  <2>9. TellInv'
    BY <1>1, <1>2, <2>3, <2>4, PostKeepsTell DEF Inv
  <2>10. OnceInv'
    BY <1>1, <1>2, <2>3, <2>4, PostKeepsOnce DEF Inv
  <2> QED
    BY <2>5, <2>6, <2>7, <2>8, <2>9, <2>10 DEF Inv
<1>5. CASE ~Usable(client)
  <2>1. Stopped /\ UNCHANGED <<call, server>>
    BY <1>5 DEF Close
  <2>2. "raced" \notin past => \A d \in Clients : ~Up(d)'
    <3>1. \A d \in Clients : Up(d) => link[d].running /\ d # 0
      BY <1>1, LspAssumption DEF Inv, ProcessInv, Clients
    <3> QED
      BY <1>5, <2>1, <3>1 DEF Inv, ProcessInv, Usable, Up
  <2>3. \A u \in Users : ~Busy(u)
    BY <1>1, <1>2 DEF Users
  <2> QED
    BY <1>1, <2>1, <2>2, <2>3, StopKeeps
<1> QED
  BY <1>4, <1>5

LEMMA CloseAskedKeeps ==
    ASSUME Inv, CloseAsked
    PROVE  Inv'
<1>1. closing = "asking" /\ UNCHANGED <<client, opened, created, calls, past>>
  BY DEF CloseAsked
<1>2. Closer \in Users /\ call[Closer].what = "shutdown" /\ calls \in Nat /\ opened \subseteq Files
  BY <1>1 DEF Users, Inv, Shape, CallsInv, TypeInv
<1>3. CASE /\ call[Closer].at = "drain" /\ call' = [call EXCEPT ![Closer].at = "wait"]
           /\ UNCHANGED <<closing, link, server>>
  <2>1. call[Closer].what \in Asks
    BY <1>2 DEF Asks
  <2> QED
    BY <1>1, <1>2, <1>3, <2>1, WaitKeeps
<1>4. CASE Ends(Closer) /\ closing' = "reaping"
  <2>1. /\ client' = client /\ created' = created /\ past' = past /\ opened' = opened /\ calls' = calls
    BY <1>1
  <2>2. Shape'
    BY <1>1, <1>2, <1>4, <2>1, EndKeepsShape DEF Inv
  <2>3. IdsInv'
    BY <1>2, <1>4, EndKeepsIds DEF Inv
  <2>4. ProcessInv'
    BY <1>1, <1>2, <1>4, <2>1, EndKeepsProcess DEF Inv
  <2>5. GreetInv'
    BY <1>2, <1>4, <2>1, EndKeepsGreet DEF Inv
  <2>6. TellInv'
    BY <1>1, <1>2, <1>4, <2>1, EndKeepsTell DEF Inv
  <2>7. OnceInv'
    BY <1>1, <1>2, <1>4, <2>1, EndKeepsOnce DEF Inv
  <2> QED
    BY <2>2, <2>3, <2>4, <2>5, <2>6, <2>7 DEF Inv
<1>5. \/ /\ call[Closer].at = "drain" /\ call' = [call EXCEPT ![Closer].at = "wait"]
         /\ UNCHANGED <<closing, link, server>>
      \/ Ends(Closer) /\ closing' = "reaping"
  BY DEF CloseAsked, Ends, Return, Drop
<1> QED
  BY <1>3, <1>4, <1>5

LEMMA ReapKeeps ==
    ASSUME Inv, Reap
    PROVE  Inv'
<1>1. /\ closing = "reaping" /\ Stopped /\ UNCHANGED <<created, call, calls, past>>
      /\ IF server[client].alive = "gone" THEN UNCHANGED server ELSE Kill
  BY DEF Reap
<1>2. \A u \in Users : ~Busy(u)
  BY <1>1 DEF Users, Inv, Shape, CallsInv
<1>3. client # 0 /\ client \in Clients /\ server \in [Clients -> Server]
  <2>1. client # 0 /\ client \in 0..MaxServers /\ server \in [Clients -> Server]
    BY <1>1 DEF Inv, Shape, CallsInv, TypeInv
  <2>2. client \in Clients
    BY <2>1, LspAssumption DEF Clients
  <2> QED
    BY <2>1, <2>2
<1>4. server' = server \/ (client # 0 /\ server' = [server EXCEPT ![client] = Died(@)])
  BY <1>1, <1>3 DEF Kill
<1>5. "raced" \notin past => \A d \in Clients : ~Up(d)'
  <2>1. server'[client].alive = "gone" /\ \A d \in Clients : d # client => server'[d] = server[d]
    <3>1. Died(server[client]).alive = "gone"
      BY <1>3, DiedTypes
    <3> QED
      BY <1>1, <1>3, <3>1 DEF Kill
  <2> QED
    BY <2>1 DEF Inv, ProcessInv, Up
<1> QED
  BY <1>1, <1>2, <1>4, <1>5, StopKeeps
-----------------------------------------------------------------------------
LEMMA InvInit == Init => Inv
<1> SUFFICES ASSUME Init PROVE Inv
  OBVIOUS
<1>1. /\ client = 0 /\ opened = {} /\ created = 0 /\ calls = 0 /\ closing = "no" /\ past = {}
      /\ \A c \in Clients : link[c] = NewLink /\ server[c] = NewServer
      /\ \A t \in Users : call[t] = Idle
      /\ \A t \in Callers : t \in Users
  BY DEF Init, Users
<1>2. TypeInv
  <2>1. 0 \in 0..MaxServers /\ 0 \in Nat
    BY LspAssumption
  <2> QED
    BY <1>1, <2>1, NewTypes DEF Init, TypeInv
<1>3. ClientsInv
  BY <1>1, NewTypes DEF ClientsInv, Fresh
<1>4. CallsInv
  <2>1. Closer \in Users
    BY DEF Users
  <2> QED
    BY <1>1, <2>1, NewTypes DEF CallsInv, Busy
<1>5. IdsInv
  BY <1>1, NewTypes DEF IdsInv, Asking
<1>6. ProcessInv
  BY <1>1, NewTypes DEF ProcessInv, Up, Handshaking
<1>7. GreetInv
  BY <1>1, NewTypes DEF GreetInv, Up
<1>8. TellInv
  BY <1>1, NewTypes DEF TellInv
<1>9. OnceInv
  BY <1>1, NewTypes DEF OnceInv, Up, Busy
<1> QED
  BY <1>2, <1>3, <1>4, <1>5, <1>6, <1>7, <1>8, <1>9 DEF Inv, Shape

LEMMA InvStep == Inv /\ [Next]_vars => Inv'
<1> SUFFICES ASSUME Inv, [Next]_vars PROVE Inv'
  OBVIOUS
<1>1. CASE UNCHANGED vars
  <2>1. Moves
    BY <1>1 DEF vars, Moves, Inv, Shape, TypeInv
  <2> QED
    BY <2>1, MoveKeeps
<1>2. ASSUME NEW t \in Callers,
             \/ Begin(t) \/ Spawned(t) \/ Drained(t) \/ DrainFails(t)
             \/ Answered(t) \/ TimedOut(t) \/ Cancel(t)
      PROVE  Inv'
  BY <1>2, BeginKeeps, SpawnedKeeps, DrainedKeeps, DrainFailsKeeps, AnsweredKeeps,
     TimedOutKeeps, CancelKeeps
<1>3. ASSUME NEW c \in Clients, Respond(c) \/ AskBack(c) \/ Exit(c) \/ ReaderFails(c)
      PROVE  Inv'
  <2>1. Moves
    BY <1>3, RespondMoves, AskBackMoves, ExitMoves, ReaderMoves
  <2> QED
    BY <2>1, MoveKeeps
<1>4. CASE Close \/ CloseAsked \/ Reap
  BY <1>4, CloseKeeps, CloseAskedKeeps, ReapKeeps
<1> QED
  BY <1>1, <1>2, <1>3, <1>4 DEF Next

(* The type invariant of the client, its calls and its servers, for any    *)
(* number of each: LspManager, LspClient and the process they talk to.     *)
THEOREM ClientTypeCorrect == Spec => []TypeInv
<1>1. Inv => TypeInv
  BY DEF Inv, Shape
<1> QED
  BY <1>1, InvInit, InvStep, PTL DEF Spec

(* LspClient.request: whatever was dropped, timed out or answered late, a  *)
(* call that waits is completed by the answer to its request, because no   *)
(* id of a client is given out twice and a future goes only with its call; *)
(* or by a request of the server that has the same number.                 *)
THEOREM AnswersAreOwn == Spec => []OwnAnswer
<1>1. Inv => OwnAnswer
  <2> SUFFICES ASSUME Inv, NEW t \in Users, call[t].at = "wait"
               PROVE  LET pending == link[call[t].on].pending
                      IN /\ call[t].id \in DOMAIN pending
                         /\ pending[call[t].id].kind \in Completed =>
                              \/ IsAnswerTo(pending[call[t].id], t)
                              \/ call[t].id \in server[call[t].on].own
    BY DEF OwnAnswer
  <2>1. Asking(t) /\ call[t].on \in Clients
    BY BusyOn DEF Asking, Asks, Inv, Shape, CallsInv, Users, Busy
  <2> QED
    BY <2>1 DEF Inv, IdsInv, Completed, IsAnswerTo
<1> QED
  BY <1>1, InvInit, InvStep, PTL DEF Spec

(* LspManager: a server is queried before the handshake only after calls   *)
(* raced for it or a handshake failed, is queried about a document it was  *)
(* never told of only when it replaced another, and is told of a document  *)
(* twice only after calls overlapped or one was cut off.                   *)
THEOREM ServersUsedProperly == Spec => []ServerUsedProperly
<1>1. Inv => ServerUsedProperly
  BY DEF Inv, GreetInv, TellInv, OnceInv, Excused, Disturbed, ServerUsedProperly
<1> QED
  BY <1>1, InvInit, InvStep, PTL DEF Spec

(* shutdown_lsp_managers at Session.close: no server survives it, unless   *)
(* calls raced to start one and the loser's process was forgotten.         *)
THEOREM NoServerSurvives == Spec => []ServersStopped
<1>1. Inv => ServersStopped
  <2> SUFFICES ASSUME Inv, closing = "closed", "raced" \notin past, NEW c \in Clients, Up(c)
               PROVE  FALSE
    BY DEF ServersStopped, Up
  <2>1. c = client /\ client = 0
    BY DEF Inv, Shape, ClientsInv, ProcessInv
  <2> QED
    BY <2>1 DEF Clients
<1> QED
  BY <1>1, InvInit, InvStep, PTL DEF Spec
=============================================================================
