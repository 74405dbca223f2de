-------------------------------- MODULE Chat --------------------------------
(***************************************************************************)
(* The chat server and its clients, each user with a script of commands     *)
(* (lab6/code/concurrent.sh runs several clients at once).                  *)
(***************************************************************************)
EXTENDS ChatClient

CONSTANTS Scenarios,   \* [scripts, faults]: the users' commands, bound on failed threads
          MaxConns      \* bound: connections a scenario makes

VARIABLE faults         \* how often pthread_create may still fail

vars == <<serverVars, cli, faults>>

Init ==
    /\ ServerInit
    /\ \E scenario \in Scenarios :
        /\ cli = [u \in Users |-> NewClient(scenario.scripts[u])]
        /\ faults = scenario.faults

\* A thread is made, or the making fails.
Made(created) == (~created => faults > 0) /\ faults' = IF created THEN faults ELSE faults - 1

\* A user who waits lets what was asked be answered (`sleep' in concurrent.sh).
Patient(u) ==
    (cli[u].script # << >> /\ Head(cli[u].script).do = "wait") =>
        \A c \in DOMAIN conns : (conns[c].client_open /\ conns[c].server # "closed") =>
            /\ conns[c].server = "open"
            /\ conns[c].handled = Len(conns[c].up) /\ worker[c].sends = << >>
            /\ conns[c].seen = Len(conns[c].down)

Server(c) == Serve(c) /\ UNCHANGED <<cli, faults>>
Admit(c, created) == Accept(c, created) /\ Made(created) /\ UNCHANGED cli
Menu(u) == ((Patient(u) /\ Command(u)) \/ Send(u) \/ Drop(u) \/ Quit(u)) /\ UNCHANGED faults
Listen(u, created) == StartThread(u, created) /\ Made(created)
Receive(u, t) == ThreadStep(u, t) /\ UNCHANGED faults

Next ==
    \/ \E c \in DOMAIN conns : Server(c) \/ \E created \in BOOLEAN : Admit(c, created)
    \/ \E u \in Users :
        \/ Menu(u)
        \/ \E created \in BOOLEAN : Listen(u, created)
        \/ \E t \in DOMAIN cli[u].threads : Receive(u, t)

Spec == Init /\ [][Next]_vars

\* Every thread that can run does; the users take their time.
Fairness ==
    /\ \A c \in 1..MaxConns :
        /\ WF_vars(c \in DOMAIN conns /\ Server(c))
        /\ WF_vars(c \in DOMAIN conns /\ Admit(c, TRUE))

FairSpec == Spec /\ Fairness
----------------------------------------------------------------------------
\* The server's part of every variable has its shape.
TypeOK ==
    /\ clients \in [Socks -> Nat \cup {Absent}]
    /\ next_client_id \in Nat \ {0}
    /\ DOMAIN worker = DOMAIN conns
    /\ \A c \in DOMAIN conns :
        /\ conns[c].server \in {"backlog", "open", "closed"}
        /\ conns[c].server = "open" => conns[c].sock \in Socks
        /\ worker[c].closing \in BOOLEAN

\* A descriptor has an entry exactly while a connection that nobody is taking off has
\* it open, and only one has: RemoveClient erases before it closes (server.cpp:29-41),
\* so an erase never hits the next client that got the same descriptor.
EntryPerClient ==
    /\ \A c, d \in DOMAIN conns :
        conns[c].server = "open" /\ conns[d].server = "open" /\ conns[c].sock = conns[d].sock
            => c = d
    /\ \A s \in Socks :
        clients[s] # Absent <=> \E c \in Holders(s) : ~worker[c].closing

\* No two clients are told the same id, whoever has left in between, and a client that
\* is in the table is there under the id it was told (server.cpp:121-128).
Told(c) == {conns[c].down[i].id : i \in {j \in DOMAIN conns[c].down :
                                            conns[c].down[j].type = "CONNECT"}}
IdsAreOwn ==
    /\ \A c, d \in DOMAIN conns : c # d => Told(c) \cap Told(d) = {}
    /\ \A s \in Socks : \A c \in Holders(s) :
        clients[s] # Absent => Told(c) \subseteq {clients[s]}

\* The replies to a client are those its requests call for, in the order of the
\* requests, with none left out, while the client is there to read them
\* (server.cpp:110-205: the requests of one recv() and the threads' sends to other clients).
Calls(request) == IF request.type = "MESSAGE" THEN {"MESSAGE", "INVALID"} ELSE {request.type}
Replies(down, n) == {i \in 1..n : down[i].type # "SIGNAL"}
RepliesInOrder ==
    \A c \in DOMAIN conns :
        LET down     == conns[c].down
            count(n) == Cardinality(Replies(down, n))
        IN  /\ count(Len(down)) =< conns[c].handled
            /\ \A i \in Replies(down, Len(down)) : down[i].type \in Calls(conns[c].up[count(i)])
            /\ (conns[c].client_open /\ alive /\ conns[c].server = "open" /\ worker[c].sends = << >>)
                 => count(Len(down)) = conns[c].handled

\* Every request of a client that stays is dealt with while the server runs, however
\* many other clients there are (lab6.typ:140).
Owed(c) ==
    /\ c \in DOMAIN conns
    /\ alive /\ conns[c].server = "open" /\ conns[c].client_open
    /\ conns[c].handled < Len(conns[c].up) \/ worker[c].sends # << >>
RequestsAnswered == \A c \in 1..MaxConns : Owed(c) ~> ~Owed(c)

\* A client that closed its end, with or without DISCONNECT, leaves the table and its
\* descriptor is given back (server.cpp:102-105, 195-201).
Left(c) == c \in DOMAIN conns /\ ~conns[c].client_open /\ conns[c].server = "open" /\ alive
LeaversAreForgotten == \A c \in 1..MaxConns : Left(c) ~> ~Left(c)

\* A message for the client with some id is shown to no other client (lab6.typ:133,
\* lab6.md:90): the descriptor found under the lock must still be that client's
\* when the message is sent (server.cpp:180-191).
SignalsReachAddressee ==
    \A c, d \in DOMAIN conns : \A i \in DOMAIN conns[c].down :
        (conns[c].down[i].type = "SIGNAL" /\ conns[c].down[i].to \in Told(d)) => c = d
=============================================================================
