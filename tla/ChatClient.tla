----------------------------- MODULE ChatClient -----------------------------
(***************************************************************************)
(* The chat client (lab6/code/client/client.cpp, func.cpp): the main thread *)
(* that runs the user's commands and the receiving threads, one more for    *)
(* each connect, which share `connected' and BaseSock without a lock.  A    *)
(* thread that is in recv() keeps its connection open when another closes   *)
(* the descriptor: the kernel lets it go when recv() returns.               *)
(***************************************************************************)
EXTENDS ChatServer

CONSTANT TimeRequests   \* requests one `time' command sends (100 in the code)

ASSUME ClientAssumption == TimeRequests \in Nat

VARIABLE cli            \* user -> the client program

\* BaseSock names a connection, 0 for none; todo is what the current command still does.
NewClient(script) ==
    [script |-> script, todo |-> << >>, connected |-> FALSE, BaseSock |-> 0,
     threads |-> << >>, running |-> TRUE]

Packet(type) == [type |-> type]

\* What a command does, in order, once it has looked at `connected'.  connect() itself
\* is a step of Command.
Steps(command, connected) ==
    CASE command.do = "exit" -> (IF connected THEN << Packet("DISCONNECT"), Packet("drop") >> ELSE << >>)
                                \o << Packet("quit") >>
      [] command.do = "connect" \/ ~connected -> << >>
      [] command.do = "disconnect" -> << Packet("DISCONNECT"), Packet("drop") >>
      [] command.do = "time" -> [i \in 1..TimeRequests |-> Packet("TIME")]
      [] command.do = "name" -> << Packet("NAME") >>
      [] command.do = "list" -> << Packet("LIST") >>
      [] command.do = "message" -> << [type |-> "MESSAGE", to |-> command.to] >>
      [] OTHER -> << >>

\* A connection is closed by its client once no descriptor names it and no recv() is in it.
Keeps(client, c) ==
    /\ client.running
    /\ client.BaseSock = c \/ \E t \in DOMAIN client.threads : client.threads[t].in = c

Become(u, client, connections) ==
    /\ cli' = [cli EXCEPT ![u] = client]
    /\ conns' = [c \in DOMAIN connections |->
                    IF connections[c].user = u
                    THEN [connections[c] EXCEPT !.client_open = @ /\ Keeps(client, c)]
                    ELSE connections[c]]

\* The menu takes the next command.  ServerConnect dials, sets BaseSock and connected,
\* and goes on to send CONNECT and to start a thread.
Command(u) ==
    /\ cli[u].running /\ cli[u].todo = << >> /\ cli[u].script # << >>
    /\ LET command == Head(cli[u].script)
           rest    == [cli[u] EXCEPT !.script = Tail(@)]
       IN  IF command.do = "connect" /\ ~cli[u].connected /\ alive
           THEN /\ worker' = Append(worker, NewWorker)
                /\ Become(u, [rest EXCEPT !.connected = TRUE, !.BaseSock = Len(conns) + 1,
                                          !.todo = << Packet("CONNECT"), Packet("receive") >>],
                          Append(conns, NewConn(u)))
           ELSE /\ Become(u, [rest EXCEPT !.todo = Steps(command, cli[u].connected)], conns)
                /\ UNCHANGED worker
    /\ UNCHANGED <<clients, next_client_id, alive>>

Does(u, types) ==
    /\ cli[u].running /\ cli[u].todo # << >> /\ Head(cli[u].todo).type \in types
    /\ UNCHANGED <<clients, next_client_id, worker, alive>>

Rest(u) == [cli[u] EXCEPT !.todo = Tail(@)]

ServerOpen(c) == alive /\ conns[c].server # "closed"

\* SendPacket of the client; what the server no longer takes is lost, and a second one
\* may raise SIGPIPE.
Send(u) ==
    /\ Does(u, {"CONNECT", "TIME", "NAME", "LIST", "MESSAGE", "DISCONNECT"})
    /\ LET c == cli[u].BaseSock
           packet == Head(cli[u].todo)
       IN
        \/ /\ ~cli[u].connected \/ c = 0
           /\ Become(u, Rest(u), conns)
        \/ /\ cli[u].connected /\ c # 0 /\ ServerOpen(c)
           /\ Become(u, Rest(u), [conns EXCEPT ![c].up = Append(@, packet)])
        \/ /\ cli[u].connected /\ c # 0 /\ ~ServerOpen(c)
           /\ \E survives \in {TRUE, ~conns[c].broken} :
                Become(u, [Rest(u) EXCEPT !.running = survives],
                       [conns EXCEPT ![c].broken = TRUE])

\* pthread_create, whose failure is only reported.
StartThread(u, created) ==
    /\ Does(u, {"receive"})
    /\ Become(u, [Rest(u) EXCEPT !.threads =
                    IF created THEN Append(@, [at |-> "loop", in |-> 0]) ELSE @], conns)

\* The end of ServerDisconnect, and of the program.
Drop(u) ==
    /\ Does(u, {"drop"})
    /\ Become(u, [Rest(u) EXCEPT !.connected = FALSE, !.BaseSock = 0], conns)

Quit(u) ==
    /\ Does(u, {"quit"})
    /\ Become(u, [Rest(u) EXCEPT !.running = FALSE], conns)

----------------------------------------------------------------------------
(* A receiving thread (Recieve of func.cpp).                                *)

ThreadAt(u, t, at) ==
    /\ cli[u].running /\ cli[u].threads[t].at = at
    /\ UNCHANGED <<clients, next_client_id, worker, alive>>

MoveTo(u, t, at, in) == [cli[u] EXCEPT !.threads[t] = [at |-> at, in |-> in]]

\* recv(BaseSock), whatever connection that is now; recv(-1) fails at once.
CallRecv(u, t) ==
    /\ ThreadAt(u, t, "loop")
    /\ LET base == cli[u].BaseSock IN
        Become(u, IF ~cli[u].connected THEN MoveTo(u, t, "done", 0)
                  ELSE MoveTo(u, t, IF base = 0 THEN "end" ELSE "recv", base), conns)

\* recv() returns with the packets that came, which are shown unless the user has disconnected, or
\* with the end of the connection.
GetPacket(u, t) ==
    /\ ThreadAt(u, t, "recv")
    /\ LET c == cli[u].threads[t].in IN
        /\ conns[c].seen < Len(conns[c].down)
        /\ Become(u, MoveTo(u, t, IF cli[u].connected THEN "loop" ELSE "done", 0),
                  [conns EXCEPT ![c].seen = Len(conns[c].down)])

GetEnd(u, t) ==
    /\ ThreadAt(u, t, "recv")
    /\ LET c == cli[u].threads[t].in IN
        /\ conns[c].seen = Len(conns[c].down) /\ ~ServerOpen(c)
        /\ Become(u, MoveTo(u, t, "end", 0), conns)

\* The end is taken for that of BaseSock, unless the user has disconnected.
TakeEnd(u, t) ==
    /\ ThreadAt(u, t, "end")
    /\ LET done == MoveTo(u, t, "done", 0) IN
        Become(u, IF cli[u].connected THEN [done EXCEPT !.connected = FALSE, !.BaseSock = 0]
                  ELSE done, conns)

ThreadStep(u, t) == CallRecv(u, t) \/ GetPacket(u, t) \/ GetEnd(u, t) \/ TakeEnd(u, t)
=============================================================================
