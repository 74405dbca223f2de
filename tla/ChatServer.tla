----------------------------- MODULE ChatServer -----------------------------
(***************************************************************************)
(* The chat server (lab6/code/server/server.cpp): its table of clients, the *)
(* thread that accepts connections and one thread per connection.  A        *)
(* descriptor names whatever connection has it open when it is used.  One   *)
(* step is what happens between two points where another thread may get in: *)
(* a recv, a section under clients_mutex, a send, a close.                  *)
(***************************************************************************)
EXTENDS Integers, Sequences, FiniteSets

CONSTANTS Socks,        \* descriptors the server can have for clients, numbers
          Users         \* the client programs

ASSUME ServerAssumption == Socks \subseteq Nat \ {0}

VARIABLES clients,      \* descriptor -> client id: 0 before CONNECT, or Absent
          next_client_id,
          worker,       \* connection -> the thread that serves it
          conns,        \* the TCP connections, in the order they were made
          alive         \* whether the server runs

serverVars == <<clients, next_client_id, worker, conns, alive>>

Absent == -1
NotANumber == -2        \* a target id that std::stoi rejects

\* A connection: the packets sent each way, how many of them were read, and who still
\* has it open.
NewConn(user) ==
    [user |-> user, sock |-> 0, up |-> << >>, handled |-> 0, down |-> << >>, seen |-> 0,
     client_open |-> TRUE, server |-> "backlog",
     broken |-> FALSE]      \* packets were sent that the other side no longer takes

\* A thread: the sends it has yet to make and whether it is to close its socket.
NewWorker == [sends |-> << >>, closing |-> FALSE]

ServerInit ==
    /\ clients = [s \in Socks |-> Absent]
    /\ next_client_id = 1
    /\ worker = << >>
    /\ conns = << >>
    /\ alive = TRUE

Holders(sock) == {c \in DOMAIN conns : conns[c].server = "open" /\ conns[c].sock = sock}
FreeSocks == {s \in Socks : Holders(s) = {}}

Least(socks) == CHOOSE s \in socks : \A t \in socks : s =< t

\* Without the check of what accept() returned.
X_Accept(c, thread_created) ==
    /\ alive /\ conns[c].server = "backlog"
    /\ LET sock == IF FreeSocks = {} THEN -1 ELSE Least(FreeSocks) IN
        /\ conns' = [conns EXCEPT ![c].server = IF thread_created THEN "open" ELSE "closed",
                                  ![c].sock = sock]
        /\ clients' = [clients EXCEPT ![sock] = IF thread_created THEN 0 ELSE Absent]
    /\ UNCHANGED <<next_client_id, worker, alive>>

\* accept() gives the lowest free descriptor; the entry is made before the thread
\* starts.  If no thread can be made, RemoveClient takes the client off again.
Accept(c, thread_created) ==
    /\ alive /\ conns[c].server = "backlog"
    /\ \E sock \in FreeSocks :
        /\ \A t \in FreeSocks : sock =< t
        /\ conns' = [conns EXCEPT ![c].server = IF thread_created THEN "open" ELSE "closed",
                                  ![c].sock = sock]
        /\ clients' = [clients EXCEPT ![sock] = IF thread_created THEN 0 ELSE Absent]
    /\ UNCHANGED <<next_client_id, worker, alive>>

Serves(c) == alive /\ conns[c].server = "open"

\* The thread has dealt with what it read.
Ready(c) == Serves(c) /\ worker[c].sends = << >> /\ ~worker[c].closing

\* The next complete packet, however recv() cuts the stream, is a request of this type.
Request(c) == conns[c].up[conns[c].handled + 1]
\* One packet for each recv(): what comes with another waits for ever.
X_Asks(c, type) ==
    /\ Ready(c) /\ conns[c].handled + 1 = Len(conns[c].up)
    /\ Request(c).type = type

Asks(c, type) ==
    /\ Ready(c) /\ conns[c].handled < Len(conns[c].up)
    /\ Request(c).type = type

\* The request is dealt with but for these sends.
Answer(c, sends) ==
    /\ worker' = [worker EXCEPT ![c].sends = sends]
    /\ conns' = [conns EXCEPT ![c].handled = @ + 1]

ToSelf(c, packet) == [sock |-> conns[c].sock, packet |-> packet]

\* close() without the erase.
X_Forget(c) ==
    /\ worker' = [worker EXCEPT ![c].closing = TRUE]
    /\ UNCHANGED <<clients, next_client_id, conns, alive>>

\* RemoveClient in two steps: the entry goes under the lock, the socket after it.
Forget(c) ==
    /\ clients' = [clients EXCEPT ![conns[c].sock] = Absent]
    /\ worker' = [worker EXCEPT ![c].closing = TRUE]
    /\ UNCHANGED <<next_client_id, conns, alive>>

\* `len < 0': the end of the stream is not taken for one.
X_RecvEnd(c) == FALSE

RecvEnd(c) ==
    /\ Ready(c)
    /\ conns[c].handled = Len(conns[c].up) /\ ~conns[c].client_open
    /\ Forget(c)

HandleDisconnect(c) ==
    /\ Asks(c, "DISCONNECT")
    /\ Forget(c)

Close(c) ==
    /\ Serves(c) /\ worker[c].closing
    /\ conns' = [conns EXCEPT ![c].server = "closed"]
    /\ UNCHANGED <<clients, next_client_id, worker, alive>>

\* The id is one more than there are clients.
X_HandleConnect(c) ==
    /\ Asks(c, "CONNECT")
    /\ LET id == 1 + Cardinality({s \in Socks : clients[s] > 0}) IN
        /\ clients' = [clients EXCEPT ![conns[c].sock] = id]
        /\ Answer(c, << ToSelf(c, [type |-> "CONNECT", id |-> id]) >>)
    /\ next_client_id' = next_client_id + 1
    /\ UNCHANGED alive

HandleConnect(c) ==
    /\ Asks(c, "CONNECT")
    /\ clients' = [clients EXCEPT ![conns[c].sock] = next_client_id]
    /\ next_client_id' = next_client_id + 1
    /\ Answer(c, << ToSelf(c, [type |-> "CONNECT", id |-> next_client_id]) >>)
    /\ UNCHANGED alive

\* clients[sock] makes an entry where there is none.
Touched(sock) == IF clients[sock] = Absent THEN [clients EXCEPT ![sock] = 0] ELSE clients

\* TIME and NAME; LIST sends what the table held under the lock.
HandleQuery(c, type) ==
    /\ Asks(c, type)
    /\ clients' = Touched(conns[c].sock)
    /\ Answer(c, << ToSelf(c, IF type = "LIST"
                              THEN [type |-> type, ids |-> {clients[s] : s \in Socks} \ {Absent, 0}]
                              ELSE [type |-> type]) >>)
    /\ UNCHANGED <<next_client_id, alive>>

\* No answer when there is no such client.
X_HandleMessage(c) ==
    /\ Asks(c, "MESSAGE")
    /\ LET to    == Request(c).to
           found == {s \in Socks : clients[s] # Absent /\ clients[s] = to}
       IN  /\ clients' = Touched(conns[c].sock)
           /\ alive' = (to # NotANumber)
           /\ Answer(c,
                IF found = {} THEN << >>
                ELSE << [sock |-> Least(found), packet |-> [type |-> "SIGNAL", to |-> to]],
                        ToSelf(c, [type |-> "MESSAGE"]) >>)
    /\ UNCHANGED next_client_id

\* The descriptor of the target is looked up under the lock and used after it; the
\* first entry with that id counts.  What std::stoi throws nobody
\* catches.
HandleMessage(c) ==
    /\ Asks(c, "MESSAGE")
    /\ LET to    == Request(c).to
           found == {s \in Socks : clients[s] # Absent /\ clients[s] = to}
       IN  /\ clients' = Touched(conns[c].sock)
           /\ alive' = (to # NotANumber)
           /\ Answer(c,
                IF found = {} THEN << ToSelf(c, [type |-> "INVALID"]) >>
                ELSE << [sock |-> Least(found), packet |-> [type |-> "SIGNAL", to |-> to]],
                        ToSelf(c, [type |-> "MESSAGE"]) >>)
    /\ UNCHANGED next_client_id

\* SendPacket on a descriptor.  A packet to a client that closed is lost and answered
\* with a reset; a send after the reset raises SIGPIPE, which ends the server.
Deliver(sock, packet) ==
    \/ /\ Holders(sock) = {}
       /\ UNCHANGED <<conns, alive>>
    \/ \E h \in Holders(sock) :
        \/ /\ conns[h].client_open
           /\ conns' = [conns EXCEPT ![h].down = Append(@, packet)]
           /\ UNCHANGED alive
        \/ /\ ~conns[h].client_open
           /\ conns' = [conns EXCEPT ![h].broken = TRUE]
           /\ alive' \in {TRUE, ~conns[h].broken}

SendNext(c) ==
    /\ Serves(c) /\ worker[c].sends # << >>
    /\ LET next == Head(worker[c].sends) IN Deliver(next.sock, next.packet)
    /\ worker' = [worker EXCEPT ![c].sends = Tail(@)]
    /\ UNCHANGED <<clients, next_client_id>>

Serve(c) ==
    \/ RecvEnd(c) \/ Close(c) \/ SendNext(c)
    \/ HandleConnect(c) \/ HandleMessage(c) \/ HandleDisconnect(c)
    \/ \E type \in {"TIME", "NAME", "LIST"} : HandleQuery(c, type)
=============================================================================
