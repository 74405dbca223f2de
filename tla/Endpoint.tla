------------------------------ MODULE Endpoint ------------------------------
(***************************************************************************)
(* A program that copies stdin and stdout over a TCPSpongeSocket (tcp_udp,  *)
(* tcp_ipv4, tun), its two threads, and a peer: a TCPConnection with an     *)
(* application that writes, ends and reads, at the other end of a network   *)
(* that loses nothing.  One step is one turn of an event loop or one call   *)
(* of the peer.  Time passes only when nobody has anything else to do.      *)
(* The n-th byte of either direction is the number n - 1, its index.        *)
(***************************************************************************)
EXTENDS SpongeSocket, StreamCopy

CONSTANTS ISN,          \* initial sequence numbers, of "self" and of "peer"
          Scenarios     \* what the owner, the peer and its application do

Scenario ==
    [listening : BOOLEAN,    \* whether the peer connects
     typed     : Seq(Nat),   \* the bytes of stdin
     bytes     : Seq(Nat),   \* the bytes that the peer's application writes
     capacity  : Nat,        \* TCPConfig::send_capacity and recv_capacity
     resets    : BOOLEAN,    \* whether the peer may die
     abandons  : BOOLEAN]    \* whether the owner may destroy the socket

\* Both streams are shorter than half the period of the sequence numbers, which name
\* one position each for as long as segments may take.
ASSUME EndpointAssumption ==
    /\ ISN \in [{"self", "peer"} -> 0..(Mod32 - 1)]
    /\ CopyBuffer \in Nat
    /\ \A scenario \in Scenarios :
          /\ scenario \in Scenario
          /\ \A stream \in {scenario.typed, scenario.bytes} :
                /\ stream = Excerpt(0, Len(stream))
                /\ Len(stream) + 2 < Half
                /\ Len(stream) + 2 + Mod32 < Mod64

VARIABLES env,      \* the scenario, fixed
          sock,     \* the TCPSpongeSocket
          copy,     \* the copying of its owner
          pipe,     \* between the two
          peer      \* [tcp, got, reset]: connection, what its application read, if it died

vars == <<env, sock, copy, pipe, peer>>

Init ==
    /\ env \in Scenarios
    /\ LET tcp == NewConnection(ISN["self"], env.capacity, env.capacity) IN
        sock = [NewSocket(IF env.listening THEN tcp ELSE connect(tcp))
                  EXCEPT !.listening = env.listening]
    /\ copy = NewCopy(env.typed)
    /\ pipe = NewPair
    /\ peer = [tcp |-> NewConnection(ISN["peer"], env.capacity, env.capacity),
               got |-> << >>, dead |-> FALSE]

----------------------------------------------------------------------------
(* The socket and its owner.                                                *)

\* Nothing is under way: what was sent has arrived and been answered.
PeerQuiet == sock.out = << >> /\ inbound(peer.tcp.receiver).buffer = << >>

\* What becomes of the socket with a turn of its loop, and whether the loop rather
\* waits: nothing happened yet, and time does not pass before it does.
Turned(st, turn) ==
    LET idle == Continues(sock) /\ turn.result # "Exit" /\ ~turn.served
    IN  [waits |-> idle /\ ~PeerQuiet /\ ~sock.abort,
         st    |-> IF Continues(sock) THEN LoopTurn(st, turn, IF idle THEN 1 ELSE 0)
                   ELSE LeaveLoop(st)]

TurnResult ==
    LET st == [s |-> sock, pipe |-> pipe]
    IN  Turned(st, SocketLoop!wait_next_event(sock.rules, st))

TurnRuns == sock.at \in {"opening", "running"} /\ copy.at # "failed"

Becomes(result) == ~result.waits /\ sock' = result.st.s /\ pipe' = result.st.pipe

Turn == TurnRuns /\ Becomes(TurnResult) /\ UNCHANGED <<env, copy, peer>>

\* The owner's loop starts when connect() or listen_and_accept() has returned.
CopyRuns == sock.at \in {"running", "over"} /\ ~sock.abort /\ copy.at = "copying"
CopyResult == CopyTurn(CopyLoop!wait_next_event(copy.rules, [c |-> copy, pipe |-> pipe]))

Copy ==
    /\ CopyRuns
    /\ LET after == CopyResult IN copy' = after.c /\ pipe' = after.pipe
    /\ UNCHANGED <<env, sock, peer>>

\* wait_until_closed: both directions are shut down and the TCP thread is joined.
WaitUntilClosed ==
    /\ copy.at = "done"
    /\ copy' = [copy EXCEPT !.at = "closed"]
    /\ pipe' = ShutBoth(pipe)
    /\ UNCHANGED <<env, sock, peer>>

\* The socket is destroyed while its thread runs.
Destroy ==
    /\ env.abandons /\ sock.at = "running" /\ ~sock.abort
    /\ sock' = [sock EXCEPT !.abort = TRUE]
    /\ UNCHANGED <<env, copy, pipe, peer>>

----------------------------------------------------------------------------
(* The peer, whose segments reach the socket's adapter at once.             *)

Peer(tcp, got) ==
    /\ peer' = [peer EXCEPT !.tcp = [tcp EXCEPT !.segments_out = << >>], !.got = got]
    /\ sock' = [sock EXCEPT !.in = @ \o tcp.segments_out]
    /\ UNCHANGED <<env, copy, pipe>>

Stream == peer.tcp.sender.stream
Alive == peer.tcp.active /\ ~peer.dead

CanConnect == env.listening /\ Alive /\ ~peer.tcp.sender.syn_sent
PeerConnect == CanConnect /\ Peer(connect(peer.tcp), peer.got)

\* The bytes are written as the connection has room for them, and then their end.
Left == SubSeq(env.bytes, Stream.bytes_written + 1, Len(env.bytes))
CanWrite ==
    Alive /\ peer.tcp.sender.ackno > 0 /\ Left # << >> /\ remaining_capacity(Stream) > 0
PeerWrite == CanWrite /\ Peer(connection_write(peer.tcp, Left), peer.got)

CanEnd == Alive /\ peer.tcp.sender.ackno > 0 /\ Left = << >> /\ ~Stream.input_ended
PeerEnd == CanEnd /\ Peer(end_input_stream(peer.tcp), peer.got)

Arrivals == inbound(peer.tcp.receiver).buffer
CanRead == ~peer.dead /\ Arrivals # << >>
PeerRead == CanRead /\ Peer(read_inbound(peer.tcp, Len(Arrivals)), peer.got \o Arrivals)

\* A segment arrives; a dead peer's host takes none.
PeerReceive ==
    /\ sock.out # << >>
    /\ LET tcp == IF peer.dead THEN peer.tcp ELSE segment_received(peer.tcp, Head(sock.out)) IN
        /\ peer' = [peer EXCEPT !.tcp = [tcp EXCEPT !.segments_out = << >>]]
        /\ sock' = [sock EXCEPT !.out = Tail(@), !.in = @ \o tcp.segments_out]
    /\ UNCHANGED <<env, copy, pipe>>

\* The peer's connection is destroyed while it is active and sends a reset.
PeerReset ==
    /\ env.resets /\ Alive /\ peer.tcp.sender.ackno > 0
    /\ LET tcp == unclean_shutdown(peer.tcp, TRUE) IN
        /\ peer' = [peer EXCEPT !.tcp = [tcp EXCEPT !.segments_out = << >>], !.dead = TRUE]
        /\ sock' = [sock EXCEPT !.in = @ \o tcp.segments_out]
    /\ UNCHANGED <<env, copy, pipe>>

\* The owner has read what arrived: a closed window is probed once it is open again.
SelfQuiet ==
    /\ sock.in = << >> /\ sock.tcp.segments_out = << >>
    /\ TurnRuns => inbound(sock.tcp.receiver).buffer = << >>
    /\ copy.at # "copying" \/ pipe["owner"].bytes = << >>

CanTick == Alive /\ SelfQuiet /\ PeerQuiet
PeerTick == CanTick /\ Peer(connection_tick(peer.tcp, 1), peer.got)

PeerStep ==
    PeerConnect \/ PeerWrite \/ PeerEnd \/ PeerRead \/ PeerReceive \/ PeerTick

Next == Turn \/ Copy \/ WaitUntilClosed \/ Destroy \/ PeerStep \/ PeerReset

Spec == Init /\ [][Next]_vars

\* ENABLED <<A>>_vars for the TCP thread, the owner's thread and the peer, spelled out.
CanTurn ==
    /\ TurnRuns
    /\ LET result == TurnResult
       IN  ~result.waits /\ (result.st.s # sock \/ result.st.pipe # pipe)
CanCopy ==
    \/ CopyRuns /\ LET after == CopyResult IN after.c # copy \/ after.pipe # pipe
    \/ copy.at = "done"
CanPeerStep ==
    \/ CanConnect \/ CanWrite \/ CanEnd \/ CanRead \/ sock.out # << >>
    \/ CanTick /\ connection_tick(peer.tcp, 1) # peer.tcp

\* Weak fairness of each: both threads run, and so does the peer, whose application
\* goes on until it is done.
FairSpec ==
    /\ Spec
    /\ []<>~CanTurn \/ []<><<Turn>>_vars
    /\ []<>~CanCopy \/ []<><<Copy \/ WaitUntilClosed>>_vars
    /\ []<>~CanPeerStep \/ []<><<PeerStep>>_vars
----------------------------------------------------------------------------
PeerHas == peer.got \o inbound(peer.tcp.receiver).buffer

IsSent(part, whole) == Len(part) =< Len(whole) /\ part = SubSeq(whole, 1, Len(part))

\* What is printed is what the peer wrote, and what the peer reads is what was typed,
\* byte for byte and in order, through four buffers and partial writes
\* (tcp_sponge_socket.cc:126-134, bidirectional_stream_copy.cc:44-52).
BytesInOrder == IsSent(copy.output, env.bytes) /\ IsSent(peer.got, env.typed)

\* An end of input comes after all the bytes before it: at the peer whatever happens,
\* on stdout unless the connection was reset (tcp_sponge_socket.cc:136-138).
EndsComeLast ==
    /\ inbound(peer.tcp.receiver).input_ended => PeerHas = env.typed
    /\ copy.inbound_shutdown => copy.output = env.bytes \/ peer.dead

\* No callback throws, or writes where nobody reads, which would end the program,
\* unless the connection was reset (tcp_sponge_socket.cc:94-151,
\* bidirectional_stream_copy.cc:41-83: what a rule still wants after a shutdown).
Crashed == sock.at = "failed" \/ copy.at = "failed"
NobodyCrashes == Crashed => peer.dead

\* tcp_sponge_socket.cc:102-104: what rule 2 reads it has asked room for, and the
\* connection takes it ("accepted less than advertised length" is never thrown).
AdvertisedIsAccepted == sock.at # "failed"

\* The TCP thread ends, and shuts the owner's socket down, when the peer has all that
\* was typed and its end, and the owner has, or can still read, all the peer wrote
\* (tcp_sponge_socket.cc:260-266).
ThreadEndsLast ==
    (sock.at = "over" /\ ~sock.abort /\ ~peer.dead) =>
        /\ PeerHas = env.typed /\ inbound(peer.tcp.receiver).input_ended
        /\ copy.output \o copy.inbound.buffer \o pipe["owner"].bytes = env.bytes

\* Everything gets through and both threads finish and are joined; after a reset, or
\* when the owner gives up, the threads end all the same.  A rule that is called back
\* for ever with nothing to do (tcp_sponge_socket.cc:140-150, a descriptor that is always
\* ready) holds the clock, and with it the end of the lingering.
BothThreadsEnd ==
    <>(\/ copy.at = "closed" /\ sock.at = "over" /\ ~peer.tcp.active
       \/ peer.dead /\ sock.at = "over" /\ copy.at = "closed"
       \/ sock.abort /\ sock.at = "over"
       \/ Crashed)
=============================================================================
