------------------------------- MODULE TCPPair -------------------------------
(***************************************************************************)
(* Two TCPConnections, the client that connects and the server that         *)
(* listens, their applications, their clocks, and a network that delays,    *)
(* reorders, loses and, in some scenarios, duplicates segments.  Each action   *)
(* is one call of a TCPConnection method by its owner (TCPSpongeSocket);    *)
(* the segments the call leaves on segments_out enter the network with it.  *)
(* The n-th byte an application writes is the number n - 1, its index.      *)
(***************************************************************************)
EXTENDS TCPState

CONSTANTS ISN,            \* endpoint -> initial sequence number
          Scenarios       \* the applications and networks considered

Ends == {"client", "server"}
Peer(e) == IF e = "client" THEN "server" ELSE "client"

\* What the applications and the network do in one behaviour.
Scenario ==
    [openers     : SUBSET Ends,     \* the endpoints that call connect()
     bytes       : [Ends -> Nat],   \* how many bytes each application writes
     capacity    : Nat,             \* TCPConfig::send_capacity and recv_capacity
     inFlight    : Nat,             \* bound: segments in flight to one endpoint
     losses      : Nat,             \* bound: segments the network loses in all
     duplicating : BOOLEAN,         \* whether a segment may be delivered again
     prompt      : BOOLEAN]         \* whether clocks agree and segments and readers outrun them

ASSUME PairAssumption ==
    /\ ISN \in [Ends -> 0..(Mod32 - 1)]
    /\ \A env \in Scenarios : env \in Scenario

\* The network may hold a segment for as long as it likes; sequence numbers name one
\* position only while the stream is shorter than half their period.  (A real network
\* drops a segment after its lifetime, which asks the same of a window only.)
ASSUME StreamAssumption ==
    \A env \in Scenarios : \A e \in Ends :
        /\ env.bytes[e] + 2 < Half
        /\ env.bytes[e] + 2 + Mod32 < Mod64

VARIABLES env,    \* the scenario, fixed
          conn,   \* endpoint -> TCPConnection
          net,    \* endpoint -> segments in flight to it
          lost,   \* how many segments were lost
          ahead   \* the endpoints whose clock is a tick ahead, if prompt

vars == <<env, conn, net, lost, ahead>>

Init ==
    /\ env \in Scenarios
    /\ conn = [e \in Ends |-> NewConnection(ISN[e], env.capacity, env.capacity)]
    /\ net = [e \in Ends |-> {}]
    /\ lost = 0
    /\ ahead = {}

\* Endpoint e is now c, its queued segments are on their way to the peer, and
\* `inbox' is left of what is in flight to e.
Step(e, c, inbox) ==
    /\ conn' = [conn EXCEPT ![e] = [c EXCEPT !.segments_out = << >>]]
    /\ net' = [net EXCEPT ![e] = inbox, ![Peer(e)] = @ \cup Range(c.segments_out)]
    /\ Cardinality(net'[Peer(e)]) =< env.inFlight

\* TCPSpongeSocket hands the connection to the application once it has left SYN_SENT,
\* if it connects, or also SYN_RCVD, if it listens.
Opening(e) == IF e \in env.openers THEN {"SYN_SENT"} ELSE {"LISTEN", "SYN_RCVD", "SYN_SENT"}
Established(e) ==
    /\ e \in env.openers => conn[e].sender.syn_sent
    /\ \A state \in Opening(e) : ~Is(conn[e], state)

CanConnect(e) == e \in env.openers /\ ~conn[e].sender.syn_sent /\ conn[e].active

Connect(e) ==
    /\ CanConnect(e)
    /\ Step(e, connect(conn[e]), net[e])
    /\ UNCHANGED <<env, lost, ahead>>

CanWrite(e) ==
    LET stream == conn[e].sender.stream
    IN  /\ conn[e].active /\ ~stream.input_ended
        /\ stream.bytes_written < env.bytes[e]
        /\ remaining_capacity(stream) > 0
        /\ Established(e)

WriteNext(e) == connection_write(conn[e], <<conn[e].sender.stream.bytes_written>>)

Write(e) ==
    /\ CanWrite(e)
    /\ Step(e, WriteNext(e), net[e])
    /\ UNCHANGED <<env, lost, ahead>>

\* The application closes its side; it may do so after the connection failed, but not if
\* it never had it: nobody's SYN was acknowledged, and rule 2 asks for an active connection.
CanEndInput(e) ==
    /\ ~conn[e].sender.stream.input_ended
    /\ IF conn[e].active THEN conn[e].sender.stream.bytes_written = env.bytes[e]
       ELSE conn[e].sender.ackno > 0
    /\ Established(e)

EndInput(e) ==
    /\ CanEndInput(e)
    /\ Step(e, end_input_stream(conn[e]), net[e])
    /\ UNCHANGED <<env, lost, ahead>>

CanRead(e) == inbound(conn[e].receiver).buffer # << >>

Read(e) ==
    /\ CanRead(e)
    /\ Step(e, read_inbound(conn[e], 1), net[e])
    /\ UNCHANGED <<env, lost, ahead>>

\* Time passes at e.  In a prompt environment both clocks run at the same rate, and
\* a tick comes when everything sent has arrived or is lost and everything that
\* arrived has been read.
CanTick(e) ==
    /\ conn[e].active
    /\ env.prompt => /\ e \in ahead => ~conn[Peer(e)].active
                     /\ \A f \in Ends : net[f] = {} /\ ~CanRead(f)

Tick(e) ==
    /\ CanTick(e)
    /\ Step(e, connection_tick(conn[e], 1), net[e])
    /\ ahead' = IF env.prompt /\ Peer(e) \notin ahead THEN ahead \cup {e} ELSE {}
    /\ UNCHANGED <<env, lost>>

Receive(e, seg, again) ==
    /\ again => env.duplicating
    /\ Step(e, segment_received(conn[e], seg), IF again THEN net[e] ELSE net[e] \ {seg})
    /\ UNCHANGED <<env, lost, ahead>>

Lose(e, seg) ==
    /\ lost < env.losses
    /\ lost' = lost + 1
    /\ net' = [net EXCEPT ![e] = @ \ {seg}]
    /\ UNCHANGED <<env, conn, ahead>>

Next ==
    \E e \in Ends :
        \/ Connect(e) \/ Write(e) \/ EndInput(e) \/ Read(e) \/ Tick(e)
        \/ \E seg \in net[e], again \in BOOLEAN : Receive(e, seg, again)
        \/ \E seg \in net[e] : Lose(e, seg)

Spec == Init /\ [][Next]_vars

\* The applications go on until they are done, the owner's event loop keeps calling
\* tick and handing over what arrives.
Application == \E e \in Ends : Connect(e) \/ Write(e) \/ EndInput(e)

Service ==
    \E e \in Ends :
        \/ Read(e) \/ Tick(e)
        \/ \E seg \in net[e] : Receive(e, seg, FALSE)

\* The network has room for what a call queues that leaves an endpoint as c.
HasRoom(e, c) == Cardinality(net[Peer(e)] \cup Range(c.segments_out)) =< env.inFlight

\* ENABLED <<Application>>_vars and ENABLED <<Service>>_vars for a prompt environment,
\* spelled out: a tick there changes the connection or which clock is ahead.
CanApply ==
    \E e \in Ends :
        \/ CanConnect(e)  /\ HasRoom(e, connect(conn[e]))
        \/ CanWrite(e)    /\ HasRoom(e, WriteNext(e))
        \/ CanEndInput(e) /\ HasRoom(e, end_input_stream(conn[e]))

CanServe ==
    \E e \in Ends :
        \/ CanRead(e) /\ HasRoom(e, read_inbound(conn[e], 1))
        \/ LET c == connection_tick(conn[e], 1)
           IN  CanTick(e) /\ HasRoom(e, c) /\ (c # conn[e] \/ ahead # {e})
        \/ \E seg \in net[e] : HasRoom(e, segment_received(conn[e], seg))

\* Weak fairness of both.
Fairness ==
    /\ []<>~CanApply \/ []<><<Application>>_vars
    /\ []<>~CanServe \/ []<><<Service>>_vars

FairSpec == Spec /\ Fairness

-----------------------------------------------------------------------------
Sent(e) == conn[e].sender.stream
Got(e) == inbound(conn[Peer(e)].receiver)
Failed(e) == Sent(e).error

\* Closed without a reset, by the rule of tcp_connection.cc:100-112.
ClosedCleanly(e) == ~conn[e].active /\ ~Failed(e)

\* The pair is a pair of reliable byte streams: what one application writes reaches
\* the other in order, byte for byte, its end after its last byte, and a connection
\* that closes without a reset has delivered both streams to their ends.
Promise ==
    INSTANCE ReliableStream WITH
        written  <- [e \in Ends |-> Sent(e).bytes_written],
        closed   <- {e \in Ends : Sent(e).input_ended},
        arrived  <- [e \in Ends |-> Got(e).bytes_written],
        unread   <- [e \in Ends |-> Got(e).buffer],
        ended    <- {e \in Ends : Got(e).input_ended},
        released <- {e \in Ends : ClosedCleanly(e)}

KeepsPromise == Promise!Spec

\* How much of e's sequence space, SYN and FIN included, its peer has taken.
Taken(e) ==
    IF conn[Peer(e)].receiver.isn = None THEN 0
    ELSE 1 + Got(e).bytes_written + (IF Got(e).input_ended THEN 1 ELSE 0)

\* An endpoint believes acknowledged only what its peer has taken, and the peer
\* takes only what was sent, whatever old or repeated segments say.
AcknoIsTrue ==
    \A e \in Ends :
        /\ conn[Peer(e)].receiver.isn \in {None, ISN[e]}
        /\ conn[e].sender.ackno =< Taken(e)
        /\ Taken(e) =< conn[e].sender.next_seqno

\* An endpoint that closes without lingering leaves nobody waiting for it: the peer
\* knows that its FIN and all its bytes were received, and it is the one to linger.
NoLingerLeavesPeerSettled ==
    \A e \in Ends : (ClosedCleanly(e) /\ ~conn[e].linger) =>
        /\ Settled(conn[Peer(e)].sender)
        /\ conn[Peer(e)].sender.fin_sent
        /\ conn[Peer(e)].linger

\* In a prompt environment that loses no more segments than MAX_RETX_ATTEMPTS nobody
\* gives up ...
NobodyFails == \A e \in Ends : ~Failed(e)

\* ... and both endpoints close cleanly: no acknowledgment, FIN or linger timer is
\* left waiting for something that will not come.
BothCloseCleanly == <>(\A e \in Ends : ClosedCleanly(e))

-----------------------------------------------------------------------------
SenderStage ==
    [CLOSED |-> 0, SYN_SENT |-> 1, SYN_ACKED |-> 2, FIN_SENT |-> 3, FIN_ACKED |-> 4, ERROR |-> 5]
ReceiverStage == [LISTEN |-> 0, SYN_RECV |-> 1, FIN_RECV |-> 2, ERROR |-> 3]

\* tcp_state.hh, "to test that Sponge follows the TCP spec": every edge of the diagram
\* of RFC 793 moves the summaries of a connection forward, so no segment, old or
\* repeated, and no call takes one back, and a connection that is over stays as it is:
\* closed cleanly, it is not reset any more (tcp_connection.cc:24-61).
NeverGoesBack ==
    [][\A e \in Ends : conn'[e] # conn[e] =>
          LET was == StateOf(conn[e])
              now == StateOf(conn'[e])
          IN  /\ SenderStage[was.sender] =< SenderStage[now.sender]
              /\ ReceiverStage[was.receiver] =< ReceiverStage[now.receiver]
              /\ now.linger => was.linger
              /\ ~was.active => now = was]_vars
=============================================================================
