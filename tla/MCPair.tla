------------------------------- MODULE MCPair -------------------------------
(* Small instances of TCPPair: its sequence numbers and scenarios.             *)
EXTENDS TCPPair

\* Both streams cross the end of the 32-bit range during the handshake or at once
\* after it.
MCISN == [e \in Ends |-> IF e = "client" THEN Mod32 - 1 ELSE Mod32 - 2]

Bytes(client, server) == [e \in Ends |-> IF e = "client" THEN client ELSE server]

\* Clocks that run freely, and a network that may lose a segment of the handshake or a FIN.
Lossy ==
    [openers |-> {"client"}, bytes |-> Bytes(0, 0), capacity |-> 1,
     inFlight |-> 2, losses |-> 1, duplicating |-> FALSE, prompt |-> FALSE]

\* The client sends a byte; a segment that the network holds to the end is lost, too.
Delayed == [Lossy EXCEPT !.losses = 0, !.bytes = Bytes(1, 0)]

\* Any segment may come again, any number of times: those of the handshake and the
\* FINs at any time ...
OldOnes == [Lossy EXCEPT !.losses = 0, !.duplicating = TRUE]

\* ... and with a byte.  From here on the clocks agree and wait for the network.
Duplicates == [OldOnes EXCEPT !.bytes = Bytes(1, 0), !.prompt = TRUE]

\* Two losses, one more than the retransmissions that may go unanswered.
LossyTwice ==
    [Lossy EXCEPT !.losses = 2, !.bytes = Bytes(1, 0), !.inFlight = 3, !.prompt = TRUE]

\* A byte each way: either end may finish first.
BothWays ==
    [Lossy EXCEPT !.losses = 0, !.bytes = Bytes(1, 1), !.inFlight = 3, !.prompt = TRUE]

\* Both ends connect to each other.
SimultaneousOpen == [BothWays EXCEPT !.bytes = Bytes(1, 0), !.openers = Ends]

\* Two bytes in two segments, which may overtake one another and the FIN them.
Overtaking ==
    [Lossy EXCEPT !.losses = 0, !.bytes = Bytes(2, 0), !.capacity = 2, !.inFlight = 3,
                  !.prompt = TRUE]

PairScenarios ==
    {Lossy, Delayed, OldOnes, Duplicates, LossyTwice, BothWays, SimultaneousOpen, Overtaking}

\* A byte each way, one loss, clocks that agree and a network that outruns them.
LiveScenarios ==
    {[Lossy EXCEPT !.bytes = Bytes(1, 1), !.inFlight = 4, !.prompt = TRUE]}
=============================================================================
