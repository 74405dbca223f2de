----------------------------- MODULE MCEndpoint -----------------------------
(* Small instances of Endpoint: a few bytes each way through small buffers.    *)
EXTENDS Endpoint

MCISN == [e \in {"self", "peer"} |-> IF e = "self" THEN Mod32 - 1 ELSE 3]

\* Bytes both ways through a pipe that holds one.
BothWays ==
    [listening |-> FALSE, typed |-> Excerpt(0, 2), bytes |-> Excerpt(0, 3), capacity |-> 2,
     resets |-> FALSE, abandons |-> FALSE]

Listening == [BothWays EXCEPT !.listening = TRUE, !.bytes = << >>]

\* The peer dies at any time, or the owner destroys the socket.
Resets == [BothWays EXCEPT !.typed = << 0 >>, !.bytes = << 0 >>, !.resets = TRUE]
Abandons == [BothWays EXCEPT !.typed = << >>, !.bytes = << 0 >>, !.abandons = TRUE]

MCScenarios == {BothWays, Listening, Resets, Abandons}
ResetOnly == {Resets}
=============================================================================
