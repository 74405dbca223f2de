--------------------------- MODULE ReliableStream ---------------------------
(***************************************************************************)
(* What a TCP connection promises its two applications: each of the two     *)
(* directions is a byte stream that loses, repeats and reorders nothing,    *)
(* ends only after its last byte, and is released only once both directions *)
(* have ended.  An endpoint may give up at any time; then it releases       *)
(* nothing.  The n-th byte written is the number n - 1.                     *)
(***************************************************************************)
EXTENDS Integers, Sequences

CONSTANT Ends,       \* the two endpoints
         Peer(_)     \* the other endpoint

VARIABLES written,   \* endpoint -> bytes its application wrote
          closed,    \* endpoints whose application ended its stream
          arrived,   \* endpoint -> bytes of its stream that reached the peer
          unread,    \* endpoint -> the arrived bytes the peer has not read
          ended,     \* endpoints whose end of stream reached the peer
          released   \* endpoints that closed cleanly

vars == <<written, closed, arrived, unread, ended, released>>

Init ==
    /\ written = [e \in Ends |-> 0]
    /\ arrived = [e \in Ends |-> 0]
    /\ unread = [e \in Ends |-> << >>]
    /\ closed = {} /\ ended = {} /\ released = {}

Write(e) ==
    /\ e \notin closed
    /\ written' = [written EXCEPT ![e] = @ + 1]
    /\ UNCHANGED <<closed, arrived, unread, ended, released>>

Close(e) ==
    /\ closed' = closed \cup {e}
    /\ UNCHANGED <<written, arrived, unread, ended, released>>

\* More bytes of e's stream arrive, in order, the end perhaps with them.
Arrive(e, n) ==
    /\ arrived[e] + n =< written[e]
    /\ arrived' = [arrived EXCEPT ![e] = @ + n]
    /\ unread' = [unread EXCEPT ![e] = @ \o [k \in 1..n |-> arrived[e] + k - 1]]
    /\ ended' \in {ended, ended \cup {e}}
    /\ ended' # ended => e \in closed /\ arrived'[e] = written[e]
    /\ UNCHANGED <<written, closed, released>>

Take(e) ==
    /\ unread[e] # << >>
    /\ unread' = [unread EXCEPT ![e] = Tail(@)]
    /\ UNCHANGED <<written, closed, arrived, ended, released>>

Release(e) ==
    /\ e \in ended /\ Peer(e) \in ended
    /\ released' = released \cup {e}
    /\ UNCHANGED <<written, closed, arrived, unread, ended>>

Next ==
    \E e \in Ends :
        \/ Write(e) \/ Close(e) \/ Take(e) \/ Release(e)
        \/ \E n \in 0..(written[e] - arrived[e]) : Arrive(e, n)

Spec == Init /\ [][Next]_vars
=============================================================================
