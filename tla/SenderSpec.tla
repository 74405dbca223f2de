----------------------------- MODULE SenderSpec -----------------------------
(***************************************************************************)
(* A TCPSender between its application, its clock and a peer whose          *)
(* acknowledgments travel over a network that loses, duplicates and, if it  *)
(* is not in order, reorders them.  The owner drains the queue of segments       *)
(* before each call, as TCPConnection::_push_segments_out does after it.    *)
(* The n-th byte the application writes is the number n - 1, its index, so  *)
(* the byte with absolute sequence number n is n - 1.                       *)
(***************************************************************************)
EXTENDS TCPSender

CONSTANTS ISN,             \* the sender's initial sequence number
          SendCapacity,    \* capacity of the outgoing stream
          StreamLength,    \* bound: how many bytes the application writes
          MaxWindow,       \* bound: the largest window the peer advertises
          MaxAcks,         \* bound: acknowledgments in flight at a time
          MaxRetx          \* TCPConfig::MAX_RETX_ATTEMPTS, where the owner gives up

ASSUME SenderSpecAssumption ==
    /\ ISN \in 0..(Mod32 - 1)
    /\ SendCapacity \in Nat /\ StreamLength \in Nat /\ MaxWindow \in Nat
    /\ MaxAcks \in Nat /\ MaxRetx \in Nat

\* A window (16 bits in the code) is less than half the period of the wrapped numbers,
\* and a stream ends before the highest period of the unwrapped ones.
ASSUME WindowAssumption ==
    /\ Greater(MaxWindow, 1) + 1 < Half
    /\ StreamLength + 2 + Mod32 < Mod64

VARIABLES s,      \* the TCPSender
          peer,   \* the peer's current absolute ackno and window
          acks,   \* acknowledgments in flight, oldest first
          inOrder \* whether the network keeps their order, fixed

vars == <<s, peer, acks, inOrder>>

Drained == [s EXCEPT !.segments_out = << >>]

Init ==
    /\ s = NewSender(ISN, SendCapacity)
    /\ peer = [ackno |-> 0, window |-> 1]
    /\ acks = << >>
    /\ inOrder \in BOOLEAN

\* TCPConnection::connect.
Connect ==
    /\ s' = fill_window(Drained)
    /\ UNCHANGED <<peer, acks, inOrder>>

\* TCPConnection::write: n more bytes, then fill_window.
Write(n) ==
    /\ s.stream.bytes_written + n =< StreamLength
    /\ s' = fill_window([Drained EXCEPT
                !.stream = write(@, Excerpt(@.bytes_written, n))])
    /\ UNCHANGED <<peer, acks, inOrder>>

\* TCPConnection::end_input_stream.
EndInput ==
    /\ s' = fill_window([Drained EXCEPT !.stream = end_input(@)])
    /\ UNCHANGED <<peer, acks, inOrder>>

\* TCPConnection::tick, as long as the connection has not given up.
Tick(ms) ==
    /\ s.consecutive_retransmissions =< MaxRetx
    /\ s' = sender_tick(Drained, ms)
    /\ UNCHANGED <<peer, acks, inOrder>>

\* The peer has taken what was sent up to a, perhaps the front of a segment only,
\* and advertises w; it never takes back a right edge that it advertised.
PeerAck(a, w) ==
    /\ Len(acks) < MaxAcks
    /\ a \in peer.ackno..s.next_seqno
    /\ a + w >= peer.ackno + peer.window
    /\ peer' = [ackno |-> a, window |-> w]
    /\ acks' = Append(acks, [seqno |-> wrap(a, ISN), window |-> w])
    /\ UNCHANGED <<s, inOrder>>

\* An acknowledgment arrives: any one in flight, or the oldest if the network keeps
\* the order.  It stays in flight if it is duplicated.
Deliver(k, again) ==
    /\ k \in DOMAIN acks
    /\ inOrder => k = 1
    /\ s' = ack_received(Drained, acks[k].seqno, acks[k].window)
    /\ acks' = IF again THEN acks ELSE SubSeq(acks, 1, k - 1) \o SubSeq(acks, k + 1, Len(acks))
    /\ UNCHANGED <<peer, inOrder>>

\* An acknowledgment of something not sent yet, from an earlier connection.
DeliverImpossible(w) ==
    /\ s' = ack_received(Drained, wrap(s.next_seqno + 1, ISN), w)
    /\ UNCHANGED <<peer, acks, inOrder>>

Lose(k) ==
    /\ k \in DOMAIN acks
    /\ acks' = SubSeq(acks, 1, k - 1) \o SubSeq(acks, k + 1, Len(acks))
    /\ UNCHANGED <<s, peer, inOrder>>

Next ==
    \/ Connect
    \/ \E n \in 1..StreamLength : Write(n)
    \/ EndInput
    \/ \E ms \in 1..2 : Tick(ms)
    \/ \E a \in 0..s.next_seqno, w \in 0..MaxWindow : PeerAck(a, w)
    \/ \E k \in 1..MaxAcks, again \in BOOLEAN : Deliver(k, again)
    \/ \E w \in 0..MaxWindow : DeliverImpossible(w)
    \/ \E k \in 1..MaxAcks : Lose(k)

Spec == Init /\ [][Next]_vars

-----------------------------------------------------------------------------
\* The retransmission timer runs exactly while a segment is outstanding: a segment
\* with no timer would never be sent again, a timer with no segment would count
\* towards giving up on a quiet connection.
TimerIffOutstanding == s.timer_running <=> ~Settled(s)

\* What is sent and not acknowledged is held in outstanding segments, each number in
\* exactly one, so that losing any segment can be repaired; and none is held longer
\* than it has to be.
UnackedIsOutstanding ==
    /\ s.ackno =< s.next_seqno
    /\ \A q \in s.ackno..(s.next_seqno - 1) :
           \E p \in DOMAIN s.outstanding : p =< q /\ q < SegEnd(s, p)
    /\ \A p \in DOMAIN s.outstanding :
           /\ s.ackno < SegEnd(s, p) /\ SegEnd(s, p) =< s.next_seqno
           /\ \A q \in DOMAIN s.outstanding : p < q => SegEnd(s, p) =< q

\* The next sequence number is the count of what was sent: the SYN, the bytes taken
\* from the stream and the FIN; the FIN is only sent when no byte can follow it.
SeqnoAccounting ==
    /\ s.next_seqno = (IF s.syn_sent THEN 1 ELSE 0) + s.stream.bytes_read
                      + (IF s.fin_sent THEN 1 ELSE 0)
    /\ s.fin_sent => s.syn_sent /\ eof(s.stream)

\* A segment carries the bytes of the stream that its sequence number says, the SYN
\* at the front of the stream and the FIN at its end.
SegmentsCarryTheStream ==
    \A p \in DOMAIN s.outstanding :
        LET seg == s.outstanding[p]
        IN  /\ seg.seqno = wrap(p, ISN)
            /\ seg.syn <=> p = 0
            /\ seg.fin <=> (s.fin_sent /\ SegEnd(s, p) = s.next_seqno)
            /\ Len(seg.payload) =< MAX_PAYLOAD_SIZE
            /\ seg.payload = Excerpt(p - 1, Len(seg.payload))

\* Nothing is sent past the right edge of the window the peer advertised, but for
\* the one sequence number that probes a window of zero, if acknowledgments arrive in
\* order.  (An old one overwrites the window, tcp_sender.cc:153.)
WithinAdvertisedWindow ==
    inOrder => s.next_seqno =< peer.ackno + Greater(peer.window, 1)

\* The back-off and the count towards giving up go down only when an acknowledgment
\* moves the window forward; an old, duplicate or impossible one never does.
BackoffResetsOnProgress ==
    [][(\/ s'.consecutive_retransmissions < s.consecutive_retransmissions
        \/ s'.rto < s.rto)
       => s'.ackno > s.ackno]_vars

\* A timeout sends the segment that holds the first unacknowledged number.
TimeoutSendsOldest ==
    [][s'.consecutive_retransmissions > s.consecutive_retransmissions =>
          \E p \in DOMAIN s.outstanding :
              /\ p =< s.ackno /\ s.ackno < SegEnd(s, p)
              /\ s'.segments_out = <<s.outstanding[p]>>]_vars

-----------------------------------------------------------------------------
\* lab4/lab4.typ:230, 328-330: "if new data is acknowledged, reset the timer and the
\* RTO, reset the count of consecutive retransmissions".
NewDataResetsBackoff ==
    [][s'.ackno > s.ackno =>
          s'.consecutive_retransmissions = 0 /\ s'.rto = InitialRto]_vars
=============================================================================
