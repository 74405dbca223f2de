------------------------------ MODULE TCPSender ------------------------------
(***************************************************************************)
(* libsponge/tcp_sender.cc as operators on a record.                        *)
(*   outstanding   _outstanding_segments: absolute start -> segment         *)
(*   segments_out  the queue that the owner drains                          *)
(* fill_window's loop is written as the segments one call creates.          *)
(***************************************************************************)
EXTENDS ByteStream, TCPSegment, WrappingIntegers, FiniteSetsExt, Functions

CONSTANTS MAX_PAYLOAD_SIZE,   \* TCPConfig::MAX_PAYLOAD_SIZE
          InitialRto          \* TCPConfig::rt_timeout, in ticks of the model's clock

ASSUME SenderAssumption ==
    /\ MAX_PAYLOAD_SIZE \in Nat \ {0}
    /\ InitialRto \in Nat \ {0}

NewSender(isn, capacity) ==
    [isn          |-> isn,
     stream       |-> NewStream(capacity),
     ackno        |-> 0,
     window_size  |-> 1,
     next_seqno   |-> 0,
     outstanding  |-> << >>,
     segments_out |-> << >>,
     rto          |-> InitialRto,
     timer        |-> 0,
     timer_running |-> FALSE,
     consecutive_retransmissions |-> 0,
     syn_sent     |-> FALSE,
     fin_sent     |-> FALSE]

\* Nothing waits for an acknowledgment.
Settled(s) == DOMAIN s.outstanding = {}

SegEnd(s, p) == p + length_in_sequence_space(s.outstanding[p])

\* How many sequence numbers the outstanding segments take: the pairs of a segment and
\* a position in it.
bytes_in_flight(s) ==
    Cardinality(UNION {{p} \X (1..length_in_sequence_space(s.outstanding[p])) :
                          p \in DOMAIN s.outstanding})

\* A mutant: a window of zero is not probed.
WindowRight_NoProbe(s) == s.ackno + s.window_size

\* The right edge of the peer's window; a window of zero is probed with one byte.
WindowRight(s) == s.ackno + (IF s.window_size = 0 THEN 1 ELSE s.window_size)

\* Segments `new', a function from their starts, are sent and tracked; the timer
\* starts if nothing was outstanding.
Track(s, new, end) ==
    LET starts == DOMAIN new
        idle   == Settled(s) /\ starts # {}
    IN  [s EXCEPT
           !.outstanding   = [p \in DOMAIN @ \cup starts |-> IF p \in starts THEN new[p] ELSE @[p]],
           !.segments_out  = @ \o [k \in 1..Cardinality(starts) |->
                                      new[s.next_seqno + (k - 1) * MAX_PAYLOAD_SIZE]],
           !.next_seqno    = end,
           !.timer         = IF idle THEN 0 ELSE @,
           !.timer_running = @ \/ idle]

SendSyn(s) ==
    Track([s EXCEPT !.syn_sent = TRUE],
          [p \in {s.next_seqno} |-> [Segment(wrap(p, s.isn)) EXCEPT !.syn = TRUE]],
          s.next_seqno + 1)

\* How many buffered bytes the window lets out.
Sendable(s) ==
    IF s.next_seqno < WindowRight(s)
    THEN Lesser(WindowRight(s) - s.next_seqno, Len(s.stream.buffer)) ELSE 0

\* Mutants: the FIN is sent again; it may lie past the window.
FinFits_Again(s) ==
    /\ s.stream.input_ended
    /\ s.next_seqno + Sendable(s) < WindowRight(s)

FinFits_PastWindow(s) ==
    /\ ~s.fin_sent
    /\ s.stream.input_ended
    /\ Sendable(s) = Len(s.stream.buffer)

\* The FIN goes out once, with the last byte or alone, if the window has room for
\* it after the bytes (which is then room for all of them).
FinFits(s) ==
    /\ ~s.fin_sent
    /\ s.stream.input_ended
    /\ s.next_seqno + Sendable(s) < WindowRight(s)

\* A mutant: every segment of one call is cut from the front of the buffer.
Pieces_SameBytes(s) ==
    LET n      == Sendable(s)
        fin    == FinFits(s)
        last   == s.next_seqno + (IF fin THEN Greater(n, 1) ELSE n) - 1
        starts == {p \in s.next_seqno..last : (p - s.next_seqno) % MAX_PAYLOAD_SIZE = 0}
    IN  [p \in starts |->
            LET from == p - s.next_seqno
            IN  [Segment(wrap(p, s.isn)) EXCEPT
                   !.payload = SubSeq(s.stream.buffer, 1, Lesser(MAX_PAYLOAD_SIZE, n - from)),
                   !.fin = fin /\ from + MAX_PAYLOAD_SIZE >= n]]

\* The segments cut from the sendable bytes, MAX_PAYLOAD_SIZE at a time, the FIN on
\* the last one; a FIN with no bytes left is a segment of its own.
Pieces(s) ==
    LET n      == Sendable(s)
        fin    == FinFits(s)
        last   == s.next_seqno + (IF fin THEN Greater(n, 1) ELSE n) - 1
        starts == {p \in s.next_seqno..last : (p - s.next_seqno) % MAX_PAYLOAD_SIZE = 0}
    IN  [p \in starts |->
            LET from == p - s.next_seqno
            IN  [Segment(wrap(p, s.isn)) EXCEPT
                   !.payload = SubSeq(s.stream.buffer, from + 1, Lesser(from + MAX_PAYLOAD_SIZE, n)),
                   !.fin = fin /\ from + MAX_PAYLOAD_SIZE >= n]]

SendData(s) ==
    LET n == Sendable(s)
        t == Track(s, Pieces(s), s.next_seqno + n + (IF FinFits(s) THEN 1 ELSE 0))
    IN  [t EXCEPT !.stream = pop_output(@, n), !.fin_sent = @ \/ FinFits(s)]

fill_window(s) ==
    IF s.next_seqno >= WindowRight(s) THEN s
    ELSE SendData(IF s.syn_sent THEN s ELSE SendSyn(s))

\* Mutants: a segment is dropped once its first number is acknowledged; the
\* back-off is reset by every acknowledgment.
Acknowledge_Partial(s, absolute_ackno) ==
    LET left == {p \in DOMAIN s.outstanding : p >= absolute_ackno}
        some == left # DOMAIN s.outstanding
    IN  [s EXCEPT
           !.outstanding = Restrict(@, left),
           !.timer = IF some THEN 0 ELSE @,
           !.rto   = IF some THEN InitialRto ELSE @,
           !.consecutive_retransmissions = IF some THEN 0 ELSE @,
           !.ackno = Greater(@, absolute_ackno)]

Acknowledge_AlwaysResets(s, absolute_ackno) ==
    [s EXCEPT
       !.outstanding = Restrict(@, {p \in DOMAIN @ : SegEnd(s, p) > absolute_ackno}),
       !.timer = 0,
       !.rto   = InitialRto,
       !.consecutive_retransmissions = 0,
       !.ackno = Greater(@, absolute_ackno)]

\* The segments that end at or before the acknowledged number are dropped; only
\* that restarts the timer and the back-off.
Acknowledge(s, absolute_ackno) ==
    LET left == {p \in DOMAIN s.outstanding : SegEnd(s, p) > absolute_ackno}
        some == left # DOMAIN s.outstanding
    IN  [s EXCEPT
           !.outstanding = Restrict(@, left),
           !.timer = IF some THEN 0 ELSE @,
           !.rto   = IF some THEN InitialRto ELSE @,
           !.consecutive_retransmissions = IF some THEN 0 ELSE @,
           !.ackno = Greater(@, absolute_ackno)]

\* A mutant: the timer is left running when everything is acknowledged.
ack_received_KeepsTimer(s, seqno, window) ==
    LET absolute_ackno == unwrap(seqno, s.isn, s.ackno)
    IN  IF absolute_ackno > s.next_seqno THEN s
        ELSE fill_window(Acknowledge([s EXCEPT !.window_size = window], absolute_ackno))

\* The window is taken from every acknowledgment that is not beyond what was sent,
\* an old one included.
ack_received(s, seqno, window) ==
    LET absolute_ackno == unwrap(seqno, s.isn, s.ackno)
        filled == fill_window(Acknowledge([s EXCEPT !.window_size = window], absolute_ackno))
    IN  IF absolute_ackno > s.next_seqno THEN s
        ELSE [filled EXCEPT !.timer_running = @ /\ ~Settled(filled)]

\* A mutant: the newest segment is sent again.
sender_tick_Newest(s, ms) ==
    LET timer   == s.timer + ms
        expired == timer >= s.rto /\ ~Settled(s)
    IN  CASE ~s.timer_running             -> s
          [] s.timer_running /\ ~expired -> [s EXCEPT !.timer = timer]
          [] s.timer_running /\ expired  ->
               [s EXCEPT
                  !.timer = 0,
                  !.segments_out = Append(@, s.outstanding[Max(DOMAIN s.outstanding)]),
                  !.rto = IF s.window_size > 0 THEN 2 * @ ELSE @,
                  !.consecutive_retransmissions = @ + 1]

\* Time passes; at a timeout the segment with the lowest number is sent again.  The
\* timeout doubles only if the peer's window is open, the count grows either way.
sender_tick(s, ms) ==
    LET timer   == s.timer + ms
        expired == timer >= s.rto /\ ~Settled(s)
    IN  CASE ~s.timer_running             -> s
          [] s.timer_running /\ ~expired -> [s EXCEPT !.timer = timer]
          [] s.timer_running /\ expired  ->
               [s EXCEPT
                  !.timer = 0,
                  !.segments_out = Append(@, s.outstanding[Min(DOMAIN s.outstanding)]),
                  !.rto = IF s.window_size > 0 THEN 2 * @ ELSE @,
                  !.consecutive_retransmissions = @ + 1]

send_empty_segment(s) ==
    [s EXCEPT !.segments_out = Append(@, Segment(wrap(s.next_seqno, s.isn)))]
=============================================================================
