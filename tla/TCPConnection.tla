---------------------------- MODULE TCPConnection ----------------------------
(***************************************************************************)
(* libsponge/tcp_connection.cc as operators on a record: one endpoint made  *)
(* of a TCPSender and a TCPReceiver.  Each operator is a whole method, with *)
(* every segment it pushes onto segments_out.                               *)
(***************************************************************************)
EXTENDS TCPSender, TCPReceiver

CONSTANTS MAX_RETX_ATTEMPTS,   \* TCPConfig::MAX_RETX_ATTEMPTS
          LingerTime,          \* 10 * TCPConfig::rt_timeout
          MaxWin               \* the largest window the 16-bit header field holds

ASSUME ConnectionAssumption ==
    /\ MAX_RETX_ATTEMPTS \in Nat
    /\ LingerTime \in Nat
    /\ MaxWin \in Nat

NewConnection(isn, send_capacity, recv_capacity) ==
    [sender       |-> NewSender(isn, send_capacity),
     receiver     |-> NewReceiver(recv_capacity),
     segments_out |-> << >>,
     linger       |-> TRUE,
     active       |-> TRUE,
     \* compared with LingerTime only, so it stops counting there
     time_since_last_segment_received |-> 0]

\* What the receiver adds to a segment of the sender: the window and, once there
\* is one, the acknowledgment number.
Stamped(c, seg) ==
    LET opened == [seg EXCEPT !.win = Lesser(window_size(c.receiver), MaxWin)]
    IN  IF ackno(c.receiver) = None THEN opened
        ELSE [opened EXCEPT !.ack = TRUE, !.ackno = ackno(c.receiver)]

push_segments_out(c) ==
    LET queued == c.sender.segments_out
    IN  [c EXCEPT !.segments_out = @ \o [k \in DOMAIN queued |-> Stamped(c, queued[k])],
                  !.sender.segments_out = << >>]

\* Both streams fail and the connection is over.  The reset, if one is sent, is the
\* front of the sender's queue: a segment it just retransmitted if there is one.
unclean_shutdown(c, send_rst) ==
    LET over == [c EXCEPT !.sender.stream = set_error(@),
                          !.receiver.reassembler.output = set_error(@),
                          !.active = FALSE]
        sent == send_empty_segment(over.sender)
        rst  == [Head(sent.segments_out) EXCEPT !.ack = FALSE, !.rst = TRUE]
    IN  IF ~send_rst THEN over
        ELSE [over EXCEPT !.sender = [sent EXCEPT !.segments_out = Tail(@)],
                          !.segments_out = Append(@, rst)]

\* A mutant: only payload is answered.
NeedsAck_PayloadOnly(c, seg) == seg.payload # << >>

\* Lines 50-57: what takes sequence space is answered, and so is a keep-alive.
NeedsAck(c, seg) ==
    \/ length_in_sequence_space(seg) > 0
    \/ /\ ackno(c.receiver) # None
       /\ seg.seqno = (ackno(c.receiver) - 1) % Mod32

Answered(c, seg) ==
    LET filled == fill_window(c.sender)
    IN  IF ~NeedsAck(c, seg) THEN c
        ELSE [c EXCEPT !.sender = IF filled.segments_out = << >>
                                  THEN send_empty_segment(filled) ELSE filled]

\* A mutant: the end of the inbound stream alone ends the need to linger.
NoteClose_Always(c) == [c EXCEPT !.linger = @ /\ ~inbound(c.receiver).input_ended]

\* Lines 43-46: the peer finished first, so this endpoint need not linger.
NoteClose(c) ==
    [c EXCEPT !.linger = @ /\ ~(inbound(c.receiver).input_ended /\ ~eof(c.sender.stream))]

\* A mutant: a reset is taken by a connection that is over, too.
segment_received_Resets(c, seg) ==
    LET heard    == [c EXCEPT !.time_since_last_segment_received = 0]
        received == [heard EXCEPT !.receiver = receiver_segment_received(@, seg)]
        acked    == IF seg.ack
                    THEN [received EXCEPT !.sender = ack_received(@, seg.ackno, seg.win)]
                    ELSE received
    IN  IF seg.rst THEN unclean_shutdown(heard, FALSE)
        ELSE IF ~c.active THEN c
        ELSE push_segments_out(Answered(NoteClose(acked), seg))

segment_received(c, seg) ==
    LET heard    == [c EXCEPT !.time_since_last_segment_received = 0]
        received == [heard EXCEPT !.receiver = receiver_segment_received(@, seg)]
        acked    == IF seg.ack
                    THEN [received EXCEPT !.sender = ack_received(@, seg.ackno, seg.win)]
                    ELSE received
    IN  CASE ~c.active -> c
          [] c.active /\ seg.rst  -> unclean_shutdown(heard, FALSE)
          [] c.active /\ ~seg.rst -> push_segments_out(Answered(NoteClose(acked), seg))

connection_write(c, data) ==
    LET written == [c.sender EXCEPT !.stream = write(@, data)]
    IN  IF ~c.active THEN c
        ELSE push_segments_out([c EXCEPT !.sender = fill_window(written)])

\* A mutant: outstanding segments are not looked at.
Finished_IgnoresFlight(c) == inbound(c.receiver).input_ended /\ eof(c.sender.stream)

\* Both streams are finished and everything sent is acknowledged.
Finished(c) ==
    /\ inbound(c.receiver).input_ended
    /\ eof(c.sender.stream)
    /\ bytes_in_flight(c.sender) = 0

\* Lines 100-112: the clean end, at once or after lingering.
CloseIfDone(c) ==
    [c EXCEPT !.active = @ /\ ~(/\ Finished(c)
                                /\ \/ ~c.linger
                                   \/ c.time_since_last_segment_received >= LingerTime)]

connection_tick(c, ms) ==
    LET later == [c EXCEPT !.time_since_last_segment_received = Lesser(@ + ms, LingerTime),
                           !.sender = sender_tick(@, ms)]
    IN  IF ~c.active THEN c
        ELSE IF later.sender.consecutive_retransmissions > MAX_RETX_ATTEMPTS
             THEN unclean_shutdown(later, TRUE)
             ELSE CloseIfDone(push_segments_out(later))

\* These two do not ask whether the connection is active.
end_input_stream(c) ==
    LET ended == [c.sender EXCEPT !.stream = end_input(@)]
    IN  push_segments_out([c EXCEPT !.sender = fill_window(ended)])

connect(c) ==
    push_segments_out([c EXCEPT !.sender = fill_window(@), !.active = TRUE])

\* The application takes n bytes from inbound_stream().
read_inbound(c, n) ==
    [c EXCEPT !.receiver.reassembler.output = pop_output(@, n)]
=============================================================================
