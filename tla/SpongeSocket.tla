---------------------------- MODULE SpongeSocket ----------------------------
(***************************************************************************)
(* TCPSpongeSocket (tcp_helpers/tcp_sponge_socket.cc): a TCPConnection, the *)
(* four rules of its event loop, and the loop that runs it, first in the    *)
(* owner's thread while it connects, then in a thread of its own.  A state  *)
(* st is the socket, st.s, and the stream pair to the owner, st.pipe.        *)
(***************************************************************************)
EXTENDS TCPState, StreamPair

\* `at' is the phase: opening in connect() or listen_and_accept(), running in the TCP
\* thread, over, or failed with an exception that ends the program.
NewSocket(tcp) ==
    [tcp |-> tcp, rules |-> 1..4, at |-> "opening", listening |-> FALSE, abort |-> FALSE,
     in |-> << >>, out |-> << >>,       \* datagrams at the adapter, each way
     thread_eof |-> FALSE, outbound_shutdown |-> FALSE, inbound_shutdown |-> FALSE]

Fail(st) == [st EXCEPT !.s.at = "failed"]

remaining_outbound_capacity(c) == remaining_capacity(c.sender.stream)
inbound_stream(st) == inbound(st.s.tcp.receiver)

EndOutbound(st) ==
    [st EXCEPT !.s.tcp = end_input_stream(@), !.s.outbound_shutdown = TRUE]

\* Rule 1: a datagram goes to the connection.
ReadDatagram(st) ==
    [st EXCEPT !.s.tcp = segment_received(@, Head(st.s.in)), !.s.in = Tail(@)]

\* Rule 2: bytes of the owner go to the connection, which must take them all.
ReadOwner(st) ==
    LET limit   == remaining_outbound_capacity(st.s.tcp)
        data    == ReadData(st.pipe, "tcp", limit)
        ended   == st.s.thread_eof \/ ReadsEof(st.pipe, "tcp", limit)
        written == connection_write(st.s.tcp, data)
        taken   == written.sender.stream.bytes_written - st.s.tcp.sender.stream.bytes_written
        after   == [st EXCEPT !.s.tcp = written, !.s.thread_eof = ended,
                              !.pipe = AfterRead(@, "tcp", limit)]
    IN  IF taken # Len(data) THEN Fail(after)
        ELSE IF ended THEN EndOutbound(after) ELSE after

\* What was looked at is popped, whatever the pipe took.
X_WriteOwner(st) ==
    LET data == peek_output(inbound_stream(st), Len(inbound_stream(st).buffer))
        sent == [st EXCEPT !.pipe = AfterWrite(@, "tcp", data),
                           !.s.tcp = read_inbound(@, Len(data))]
    IN  IF WriteFails(st.pipe, "tcp", data) THEN Fail(st)
        ELSE IF eof(inbound_stream(sent)) \/ inbound_stream(sent).error
             THEN [sent EXCEPT !.pipe = ShutWrite(@, "tcp"), !.s.inbound_shutdown = TRUE]
             ELSE sent

\* Rule 3: bytes that arrived go to the owner, as many as fit; then the end, or the error.
WriteOwner(st) ==
    LET data == peek_output(inbound_stream(st), Len(inbound_stream(st).buffer))
        sent == [st EXCEPT !.pipe = AfterWrite(@, "tcp", data),
                           !.s.tcp = read_inbound(@, WriteSize(st.pipe, "tcp", data))]
    IN  IF WriteFails(st.pipe, "tcp", data) THEN Fail(st)
        ELSE IF eof(inbound_stream(sent)) \/ inbound_stream(sent).error
             THEN [sent EXCEPT !.pipe = ShutWrite(@, "tcp"), !.s.inbound_shutdown = TRUE]
             ELSE sent

\* Rule 4: the segments of the connection become datagrams.
WriteDatagrams(st) ==
    [st EXCEPT !.s.out = @ \o st.s.tcp.segments_out, !.s.tcp.segments_out = << >>]

\* Rule 3 goes on wanting to write after it has shut the pipe down.
X_SocketInterested(r, st) ==
    CASE r = 1 -> st.s.tcp.active
      [] r = 2 -> /\ st.s.tcp.active /\ ~st.s.outbound_shutdown
                  /\ remaining_outbound_capacity(st.s.tcp) > 0
      [] r = 3 -> \/ inbound_stream(st).buffer # << >>
                  \/ eof(inbound_stream(st)) \/ inbound_stream(st).error
      [] r = 4 -> st.s.tcp.segments_out # << >>

\* Rule 3 wants to write only while the connection is active.
Y_SocketInterested(r, st) ==
    CASE r = 1 -> st.s.tcp.active
      [] r = 2 -> /\ st.s.tcp.active /\ ~st.s.outbound_shutdown
                  /\ remaining_outbound_capacity(st.s.tcp) > 0
      [] r = 3 -> /\ st.s.tcp.active
                  /\ \/ inbound_stream(st).buffer # << >>
                     \/ /\ eof(inbound_stream(st)) \/ inbound_stream(st).error
                        /\ ~st.s.inbound_shutdown
      [] r = 4 -> st.s.tcp.segments_out # << >>

SocketInterested(r, st) ==
    CASE r = 1 -> st.s.tcp.active
      [] r = 2 -> /\ st.s.tcp.active /\ ~st.s.outbound_shutdown
                  /\ remaining_outbound_capacity(st.s.tcp) > 0
      [] r = 3 -> \/ inbound_stream(st).buffer # << >>
                  \/ /\ eof(inbound_stream(st)) \/ inbound_stream(st).error
                     /\ ~st.s.inbound_shutdown
      [] r = 4 -> st.s.tcp.segments_out # << >>

SocketCallback(r, st) ==
    CASE r = 1 -> ReadDatagram(st) [] r = 2 -> ReadOwner(st)
      [] r = 3 -> WriteOwner(st)   [] r = 4 -> WriteDatagrams(st)

SocketReady(r, st) ==
    CASE r = 1 -> st.s.in # << >>           [] r = 2 -> Readable(st.pipe, "tcp")
      [] r = 3 -> Writable(st.pipe, "tcp")  [] r = 4 -> TRUE

SocketLoop == INSTANCE EventLoop WITH
    Rules <- << 1, 2, 3, 4 >>,
    Defunct <- LAMBDA r, st : r = 2 /\ st.s.thread_eof,
    Interested <- SocketInterested,
    Ready <- SocketReady,
    HangUp <- LAMBDA r, st : r \in {2, 3} /\ HungUp(st.pipe, "tcp"),
    Callback <- SocketCallback,
    Cancel <- LAMBDA r, st : IF r = 2 THEN EndOutbound(st) ELSE st,
    Failed <- LAMBDA st : st.s.at = "failed"

\* The condition under which _tcp_loop goes on.
Continues(s) ==
    s.at = "opening" =>
        \E state \in IF s.listening THEN {"LISTEN", "SYN_RCVD", "SYN_SENT"} ELSE {"SYN_SENT"} :
            Is(s.tcp, state)

\* What follows the loop: the TCP thread starts, or ends and shuts the owner's socket
\* down.  The connection is destroyed with whatever it has not sent.
LeaveLoop(st) ==
    IF st.s.at = "opening" THEN [st EXCEPT !.s.at = "running"]
    ELSE [st EXCEPT !.s.at = "over", !.pipe = ShutBoth(@)]

\* One turn of _tcp_loop, which takes ms of time after the events.
LoopTurn(st, turn, ms) ==
    LET after == [turn.st EXCEPT !.s.rules = turn.rules]
    IN  IF after.s.at = "failed" THEN after
        ELSE IF turn.result = "Exit" \/ st.s.abort THEN LeaveLoop(after)
        ELSE [after EXCEPT !.s.tcp = connection_tick(@, ms)]
=============================================================================
