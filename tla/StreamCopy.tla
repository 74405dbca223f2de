----------------------------- MODULE StreamCopy -----------------------------
(***************************************************************************)
(* bidirectional_stream_copy (apps/bidirectional_stream_copy.cc): stdin to  *)
(* the socket and the socket to stdout, with an event loop of its own.  A   *)
(* state st is the copy, st.c, and the stream pair of the socket, st.pipe.   *)
(***************************************************************************)
EXTENDS StreamPair

CONSTANT CopyBuffer     \* buffer_size, the capacity of the two byte streams

\* stdin is a file with these bytes; stdout takes everything.
NewCopy(input) ==
    [input |-> input, input_eof |-> FALSE, socket_eof |-> FALSE,
     outbound |-> NewStream(CopyBuffer), inbound |-> NewStream(CopyBuffer),
     outbound_shutdown |-> FALSE, inbound_shutdown |-> FALSE,
     output |-> << >>, rules |-> 1..4, at |-> "copying"]

\* Rule 1: from stdin into the outbound stream.
ReadInput(st) ==
    LET limit == remaining_capacity(st.c.outbound)
        data  == SubSeq(st.c.input, 1, Lesser(limit, Len(st.c.input)))
        taken == write(st.c.outbound, data)
        ended == st.c.input = << >>
    IN  [st EXCEPT !.c.input = SubSeq(@, Len(data) + 1, Len(@)), !.c.input_eof = ended,
                   !.c.outbound = IF ended THEN end_input(taken) ELSE taken]

\* The socket is shut down once stdin has ended, with bytes still to be written.
X_WriteSocket(st) ==
    LET data == peek_output(st.c.outbound, Len(st.c.outbound.buffer))
        sent == [st EXCEPT !.pipe = AfterWrite(@, "owner", data),
                           !.c.outbound = pop_output(@, WriteSize(st.pipe, "owner", data))]
    IN  IF WriteFails(st.pipe, "owner", data) THEN [st EXCEPT !.c.at = "failed"]
        ELSE IF sent.c.outbound.input_ended
             THEN [sent EXCEPT !.pipe = ShutWrite(@, "owner"), !.c.outbound_shutdown = TRUE]
             ELSE sent

\* Rule 2: from the outbound stream into the socket, as much as fits.
WriteSocket(st) ==
    LET data == peek_output(st.c.outbound, Len(st.c.outbound.buffer))
        sent == [st EXCEPT !.pipe = AfterWrite(@, "owner", data),
                           !.c.outbound = pop_output(@, WriteSize(st.pipe, "owner", data))]
    IN  IF WriteFails(st.pipe, "owner", data) THEN [st EXCEPT !.c.at = "failed"]
        ELSE IF eof(sent.c.outbound)
             THEN [sent EXCEPT !.pipe = ShutWrite(@, "owner"), !.c.outbound_shutdown = TRUE]
             ELSE sent

\* Rule 3: from the socket into the inbound stream.
ReadSocket(st) ==
    LET limit == remaining_capacity(st.c.inbound)
        taken == write(st.c.inbound, ReadData(st.pipe, "owner", limit))
        ended == st.c.socket_eof \/ ReadsEof(st.pipe, "owner", limit)
    IN  [st EXCEPT !.pipe = AfterRead(@, "owner", limit), !.c.socket_eof = ended,
                   !.c.inbound = IF ended THEN end_input(taken) ELSE taken]

\* Rule 4: from the inbound stream to stdout, which is closed at the end.
WriteOutput(st) ==
    LET in == st.c.inbound
    IN  [st EXCEPT !.c.output = @ \o in.buffer,
                   !.c.inbound = pop_output(@, Len(in.buffer)),
                   !.c.inbound_shutdown = @ \/ in.input_ended]

Wanted(stream, shutdown) == stream.buffer # << >> \/ (eof(stream) /\ ~shutdown)

CopyInterested(r, st) ==
    CASE r = 1 -> remaining_capacity(st.c.outbound) > 0
      [] r = 2 -> Wanted(st.c.outbound, st.c.outbound_shutdown)
      [] r = 3 -> remaining_capacity(st.c.inbound) > 0
      [] r = 4 -> Wanted(st.c.inbound, st.c.inbound_shutdown)

CopyCallback(r, st) ==
    CASE r = 1 -> ReadInput(st)  [] r = 2 -> WriteSocket(st)
      [] r = 3 -> ReadSocket(st) [] r = 4 -> WriteOutput(st)

CopyReady(r, st) ==
    CASE r \in {1, 4} -> TRUE
      [] r = 2 -> Writable(st.pipe, "owner") [] r = 3 -> Readable(st.pipe, "owner")

CopyLoop == INSTANCE EventLoop WITH
    Rules <- << 1, 2, 3, 4 >>,
    Defunct <- LAMBDA r, st : \/ r = 1 /\ st.c.input_eof
                              \/ r = 3 /\ st.c.socket_eof
                              \/ r = 4 /\ st.c.inbound_shutdown,
    Interested <- CopyInterested,
    Ready <- CopyReady,
    HangUp <- LAMBDA r, st : r \in {2, 3} /\ HungUp(st.pipe, "owner"),
    Callback <- CopyCallback,
    Cancel <- LAMBDA r, st : IF r \in {1, 2} THEN [st EXCEPT !.c.outbound = end_input(@)]
                             ELSE [st EXCEPT !.c.inbound = end_input(@)],
    Failed <- LAMBDA st : st.c.at = "failed"

\* One turn of the loop, which ends when there is nothing left to wait for.
CopyTurn(turn) ==
    LET after == [turn.st EXCEPT !.c.rules = turn.rules]
    IN  IF after.c.at = "failed" \/ turn.result # "Exit" THEN after
        ELSE [after EXCEPT !.c.at = "done"]
=============================================================================
