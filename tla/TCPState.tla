------------------------------ MODULE TCPState ------------------------------
(***************************************************************************)
(* The states of RFC 793 as tcp_helpers/tcp_state.cc reads them off a       *)
(* TCPConnection: a summary of its sender, one of its receiver, and whether *)
(* it is active and lingers.                                                *)
(***************************************************************************)
EXTENDS TCPConnection

SenderSummary(s) ==
    CASE s.stream.error                       -> "ERROR"
      [] ~s.stream.error /\ s.next_seqno = 0  -> "CLOSED"
      [] ~s.stream.error /\ s.next_seqno > 0  ->
            IF s.next_seqno = bytes_in_flight(s) THEN "SYN_SENT"
            ELSE IF ~eof(s.stream) \/ s.next_seqno < s.stream.bytes_written + 2 THEN "SYN_ACKED"
            ELSE IF bytes_in_flight(s) > 0 THEN "FIN_SENT" ELSE "FIN_ACKED"

ReceiverSummary(r) ==
    IF inbound(r).error THEN "ERROR"
    ELSE IF ackno(r) = None THEN "LISTEN"
    ELSE IF inbound(r).input_ended THEN "FIN_RECV" ELSE "SYN_RECV"

Summary(receiver, sender, linger, active) ==
    [receiver |-> receiver, sender |-> sender, linger |-> linger, active |-> active]

StateOf(c) ==
    Summary(ReceiverSummary(c.receiver), SenderSummary(c.sender), c.active /\ c.linger, c.active)

States ==
    {"LISTEN", "SYN_RCVD", "SYN_SENT", "ESTABLISHED", "CLOSE_WAIT", "LAST_ACK", "CLOSING",
     "FIN_WAIT_1", "FIN_WAIT_2", "TIME_WAIT", "RESET", "CLOSED"}

Official(state) ==
    CASE state = "LISTEN"      -> Summary("LISTEN", "CLOSED", TRUE, TRUE)
      [] state = "SYN_RCVD"    -> Summary("SYN_RECV", "SYN_SENT", TRUE, TRUE)
      [] state = "SYN_SENT"    -> Summary("LISTEN", "SYN_SENT", TRUE, TRUE)
      [] state = "ESTABLISHED" -> Summary("SYN_RECV", "SYN_ACKED", TRUE, TRUE)
      [] state = "CLOSE_WAIT"  -> Summary("FIN_RECV", "SYN_ACKED", FALSE, TRUE)
      [] state = "LAST_ACK"    -> Summary("FIN_RECV", "FIN_SENT", FALSE, TRUE)
      [] state = "CLOSING"     -> Summary("FIN_RECV", "FIN_SENT", TRUE, TRUE)
      [] state = "FIN_WAIT_1"  -> Summary("SYN_RECV", "FIN_SENT", TRUE, TRUE)
      [] state = "FIN_WAIT_2"  -> Summary("SYN_RECV", "FIN_ACKED", TRUE, TRUE)
      [] state = "TIME_WAIT"   -> Summary("FIN_RECV", "FIN_ACKED", TRUE, TRUE)
      [] state = "RESET"       -> Summary("ERROR", "ERROR", FALSE, FALSE)
      [] state = "CLOSED"      -> Summary("FIN_RECV", "FIN_ACKED", FALSE, FALSE)

Is(c, state) == StateOf(c) = Official(state)
=============================================================================
