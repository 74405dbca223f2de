----------------------------- MODULE TCPReceiver -----------------------------
(***************************************************************************)
(* libsponge/tcp_receiver.cc as operators on a record: the peer's ISN once  *)
(* a SYN has come, whether a FIN was seen, and the reassembler.             *)
(***************************************************************************)
EXTENDS StreamReassembler, TCPSegment, WrappingIntegers

\* No SYN yet: the empty optional.
None == -1

NewReceiver(capacity) ==
    [isn |-> None, fin_received |-> FALSE, reassembler |-> NewReassembler(capacity)]

inbound(rcv) == rcv.reassembler.output

\* The absolute sequence number of a segment, next to the first one not written.
AbsoluteSeqno(rcv, seg) == unwrap(seg.seqno, rcv.isn, inbound(rcv).bytes_written + 1)

\* The stream leaves the SYN out; the number before the SYN is 2^64 - 1.
StreamIndex(rcv, seg) ==
    IF seg.syn THEN AbsoluteSeqno(rcv, seg)
               ELSE (AbsoluteSeqno(rcv, seg) - 1) % Mod64

receiver_segment_received(rcv, seg) ==
    LET known == IF rcv.isn = None THEN [rcv EXCEPT !.isn = seg.seqno] ELSE rcv
    IN  IF rcv.isn = None /\ ~seg.syn THEN rcv
        ELSE [known EXCEPT
                !.reassembler = push_substring(@, seg.payload, StreamIndex(known, seg), seg.fin),
                !.fin_received = @ \/ seg.fin]

\* A mutant: a FIN that arrived counts although bytes before it are missing.
AbsoluteAckno_EarlyFin(rcv) ==
    inbound(rcv).bytes_written + 1 + (IF rcv.fin_received THEN 1 ELSE 0)

\* The first absolute sequence number not received; the FIN counts once the
\* stream before it is complete.
AbsoluteAckno(rcv) ==
    inbound(rcv).bytes_written + 1
      + (IF rcv.fin_received /\ inbound(rcv).input_ended THEN 1 ELSE 0)

ackno(rcv) == IF rcv.isn = None THEN None ELSE wrap(AbsoluteAckno(rcv), rcv.isn)

window_size(rcv) == remaining_capacity(inbound(rcv))
=============================================================================
