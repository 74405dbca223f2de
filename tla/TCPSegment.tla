----------------------------- MODULE TCPSegment -----------------------------
(***************************************************************************)
(* A TCP segment (tcp_helpers/tcp_segment.cc, tcp_header.hh) as a record of *)
(* the header fields the TCP classes look at, and its payload.              *)
(***************************************************************************)
EXTENDS Integers, Sequences

\* A default-constructed segment with the sequence number set.
Segment(seqno) ==
    [seqno |-> seqno, ackno |-> 0, win |-> 0,
     syn |-> FALSE, ack |-> FALSE, fin |-> FALSE, rst |-> FALSE,
     payload |-> << >>]

length_in_sequence_space(seg) ==
    Len(seg.payload) + (IF seg.syn THEN 1 ELSE 0) + (IF seg.fin THEN 1 ELSE 0)
=============================================================================
