------------------------------ MODULE FdAdapter ------------------------------
(***************************************************************************)
(* TCPOverIPv4Adapter (tcp_over_ip.cc): which datagrams are segments of one *)
(* TCP connection, and the datagrams a connection sends.  `handed' is what  *)
(* read() returned so far, the segments that segment_received() was given.  *)
(* A checksum stands for what it was computed over and finds every damage.  *)
(***************************************************************************)
EXTENDS Sequences

\* FdAdapterConfig's addresses and ports, and the flag _listen.
Adapter(listening, source, port, destination, peer_port) ==
    [listening   |-> listening,
     source      |-> source,      port      |-> port,
     destination |-> destination, peer_port |-> peer_port,
     handed      |-> << >>]

IsFromPeer(a, dgram) ==
    /\ dgram.dst = a.source /\ dgram.src = a.destination
    /\ dgram.sport = a.peer_port

\* A segment and its checksum that no longer agree, whatever the addresses are.
Corrupt == << >>

\* The checksum is taken without the pseudo-header.
X_ChecksumHolds(dgram) == dgram.cksum # Corrupt

\* TCP's checksum is over the segment and the addresses in the IP header.
ChecksumHolds(dgram) == dgram.cksum = <<dgram.src, dgram.dst>>

IsOurs(a, dgram) ==
    /\ ChecksumHolds(dgram) /\ dgram.dport = a.port
    /\ IF a.listening THEN dgram.syn /\ ~dgram.rst ELSE IsFromPeer(a, dgram)

\* The adapter goes on listening.
X_Bound(a, dgram) ==
    [a EXCEPT !.source = dgram.dst, !.destination = dgram.src, !.peer_port = dgram.sport]

\* The SYN that a listening adapter takes fixes both addresses and the peer's port.
Bound(a, dgram) ==
    [a EXCEPT !.listening = FALSE, !.source = dgram.dst,
              !.destination = dgram.src, !.peer_port = dgram.sport]

unwrap_tcp_in_ip(a, dgram) ==
    IF ~IsOurs(a, dgram) THEN a
    ELSE [(IF a.listening THEN Bound(a, dgram) ELSE a) EXCEPT !.handed = Append(@, dgram)]

wrap_tcp_in_ip(a, seg, id) ==
    [src |-> a.source, sport |-> a.port, dst |-> a.destination, dport |-> a.peer_port,
     syn |-> seg.syn, rst |-> seg.rst, ttl |-> seg.ttl, id |-> id,
     cksum |-> <<a.source, a.destination>>, header |-> "NoError"]
=============================================================================
