-------------------------- MODULE NetworkInterface --------------------------
(***************************************************************************)
(* One NetworkInterface (network_interface.cc): an operator per method, on  *)
(* a record that holds its members.  The maps from IP addresses are total   *)
(* functions: an address that is not a key has 0 time left, or an empty     *)
(* queue.  Time is counted in ticks.                                         *)
(* AsyncNetworkInterface (router.hh) adds the queue datagrams_out.          *)
(***************************************************************************)
EXTENDS Naturals, Sequences, SequencesExt

CONSTANTS IPs,                    \* the addresses
          ARP_CACHE_TIMEOUT,      \* how long a learnt mapping is used
          ARP_REQUEST_TIMEOUT,    \* how long a request keeps others back
          ETHERNET_BROADCAST

ASSUME InterfaceAssumption ==
    /\ ARP_CACHE_TIMEOUT \in Nat \ {0}
    /\ ARP_REQUEST_TIMEOUT \in Nat \ {0}

NoMapping == [mac |-> ETHERNET_BROADCAST, left |-> 0]

NewInterface(mac, ip) ==
    [mac           |-> mac,
     ip            |-> ip,
     arp_cache     |-> [a \in IPs |-> NoMapping],
     arp_requests  |-> [a \in IPs |-> 0],
     pending       |-> [a \in IPs |-> << >>],
     frames_out    |-> << >>,
     failed        |-> FALSE,        \* a method threw
     datagrams_out |-> << >>]

Emit(i, frames) == [i EXCEPT !.frames_out = @ \o frames]

\* What IPv4Header::parse finds in a header.
HeaderResults ==
    {"NoError", "PacketTooShort", "WrongIPVersion", "HeaderTooShort", "TruncatedPacket", "BadChecksum"}

\* IPv4Datagram::parse drops that result (ipv4_datagram.cc:13) and notices only the
\* reasons that make its own lengths disagree.
parses(dgram) == dgram.header \in {"NoError", "WrongIPVersion", "BadChecksum"}

\* Sending a datagram on computes a new checksum; a wrong version throws.
serializes(dgram) == dgram.header # "WrongIPVersion"
serialized(dgram) == [dgram EXCEPT !.header = "NoError"]

IPv4Frame(i, dst, dgram) ==
    [dst |-> dst, src |-> i.mac, type |-> "IPv4", payload |-> serialized(dgram)]

EmitIPv4(i, dst, dgrams) ==
    IF \A n \in DOMAIN dgrams : serializes(dgrams[n])
    THEN Emit(i, [n \in DOMAIN dgrams |-> IPv4Frame(i, dst, dgrams[n])])
    ELSE [i EXCEPT !.failed = TRUE]

ARPFrame(i, dst, opcode, target_ip) ==
    [dst |-> dst, src |-> i.mac, type |-> "ARP",
     payload |-> [opcode |-> opcode, sender_mac |-> i.mac, sender_ip |-> i.ip, target_ip |-> target_ip]]

\* ARPMessage::parse refuses fields it does not support.
supported(arp) == arp.opcode \in {"REQUEST", "REPLY"}

Knows(i, ip) == i.arp_cache[ip].left > 0

send_datagram(i, dgram, next_hop) ==
    LET queued == [i EXCEPT !.pending[next_hop] = Append(@, dgram)]
    IN  IF Knows(i, next_hop) THEN
            EmitIPv4(i, i.arp_cache[next_hop].mac, << dgram >>)
        ELSE IF i.arp_requests[next_hop] > 0 THEN queued
        ELSE Emit([queued EXCEPT !.arp_requests[next_hop] = ARP_REQUEST_TIMEOUT],
                  << ARPFrame(i, ETHERNET_BROADCAST, "REQUEST", next_hop) >>)

\* The wrong address of the message is taken for the sender's.
X_Learn(i, arp) ==
    [i EXCEPT !.arp_cache[arp.target_ip] = [mac |-> arp.sender_mac, left |-> ARP_CACHE_TIMEOUT]]

Learn(i, arp) ==
    [i EXCEPT !.arp_cache[arp.sender_ip] = [mac |-> arp.sender_mac, left |-> ARP_CACHE_TIMEOUT]]

\* A reply sends what waits for the address that replied.
Release(i, arp) ==
    EmitIPv4([i EXCEPT !.arp_requests[arp.sender_ip] = 0, !.pending[arp.sender_ip] = << >>],
             arp.sender_mac, i.pending[arp.sender_ip])

\* A reply is of use only while its request has not run out.
X_recv_arp(i, arp) ==
    CASE arp.opcode = "REQUEST" /\ arp.target_ip = i.ip ->
            Emit(Learn(i, arp), << ARPFrame(i, arp.sender_mac, "REPLY", arp.sender_ip) >>)
      [] arp.opcode = "REPLY" /\ i.arp_requests[arp.sender_ip] > 0 -> Release(Learn(i, arp), arp)
      [] OTHER -> Learn(i, arp)

recv_arp(i, arp) ==
    CASE arp.opcode = "REQUEST" /\ arp.target_ip = i.ip ->
            Emit(Learn(i, arp), << ARPFrame(i, arp.sender_mac, "REPLY", arp.sender_ip) >>)
      [] arp.opcode = "REPLY" -> Release(Learn(i, arp), arp)
      [] OTHER -> Learn(i, arp)

Accepts(i, frame) == frame.dst \in {i.mac, ETHERNET_BROADCAST}

\* NetworkInterface::recv_frame, the datagram it returns pushed to datagrams_out.
recv_frame(i, frame) ==
    IF ~Accepts(i, frame) THEN i
    ELSE IF frame.type = "ARP" /\ supported(frame.payload) THEN recv_arp(i, frame.payload)
    ELSE IF frame.type = "IPv4" /\ parses(frame.payload)
         THEN [i EXCEPT !.datagrams_out = Append(@, frame.payload)]
    ELSE i

Elapse(left, ticks) == IF left =< ticks THEN 0 ELSE left - ticks

\* Only the requests age.
X_interface_tick(i, ticks) ==
    [i EXCEPT !.arp_requests = [a \in IPs |-> Elapse(@[a], ticks)]]

interface_tick(i, ticks) ==
    [i EXCEPT
        !.arp_cache = [a \in IPs |->
            LET left == Elapse(@[a].left, ticks)
            IN  IF left = 0 THEN NoMapping ELSE [@[a] EXCEPT !.left = left]],
        !.arp_requests = [a \in IPs |-> Elapse(@[a], ticks)]]
=============================================================================
