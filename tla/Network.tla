------------------------------- MODULE Network -------------------------------
(***************************************************************************)
(* Hosts and a router on links that lose and damage frames (the topologies  *)
(* of network_simulator.cc and lab4.cc).  A host is a NetworkInterface with *)
(* a TCP adapter on top (NetworkInterfaceAdapter, lab4.cc, and              *)
(* TCPOverIPv4OverEthernetAdapter); what it received stays in its           *)
(* datagrams_out, as in the simulator's Host.                               *)
(***************************************************************************)
EXTENDS Router, FdAdapter, FiniteSets

CONSTANTS Hosts,
          Links,          \* set of sets of names: the interfaces on one wire
          IPOf,           \* name -> IP address
          NextHop,        \* host -> its gateway
          ReceiverOf,     \* address -> the host that gets what is sent there
          MaxTTL,         \* bound: the time to live a damaged header can carry, 255 in the code
          Scenarios

Names == Hosts \cup Range(RouterPorts)

\* The other interfaces on the links of i.
Others(i) == (UNION {link \in Links : i \in link}) \ {i}

Scenario ==
    [adapters : [Hosts -> [listening : BOOLEAN, source : IPs, port : Nat, destination : IPs,
                           peer_port : Nat, handed : {<< >>}]],
     sends    : [Hosts -> Seq([syn : BOOLEAN, rst : BOOLEAN, ttl : Nat])],
     losses   : Nat,       \* bound: frames that do not arrive at an interface
     damages  : Nat,       \* bound: frames damaged on a wire
     restarts : Nat,       \* bound: processes of hosts that end and start again
     ticking  : BOOLEAN]   \* whether timeouts run out during the exchange

ASSUME NetworkAssumption ==
    /\ IsFiniteSet(Hosts) /\ Hosts \cap Range(RouterPorts) = {}
    /\ Links \subseteq SUBSET Names
    /\ IPOf \in [Names -> IPs]
    /\ NextHop \in [Hosts -> IPs]
    /\ \A dst \in DOMAIN ReceiverOf : ReceiverOf[dst] \in Hosts
    /\ ETHERNET_BROADCAST \notin Names \X Nat
    /\ MaxTTL \in Nat
    /\ \A env \in Scenarios : env \in Scenario

\* Of the routes for dst, the longest, and of those the last.
Preferred(dst) ==
    {n \in Matching(dst) : \A m \in Matching(dst) \ {n} :
        \/ RoutingTable[m].prefix_length < RoutingTable[n].prefix_length
        \/ RoutingTable[m].prefix_length = RoutingTable[n].prefix_length /\ m < n}

\* The gateway of a host is the router, and ReceiverOf says where the routes lead:
\* nobody else on the last link has the address of the next hop.
ASSUME TopologyAssumption ==
    /\ \A h \in Hosts : \A i \in Others(h) :
           IPOf[i] = NextHop[h] => i \in Range(RouterPorts)
    /\ \A dst \in IPs : \A n \in Preferred(dst) : \A i \in Others(RoutingTable[n].interface) :
           IPOf[i] = HopOn(RoutingTable[n], dst) => dst \in DOMAIN ReceiverOf /\ i = ReceiverOf[dst]

VARIABLES env,       \* the scenario, fixed
          ifc,       \* name -> NetworkInterface
          adapter,   \* host -> TCPOverIPv4Adapter
          sent,      \* the datagrams sent
          faults     \* [lost, damaged, restarted]: how often, and [altered]: the ids of
                     \* the datagrams that a wire made others of (a history variable)

vars == <<env, ifc, adapter, sent, faults>>

\* A process draws its Ethernet addresses at random when it starts.
MAC(name, life) == <<name, life>>

Init ==
    /\ env \in Scenarios
    /\ ifc = [i \in Names |-> NewInterface(MAC(i, 0), IPOf[i])]
    /\ adapter = env.adapters
    /\ sent = {}
    /\ faults = [lost |-> 0, damaged |-> 0, restarted |-> 0, altered |-> {}]

SentBy(h) == {d \in sent : d.id[1] = h}

\* write() of the adapter: wrap_tcp_in_ip and send_datagram to the gateway.
Send(h) ==
    /\ Cardinality(SentBy(h)) < Len(env.sends[h])
    /\ ~adapter[h].listening
    /\ LET n     == Cardinality(SentBy(h)) + 1
           dgram == wrap_tcp_in_ip(adapter[h], env.sends[h][n], <<h, n>>)
       IN  /\ ifc' = [ifc EXCEPT ![h] = send_datagram(@, dgram, NextHop[h])]
           /\ sent' = sent \cup {dgram}
    /\ UNCHANGED <<env, adapter, faults>>

\* The thread of the router ends with the first exception (lab4.cc:260).
RouterRuns == ~Threw(ifc)
Running == IF RouterRuns THEN Names ELSE Hosts

\* The first frame in i's queue is taken out and given to the interfaces `to'.
deliver(i, to) ==
    ifc' = [j \in Names |->
               IF j = i THEN [ifc[i] EXCEPT !.frames_out = Tail(@)]
               ELSE IF j \in to THEN recv_frame(ifc[j], Head(ifc[i].frames_out))
               ELSE ifc[j]]

\* read() of a host's adapter unwraps the datagram that the frame carried, if any.
ReadByAdapter(h) ==
    IF Len(ifc'[h].datagrams_out) > Len(ifc[h].datagrams_out)
    THEN unwrap_tcp_in_ip(adapter[h], Last(ifc'[h].datagrams_out))
    ELSE adapter[h]

\* A frame goes to everybody else on its link, save those where it is lost.
Transmit(i, missing) ==
    /\ i \in Running /\ ifc[i].frames_out # << >>
    /\ missing \subseteq Others(i)
    /\ faults.lost + Cardinality(missing) =< env.losses
    /\ deliver(i, (Others(i) \cap Running) \ missing)
    /\ adapter' = [h \in Hosts |-> ReadByAdapter(h)]
    /\ faults' = [faults EXCEPT !.lost = @ + Cardinality(missing)]
    /\ UNCHANGED <<env, sent>>

Route ==
    /\ RouterRuns
    /\ \E i \in Range(RouterPorts) : ifc[i].datagrams_out # << >>
    /\ ifc' = route(ifc)
    /\ UNCHANGED <<env, adapter, sent, faults>>

\* Time passes at a host, or at the router for all its interfaces.
Clocks == {{h} : h \in Hosts} \cup {Range(RouterPorts)}

Tick(clock) ==
    /\ env.ticking /\ clock \subseteq Running
    /\ ifc' = [i \in Names |-> IF i \in clock THEN interface_tick(ifc[i], 1) ELSE ifc[i]]
    /\ ifc' # ifc
    /\ UNCHANGED <<env, adapter, sent, faults>>

\* A header that parse() tells apart, one whose address or time to live is another, or a
\* segment (or a length or protocol that its checksum covers) that is not what was sent.
DamagedDatagrams(dgram) ==
    LET bad == [dgram EXCEPT !.header = "BadChecksum"]
    IN  {[dgram EXCEPT !.header = result] : result \in HeaderResults \ {"NoError"}}
            \cup {[bad EXCEPT !.src = ip] : ip \in IPs}
            \cup {[bad EXCEPT !.dst = ip] : ip \in IPs}
            \cup {[bad EXCEPT !.ttl = ttl] : ttl \in 0..MaxTTL}
            \cup {[dgram EXCEPT !.cksum = Corrupt]}

\* What the wire can make of a frame in one go.  ARP has no checksum: of a damaged message
\* only what parse() refuses is modelled.
Damaged(frame) ==
    IF frame.type = "ARP" THEN {[frame EXCEPT !.payload.opcode = "OTHER"]}
    ELSE {[frame EXCEPT !.payload = dgram] : dgram \in DamagedDatagrams(frame.payload)}

\* The number of the datagram, if more than the verdict on its header has changed.
AlteredId(frame, damaged) ==
    IF frame.type = "IPv4" /\ serialized(damaged.payload) # serialized(frame.payload)
    THEN {frame.payload.id} ELSE {}

Damage(i) ==
    /\ faults.damaged < env.damages
    /\ ifc[i].frames_out # << >>
    /\ LET frame == Head(ifc[i].frames_out)
       IN  \E damaged \in Damaged(frame) :
               /\ ifc' = [ifc EXCEPT ![i].frames_out[1] = damaged]
               /\ faults' = [faults EXCEPT !.damaged = @ + 1,
                                          !.altered = @ \cup AlteredId(frame, damaged)]
    /\ UNCHANGED <<env, adapter, sent>>

Restart(h) ==
    /\ faults.restarted < env.restarts
    /\ ifc' = [ifc EXCEPT ![h] = [NewInterface(MAC(h, faults.restarted + 1), IPOf[h])
                                     EXCEPT !.datagrams_out = ifc[h].datagrams_out]]
    /\ adapter' = [adapter EXCEPT ![h] = env.adapters[h]]
    /\ faults' = [faults EXCEPT !.restarted = @ + 1]
    /\ UNCHANGED <<env, sent>>

Next ==
    \/ \E h \in Hosts : Send(h) \/ Restart(h)
    \/ \E i \in Names :
        \/ \E missing \in SUBSET Others(i) : Transmit(i, missing)
        \/ Damage(i)
    \/ Route
    \/ \E clock \in Clocks : Tick(clock)

Spec == Init /\ [][Next]_vars

\* The wires carry, the router routes and the clocks tick: weak fairness of each, with
\* what enables it spelled out.
Carry == \E i \in Names : Transmit(i, {})
CanCarry == \E i \in Running : ifc[i].frames_out # << >>

CanRoute == RouterRuns /\ \E i \in Range(RouterPorts) : ifc[i].datagrams_out # << >>

Pass == \E clock \in Clocks : Tick(clock)
CanPass ==
    /\ env.ticking
    /\ \E clock \in Clocks : clock \subseteq Running /\ \E i \in clock : interface_tick(ifc[i], 1) # ifc[i]

Fairness ==
    /\ []<>~CanCarry \/ []<><<Carry>>_vars
    /\ []<>~CanRoute \/ []<><<Route>>_vars
    /\ []<>~CanPass \/ []<><<Pass>>_vars

FairSpec == Spec /\ Fairness

-----------------------------------------------------------------------------
\* What a host received, whatever state the headers were in.
Delivered(h) == [n \in DOMAIN ifc[h].datagrams_out |-> serialized(ifc[h].datagrams_out[n])]

\* The network is a datagram service: routing by the longest prefix, ARP and the
\* queues never bring a datagram to a wrong host, or twice, and a datagram that
\* crosses the router has lived one hop less.  Only those that a wire gave another
\* address, time to live or content are excepted, since the router goes by what a
\* damaged header says (ipv4_datagram.cc:13): they may arrive anywhere, but once.
Service == INSTANCE DatagramService WITH
    posted  <- sent,
    altered <- faults.altered,
    arrived <- [h \in Hosts |-> Delivered(h)]

ServesDatagrams == Service!Spec

\* What a cache says of an address was true, of an interface on the same link that
\* has that address: a request, a reply and a request for somebody else teach the
\* sender's mapping and no other.
MappingsNameOwners ==
    \A i \in Names : \A a \in IPs : Knows(ifc[i], a) =>
        \E owner \in Others(i), life \in 0..faults.restarted :
            IPOf[owner] = a /\ ifc[i].arp_cache[a].mac = MAC(owner, life)

\* A TCP connection is given segments of one peer only, the one that its replies go
\* to, beginning with the SYN if it listened.
OnePeer ==
    \A h \in Hosts : \A dgram \in Range(adapter[h].handed) :
        /\ IsFromPeer(adapter[h], dgram)
        /\ env.adapters[h].listening => Head(adapter[h].handed).syn

\* Whatever the wires do to headers and segments, and although the router sends on what
\* has a bad checksum, with a good one: a connection is given a segment only as the
\* host of those addresses sent it, because the checksum of unwrap_tcp_in_ip covers
\* the addresses too (tcp_over_ip.cc:45).
HandedAsSent ==
    \A h \in Hosts : \A dgram \in Range(adapter[h].handed) : \E original \in sent :
        dgram = [original EXCEPT !.ttl = dgram.ttl, !.header = dgram.header]

-----------------------------------------------------------------------------
Deliverable(dgram) == dgram.ttl > 1 /\ dgram.dst \in DOMAIN ReceiverOf

\* Where nothing is lost, everything sent arrives: no datagram stays in a queue because
\* a request ran out, a mapping expired, or was learnt from somebody's request.
EverythingArrives ==
    (env.losses = 0 /\ env.damages = 0 /\ env.restarts = 0) =>
        <>[](\A dgram \in sent : Deliverable(dgram) => Service!HasArrived(dgram))

\* A mapping to an interface that is no more is forgotten once its time is up, whatever
\* ARP messages a link still carries (network_interface.cc, tick).
StaleMappingsExpire ==
    env.ticking => <>[](\A i \in Names : \A a \in IPs : Knows(ifc[i], a) =>
            \E owner \in Names : ifc[owner].mac = ifc[i].arp_cache[a].mac)
=============================================================================
