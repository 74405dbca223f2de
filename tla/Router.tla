------------------------------- MODULE Router -------------------------------
(***************************************************************************)
(* Router (router.cc) over the interfaces `ifc', a function from names to   *)
(* NetworkInterface records.  The routes are added before the router runs.  *)
(***************************************************************************)
EXTENDS NetworkInterface

CONSTANTS AddressBits,      \* the width of an address, 32 in the code
          RouterPorts,      \* names of the router's interfaces, in order
          RoutingTable,     \* sequence of RouteEntry
          Direct            \* next_hop of a network the router is attached to

RouteEntry ==
    [route_prefix  : IPs,
     prefix_length : 0..AddressBits,
     next_hop      : IPs \cup {Direct},
     interface     : Range(RouterPorts)]

ASSUME RouterAssumption ==
    /\ AddressBits \in Nat
    /\ RouterPorts \in Seq(Range(RouterPorts))
    /\ IPs = 0..(2^AddressBits - 1)
    /\ Direct \notin IPs
    /\ RoutingTable \in Seq(RouteEntry)

\* The high-order bits that the mask of router.cc:42-49 leaves.
Masked(ip, prefix_length) == ip \div 2^(AddressBits - prefix_length)

Matching(dst) ==
    {n \in DOMAIN RoutingTable :
        LET route == RoutingTable[n]
        IN  Masked(dst, route.prefix_length) = Masked(route.route_prefix, route.prefix_length)}

\* Of equally long prefixes, the first.
X_BestMatch(dst) ==
    CHOOSE n \in Matching(dst) : \A m \in Matching(dst) :
        LET length(k) == RoutingTable[k].prefix_length
        IN  length(m) < length(n) \/ (length(m) = length(n) /\ n =< m)

\* The loop keeps the last of the routes with the longest prefix (`>=').
BestMatch(dst) ==
    CHOOSE n \in Matching(dst) : \A m \in Matching(dst) :
        LET length(k) == RoutingTable[k].prefix_length
        IN  length(m) < length(n) \/ (length(m) = length(n) /\ m =< n)

\* The next hop for dst on a route.
HopOn(entry, dst) == IF entry.next_hop = Direct THEN dst ELSE entry.next_hop

route_one_datagram(ifc, dgram) ==
    IF dgram.ttl =< 1 \/ Matching(dgram.dst) = {} THEN ifc
    ELSE LET entry == RoutingTable[BestMatch(dgram.dst)]
         IN  [ifc EXCEPT ![entry.interface] =
                 send_datagram(@, [dgram EXCEPT !.ttl = @ - 1], HopOn(entry, dgram.dst))]

\* An exception left a method of an interface, and with it the loops of route.
Threw(ifc) == \E i \in Range(RouterPorts) : ifc[i].failed

\* A turn of the inner loop: the front of i's queue is routed, then popped.
RouteFront(ifc, i) ==
    LET routed == route_one_datagram(ifc, Head(ifc[i].datagrams_out))
    IN  IF Threw(ifc) \/ ifc[i].datagrams_out = << >> THEN ifc
        ELSE IF Threw(routed) THEN routed
        ELSE [routed EXCEPT ![i].datagrams_out = Tail(@)]

\* The inner loop; routing adds nothing to a queue.
Drain(ifc, i) ==
    LET turns == Len(ifc[i].datagrams_out)
        after[n \in 0..turns] == IF n = 0 THEN ifc ELSE RouteFront(after[n - 1], i)
    IN  after[turns]

route(ifc) ==
    LET after[n \in 0..Len(RouterPorts)] ==
            IF n = 0 THEN ifc ELSE Drain(after[n - 1], RouterPorts[n])
    IN  after[Len(RouterPorts)]
=============================================================================
