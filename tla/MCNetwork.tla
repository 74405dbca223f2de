------------------------------ MODULE MCNetwork ------------------------------
(***************************************************************************)
(* A small Network: addresses of three bits, a host alone on one link of    *)
(* the router and two on the other, of which one is the default gateway of  *)
(* the rest of the world, as default_router and hs_router are in            *)
(* network_simulator.cc.                                                     *)
(***************************************************************************)
EXTENDS Network, TLC

CONSTANTS a, b, c, r0, r1       \* three hosts and the router's interfaces

MCHosts == {a, b, c}
MCPorts == << r0, r1 >>
MCLinks == {{a, r0}, {b, c, r1}}
MCIPs == 0..7
MCIPOf == (r0 :> 0) @@ (a :> 1) @@ (r1 :> 4) @@ (b :> 5) @@ (c :> 6)
MCNextHop == (a :> 0) @@ (b :> 4) @@ (c :> 4)

Entry(prefix, length, hop, interface) ==
    [route_prefix |-> prefix, prefix_length |-> length, next_hop |-> hop, interface |-> interface]

\* The default route, the networks of both links, a network inside another, and two
\* routes of full length for one address.
MCRoutingTable ==
    << Entry(0, 0, 6, r1), Entry(0, 2, Direct, r0), Entry(4, 1, Direct, r1),
       Entry(2, 3, 6, r1), Entry(2, 3, 5, r1) >>

\* Where the topology says an address belongs; 0 and 4 are the router's, 7 nobody's.
MCReceiverOf == (1 :> a) @@ (2 :> b) @@ (3 :> c) @@ (5 :> b) @@ (6 :> c)

Nobody == Adapter(FALSE, 0, 0, 0, 0)
Segment(syn, ttl) == [syn |-> syn, rst |-> FALSE, ttl |-> ttl]

Quiet ==
    [adapters |-> [h \in MCHosts |-> Nobody], sends |-> [h \in MCHosts |-> << >>],
     losses |-> 0, damages |-> 0, restarts |-> 0, ticking |-> TRUE]

\* Host a sends to every address, with enough time to live or too little.
AnyDestination ==
    {[Quiet EXCEPT !.adapters[a] = Adapter(FALSE, 1, 10, dst, 20),
                   !.sends[a] = << Segment(TRUE, ttl) >>] : dst \in MCIPs \ {1}, ttl \in 0..2}

\* Both a and c connect to b, which listens and answers the one it takes.
TwoClients ==
    [Quiet EXCEPT !.ticking = FALSE,
                  !.adapters[a] = Adapter(FALSE, 1, 10, 5, 20),
                  !.adapters[c] = Adapter(FALSE, 6, 10, 5, 20),
                  !.adapters[b] = Adapter(TRUE, 0, 20, 0, 0),
                  !.sends[a] = << Segment(TRUE, 3) >>,
                  !.sends[b] = << Segment(TRUE, 3) >>,
                  !.sends[c] = << Segment(TRUE, 3) >>]

\* A connection between a and b, a datagram each way.
Exchange ==
    [Quiet EXCEPT !.adapters[a] = Adapter(FALSE, 1, 10, 5, 20),
                  !.adapters[b] = Adapter(FALSE, 5, 20, 1, 10),
                  !.sends[a] = << Segment(TRUE, 3) >>,
                  !.sends[b] = << Segment(TRUE, 3) >>]

\* One way only, over a wire that damages, between hosts one of which starts again, and
\* with a second datagram that overtakes the first where frames are lost.
OneWay == [Exchange EXCEPT !.sends[b] = << >>]
Listening == [OneWay EXCEPT !.adapters[b] = Adapter(TRUE, 0, 20, 0, 0)]
Twice == [OneWay EXCEPT !.sends[a] = << Segment(TRUE, 3), Segment(FALSE, 3) >>]

MCScenarios ==
    AnyDestination \cup
    {TwoClients, Exchange,
     [OneWay EXCEPT !.damages = 1], [Listening EXCEPT !.damages = 2, !.ticking = FALSE],
     [OneWay EXCEPT !.restarts = 1], [Twice EXCEPT !.losses = 1]}
=============================================================================
