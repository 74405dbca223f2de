---------------------------- MODULE NetworkProofs ----------------------------
(***************************************************************************)
(* The network of hosts and a router keeps the promises of DatagramService, *)
(* whatever is lost, damaged or restarted, for any topology that            *)
(* TopologyAssumption describes.                                             *)
(***************************************************************************)
EXTENDS Network, SequenceTheorems, FiniteSetTheorems, TLAPS

Ports == Range(RouterPorts)

-----------------------------------------------------------------------------
(* Types.                                                                   *)

MACs == Names \X Nat
FrameAddresses == MACs \cup {ETHERNET_BROADCAST}

Datagram ==
    [src : IPs, sport : Nat, dst : IPs, dport : Nat, syn : BOOLEAN, rst : BOOLEAN,
     ttl : Nat, id : Hosts \X Nat, cksum : (IPs \X IPs) \cup {Corrupt}, header : HeaderResults]

ARPMessage ==
    [opcode : {"REQUEST", "REPLY", "OTHER"}, sender_mac : MACs, sender_ip : IPs,
     target_ip : IPs]

Frame ==
    [dst : FrameAddresses, src : MACs, type : {"IPv4"}, payload : Datagram] \cup
    [dst : FrameAddresses, src : MACs, type : {"ARP"}, payload : ARPMessage]

InterfaceSet ==
    [mac : MACs, ip : IPs,
     arp_cache : [IPs -> [mac : FrameAddresses, left : Nat]],
     arp_requests : [IPs -> Nat],
     pending : [IPs -> Seq(Datagram)],
     frames_out : Seq(Frame), failed : BOOLEAN, datagrams_out : Seq(Datagram)]

AdapterSet ==
    [listening : BOOLEAN, source : IPs, port : Nat, destination : IPs, peer_port : Nat,
     handed : Seq(Datagram)]

Faults ==
    [lost : Nat, damaged : Nat, restarted : Nat, altered : SUBSET (Hosts \X Nat)]

TypeOK ==
    /\ env \in Scenarios
    /\ adapter \in [Hosts -> AdapterSet]
    /\ sent \subseteq Datagram /\ IsFiniteSet(sent)
    /\ faults \in Faults

-----------------------------------------------------------------------------
(* Where the datagrams are, given what was sent and which datagrams a wire  *)
(* altered (S), and how many processes started again (life).                *)

World == [sent |-> sent, altered |-> faults.altered]

\* No less was sent, and no less altered, in T.
Within(S, T) == S.sent \subseteq T.sent /\ S.altered \subseteq T.altered

\* What a wire has made of a datagram that was sent: it may be anywhere.
Stray(S, d) == \E s \in S.sent : s.id \in S.altered /\ Service!AlteredFrom(serialized(d), s)

\* The address of an interface on a link of i that has the IP address a.
OwnerMAC(life, i, a, mac) ==
    \E owner \in Others(i), l \in 0..life : IPOf[owner] = a /\ mac = MAC(owner, l)

\* A datagram that i is to pass on to the address a: at a host, one that was sent, for
\* its gateway; at the router, one that was sent, a hop less, for the preferred route.
\* Or else one that was altered.
Meant(S, i, a, d) ==
    IF i \in Hosts THEN a = NextHop[i] /\ (serialized(d) \in S.sent \/ Stray(S, d))
    ELSE \/ Stray(S, d)
         \/ \E s \in S.sent : \E n \in Preferred(s.dst) :
            /\ s.ttl > 1 /\ s.dst \in IPs /\ serialized(d) = Service!Routed(s)
            /\ i = RoutingTable[n].interface /\ a = HopOn(RoutingTable[n], s.dst)

\* A datagram that came to i: at the router, one that was sent; at a host, one that was
\* sent to it, a hop less.
Got(S, i, d) ==
    IF i \notin Hosts THEN serialized(d) \in S.sent \/ Stray(S, d)
    ELSE \/ Stray(S, d)
         \/ \E s \in S.sent :
            /\ s.ttl > 1 /\ serialized(d) = Service!Routed(s)
            /\ s.dst \in DOMAIN ReceiverOf /\ ReceiverOf[s.dst] = i

FrameOK(S, life, i, f) ==
    IF f.type = "ARP"
    THEN f.payload.sender_ip = IPOf[i] /\ \E l \in 0..life : f.payload.sender_mac = MAC(i, l)
    ELSE \E a \in IPs : OwnerMAC(life, i, a, f.dst) /\ Meant(S, i, a, f.payload)

InterfaceOK(S, life, i, x) ==
    /\ x \in InterfaceSet
    /\ x.ip = IPOf[i] /\ \E l \in 0..life : x.mac = MAC(i, l)
    /\ \A a \in IPs : Knows(x, a) => OwnerMAC(life, i, a, x.arp_cache[a].mac)
    /\ \A a \in IPs : \A d \in Range(x.pending[a]) : Meant(S, i, a, d)
    /\ \A f \in Range(x.frames_out) : FrameOK(S, life, i, f)
    /\ \A d \in Range(x.datagrams_out) : Got(S, i, d)

-----------------------------------------------------------------------------
(* No datagram is in two places.                                            *)

Ids(q) == {d.id : d \in Range(q)}
Distinct(q) == \A k, l \in DOMAIN q : q[k].id = q[l].id => k = l

FrameIds(fs) == {f.payload.id : f \in {g \in Range(fs) : g.type = "IPv4"}}
DistinctFrames(fs) ==
    \A k, l \in DOMAIN fs :
        (/\ fs[k].type = "IPv4" /\ fs[l].type = "IPv4"
         /\ fs[k].payload.id = fs[l].payload.id) => k = l

\* What an interface is to send, and what it carries.
Waiting(x) == UNION {Ids(x.pending[a]) : a \in IPs}
Outgoing(x) == Waiting(x) \cup FrameIds(x.frames_out)
Carried(x) == Outgoing(x) \cup Ids(x.datagrams_out)

OnceOut(x) ==
    /\ \A a \in IPs : Distinct(x.pending[a])
    /\ \A a, b \in IPs : a # b => Ids(x.pending[a]) \cap Ids(x.pending[b]) = {}
    /\ DistinctFrames(x.frames_out)
    /\ Waiting(x) \cap FrameIds(x.frames_out) = {}

Once(x) ==
    /\ OnceOut(x) /\ Distinct(x.datagrams_out)
    /\ Outgoing(x) \cap Ids(x.datagrams_out) = {}

\* The interfaces, holding what was sent, each datagram in one place.
Fine(S, life, ifcs) ==
    /\ ifcs \in [Names -> InterfaceSet]
    /\ \A i \in Names : InterfaceOK(S, life, i, ifcs[i])
    /\ \A i \in Names : Once(ifcs[i]) /\ Carried(ifcs[i]) \subseteq {d.id : d \in S.sent}
    /\ \A i, j \in Names : i # j => Carried(ifcs[i]) \cap Carried(ifcs[j]) = {}

\* The numbers that a host's datagrams carry.
Numbered == \A d \in sent : d.id[2] =< Cardinality(SentBy(d.id[1]))

\* The checksum that a host's segments carry.
Summed == \A d \in sent : ChecksumHolds(d)

-----------------------------------------------------------------------------
\* An adapter that still listens was given nothing, and one that does not was given
\* segments of the peer that it is bound to, a SYN first if it listened.
Bonded(x, listened) ==
    /\ x.listening => x.handed = << >> /\ listened
    /\ \A k \in DOMAIN x.handed : IsFromPeer(x, x.handed[k])
    /\ listened => x.listening \/ (x.handed # << >> /\ x.handed[1].syn)

IInv ==
    /\ TypeOK /\ Fine(World, faults.restarted, ifc) /\ Numbered /\ Summed
    /\ HandedAsSent
    /\ \A h \in Hosts : Bonded(adapter[h], env.adapters[h].listening)
-----------------------------------------------------------------------------
(* What is in a queue.                                                      *)

\* The elements of a queue and of what is left of it.
LEMMA RangeIs ==
    ASSUME NEW S, NEW q \in Seq(S)
    PROVE  /\ \A e : e \in Range(q) <=> \E k \in 1..Len(q) : e = q[k]
           /\ Range(q) \subseteq S
  BY LenProperties DEF Range

LEMMA RangeConcat ==
    ASSUME NEW S, NEW q \in Seq(S), NEW t \in Seq(S)
    PROVE  Range(q \o t) = Range(q) \cup Range(t)
<1>1. q \o t \in Seq(S) /\ Len(q) \in Nat /\ Len(t) \in Nat /\ Len(q \o t) = Len(q) + Len(t)
  BY ConcatProperties, LenProperties
<1>2. \A k \in 1..Len(q) + Len(t) : (q \o t)[k] = IF k =< Len(q) THEN q[k] ELSE t[k - Len(q)]
  BY ConcatProperties
<1>3. Range(q \o t) \subseteq Range(q) \cup Range(t)
  <2> SUFFICES ASSUME NEW k \in 1..Len(q) + Len(t) PROVE (q \o t)[k] \in Range(q) \cup Range(t)
    <3>1. \A e : e \in Range(q \o t) <=> \E k \in 1..Len(q) + Len(t) : e = (q \o t)[k]
      BY <1>1, RangeIs
    <3> QED BY <3>1
  <2>1. k =< Len(q) => k \in 1..Len(q)
    BY <1>1
  <2>2. ~(k =< Len(q)) => k - Len(q) \in 1..Len(t)
    BY <1>1
  <2> QED BY <2>1, <2>2, <1>2, RangeIs
<1>4. Range(q) \subseteq Range(q \o t)
  <2> SUFFICES ASSUME NEW k \in 1..Len(q) PROVE q[k] \in Range(q \o t)
    BY RangeIs
  <2>1. k \in 1..Len(q \o t) /\ k \in 1..Len(q) + Len(t) /\ k =< Len(q)
    BY <1>1
  <2> QED BY <2>1, <1>2, <1>1, RangeIs
<1>5. Range(t) \subseteq Range(q \o t)
  <2> SUFFICES ASSUME NEW k \in 1..Len(t) PROVE t[k] \in Range(q \o t)
    BY RangeIs
  <2>1. /\ Len(q) + k \in 1..Len(q \o t) /\ Len(q) + k \in 1..Len(q) + Len(t)
        /\ ~(Len(q) + k =< Len(q)) /\ (Len(q) + k) - Len(q) = k
    BY <1>1
  <2>2. (q \o t)[Len(q) + k] = t[k]
    BY <2>1, <1>2
  <2> QED BY <2>1, <2>2, <1>1, RangeIs
<1> QED BY <1>3, <1>4, <1>5

LEMMA SingleIs ==
    ASSUME NEW S, NEW e \in S
    PROVE  << e >> \in Seq(S) /\ Len(<< e >>) = 1 /\ << e >>[1] = e /\ Range(<< e >>) = {e}
  BY DEF Range

LEMMA RangeAppend ==
    ASSUME NEW S, NEW q \in Seq(S), NEW e \in S
    PROVE  /\ Append(q, e) \in Seq(S)
           /\ Range(Append(q, e)) = Range(q) \cup {e}
<1>1. Append(q, e) \in Seq(S) /\ Append(q, e) = q \o << e >>
  BY AppendProperties, AppendIsConcat
<1>2. << e >> \in Seq(S) /\ Range(<< e >>) = {e}
  BY SingleIs
<1>3. Range(q \o << e >>) = Range(q) \cup Range(<< e >>)
  BY <1>2, RangeConcat, ZenonT(60)
<1> QED BY <1>1, <1>2, <1>3

LEMMA RangeTail ==
    ASSUME NEW S, NEW q \in Seq(S), q # << >>
    PROVE  /\ Tail(q) \in Seq(S) /\ Head(q) \in Range(q) /\ Head(q) = q[1] /\ Head(q) \in S
           /\ 1 \in DOMAIN q
           /\ \A e \in Range(Tail(q)) : \E k \in DOMAIN q : k > 1 /\ q[k] = e
           /\ Range(Tail(q)) \subseteq Range(q)
<1>1. Len(q) \in Nat \ {0} /\ DOMAIN q = 1..Len(q)
  BY EmptySeq, LenProperties
<1>2. Tail(q) \in Seq(S) /\ Len(Tail(q)) = Len(q) - 1 /\ Head(q) \in S
      /\ \A k \in 1..Len(Tail(q)) : Tail(q)[k] = q[k + 1]
  BY HeadTailProperties
<1>3. Head(q) = q[1] /\ 1 \in DOMAIN q
  BY <1>1
<1>4. ASSUME NEW e \in Range(Tail(q))
      PROVE  \E k \in DOMAIN q : k > 1 /\ q[k] = e
  <2> DEFINE t == Tail(q)
  <2>1. PICK k \in 1..Len(t) : e = t[k]
    <3>1. t \in Seq(S) /\ e \in Range(t)
      BY <1>2, <1>4
    <3> HIDE DEF t
    <3> QED BY <3>1, RangeIs
  <2>2. k + 1 \in DOMAIN q /\ k + 1 > 1
    BY <1>1, <1>2
  <2> QED BY <2>1, <2>2, <1>2
<1> QED BY <1>1, <1>2, <1>3, <1>4 DEF Range

\* Replacing the front of a queue.
LEMMA RangeReplace ==
    ASSUME NEW S, NEW q \in Seq(S), q # << >>, NEW e \in S
    PROVE  /\ [q EXCEPT ![1] = e] \in Seq(S)
           /\ DOMAIN [q EXCEPT ![1] = e] = DOMAIN q
           /\ \A k \in DOMAIN q : [q EXCEPT ![1] = e][k] = IF k = 1 THEN e ELSE q[k]
           /\ Range([q EXCEPT ![1] = e]) \subseteq Range(q) \cup {e}
<1>1. Len(q) \in Nat \ {0} /\ DOMAIN q = 1..Len(q) /\ 1 \in 1..Len(q)
  BY EmptySeq, LenProperties
<1> QED BY <1>1, ExceptSeq DEF Range

-----------------------------------------------------------------------------
(* Queues that hold a datagram once.                                        *)

LEMMA DistinctAppend ==
    ASSUME NEW q \in Seq(Datagram), NEW d \in Datagram, Distinct(q), d.id \notin Ids(q)
    PROVE  Distinct(Append(q, d)) /\ Ids(Append(q, d)) = Ids(q) \cup {d.id}
<1>1. Len(q) \in Nat /\ DOMAIN q = 1..Len(q) /\ DOMAIN Append(q, d) = 1..Len(q) + 1
  BY AppendProperties, LenProperties
<1>2. \A k \in 1..Len(q) : Append(q, d)[k] = q[k] /\ q[k] \in Range(q)
  BY AppendProperties, <1>1, RangeIs
<1>3. Append(q, d)[Len(q) + 1] = d
  BY AppendProperties
<1>4. Ids(Append(q, d)) = Ids(q) \cup {d.id}
  <2>1. Range(Append(q, d)) = Range(q) \cup {d}
    BY RangeAppend
  <2> QED BY <2>1 DEF Ids
<1>5. ASSUME NEW k \in 1..Len(q) + 1, NEW l \in 1..Len(q) + 1,
             Append(q, d)[k].id = Append(q, d)[l].id
      PROVE  k = l
  <2>1. k \in 1..Len(q) \/ k = Len(q) + 1
    BY <1>1
  <2>2. l \in 1..Len(q) \/ l = Len(q) + 1
    BY <1>1
  <2>3. \A m \in 1..Len(q) : q[m].id # d.id
    BY <1>2 DEF Ids
  <2> QED BY <2>1, <2>2, <2>3, <1>5, <1>1, <1>2, <1>3 DEF Distinct
<1> QED BY <1>1, <1>4, <1>5 DEF Distinct

LEMMA DistinctTail ==
    ASSUME NEW q \in Seq(Datagram), q # << >>, Distinct(q)
    PROVE  Distinct(Tail(q)) /\ Ids(Tail(q)) \subseteq Ids(q) \ {Head(q).id}
<1>1. Len(q) \in Nat \ {0} /\ DOMAIN q = 1..Len(q)
  BY EmptySeq, LenProperties
<1>2. Tail(q) \in Seq(Datagram) /\ Len(Tail(q)) = Len(q) - 1
      /\ \A k \in 1..Len(Tail(q)) : Tail(q)[k] = q[k + 1]
  BY HeadTailProperties
<1>3. DOMAIN Tail(q) = 1..Len(q) - 1
  BY <1>2, LenProperties
<1>4. Distinct(Tail(q))
  <2> SUFFICES ASSUME NEW k \in 1..Len(q) - 1, NEW l \in 1..Len(q) - 1,
                      Tail(q)[k].id = Tail(q)[l].id
               PROVE  k = l
    BY <1>3 DEF Distinct
  <2>1. k + 1 \in DOMAIN q /\ l + 1 \in DOMAIN q /\ (k + 1 = l + 1 => k = l)
    BY <1>1
  <2>2. Tail(q)[k] = q[k + 1] /\ Tail(q)[l] = q[l + 1]
    BY <1>2
  <2> QED BY <2>1, <2>2 DEF Distinct
<1>5. \A e \in Range(Tail(q)) : e.id # Head(q).id /\ e \in Range(q)
  BY RangeTail DEF Distinct
<1> QED BY <1>4, <1>5 DEF Ids

LEMMA FramesTail ==
    ASSUME NEW fs \in Seq(Frame), fs # << >>, DistinctFrames(fs)
    PROVE  /\ DistinctFrames(Tail(fs))
           /\ FrameIds(Tail(fs)) \subseteq FrameIds(fs)
           /\ Head(fs).type = "IPv4" => /\ Head(fs).payload.id \notin FrameIds(Tail(fs))
                                        /\ Head(fs).payload.id \in FrameIds(fs)
<1>1. Len(fs) \in Nat \ {0} /\ DOMAIN fs = 1..Len(fs)
  BY EmptySeq, LenProperties
<1>2. Tail(fs) \in Seq(Frame) /\ Len(Tail(fs)) = Len(fs) - 1
      /\ \A k \in 1..Len(Tail(fs)) : Tail(fs)[k] = fs[k + 1]
  BY HeadTailProperties
<1>3. DOMAIN Tail(fs) = 1..Len(fs) - 1
  BY <1>2, LenProperties
<1>4. DistinctFrames(Tail(fs))
  <2> SUFFICES ASSUME NEW k \in 1..Len(fs) - 1, NEW l \in 1..Len(fs) - 1,
                      Tail(fs)[k].type = "IPv4", Tail(fs)[l].type = "IPv4",
                      Tail(fs)[k].payload.id = Tail(fs)[l].payload.id
               PROVE  k = l
    BY <1>3 DEF DistinctFrames
  <2>1. k + 1 \in DOMAIN fs /\ l + 1 \in DOMAIN fs /\ (k + 1 = l + 1 => k = l)
    BY <1>1
  <2>2. Tail(fs)[k] = fs[k + 1] /\ Tail(fs)[l] = fs[l + 1]
    BY <1>2
  <2> QED BY <2>1, <2>2 DEF DistinctFrames
<1>5. ASSUME NEW e \in Range(Tail(fs)), e.type = "IPv4", Head(fs).type = "IPv4"
      PROVE  e.payload.id # Head(fs).payload.id
  <2>1. PICK k \in DOMAIN fs : k > 1 /\ fs[k] = e
    BY RangeTail
  <2>2. Head(fs) = fs[1] /\ 1 \in DOMAIN fs /\ k # 1
    BY RangeTail, <2>1
  <2> QED BY <2>1, <2>2, <1>5 DEF DistinctFrames
<1>6. Range(Tail(fs)) \subseteq Range(fs) /\ Head(fs) \in Range(fs)
  BY RangeTail
<1> QED BY <1>4, <1>5, <1>6 DEF FrameIds

\* Frames of two queues that have no datagram in common.
LEMMA FramesConcat ==
    ASSUME NEW fs \in Seq(Frame), NEW gs \in Seq(Frame), DistinctFrames(fs), DistinctFrames(gs),
           FrameIds(fs) \cap FrameIds(gs) = {}
    PROVE  /\ DistinctFrames(fs \o gs)
           /\ FrameIds(fs \o gs) = FrameIds(fs) \cup FrameIds(gs)
<1>1. Len(fs) \in Nat /\ Len(gs) \in Nat /\ DOMAIN fs = 1..Len(fs) /\ DOMAIN gs = 1..Len(gs)
      /\ DOMAIN (fs \o gs) = 1..Len(fs) + Len(gs)
  BY ConcatProperties, LenProperties
<1>2. \A k \in 1..Len(fs) + Len(gs) :
        \/ k \in DOMAIN fs /\ (fs \o gs)[k] = fs[k]
        \/ k - Len(fs) \in DOMAIN gs /\ (fs \o gs)[k] = gs[k - Len(fs)]
  <2> TAKE k \in 1..Len(fs) + Len(gs)
  <2>1. (fs \o gs)[k] = IF k =< Len(fs) THEN fs[k] ELSE gs[k - Len(fs)]
    BY ConcatProperties
  <2>2. k =< Len(fs) => k \in DOMAIN fs
    BY <1>1
  <2>3. ~(k =< Len(fs)) => k - Len(fs) \in DOMAIN gs
    BY <1>1
  <2> QED BY <2>1, <2>2, <2>3
<1>3. \A k \in DOMAIN fs : fs[k].type = "IPv4" => fs[k].payload.id \in FrameIds(fs)
  BY DEF FrameIds, Range
<1>4. \A k \in DOMAIN gs : gs[k].type = "IPv4" => gs[k].payload.id \in FrameIds(gs)
  BY DEF FrameIds, Range
<1>5. ASSUME NEW k \in 1..Len(fs) + Len(gs), NEW l \in 1..Len(fs) + Len(gs),
             (fs \o gs)[k].type = "IPv4", (fs \o gs)[l].type = "IPv4",
             (fs \o gs)[k].payload.id = (fs \o gs)[l].payload.id
      PROVE  k = l
  <2>1. k - Len(fs) = l - Len(fs) => k = l
    BY <1>1
  <2> QED BY <2>1, <1>2, <1>3, <1>4, <1>5 DEF DistinctFrames
<1>6. Range(fs \o gs) = Range(fs) \cup Range(gs)
  BY RangeConcat
<1> QED BY <1>1, <1>5, <1>6 DEF DistinctFrames, FrameIds
-----------------------------------------------------------------------------
(* What an interface does to what it holds.                                 *)

\* A datagram passed on carries the same number, and says no more of its header.
LEMMA SerializedIs ==
    ASSUME NEW d \in Datagram
    PROVE  /\ serialized(d) \in Datagram /\ serialized(d).id = d.id
           /\ serialized(serialized(d)) = serialized(d)
  BY DEF serialized, Datagram, HeaderResults

LEMMA EmitIs ==
    ASSUME NEW x \in InterfaceSet, NEW frames \in Seq(Frame)
    PROVE  LET y == Emit(x, frames)
           IN  /\ y \in InterfaceSet
               /\ y.frames_out = x.frames_out \o frames
               /\ Range(y.frames_out) = Range(x.frames_out) \cup Range(frames)
               /\ y.mac = x.mac /\ y.ip = x.ip /\ y.arp_cache = x.arp_cache
               /\ y.pending = x.pending /\ y.datagrams_out = x.datagrams_out
               /\ y.failed = x.failed
<1> DEFINE y == Emit(x, frames)
<1>1. x.frames_out \in Seq(Frame)
  BY DEF InterfaceSet
<1>2. /\ x.frames_out \o frames \in Seq(Frame)
      /\ Range(x.frames_out \o frames) = Range(x.frames_out) \cup Range(frames)
  BY <1>1, ConcatProperties, RangeConcat
<1>3. y = [x EXCEPT !.frames_out = x.frames_out \o frames]
  BY DEF Emit
<1>4. y \in InterfaceSet /\ y.frames_out = x.frames_out \o frames
      /\ y.mac = x.mac /\ y.ip = x.ip /\ y.arp_cache = x.arp_cache
      /\ y.pending = x.pending /\ y.datagrams_out = x.datagrams_out
      /\ y.failed = x.failed
  <2> DEFINE fs == x.frames_out \o frames
  <2> HIDE DEF fs
  <2>1. fs \in Seq(Frame) /\ y = [x EXCEPT !.frames_out = fs]
    BY <1>2, <1>3 DEF fs
  <2>2. y \in InterfaceSet /\ y.frames_out = fs
        /\ y.mac = x.mac /\ y.ip = x.ip /\ y.arp_cache = x.arp_cache
        /\ y.pending = x.pending /\ y.datagrams_out = x.datagrams_out
        /\ y.failed = x.failed
    BY <2>1 DEF InterfaceSet
  <2> QED BY <2>2 DEF fs
<1> QED BY <1>2, <1>4

\* Frames with the datagrams of a queue.
LEMMA IPv4Frames ==
    ASSUME NEW x \in InterfaceSet, NEW dst \in FrameAddresses, NEW q \in Seq(Datagram)
    PROVE  LET fs == [n \in DOMAIN q |-> IPv4Frame(x, dst, q[n])]
           IN  /\ fs \in Seq(Frame)
               /\ \A f \in Range(fs) : \E d \in Range(q) : f = IPv4Frame(x, dst, d)
               /\ FrameIds(fs) \subseteq Ids(q)
               /\ Distinct(q) => DistinctFrames(fs)
<1> DEFINE fs == [n \in DOMAIN q |-> IPv4Frame(x, dst, q[n])]
<1>1. Len(q) \in Nat /\ DOMAIN q = 1..Len(q) /\ \A n \in DOMAIN q : q[n] \in Datagram
  BY LenProperties
<1>2. x.mac \in MACs
  BY DEF InterfaceSet
<1>3. ASSUME NEW d \in Datagram
      PROVE  LET f == IPv4Frame(x, dst, d)
             IN  f \in Frame /\ f.type = "IPv4" /\ f.payload.id = d.id
  <2>1. serialized(d) \in Datagram /\ serialized(d).id = d.id
    BY SerializedIs
  <2> QED BY <2>1, <1>2 DEF IPv4Frame, Frame
<1>4. fs \in Seq(Frame)
  <2>1. \A n \in 1..Len(q) : fs[n] \in Frame
    BY <1>1, <1>3
  <2>2. fs = [n \in 1..Len(q) |-> fs[n]]
    BY <1>1
  <2> HIDE DEF fs
  <2> QED BY <2>1, <2>2, <1>1
<1>5. \A n \in DOMAIN q : fs[n] = IPv4Frame(x, dst, q[n]) /\ fs[n].payload.id = q[n].id
                          /\ q[n] \in Range(q)
  BY <1>1, <1>3 DEF Range
<1>6. DOMAIN fs = DOMAIN q
  OBVIOUS
<1> HIDE DEF fs
<1>7. \A f \in Range(fs) : \E d \in Range(q) : f = IPv4Frame(x, dst, d) /\ f.payload.id = d.id
  BY <1>5, <1>6 DEF Range
<1>8. FrameIds(fs) \subseteq Ids(q)
  BY <1>7 DEF FrameIds, Ids
<1>9. Distinct(q) => DistinctFrames(fs)
  BY <1>5, <1>6 DEF Distinct, DistinctFrames
<1> QED BY <1>4, <1>7, <1>8, <1>9 DEF fs

LEMMA ARPFrameIs ==
    ASSUME NEW x \in InterfaceSet, NEW dst \in FrameAddresses, NEW opcode \in {"REQUEST", "REPLY"},
           NEW a \in IPs
    PROVE  LET f == ARPFrame(x, dst, opcode, a)
           IN  /\ f \in Frame /\ f.type = "ARP" /\ f.payload.sender_mac = x.mac
               /\ f.payload.sender_ip = x.ip
               /\ << f >> \in Seq(Frame) /\ Range(<< f >>) = {f}
               /\ FrameIds(<< f >>) = {} /\ DistinctFrames(<< f >>)
<1> DEFINE f == ARPFrame(x, dst, opcode, a)
<1>1. f \in Frame /\ f.type = "ARP" /\ f.payload.sender_mac = x.mac /\ f.payload.sender_ip = x.ip
  BY DEF ARPFrame, Frame, ARPMessage, InterfaceSet
<1> HIDE DEF f
<1>2. << f >> \in Seq(Frame) /\ Range(<< f >>) = {f} /\ DOMAIN << f >> = {1}
  BY <1>1, SingleIs
<1>3. FrameIds(<< f >>) = {} /\ DistinctFrames(<< f >>)
  BY <1>1, <1>2 DEF FrameIds, DistinctFrames
<1> QED BY <1>1, <1>2, <1>3 DEF f

\* Putting frames into the queue: of the right content, and with new datagrams.
LEMMA EmitKeeps ==
    ASSUME NEW S, NEW life \in Nat, NEW i \in Names, NEW x, InterfaceOK(S, life, i, x),
           NEW frames \in Seq(Frame), \A f \in Range(frames) : FrameOK(S, life, i, f)
    PROVE  InterfaceOK(S, life, i, Emit(x, frames))
<1> DEFINE y == Emit(x, frames)
<1>1. x \in InterfaceSet
  BY DEF InterfaceOK
<1>2. /\ y \in InterfaceSet
      /\ Range(y.frames_out) = Range(x.frames_out) \cup Range(frames)
      /\ y.mac = x.mac /\ y.ip = x.ip /\ y.arp_cache = x.arp_cache
      /\ y.pending = x.pending /\ y.datagrams_out = x.datagrams_out
  BY <1>1, EmitIs
<1> HIDE DEF y
<1>3. InterfaceOK(S, life, i, y)
  BY <1>2 DEF InterfaceOK, Knows
<1> QED BY <1>3 DEF y

LEMMA EmitOnce ==
    ASSUME NEW x \in InterfaceSet, OnceOut(x), NEW frames \in Seq(Frame),
           DistinctFrames(frames), FrameIds(frames) \cap Outgoing(x) = {}
    PROVE  /\ OnceOut(Emit(x, frames))
           /\ Outgoing(Emit(x, frames)) = Outgoing(x) \cup FrameIds(frames)
<1> DEFINE y == Emit(x, frames)
<1>1. y.pending = x.pending /\ y.frames_out = x.frames_out \o frames
  BY EmitIs
<1>2. x.frames_out \in Seq(Frame)
  BY DEF InterfaceSet
<1>3. /\ DistinctFrames(x.frames_out \o frames)
      /\ FrameIds(x.frames_out \o frames) = FrameIds(x.frames_out) \cup FrameIds(frames)
  BY <1>2, FramesConcat DEF OnceOut, Outgoing
<1> HIDE DEF y
<1>4. Waiting(y) = Waiting(x)
  BY <1>1 DEF Waiting
<1>5. OnceOut(y) /\ Outgoing(y) = Outgoing(x) \cup FrameIds(frames)
  BY <1>1, <1>3, <1>4 DEF OnceOut, Outgoing
<1> QED BY <1>5 DEF y
\* x and y differ in their requests or in having failed only.
Alike(x, y) ==
    /\ y.mac = x.mac /\ y.ip = x.ip /\ y.arp_cache = x.arp_cache /\ y.pending = x.pending
    /\ y.frames_out = x.frames_out /\ y.datagrams_out = x.datagrams_out

LEMMA AlikeKeeps ==
    ASSUME NEW S, NEW life, NEW i, NEW x, NEW y \in InterfaceSet, Alike(x, y)
    PROVE  /\ InterfaceOK(S, life, i, x) => InterfaceOK(S, life, i, y)
           /\ OnceOut(x) => OnceOut(y)
           /\ Outgoing(y) = Outgoing(x)
  BY DEF Alike, InterfaceOK, Knows, OnceOut, Outgoing, Waiting

\* Sending datagrams that are meant for the owner of the address dst.
LEMMA EmitIPv4Is ==
    ASSUME NEW x \in InterfaceSet, NEW dst \in FrameAddresses, NEW q \in Seq(Datagram)
    PROVE  LET y == EmitIPv4(x, dst, q)
           IN  /\ y \in InterfaceSet /\ y.datagrams_out = x.datagrams_out
               /\ \/ Alike(x, y)
                  \/ y = Emit(x, [n \in DOMAIN q |-> IPv4Frame(x, dst, q[n])]) /\ y.failed = x.failed
<1> DEFINE fs == [n \in DOMAIN q |-> IPv4Frame(x, dst, q[n])]
           z == [x EXCEPT !.failed = TRUE]
<1>1. z \in InterfaceSet /\ Alike(x, z) /\ z.datagrams_out = x.datagrams_out
  BY DEF InterfaceSet, Alike
<1>2. fs \in Seq(Frame)
  BY IPv4Frames
<1>3. EmitIPv4(x, dst, q) = Emit(x, fs) \/ EmitIPv4(x, dst, q) = z
  BY DEF EmitIPv4
<1> HIDE DEF fs, z
<1>4. /\ Emit(x, fs) \in InterfaceSet /\ Emit(x, fs).datagrams_out = x.datagrams_out
      /\ Emit(x, fs).failed = x.failed
  BY <1>2, EmitIs
<1>5. CASE EmitIPv4(x, dst, q) = Emit(x, fs)
  BY <1>4, <1>5 DEF fs
<1>6. CASE EmitIPv4(x, dst, q) = z
  BY <1>1, <1>6
<1> QED BY <1>3, <1>5, <1>6

LEMMA EmitIPv4Keeps ==
    ASSUME NEW S, NEW life \in Nat, NEW i \in Names, NEW x, InterfaceOK(S, life, i, x),
           NEW a \in IPs, NEW dst \in FrameAddresses, OwnerMAC(life, i, a, dst),
           NEW q \in Seq(Datagram), \A d \in Range(q) : Meant(S, i, a, d)
    PROVE  InterfaceOK(S, life, i, EmitIPv4(x, dst, q))
<1> DEFINE fs == [n \in DOMAIN q |-> IPv4Frame(x, dst, q[n])]
           y == EmitIPv4(x, dst, q)
<1>1. x \in InterfaceSet
  BY DEF InterfaceOK
<1>2. fs \in Seq(Frame) /\ \A f \in Range(fs) : \E d \in Range(q) : f = IPv4Frame(x, dst, d)
  BY <1>1, IPv4Frames
<1>3. y \in InterfaceSet /\ (Alike(x, y) \/ y = Emit(x, fs))
  BY <1>1, EmitIPv4Is
<1> HIDE DEF fs, y
<1>4. ASSUME NEW d \in Datagram, Meant(S, i, a, d)
      PROVE  FrameOK(S, life, i, IPv4Frame(x, dst, d))
  <2> DEFINE f == IPv4Frame(x, dst, d)
  <2>1. f.type = "IPv4" /\ f.dst = dst /\ f.payload = serialized(d)
    BY DEF IPv4Frame
  <2>2. Meant(S, i, a, serialized(d))
    BY <1>4, SerializedIs DEF Meant, Stray
  <2> HIDE DEF f
  <2>3. FrameOK(S, life, i, f)
    BY <2>1, <2>2 DEF FrameOK
  <2> QED BY <2>3 DEF f
<1>5. \A f \in Range(fs) : FrameOK(S, life, i, f)
  BY <1>2, <1>4, RangeIs
<1>6. InterfaceOK(S, life, i, Emit(x, fs))
  BY <1>2, <1>5, EmitKeeps
<1>7. InterfaceOK(S, life, i, y)
  BY <1>3, <1>6, AlikeKeeps
<1> QED BY <1>7 DEF y

LEMMA EmitIPv4Once ==
    ASSUME NEW x \in InterfaceSet, OnceOut(x), NEW dst \in FrameAddresses,
           NEW q \in Seq(Datagram), Distinct(q), Ids(q) \cap Outgoing(x) = {}
    PROVE  LET y == EmitIPv4(x, dst, q)
           IN  /\ OnceOut(y) /\ Outgoing(y) \subseteq Outgoing(x) \cup Ids(q)
               /\ y.failed # x.failed => Outgoing(y) = Outgoing(x)
<1> DEFINE fs == [n \in DOMAIN q |-> IPv4Frame(x, dst, q[n])]
           y == EmitIPv4(x, dst, q)
<1>1. fs \in Seq(Frame) /\ FrameIds(fs) \subseteq Ids(q) /\ DistinctFrames(fs)
  BY IPv4Frames
<1>2. y \in InterfaceSet /\ (Alike(x, y) \/ (y = Emit(x, fs) /\ y.failed = x.failed))
  BY EmitIPv4Is
<1> HIDE DEF fs, y
<1>3. OnceOut(Emit(x, fs)) /\ Outgoing(Emit(x, fs)) = Outgoing(x) \cup FrameIds(fs)
  BY <1>1, EmitOnce
<1>4. OnceOut(y) /\ Outgoing(y) \subseteq Outgoing(x) \cup Ids(q)
      /\ (y.failed # x.failed => Outgoing(y) = Outgoing(x))
  BY <1>1, <1>2, <1>3, AlikeKeeps
<1> QED BY <1>4 DEF y

\* A datagram that waits for the address a.
Queued(x, a, d) == [x EXCEPT !.pending[a] = Append(@, d)]

LEMMA QueuedIs ==
    ASSUME NEW x \in InterfaceSet, NEW a \in IPs, NEW d \in Datagram
    PROVE  LET y == Queued(x, a, d)
           IN  /\ y \in InterfaceSet
               /\ y.pending[a] = Append(x.pending[a], d)
               /\ \A b \in IPs \ {a} : y.pending[b] = x.pending[b]
               /\ y.mac = x.mac /\ y.ip = x.ip /\ y.arp_cache = x.arp_cache
               /\ y.frames_out = x.frames_out /\ y.datagrams_out = x.datagrams_out
               /\ y.failed = x.failed
<1>1. x.pending[a] \in Seq(Datagram) /\ x.pending \in [IPs -> Seq(Datagram)]
  BY DEF InterfaceSet
<1> DEFINE q == Append(x.pending[a], d)
<1>2. q \in Seq(Datagram)
  BY <1>1
<1>3. Queued(x, a, d) = [x EXCEPT !.pending = [x.pending EXCEPT ![a] = q]]
  BY DEF Queued
<1> HIDE DEF q
<1>4. [x.pending EXCEPT ![a] = q] \in [IPs -> Seq(Datagram)]
  BY <1>1, <1>2
<1> QED BY <1>1, <1>3, <1>4 DEF InterfaceSet, q

LEMMA QueuedKeeps ==
    ASSUME NEW S, NEW life \in Nat, NEW i \in Names, NEW x, InterfaceOK(S, life, i, x),
           NEW a \in IPs, NEW d \in Datagram, Meant(S, i, a, d)
    PROVE  InterfaceOK(S, life, i, Queued(x, a, d))
<1> DEFINE y == Queued(x, a, d)
<1>1. x \in InterfaceSet /\ x.pending[a] \in Seq(Datagram)
  BY DEF InterfaceOK, InterfaceSet
<1>2. /\ y \in InterfaceSet
      /\ y.pending[a] = Append(x.pending[a], d)
      /\ \A b \in IPs \ {a} : y.pending[b] = x.pending[b]
      /\ y.mac = x.mac /\ y.ip = x.ip /\ y.arp_cache = x.arp_cache
      /\ y.frames_out = x.frames_out /\ y.datagrams_out = x.datagrams_out
  BY <1>1, QueuedIs
<1>3. Range(Append(x.pending[a], d)) = Range(x.pending[a]) \cup {d}
  BY <1>1, RangeAppend
<1> HIDE DEF y
<1>4. InterfaceOK(S, life, i, y)
  BY <1>2, <1>3 DEF InterfaceOK, Knows
<1> QED BY <1>4 DEF y

LEMMA QueuedOnce ==
    ASSUME NEW x \in InterfaceSet, OnceOut(x), NEW a \in IPs, NEW d \in Datagram,
           d.id \notin Outgoing(x)
    PROVE  LET y == Queued(x, a, d)
           IN  OnceOut(y) /\ Outgoing(y) \subseteq Outgoing(x) \cup {d.id}
<1> DEFINE y == Queued(x, a, d)
<1>1. x.pending[a] \in Seq(Datagram)
  BY DEF InterfaceSet
<1>2. /\ y.pending[a] = Append(x.pending[a], d)
      /\ \A b \in IPs \ {a} : y.pending[b] = x.pending[b]
      /\ y.frames_out = x.frames_out
  BY QueuedIs
<1>3. Distinct(y.pending[a]) /\ Ids(y.pending[a]) = Ids(x.pending[a]) \cup {d.id}
  BY <1>1, <1>2, DistinctAppend DEF OnceOut, Outgoing, Waiting
<1> HIDE DEF y
<1>4. Waiting(y) = Waiting(x) \cup {d.id}
  BY <1>2, <1>3 DEF Waiting
<1>5. d.id \notin FrameIds(x.frames_out) /\ \A b \in IPs : d.id \notin Ids(x.pending[b])
  BY DEF Outgoing, Waiting
<1>6. \A b \in IPs : Distinct(y.pending[b])
  BY <1>2, <1>3 DEF OnceOut
<1>7. \A b, c \in IPs : b # c => Ids(y.pending[b]) \cap Ids(y.pending[c]) = {}
  <2> TAKE b, c \in IPs
  <2>1. b # c => Ids(x.pending[b]) \cap Ids(x.pending[c]) = {}
    BY DEF OnceOut
  <2>2. \A e \in IPs : Ids(y.pending[e]) = IF e = a THEN Ids(x.pending[e]) \cup {d.id} ELSE Ids(x.pending[e])
    BY <1>2, <1>3
  <2> QED BY <2>1, <2>2, <1>5
<1>8. OnceOut(y) /\ Outgoing(y) \subseteq Outgoing(x) \cup {d.id}
  BY <1>2, <1>4, <1>5, <1>6, <1>7 DEF OnceOut, Outgoing
<1> QED BY <1>8 DEF y
-----------------------------------------------------------------------------
(* The methods of an interface.                                             *)

LEMMA KnownMAC ==
    ASSUME NEW x \in InterfaceSet, NEW a \in IPs
    PROVE  x.arp_cache[a].mac \in FrameAddresses
  BY DEF InterfaceSet

Asked(x, a, d) == [Queued(x, a, d) EXCEPT !.arp_requests[a] = ARP_REQUEST_TIMEOUT]

LEMMA AskedIs ==
    ASSUME NEW x \in InterfaceSet, NEW a \in IPs, NEW d \in Datagram
    PROVE  LET z == Asked(x, a, d)
           IN  z \in InterfaceSet /\ Alike(Queued(x, a, d), z) /\ z.failed = x.failed
<1> DEFINE q == Queued(x, a, d)
<1>1. q \in InterfaceSet /\ q.failed = x.failed
  BY QueuedIs
<1>2. Asked(x, a, d) = [q EXCEPT !.arp_requests = [q.arp_requests EXCEPT ![a] = ARP_REQUEST_TIMEOUT]]
  BY DEF Asked
<1> HIDE DEF q
<1>3. [q.arp_requests EXCEPT ![a] = ARP_REQUEST_TIMEOUT] \in [IPs -> Nat]
  BY <1>1, InterfaceAssumption DEF InterfaceSet
<1>4. Asked(x, a, d) \in InterfaceSet /\ Alike(q, Asked(x, a, d)) /\ Asked(x, a, d).failed = x.failed
  BY <1>1, <1>2, <1>3 DEF InterfaceSet, Alike
<1> QED BY <1>4 DEF q

LEMMA SendIs ==
    ASSUME NEW x, NEW a, NEW d
    PROVE  LET y == send_datagram(x, d, a)
           IN  \/ Knows(x, a) /\ y = EmitIPv4(x, x.arp_cache[a].mac, << d >>)
               \/ y = Queued(x, a, d)
               \/ y = Emit(Asked(x, a, d), << ARPFrame(x, ETHERNET_BROADCAST, "REQUEST", a) >>)
<1>1. send_datagram(x, d, a) =
        IF Knows(x, a) THEN EmitIPv4(x, x.arp_cache[a].mac, << d >>)
        ELSE IF x.arp_requests[a] > 0 THEN Queued(x, a, d)
        ELSE Emit(Asked(x, a, d), << ARPFrame(x, ETHERNET_BROADCAST, "REQUEST", a) >>)
  BY Zenon DEF send_datagram, Queued, Asked
<1> QED BY <1>1

\* A datagram that is meant for a from here, and is nowhere else on its way from here.
LEMMA SendKeeps ==
    ASSUME NEW S, NEW life \in Nat, NEW i \in Names, NEW x, InterfaceOK(S, life, i, x),
           NEW a \in IPs, NEW d \in Datagram, Meant(S, i, a, d)
    PROVE  LET y == send_datagram(x, d, a)
           IN  InterfaceOK(S, life, i, y) /\ y.datagrams_out = x.datagrams_out
<1> DEFINE y == send_datagram(x, d, a)
           q == Queued(x, a, d)
           z == Asked(x, a, d)
           f == ARPFrame(x, ETHERNET_BROADCAST, "REQUEST", a)
           mac == x.arp_cache[a].mac
<1> SUFFICES InterfaceOK(S, life, i, y) /\ y.datagrams_out = x.datagrams_out
  OBVIOUS
<1>1. x \in InterfaceSet
  BY DEF InterfaceOK
<1>2. \/ Knows(x, a) /\ y = EmitIPv4(x, mac, << d >>)
      \/ y = q
      \/ y = Emit(z, << f >>)
  BY SendIs
<1>3. mac \in FrameAddresses /\ << d >> \in Seq(Datagram) /\ Range(<< d >>) = {d}
  BY <1>1, KnownMAC, SingleIs
<1>4. q.datagrams_out = x.datagrams_out /\ InterfaceOK(S, life, i, q)
  BY <1>1, QueuedIs, QueuedKeeps
<1>5. z \in InterfaceSet /\ Alike(q, z)
  BY <1>1, AskedIs
<1>6. f \in Frame /\ f.type = "ARP" /\ f.payload.sender_mac = x.mac
      /\ f.payload.sender_ip = x.ip /\ << f >> \in Seq(Frame) /\ Range(<< f >>) = {f}
  BY <1>1, ARPFrameIs DEF FrameAddresses
<1>7. Knows(x, a) => OwnerMAC(life, i, a, mac)
  BY DEF InterfaceOK
<1> HIDE DEF y, q, z, f, mac
<1>8. CASE Knows(x, a) /\ y = EmitIPv4(x, mac, << d >>)
  <2>1. InterfaceOK(S, life, i, EmitIPv4(x, mac, << d >>))
    BY <1>8, <1>3, <1>7, EmitIPv4Keeps
  <2>2. EmitIPv4(x, mac, << d >>).datagrams_out = x.datagrams_out
    BY <1>1, <1>3, EmitIPv4Is
  <2> QED BY <1>8, <2>1, <2>2
<1>9. CASE y = Emit(z, << f >>)
  <2>1. InterfaceOK(S, life, i, z)
    BY <1>4, <1>5, AlikeKeeps
  <2>2. FrameOK(S, life, i, f)
    BY <1>6 DEF FrameOK, InterfaceOK
  <2>3. InterfaceOK(S, life, i, Emit(z, << f >>))
    BY <1>6, <2>1, <2>2, EmitKeeps
  <2>4. Emit(z, << f >>).datagrams_out = z.datagrams_out
    BY <1>5, <1>6, EmitIs
  <2> QED BY <1>9, <1>4, <1>5, <2>3, <2>4 DEF Alike
<1> QED BY <1>2, <1>4, <1>8, <1>9

LEMMA SendOnce ==
    ASSUME NEW x \in InterfaceSet, OnceOut(x), NEW a \in IPs, NEW d \in Datagram,
           d.id \notin Outgoing(x)
    PROVE  LET y == send_datagram(x, d, a)
           IN  /\ OnceOut(y) /\ Outgoing(y) \subseteq Outgoing(x) \cup {d.id}
               /\ y.failed # x.failed => Outgoing(y) = Outgoing(x)
<1> DEFINE y == send_datagram(x, d, a)
           q == Queued(x, a, d)
           z == Asked(x, a, d)
           f == ARPFrame(x, ETHERNET_BROADCAST, "REQUEST", a)
           mac == x.arp_cache[a].mac
           Kept(w) == /\ OnceOut(w) /\ Outgoing(w) \subseteq Outgoing(x) \cup {d.id}
                      /\ w.failed # x.failed => Outgoing(w) = Outgoing(x)
<1>1. \/ y = EmitIPv4(x, mac, << d >>)
      \/ y = q
      \/ y = Emit(z, << f >>)
  BY SendIs
<1>2. mac \in FrameAddresses /\ << d >> \in Seq(Datagram) /\ Range(<< d >>) = {d}
  BY KnownMAC, SingleIs
<1>3. Ids(<< d >>) = {d.id} /\ Distinct(<< d >>)
  BY <1>2 DEF Ids, Distinct
<1>4. q.failed = x.failed /\ OnceOut(q) /\ Outgoing(q) \subseteq Outgoing(x) \cup {d.id}
  BY QueuedIs, QueuedOnce
<1>5. z \in InterfaceSet /\ Alike(q, z) /\ z.failed = x.failed
  BY AskedIs
<1>6. << f >> \in Seq(Frame) /\ FrameIds(<< f >>) = {} /\ DistinctFrames(<< f >>)
  BY ARPFrameIs DEF FrameAddresses
<1> HIDE DEF y, q, z, f, mac
<1>7. Kept(EmitIPv4(x, mac, << d >>))
  <2>1. Ids(<< d >>) \cap Outgoing(x) = {}
    BY <1>3
  <2> QED BY <1>2, <1>3, <2>1, EmitIPv4Once
<1>8. Kept(q)
  BY <1>4
<1>9. Kept(Emit(z, << f >>))
  <2>1. OnceOut(z) /\ Outgoing(z) \subseteq Outgoing(x) \cup {d.id}
    BY <1>4, <1>5, AlikeKeeps
  <2>2. OnceOut(Emit(z, << f >>)) /\ Outgoing(Emit(z, << f >>)) = Outgoing(z)
    BY <1>5, <1>6, <2>1, EmitOnce
  <2>3. Emit(z, << f >>).failed = x.failed
    BY <1>5, <1>6, EmitIs
  <2> QED BY <2>1, <2>2, <2>3
<1> HIDE DEF Kept
<1>10. Kept(y)
  BY <1>1, <1>7, <1>8, <1>9
<1> QED BY <1>10 DEF y, Kept
\* What is on one wire.
LEMMA OthersIs ==
    ASSUME NEW i \in Names, NEW j \in Others(i)
    PROVE  j \in Names /\ i # j /\ i \in Others(j)
  BY NetworkAssumption DEF Others

LEMMA LearnIs ==
    ASSUME NEW x \in InterfaceSet, NEW arp \in ARPMessage
    PROVE  LET y == Learn(x, arp)
           IN  /\ y \in InterfaceSet
               /\ y.arp_cache[arp.sender_ip].mac = arp.sender_mac
               /\ \A a \in IPs \ {arp.sender_ip} : y.arp_cache[a] = x.arp_cache[a]
               /\ y.mac = x.mac /\ y.ip = x.ip /\ y.pending = x.pending
               /\ y.frames_out = x.frames_out /\ y.datagrams_out = x.datagrams_out
               /\ y.failed = x.failed
<1> DEFINE m == [mac |-> arp.sender_mac, left |-> ARP_CACHE_TIMEOUT]
           c == [x.arp_cache EXCEPT ![arp.sender_ip] = m]
<1>1. /\ arp.sender_ip \in IPs /\ m \in [mac : FrameAddresses, left : Nat]
      /\ m.mac = arp.sender_mac /\ x.arp_cache \in [IPs -> [mac : FrameAddresses, left : Nat]]
  BY InterfaceAssumption DEF ARPMessage, InterfaceSet, FrameAddresses
<1>2. Learn(x, arp) = [x EXCEPT !.arp_cache = c]
  BY DEF Learn
<1> HIDE DEF m
<1>3. c \in [IPs -> [mac : FrameAddresses, left : Nat]] /\ c[arp.sender_ip] = m
      /\ \A a \in IPs \ {arp.sender_ip} : c[a] = x.arp_cache[a]
  BY <1>1
<1> HIDE DEF c
<1>4. Learn(x, arp) \in InterfaceSet /\ Learn(x, arp).arp_cache = c
  BY <1>2, <1>3 DEF InterfaceSet
<1>5. LET y == [x EXCEPT !.arp_cache = c]
      IN  /\ y.mac = x.mac /\ y.ip = x.ip /\ y.pending = x.pending
          /\ y.frames_out = x.frames_out /\ y.datagrams_out = x.datagrams_out
          /\ y.failed = x.failed
  BY DEF InterfaceSet
<1> QED BY <1>1, <1>2, <1>3, <1>4, <1>5

LEMMA LearnKeeps ==
    ASSUME NEW S, NEW life \in Nat, NEW i \in Names, NEW x, InterfaceOK(S, life, i, x),
           NEW arp \in ARPMessage, OwnerMAC(life, i, arp.sender_ip, arp.sender_mac)
    PROVE  InterfaceOK(S, life, i, Learn(x, arp))
<1> DEFINE y == Learn(x, arp)
<1> SUFFICES InterfaceOK(S, life, i, y)
  OBVIOUS
<1>1. /\ y \in InterfaceSet
      /\ y.arp_cache[arp.sender_ip].mac = arp.sender_mac
      /\ \A a \in IPs \ {arp.sender_ip} : y.arp_cache[a] = x.arp_cache[a]
      /\ y.mac = x.mac /\ y.ip = x.ip /\ y.pending = x.pending
      /\ y.frames_out = x.frames_out /\ y.datagrams_out = x.datagrams_out
  BY LearnIs DEF InterfaceOK
<1> HIDE DEF y
<1> QED BY <1>1 DEF InterfaceOK, Knows

LEMMA LearnOnce ==
    ASSUME NEW x \in InterfaceSet, NEW arp \in ARPMessage, OnceOut(x)
    PROVE  OnceOut(Learn(x, arp)) /\ Outgoing(Learn(x, arp)) = Outgoing(x)
<1> DEFINE y == Learn(x, arp)
<1> SUFFICES OnceOut(y) /\ Outgoing(y) = Outgoing(x)
  OBVIOUS
<1>1. y.pending = x.pending /\ y.frames_out = x.frames_out
  BY LearnIs
<1> HIDE DEF y
<1> QED BY <1>1 DEF OnceOut, Outgoing, Waiting

\* What waits for the address a is taken out.
Cleared(x, a) == [x EXCEPT !.arp_requests[a] = 0, !.pending[a] = << >>]

LEMMA ClearedIs ==
    ASSUME NEW x \in InterfaceSet, NEW a \in IPs
    PROVE  LET y == Cleared(x, a)
           IN  /\ y \in InterfaceSet
               /\ y.pending[a] = << >>
               /\ \A b \in IPs \ {a} : y.pending[b] = x.pending[b]
               /\ y.mac = x.mac /\ y.ip = x.ip /\ y.arp_cache = x.arp_cache
               /\ y.frames_out = x.frames_out /\ y.datagrams_out = x.datagrams_out
               /\ y.failed = x.failed
<1> DEFINE p == [x.pending EXCEPT ![a] = << >>]
           rs == [x.arp_requests EXCEPT ![a] = 0]
<1>1. p \in [IPs -> Seq(Datagram)] /\ p[a] = << >> /\ \A b \in IPs \ {a} : p[b] = x.pending[b]
  BY DEF InterfaceSet
<1>2. rs \in [IPs -> Nat]
  BY DEF InterfaceSet
<1>3. Cleared(x, a) = [x EXCEPT !.arp_requests = rs, !.pending = p]
  BY DEF Cleared
<1> HIDE DEF p, rs
<1>4. LET y == [x EXCEPT !.arp_requests = rs, !.pending = p]
      IN  /\ y \in InterfaceSet /\ y.pending = p
          /\ y.mac = x.mac /\ y.ip = x.ip /\ y.arp_cache = x.arp_cache
          /\ y.frames_out = x.frames_out /\ y.datagrams_out = x.datagrams_out
          /\ y.failed = x.failed
  BY <1>1, <1>2 DEF InterfaceSet
<1> QED BY <1>1, <1>3, <1>4

LEMMA NothingIs == Range(<< >>) = {} /\ Ids(<< >>) = {} /\ Distinct(<< >>)
  BY DEF Range, Ids, Distinct

LEMMA ClearedKeeps ==
    ASSUME NEW S, NEW life \in Nat, NEW i \in Names, NEW x, InterfaceOK(S, life, i, x),
           NEW a \in IPs
    PROVE  InterfaceOK(S, life, i, Cleared(x, a))
<1> DEFINE y == Cleared(x, a)
<1> SUFFICES InterfaceOK(S, life, i, y)
  OBVIOUS
<1>1. /\ y \in InterfaceSet
      /\ y.pending[a] = << >>
      /\ \A b \in IPs \ {a} : y.pending[b] = x.pending[b]
      /\ y.mac = x.mac /\ y.ip = x.ip /\ y.arp_cache = x.arp_cache
      /\ y.frames_out = x.frames_out /\ y.datagrams_out = x.datagrams_out
  BY ClearedIs DEF InterfaceOK
<1> HIDE DEF y
<1> QED BY <1>1, NothingIs DEF InterfaceOK, Knows

LEMMA ClearedOnce ==
    ASSUME NEW x \in InterfaceSet, OnceOut(x), NEW a \in IPs
    PROVE  LET y == Cleared(x, a)
           IN  /\ OnceOut(y) /\ Outgoing(y) \subseteq Outgoing(x)
               /\ Distinct(x.pending[a]) /\ Ids(x.pending[a]) \subseteq Outgoing(x)
               /\ Ids(x.pending[a]) \cap Outgoing(y) = {}
<1> DEFINE y == Cleared(x, a)
<1>1. /\ \A b \in IPs : y.pending[b] = IF b = a THEN << >> ELSE x.pending[b]
      /\ y.frames_out = x.frames_out
  BY ClearedIs
<1> HIDE DEF y
<1>2. \A b \in IPs : /\ Distinct(y.pending[b])
                     /\ Ids(y.pending[b]) = IF b = a THEN {} ELSE Ids(x.pending[b])
  BY <1>1, NothingIs DEF OnceOut
<1>3. \A b \in IPs : b # a => Ids(x.pending[a]) \cap Ids(y.pending[b]) = {}
  BY <1>1 DEF OnceOut
<1>4. Waiting(y) \subseteq Waiting(x) /\ Ids(x.pending[a]) \cap Waiting(y) = {}
  BY <1>2, <1>3 DEF Waiting
<1>5. Ids(x.pending[a]) \subseteq Waiting(x)
  BY DEF Waiting
<1>6. \A b, c \in IPs : b # c => Ids(y.pending[b]) \cap Ids(y.pending[c]) = {}
  BY <1>2 DEF OnceOut
<1>7. OnceOut(y)
  BY <1>1, <1>2, <1>4, <1>6 DEF OnceOut
<1>8. Outgoing(y) \subseteq Outgoing(x) /\ Ids(x.pending[a]) \cap Outgoing(y) = {}
  BY <1>1, <1>4, <1>5 DEF Outgoing, OnceOut
<1>9. Distinct(x.pending[a]) /\ Ids(x.pending[a]) \subseteq Outgoing(x)
  BY <1>5 DEF OnceOut, Outgoing
<1> QED BY <1>7, <1>8, <1>9 DEF y
\* A message teaches its sender's address, and may be answered or release what waits.
LEMMA RecvARPIs ==
    ASSUME NEW x, NEW arp
    PROVE  LET y == recv_arp(x, arp)
               z == Learn(x, arp)
           IN  \/ y = z
               \/ y = Emit(z, << ARPFrame(x, arp.sender_mac, "REPLY", arp.sender_ip) >>)
               \/ y = EmitIPv4(Cleared(z, arp.sender_ip), arp.sender_mac, z.pending[arp.sender_ip])
<1>1. \A z : Release(z, arp) =
        EmitIPv4(Cleared(z, arp.sender_ip), arp.sender_mac, z.pending[arp.sender_ip])
  BY DEF Release, Cleared
<1>2. \/ recv_arp(x, arp) = Learn(x, arp)
      \/ recv_arp(x, arp) =
            Emit(Learn(x, arp), << ARPFrame(x, arp.sender_mac, "REPLY", arp.sender_ip) >>)
      \/ recv_arp(x, arp) = Release(Learn(x, arp), arp)
  BY DEF recv_arp
<1> QED BY <1>1, <1>2

LEMMA RecvARPKeeps ==
    ASSUME NEW S, NEW life \in Nat, NEW i \in Names, NEW x, InterfaceOK(S, life, i, x),
           NEW arp \in ARPMessage, OwnerMAC(life, i, arp.sender_ip, arp.sender_mac)
    PROVE  LET y == recv_arp(x, arp)
           IN  InterfaceOK(S, life, i, y) /\ y.datagrams_out = x.datagrams_out
<1> DEFINE y == recv_arp(x, arp)
           z == Learn(x, arp)
           a == arp.sender_ip
           mac == arp.sender_mac
           f == ARPFrame(x, mac, "REPLY", a)
           c == Cleared(z, a)
           q == z.pending[a]
<1> SUFFICES InterfaceOK(S, life, i, y) /\ y.datagrams_out = x.datagrams_out
  OBVIOUS
<1>1. x \in InterfaceSet /\ a \in IPs /\ mac \in FrameAddresses
  BY DEF InterfaceOK, ARPMessage, FrameAddresses
<1>2. y = z \/ y = Emit(z, << f >>) \/ y = EmitIPv4(c, mac, q)
  BY RecvARPIs
<1>3. z \in InterfaceSet /\ z.mac = x.mac /\ z.ip = x.ip /\ z.datagrams_out = x.datagrams_out
  BY <1>1, LearnIs
<1>4. InterfaceOK(S, life, i, z)
  BY LearnKeeps
<1>5. f.type = "ARP" /\ f.payload.sender_mac = x.mac /\ f.payload.sender_ip = x.ip
      /\ << f >> \in Seq(Frame) /\ Range(<< f >>) = {f}
  BY <1>1, ARPFrameIs
<1> HIDE DEF z
<1>6. c \in InterfaceSet /\ InterfaceOK(S, life, i, c) /\ c.datagrams_out = z.datagrams_out
  BY <1>1, <1>3, <1>4, ClearedIs, ClearedKeeps
<1>7. q \in Seq(Datagram) /\ \A d \in Range(q) : Meant(S, i, a, d)
  BY <1>1, <1>3, <1>4 DEF InterfaceOK, InterfaceSet
<1>8. OwnerMAC(life, i, a, mac)
  OBVIOUS
<1> HIDE DEF y, a, mac, f, c, q
<1>9. InterfaceOK(S, life, i, Emit(z, << f >>)) /\ Emit(z, << f >>).datagrams_out = z.datagrams_out
  <2>1. FrameOK(S, life, i, f)
    BY <1>5 DEF FrameOK, InterfaceOK
  <2> QED BY <1>3, <1>4, <1>5, <2>1, EmitKeeps, EmitIs
<1>10. InterfaceOK(S, life, i, EmitIPv4(c, mac, q))
  BY <1>1, <1>6, <1>7, <1>8, EmitIPv4Keeps
<1>11. EmitIPv4(c, mac, q).datagrams_out = c.datagrams_out
  BY <1>1, <1>6, <1>7, EmitIPv4Is
<1> QED BY <1>2, <1>3, <1>4, <1>6, <1>9, <1>10, <1>11

LEMMA RecvARPOnce ==
    ASSUME NEW x \in InterfaceSet, OnceOut(x), NEW arp \in ARPMessage
    PROVE  LET y == recv_arp(x, arp)
           IN  OnceOut(y) /\ Outgoing(y) \subseteq Outgoing(x)
<1> DEFINE y == recv_arp(x, arp)
           z == Learn(x, arp)
           a == arp.sender_ip
           mac == arp.sender_mac
           f == ARPFrame(x, mac, "REPLY", a)
           c == Cleared(z, a)
           q == z.pending[a]
<1> SUFFICES OnceOut(y) /\ Outgoing(y) \subseteq Outgoing(x)
  OBVIOUS
<1>1. a \in IPs /\ mac \in FrameAddresses
  BY DEF ARPMessage, FrameAddresses
<1>2. y = z \/ y = Emit(z, << f >>) \/ y = EmitIPv4(c, mac, q)
  BY RecvARPIs
<1>3. z \in InterfaceSet /\ OnceOut(z) /\ Outgoing(z) = Outgoing(x)
  BY LearnIs, LearnOnce
<1>4. << f >> \in Seq(Frame) /\ FrameIds(<< f >>) = {} /\ DistinctFrames(<< f >>)
  BY <1>1, ARPFrameIs
<1> HIDE DEF z
<1>5. /\ c \in InterfaceSet /\ OnceOut(c) /\ Outgoing(c) \subseteq Outgoing(z)
      /\ Distinct(q) /\ Ids(q) \subseteq Outgoing(z) /\ Ids(q) \cap Outgoing(c) = {}
  BY <1>1, <1>3, ClearedIs, ClearedOnce
<1>6. q \in Seq(Datagram)
  BY <1>1, <1>3 DEF InterfaceSet
<1> HIDE DEF y, a, mac, f, c, q
<1>7. OnceOut(Emit(z, << f >>)) /\ Outgoing(Emit(z, << f >>)) = Outgoing(z)
  BY <1>3, <1>4, EmitOnce, ZenonT(60)
<1>8. /\ OnceOut(EmitIPv4(c, mac, q))
      /\ Outgoing(EmitIPv4(c, mac, q)) \subseteq Outgoing(c) \cup Ids(q)
  BY <1>1, <1>5, <1>6, EmitIPv4Once
<1> QED BY <1>2, <1>3, <1>5, <1>7, <1>8
\* A frame with a datagram is accepted by the one interface it is for, which is where
\* the datagram is to go next.
LEMMA AcceptedIs ==
    ASSUME NEW S, NEW life \in Nat, NEW j \in Names, NEW i \in Others(j),
           NEW x, InterfaceOK(S, life, i, x),
           NEW f, f.type = "IPv4", FrameOK(S, life, j, f), Accepts(x, f)
    PROVE  f.dst[1] = i /\ Got(S, i, f.payload)
<1>1. PICK a \in IPs : OwnerMAC(life, j, a, f.dst) /\ Meant(S, j, a, f.payload)
  BY DEF FrameOK
<1>2. PICK owner \in Others(j), l \in 0..life : IPOf[owner] = a /\ f.dst = MAC(owner, l)
  BY <1>1 DEF OwnerMAC
<1>3. i \in Names /\ owner \in Names
  BY OthersIs
<1>4. f.dst # ETHERNET_BROADCAST /\ f.dst[1] = owner
  BY <1>2, <1>3, NetworkAssumption DEF MAC
<1>5. PICK m \in 0..life : x.mac = MAC(i, m)
  BY DEF InterfaceOK
<1>6. f.dst = x.mac
  BY <1>4 DEF Accepts
<1>7. f.dst[1] = i /\ owner = i
  BY <1>4, <1>5, <1>6 DEF MAC
<1>8. IPOf[i] = a
  BY <1>2, <1>7
<1>9. CASE j \in Hosts
  <2>1. a = NextHop[j] /\ (serialized(f.payload) \in S.sent \/ Stray(S, f.payload))
    BY <1>1, <1>9 DEF Meant
  <2>2. i \in Range(RouterPorts)
    BY <2>1, <1>8, <1>9, TopologyAssumption
  <2>3. i \notin Hosts
    BY <2>2, NetworkAssumption
  <2> QED BY <1>7, <2>1, <2>3 DEF Got
<1>10. CASE Stray(S, f.payload)
  BY <1>7, <1>10 DEF Got
<1>11. CASE j \notin Hosts /\ ~Stray(S, f.payload)
  <2>1. PICK s \in S.sent : \E n \in Preferred(s.dst) :
            /\ s.ttl > 1 /\ serialized(f.payload) = Service!Routed(s)
            /\ j = RoutingTable[n].interface /\ a = HopOn(RoutingTable[n], s.dst)
            /\ s.dst \in IPs
    BY <1>1, <1>11 DEF Meant
  <2>2. s.dst \in DOMAIN ReceiverOf /\ i = ReceiverOf[s.dst]
    BY <2>1, <1>8, TopologyAssumption
  <2>3. i \in Hosts
    BY <2>2, NetworkAssumption
  <2> QED BY <1>7, <2>1, <2>2, <2>3 DEF Got
<1> QED BY <1>9, <1>10, <1>11
\* A datagram that arrived, and one that is taken from the queue.
Received(x, d) == [x EXCEPT !.datagrams_out = Append(@, d)]
Popped(x) == [x EXCEPT !.datagrams_out = Tail(@)]

LEMMA DatagramsOutIs ==
    ASSUME NEW x \in InterfaceSet, NEW q \in Seq(Datagram)
    PROVE  LET y == [x EXCEPT !.datagrams_out = q]
           IN  /\ y \in InterfaceSet /\ y.datagrams_out = q
               /\ y.mac = x.mac /\ y.ip = x.ip /\ y.arp_cache = x.arp_cache
               /\ y.pending = x.pending /\ y.frames_out = x.frames_out /\ y.failed = x.failed
               /\ OnceOut(y) <=> OnceOut(x)
               /\ Outgoing(y) = Outgoing(x)
               /\ \A S : \A life : \A i :
                    (InterfaceOK(S, life, i, x) /\ \A d \in Range(q) : Got(S, i, d))
                        => InterfaceOK(S, life, i, y)
<1> DEFINE y == [x EXCEPT !.datagrams_out = q]
<1>1. /\ y \in InterfaceSet /\ y.datagrams_out = q
      /\ y.mac = x.mac /\ y.ip = x.ip /\ y.arp_cache = x.arp_cache
      /\ y.pending = x.pending /\ y.frames_out = x.frames_out /\ y.failed = x.failed
  BY DEF InterfaceSet
<1> HIDE DEF y
<1>2. OnceOut(y) <=> OnceOut(x)
  BY <1>1 DEF OnceOut, Waiting
<1>3. Outgoing(y) = Outgoing(x)
  BY <1>1 DEF Outgoing, Waiting
<1>4. \A S : \A life : \A i :
        (InterfaceOK(S, life, i, x) /\ \A d \in Range(q) : Got(S, i, d))
            => InterfaceOK(S, life, i, y)
  BY <1>1 DEF InterfaceOK, Knows
<1> QED BY <1>1, <1>2, <1>3, <1>4 DEF y

LEMMA ReceivedIs ==
    ASSUME NEW x \in InterfaceSet, NEW d \in Datagram
    PROVE  LET y == Received(x, d)
           IN  /\ y \in InterfaceSet /\ y.datagrams_out = Append(x.datagrams_out, d)
               /\ y.failed = x.failed
               /\ \A S : \A life : \A i : InterfaceOK(S, life, i, x) /\ Got(S, i, d)
                                            => InterfaceOK(S, life, i, y)
               /\ Once(x) /\ d.id \notin Carried(x) => Once(y)
               /\ Carried(y) = Carried(x) \cup {d.id}
<1> DEFINE q == Append(x.datagrams_out, d)
           y == [x EXCEPT !.datagrams_out = q]
<1>1. x.datagrams_out \in Seq(Datagram)
  BY DEF InterfaceSet
<1>2. q \in Seq(Datagram) /\ Range(q) = Range(x.datagrams_out) \cup {d}
  BY <1>1, RangeAppend
<1>3. Ids(q) = Ids(x.datagrams_out) \cup {d.id}
  BY <1>2 DEF Ids
<1>4. Distinct(x.datagrams_out) /\ d.id \notin Ids(x.datagrams_out) => Distinct(q)
  BY <1>1, DistinctAppend
<1>5. y = Received(x, d)
  BY DEF Received
<1> SUFFICES /\ y \in InterfaceSet /\ y.datagrams_out = q
             /\ y.failed = x.failed
             /\ \A S : \A life : \A i : InterfaceOK(S, life, i, x) /\ Got(S, i, d)
                                          => InterfaceOK(S, life, i, y)
             /\ Once(x) /\ d.id \notin Carried(x) => Once(y)
             /\ Carried(y) = Carried(x) \cup {d.id}
  BY Zenon DEF Received
<1> HIDE DEF q
<1>6. /\ y \in InterfaceSet /\ y.datagrams_out = q /\ y.failed = x.failed
      /\ OnceOut(y) <=> OnceOut(x)
      /\ Outgoing(y) = Outgoing(x)
  BY <1>2, DatagramsOutIs
<1>7. \A S : \A life : \A i :
        (InterfaceOK(S, life, i, x) /\ \A e \in Range(q) : Got(S, i, e))
            => InterfaceOK(S, life, i, y)
  BY <1>2, DatagramsOutIs
<1> HIDE DEF y
<1>8. \A S : \A life : \A i : InterfaceOK(S, life, i, x) /\ Got(S, i, d)
                                => InterfaceOK(S, life, i, y)
  BY <1>2, <1>7 DEF InterfaceOK
<1>9. Once(x) /\ d.id \notin Carried(x) => Once(y)
  BY <1>3, <1>4, <1>6 DEF Once, Carried
<1>10. Carried(y) = Carried(x) \cup {d.id}
  BY <1>3, <1>6 DEF Carried
<1> QED BY <1>6, <1>8, <1>9, <1>10

LEMMA PoppedIs ==
    ASSUME NEW x \in InterfaceSet, x.datagrams_out # << >>
    PROVE  LET y == Popped(x)
           IN  /\ y \in InterfaceSet /\ y.datagrams_out = Tail(x.datagrams_out)
               /\ y.failed = x.failed
               /\ \A S : \A life : \A i : InterfaceOK(S, life, i, x) => InterfaceOK(S, life, i, y)
               /\ OnceOut(y) <=> OnceOut(x)
               /\ Outgoing(y) = Outgoing(x)
<1> DEFINE q == Tail(x.datagrams_out)
           y == [x EXCEPT !.datagrams_out = q]
<1>1. x.datagrams_out \in Seq(Datagram)
  BY DEF InterfaceSet
<1>2. q \in Seq(Datagram) /\ Range(q) \subseteq Range(x.datagrams_out)
  BY <1>1, RangeTail
<1>3. y = Popped(x)
  BY DEF Popped
<1> SUFFICES /\ y \in InterfaceSet /\ y.datagrams_out = q /\ y.failed = x.failed
             /\ \A S : \A life : \A i : InterfaceOK(S, life, i, x) => InterfaceOK(S, life, i, y)
             /\ OnceOut(y) <=> OnceOut(x)
             /\ Outgoing(y) = Outgoing(x)
  BY <1>3
<1> HIDE DEF q
<1>4. /\ y \in InterfaceSet /\ y.datagrams_out = q /\ y.failed = x.failed
      /\ OnceOut(y) <=> OnceOut(x)
      /\ Outgoing(y) = Outgoing(x)
  BY <1>2, DatagramsOutIs
<1>5. \A S : \A life : \A i :
        (InterfaceOK(S, life, i, x) /\ \A e \in Range(q) : Got(S, i, e))
            => InterfaceOK(S, life, i, y)
  BY <1>2, DatagramsOutIs
<1> HIDE DEF y
<1>6. \A S : \A life : \A i : InterfaceOK(S, life, i, x) => InterfaceOK(S, life, i, y)
  BY <1>2, <1>5 DEF InterfaceOK
<1> QED BY <1>4, <1>6

\* The first frame is taken out of the queue, or another put in its place.
LEMMA FramesOutIs ==
    ASSUME NEW x \in InterfaceSet, NEW fs \in Seq(Frame)
    PROVE  LET y == [x EXCEPT !.frames_out = fs]
           IN  /\ y \in InterfaceSet /\ y.frames_out = fs
               /\ y.mac = x.mac /\ y.ip = x.ip /\ y.arp_cache = x.arp_cache
               /\ y.pending = x.pending /\ y.datagrams_out = x.datagrams_out
               /\ y.failed = x.failed
               /\ \A S : \A life : \A i :
                    (InterfaceOK(S, life, i, x) /\ \A f \in Range(fs) : FrameOK(S, life, i, f))
                        => InterfaceOK(S, life, i, y)
               /\ (/\ Once(x) /\ DistinctFrames(fs)
                   /\ FrameIds(fs) \subseteq FrameIds(x.frames_out)) => Once(y)
               /\ Carried(y) = Waiting(x) \cup FrameIds(fs) \cup Ids(x.datagrams_out)
<1> DEFINE y == [x EXCEPT !.frames_out = fs]
<1>1. /\ y \in InterfaceSet /\ y.frames_out = fs
      /\ y.mac = x.mac /\ y.ip = x.ip /\ y.arp_cache = x.arp_cache
      /\ y.pending = x.pending /\ y.datagrams_out = x.datagrams_out /\ y.failed = x.failed
  BY DEF InterfaceSet
<1> HIDE DEF y
<1>2. \A S : \A life : \A i :
        (InterfaceOK(S, life, i, x) /\ \A f \in Range(fs) : FrameOK(S, life, i, f))
            => InterfaceOK(S, life, i, y)
  BY <1>1 DEF InterfaceOK, Knows
<1>3. Waiting(y) = Waiting(x)
  BY <1>1 DEF Waiting
<1>4. (/\ Once(x) /\ DistinctFrames(fs)
       /\ FrameIds(fs) \subseteq FrameIds(x.frames_out)) => Once(y)
  BY <1>1, <1>3 DEF Once, OnceOut, Outgoing
<1>5. Carried(y) = Waiting(x) \cup FrameIds(fs) \cup Ids(x.datagrams_out)
  BY <1>1, <1>3 DEF Carried, Outgoing
<1> QED BY <1>1, <1>2, <1>4, <1>5 DEF y
LEMMA RecvARPOut ==
    ASSUME NEW x \in InterfaceSet, NEW arp \in ARPMessage
    PROVE  recv_arp(x, arp).datagrams_out = x.datagrams_out
<1> DEFINE z == Learn(x, arp)
           a == arp.sender_ip
           mac == arp.sender_mac
           f == ARPFrame(x, mac, "REPLY", a)
           c == Cleared(z, a)
           q == z.pending[a]
<1>1. a \in IPs /\ mac \in FrameAddresses
  BY DEF ARPMessage, FrameAddresses
<1>2. \/ recv_arp(x, arp) = z
      \/ recv_arp(x, arp) = Emit(z, << f >>)
      \/ recv_arp(x, arp) = EmitIPv4(c, mac, q)
  BY RecvARPIs
<1>3. z \in InterfaceSet /\ z.datagrams_out = x.datagrams_out
  BY LearnIs
<1>4. << f >> \in Seq(Frame)
  BY <1>1, ARPFrameIs
<1> HIDE DEF z
<1>5. c \in InterfaceSet /\ c.datagrams_out = z.datagrams_out
  BY <1>1, <1>3, ClearedIs
<1>6. q \in Seq(Datagram)
  BY <1>1, <1>3 DEF InterfaceSet
<1> HIDE DEF a, mac, f, c, q
<1>7. Emit(z, << f >>).datagrams_out = z.datagrams_out
  BY <1>3, <1>4, EmitIs
<1>8. EmitIPv4(c, mac, q).datagrams_out = c.datagrams_out
  BY <1>1, <1>5, <1>6, EmitIPv4Is
<1> QED BY <1>2, <1>3, <1>5, <1>7, <1>8

LEMMA RecvIs ==
    ASSUME NEW x, NEW f
    PROVE  LET y == recv_frame(x, f)
           IN  \/ y = x
               \/ f.type = "ARP" /\ y = recv_arp(x, f.payload)
               \/ f.type = "IPv4" /\ Accepts(x, f) /\ y = Received(x, f.payload)
  BY DEF recv_frame, Received

LEMMA PayloadIs ==
    ASSUME NEW f \in Frame
    PROVE  /\ f.type \in {"ARP", "IPv4"}
           /\ f.type = "ARP" => f.payload \in ARPMessage
           /\ f.type = "IPv4" => f.payload \in Datagram
           /\ f.dst \in FrameAddresses /\ f.src \in MACs
  BY DEF Frame

\* A datagram d came to x.
Takes(x, y, d) == y.datagrams_out = Append(x.datagrams_out, d)

\* A frame from an interface j on the same wire.
LEMMA RecvKeeps ==
    ASSUME NEW S, NEW life \in Nat, NEW j \in Names, NEW i \in Others(j),
           NEW x, InterfaceOK(S, life, i, x),
           NEW f \in Frame, FrameOK(S, life, j, f)
    PROVE  LET y == recv_frame(x, f)
           IN  /\ InterfaceOK(S, life, i, y)
               /\ \/ y.datagrams_out = x.datagrams_out
                  \/ /\ f.type = "IPv4" /\ f.dst[1] = i /\ Got(S, i, f.payload)
                     /\ Takes(x, y, f.payload)
<1> DEFINE y == recv_frame(x, f)
<1> SUFFICES /\ InterfaceOK(S, life, i, y)
             /\ \/ y.datagrams_out = x.datagrams_out
                \/ /\ f.type = "IPv4" /\ f.dst[1] = i /\ Got(S, i, f.payload)
                   /\ Takes(x, y, f.payload)
  OBVIOUS
<1>1. x \in InterfaceSet /\ i \in Names /\ j \in Others(i)
  BY OthersIs DEF InterfaceOK
<1>2. \/ y = x
      \/ f.type = "ARP" /\ y = recv_arp(x, f.payload)
      \/ f.type = "IPv4" /\ Accepts(x, f) /\ y = Received(x, f.payload)
  BY RecvIs
<1> HIDE DEF y
<1>3. CASE f.type = "ARP" /\ y = recv_arp(x, f.payload)
  <2>1. f.payload \in ARPMessage /\ f.payload.sender_ip \in IPs
    BY <1>3, PayloadIs DEF ARPMessage
  <2>2. OwnerMAC(life, i, f.payload.sender_ip, f.payload.sender_mac)
    BY <1>1, <1>3 DEF FrameOK, OwnerMAC
  <2> DEFINE arp == f.payload
  <2> HIDE DEF arp
  <2>3. InterfaceOK(S, life, i, recv_arp(x, arp)) /\ recv_arp(x, arp).datagrams_out = x.datagrams_out
    BY <1>1, <2>1, <2>2, RecvARPKeeps DEF arp
  <2> QED BY <1>3, <2>3 DEF arp
<1>4. CASE f.type = "IPv4" /\ Accepts(x, f) /\ y = Received(x, f.payload)
  <2>1. f.payload \in Datagram
    BY <1>4, PayloadIs
  <2>2. f.dst[1] = i /\ Got(S, i, f.payload)
    BY <1>4, AcceptedIs
  <2>3. /\ Takes(x, y, f.payload)
        /\ InterfaceOK(S, life, i, y)
    BY <1>1, <1>4, <2>1, <2>2, ReceivedIs DEF Takes
  <2> QED BY <1>4, <2>2, <2>3
<1> QED BY <1>2, <1>3, <1>4

LEMMA RecvOnce ==
    ASSUME NEW x \in InterfaceSet, Once(x), NEW f \in Frame,
           f.type = "IPv4" => f.payload.id \notin Carried(x)
    PROVE  LET y == recv_frame(x, f)
           IN  /\ Once(y)
               /\ \/ Carried(y) \subseteq Carried(x)
                  \/ /\ f.type = "IPv4" /\ Accepts(x, f)
                     /\ Carried(y) = Carried(x) \cup {f.payload.id}
<1> DEFINE y == recv_frame(x, f)
<1> SUFFICES /\ Once(y)
             /\ \/ Carried(y) \subseteq Carried(x)
                \/ /\ f.type = "IPv4" /\ Accepts(x, f)
                   /\ Carried(y) = Carried(x) \cup {f.payload.id}
  OBVIOUS
<1>1. \/ y = x
      \/ f.type = "ARP" /\ y = recv_arp(x, f.payload)
      \/ f.type = "IPv4" /\ Accepts(x, f) /\ y = Received(x, f.payload)
  BY RecvIs
<1> HIDE DEF y
<1>2. CASE f.type = "ARP" /\ y = recv_arp(x, f.payload)
  <2> DEFINE arp == f.payload
             z == recv_arp(x, arp)
  <2>1. arp \in ARPMessage
    BY <1>2, PayloadIs
  <2> HIDE DEF arp
  <2>2. OnceOut(z) /\ Outgoing(z) \subseteq Outgoing(x)
    BY <2>1, RecvARPOnce DEF Once
  <2>3. z.datagrams_out = x.datagrams_out
    BY <2>1, RecvARPOut
  <2> HIDE DEF z
  <2>4. Once(z) /\ Carried(z) \subseteq Carried(x)
    BY <2>2, <2>3 DEF Once, Carried
  <2>5. y = z
    BY <1>2 DEF z, arp
  <2> QED BY <2>4, <2>5
<1>3. CASE f.type = "IPv4" /\ Accepts(x, f) /\ y = Received(x, f.payload)
  <2>1. f.payload \in Datagram
    BY <1>3, PayloadIs
  <2> QED BY <1>3, <2>1, ReceivedIs
<1> QED BY <1>1, <1>2, <1>3

LEMMA TakenIs ==
    ASSUME NEW x \in InterfaceSet, x.frames_out # << >>
    PROVE  LET f == Head(x.frames_out)
               y == [x EXCEPT !.frames_out = Tail(@)]
           IN  /\ f \in Frame /\ y \in InterfaceSet /\ y.datagrams_out = x.datagrams_out
               /\ \A S : \A life : \A i : InterfaceOK(S, life, i, x) =>
                    InterfaceOK(S, life, i, y) /\ FrameOK(S, life, i, f)
               /\ Once(x) => /\ Once(y)
                             /\ Carried(y) \subseteq Carried(x)
                             /\ f.type = "IPv4" => f.payload.id \in Carried(x) \ Carried(y)
<1> DEFINE fs == Tail(x.frames_out)
           f == Head(x.frames_out)
           y == [x EXCEPT !.frames_out = fs]
<1>1. x.frames_out \in Seq(Frame)
  BY DEF InterfaceSet
<1>2. fs \in Seq(Frame) /\ Range(fs) \subseteq Range(x.frames_out) /\ f \in Range(x.frames_out)
      /\ f \in Frame
  BY <1>1, RangeTail
<1>3. DistinctFrames(x.frames_out) =>
        /\ DistinctFrames(fs) /\ FrameIds(fs) \subseteq FrameIds(x.frames_out)
        /\ f.type = "IPv4" => f.payload.id \in FrameIds(x.frames_out) \ FrameIds(fs)
  BY <1>1, FramesTail
<1> SUFFICES /\ f \in Frame /\ y \in InterfaceSet /\ y.datagrams_out = x.datagrams_out
             /\ \A S : \A life : \A i : InterfaceOK(S, life, i, x) =>
                  InterfaceOK(S, life, i, y) /\ FrameOK(S, life, i, f)
             /\ Once(x) => /\ Once(y)
                           /\ Carried(y) \subseteq Carried(x)
                           /\ f.type = "IPv4" => f.payload.id \in Carried(x) \ Carried(y)
  OBVIOUS
<1> HIDE DEF fs, f
<1>4. /\ y \in InterfaceSet /\ y.datagrams_out = x.datagrams_out
      /\ (/\ Once(x) /\ DistinctFrames(fs)
          /\ FrameIds(fs) \subseteq FrameIds(x.frames_out)) => Once(y)
      /\ Carried(y) = Waiting(x) \cup FrameIds(fs) \cup Ids(x.datagrams_out)
  BY <1>2, FramesOutIs
<1>5. \A S : \A life : \A i :
        (InterfaceOK(S, life, i, x) /\ \A g \in Range(fs) : FrameOK(S, life, i, g))
            => InterfaceOK(S, life, i, y)
  BY <1>2, FramesOutIs
<1> HIDE DEF y
<1>6. ASSUME NEW S, NEW life, NEW i, InterfaceOK(S, life, i, x)
      PROVE  InterfaceOK(S, life, i, y) /\ FrameOK(S, life, i, f)
  <2>1. \A g \in Range(x.frames_out) : FrameOK(S, life, i, g)
    BY <1>6 DEF InterfaceOK
  <2> QED BY <1>2, <1>5, <1>6, <2>1
<1>7. Once(x) => /\ Once(y)
                 /\ Carried(y) \subseteq Carried(x)
                 /\ f.type = "IPv4" => f.payload.id \in Carried(x) \ Carried(y)
  BY <1>3, <1>4 DEF Once, OnceOut, Carried, Outgoing
<1> QED BY <1>2, <1>4, <1>6, <1>7
\* What a wire makes of a datagram: the same number, and what can become of it.
LEMMA DamagedDatagramIs ==
    ASSUME NEW d \in Datagram, NEW e \in DamagedDatagrams(d)
    PROVE  /\ e \in Datagram /\ e.id = d.id
           /\ e = [d EXCEPT !.src = e.src, !.dst = e.dst, !.ttl = e.ttl, !.cksum = e.cksum,
                            !.header = e.header]
           /\ e.cksum \in {d.cksum, Corrupt}
<1> DEFINE bad == [d EXCEPT !.header = "BadChecksum"]
<1>1. bad \in Datagram /\ "BadChecksum" \in HeaderResults
  BY DEF Datagram, HeaderResults
<1>2. ASSUME NEW result \in HeaderResults, e = [d EXCEPT !.header = result]
      PROVE  e \in Datagram /\ e.cksum = d.cksum
  BY <1>2 DEF Datagram
<1>3. ASSUME NEW ip \in IPs, e = [bad EXCEPT !.src = ip] \/ e = [bad EXCEPT !.dst = ip]
      PROVE  e \in Datagram /\ e.cksum = d.cksum
  BY <1>3, <1>1 DEF Datagram
<1>4. ASSUME NEW ttl \in Nat, e = [bad EXCEPT !.ttl = ttl]
      PROVE  e \in Datagram /\ e.cksum = d.cksum
  BY <1>4, <1>1 DEF Datagram
<1>5. ASSUME e = [d EXCEPT !.cksum = Corrupt]
      PROVE  e \in Datagram /\ e.cksum = Corrupt
  BY <1>5 DEF Datagram
<1>6. e = [d EXCEPT !.src = e.src, !.dst = e.dst, !.ttl = e.ttl, !.cksum = e.cksum,
                    !.header = e.header]
  BY DEF DamagedDatagrams, Datagram
<1>7. e \in Datagram /\ e.cksum \in {d.cksum, Corrupt}
  <2>1. \/ \E result \in HeaderResults : e = [d EXCEPT !.header = result]
        \/ \E ip \in IPs : e = [bad EXCEPT !.src = ip] \/ e = [bad EXCEPT !.dst = ip]
        \/ \E ttl \in 0..MaxTTL : e = [bad EXCEPT !.ttl = ttl]
        \/ e = [d EXCEPT !.cksum = Corrupt]
    BY DEF DamagedDatagrams
  <2>2. 0..MaxTTL \subseteq Nat
    BY NetworkAssumption
  <2> HIDE DEF bad
  <2> QED BY <1>2, <1>3, <1>4, <1>5, <2>1, <2>2
<1> QED BY <1>6, <1>7 DEF Datagram

\* A damaged frame is from and for the same interfaces, and its datagram is what it was
\* but for the verdict on the header, or it is altered.
LEMMA DamagedIs ==
    ASSUME NEW f \in Frame, NEW g \in Damaged(f)
    PROVE  /\ g \in Frame /\ g.type = f.type /\ g.dst = f.dst
           /\ g.type = "ARP" => /\ g.payload.sender_ip = f.payload.sender_ip
                                /\ g.payload.sender_mac = f.payload.sender_mac
           /\ g.type = "IPv4" => /\ g.payload.id = f.payload.id
                                 /\ g.payload \in DamagedDatagrams(f.payload)
<1>1. CASE f.type = "ARP"
  <2>1. g = [f EXCEPT !.payload.opcode = "OTHER"] /\ f.payload \in ARPMessage
    BY <1>1, PayloadIs DEF Damaged
  <2> DEFINE p == [f.payload EXCEPT !.opcode = "OTHER"]
  <2>2. p \in ARPMessage /\ p.sender_ip = f.payload.sender_ip /\ p.sender_mac = f.payload.sender_mac
    BY <2>1 DEF ARPMessage
  <2>3. g = [f EXCEPT !.payload = p]
    BY <2>1
  <2> HIDE DEF p
  <2> QED BY <2>2, <2>3, <1>1 DEF Frame
<1>2. CASE f.type # "ARP"
  <2>1. PICK e \in DamagedDatagrams(f.payload) : g = [f EXCEPT !.payload = e]
    BY <1>2 DEF Damaged
  <2>2. f.payload \in Datagram /\ f.type = "IPv4"
    BY <1>2, PayloadIs
  <2>3. e \in Datagram /\ e.id = f.payload.id
    BY <2>2, DamagedDatagramIs
  <2> QED BY <2>1, <2>2, <2>3 DEF Frame
<1> QED BY <1>1, <1>2

\* What is altered twice is altered once.
LEMMA AlteredAgain ==
    ASSUME NEW d \in Datagram, NEW e \in DamagedDatagrams(d), NEW o,
           Service!AlteredFrom(serialized(d), o)
    PROVE  o.id = d.id /\ Service!AlteredFrom(serialized(e), o)
<1>1. /\ e \in Datagram /\ e.cksum \in {d.cksum, Corrupt}
      /\ e = [d EXCEPT !.src = e.src, !.dst = e.dst, !.ttl = e.ttl, !.cksum = e.cksum,
                       !.header = e.header]
  BY DamagedDatagramIs
<1> DEFINE p == serialized(d)
           q == serialized(e)
<1>2. p \in Datagram /\ q \in Datagram
  BY <1>1, SerializedIs
<1>3. /\ q.cksum \in {p.cksum, Corrupt}
      /\ q = [p EXCEPT !.src = q.src, !.dst = q.dst, !.ttl = q.ttl, !.cksum = q.cksum]
  BY <1>1 DEF serialized, Datagram
<1>4. p.id = d.id
  BY SerializedIs
<1> HIDE DEF p, q
<1>5. /\ p = [o EXCEPT !.src = p.src, !.dst = p.dst, !.ttl = p.ttl, !.cksum = p.cksum]
      /\ p.cksum \in {o.cksum, Corrupt}
  BY DEF Service!AlteredFrom, Corrupt, p
<1>6. q = [o EXCEPT !.src = q.src, !.dst = q.dst, !.ttl = q.ttl, !.cksum = q.cksum]
  BY <1>2, <1>3, <1>5 DEF Datagram
<1>7. o.id = p.id
  BY <1>2, <1>5 DEF Datagram
<1>8. Service!AlteredFrom(q, o)
  BY <1>3, <1>5, <1>6 DEF Service!AlteredFrom, Corrupt
<1> QED BY <1>4, <1>7, <1>8 DEF q

\* A damaged datagram is meant for whom it was, or it is altered.
LEMMA DamagedMeant ==
    ASSUME NEW d \in Datagram, NEW e \in DamagedDatagrams(d), NEW S, NEW i, NEW a,
           Meant(S, i, a, d), serialized(e) # serialized(d) => d.id \in S.altered
    PROVE  Meant(S, i, a, e)
<1>1. CASE serialized(e) = serialized(d)
  BY <1>1 DEF Meant, Stray
<1>2. CASE serialized(e) # serialized(d)
  <2>1. serialized(d) \in Datagram /\ d.id \in S.altered
    BY <1>2, SerializedIs
  <2>2. PICK o \in S.sent : Service!AlteredFrom(serialized(d), o)
    <3>1. Service!AlteredFrom(serialized(d), serialized(d))
      BY <2>1 DEF Service!AlteredFrom, Datagram
    <3>2. ASSUME NEW s, serialized(d) = Service!Routed(s)
          PROVE  Service!AlteredFrom(serialized(d), s)
      <4> DEFINE p == serialized(d)
      <4>1. p = [s EXCEPT !.ttl = s.ttl - 1] /\ p \in Datagram
        BY <2>1, <3>2 DEF Service!Routed
      <4> HIDE DEF p
      <4>2. Service!AlteredFrom(p, s)
        BY <4>1 DEF Service!AlteredFrom, Datagram
      <4> QED BY <4>2 DEF p
    <3> QED BY <3>1, <3>2 DEF Meant, Stray
  <2>3. o.id = d.id /\ Service!AlteredFrom(serialized(e), o)
    BY <2>2, AlteredAgain
  <2>4. Stray(S, e)
    BY <2>1, <2>2, <2>3 DEF Stray
  <2> QED BY <2>4 DEF Meant
<1> QED BY <1>1, <1>2

LEMMA DamageKeeps ==
    ASSUME NEW x \in InterfaceSet, x.frames_out # << >>, NEW g \in Damaged(Head(x.frames_out))
    PROVE  LET y == [x EXCEPT !.frames_out[1] = g]
           IN  /\ y \in InterfaceSet /\ y.datagrams_out = x.datagrams_out
               /\ \A S : \A life : \A i :
                    (/\ InterfaceOK(S, life, i, x)
                     /\ AlteredId(Head(x.frames_out), g) \subseteq S.altered) => InterfaceOK(S, life, i, y)
               /\ Once(x) => Once(y) /\ Carried(y) \subseteq Carried(x)
<1> DEFINE fs == [x.frames_out EXCEPT ![1] = g]
           f == Head(x.frames_out)
           y == [x EXCEPT !.frames_out = fs]
<1>1. x.frames_out \in Seq(Frame)
  BY DEF InterfaceSet
<1>2. f \in Frame /\ f \in Range(x.frames_out) /\ f = x.frames_out[1] /\ 1 \in DOMAIN x.frames_out
  BY <1>1, RangeTail
<1>3. /\ g \in Frame /\ g.type = f.type /\ g.dst = f.dst
      /\ g.type = "ARP" => /\ g.payload.sender_ip = f.payload.sender_ip
                           /\ g.payload.sender_mac = f.payload.sender_mac
      /\ g.type = "IPv4" => /\ g.payload.id = f.payload.id
                            /\ g.payload \in DamagedDatagrams(f.payload)
  BY <1>2, DamagedIs
<1>4. /\ fs \in Seq(Frame) /\ DOMAIN fs = DOMAIN x.frames_out
      /\ \A k \in DOMAIN fs : fs[k] = IF k = 1 THEN g ELSE x.frames_out[k]
      /\ Range(fs) \subseteq Range(x.frames_out) \cup {g}
  BY <1>1, <1>3, RangeReplace
<1> SUFFICES /\ y \in InterfaceSet /\ y.datagrams_out = x.datagrams_out
             /\ \A S : \A life : \A i :
                  (/\ InterfaceOK(S, life, i, x)
                   /\ AlteredId(f, g) \subseteq S.altered) => InterfaceOK(S, life, i, y)
             /\ Once(x) => Once(y) /\ Carried(y) \subseteq Carried(x)
  OBVIOUS
<1> HIDE DEF fs, f
<1>5. DistinctFrames(x.frames_out) => DistinctFrames(fs)
  BY <1>2, <1>3, <1>4 DEF DistinctFrames
<1>6. FrameIds(fs) \subseteq FrameIds(x.frames_out)
  BY <1>2, <1>3, <1>4 DEF FrameIds
<1>7. ASSUME NEW S, NEW life, NEW i, FrameOK(S, life, i, f), AlteredId(f, g) \subseteq S.altered
      PROVE  FrameOK(S, life, i, g)
  <2>1. f.type \in {"ARP", "IPv4"}
    BY <1>2, PayloadIs
  <2>2. CASE f.type = "ARP"
    BY <1>3, <1>7, <2>2 DEF FrameOK
  <2>3. CASE f.type = "IPv4"
    <3>1. PICK a \in IPs : OwnerMAC(life, i, a, f.dst) /\ Meant(S, i, a, f.payload)
      BY <1>7, <2>3 DEF FrameOK
    <3>2. f.payload \in Datagram /\ g.payload \in DamagedDatagrams(f.payload)
      BY <1>2, <1>3, <2>3, PayloadIs
    <3>3. serialized(g.payload) # serialized(f.payload) => f.payload.id \in S.altered
      BY <1>7, <2>3 DEF AlteredId
    <3>4. Meant(S, i, a, g.payload)
      BY <3>1, <3>2, <3>3, DamagedMeant
    <3> QED BY <1>3, <2>3, <3>1, <3>4 DEF FrameOK
  <2> QED BY <2>1, <2>2, <2>3
<1>8. /\ y \in InterfaceSet /\ y.datagrams_out = x.datagrams_out
      /\ (/\ Once(x) /\ DistinctFrames(fs)
          /\ FrameIds(fs) \subseteq FrameIds(x.frames_out)) => Once(y)
      /\ Carried(y) = Waiting(x) \cup FrameIds(fs) \cup Ids(x.datagrams_out)
  BY <1>4, FramesOutIs
<1>9. \A S : \A life : \A i :
        (InterfaceOK(S, life, i, x) /\ \A h \in Range(fs) : FrameOK(S, life, i, h))
            => InterfaceOK(S, life, i, y)
  BY <1>4, FramesOutIs
<1> HIDE DEF y
<1>10. ASSUME NEW S, NEW life, NEW i, InterfaceOK(S, life, i, x), AlteredId(f, g) \subseteq S.altered
       PROVE  InterfaceOK(S, life, i, y)
  <2>1. \A h \in Range(x.frames_out) : FrameOK(S, life, i, h)
    BY <1>10 DEF InterfaceOK
  <2> QED BY <1>2, <1>4, <1>7, <1>9, <1>10, <2>1
<1>11. Once(x) => Once(y) /\ Carried(y) \subseteq Carried(x)
  BY <1>5, <1>6, <1>8 DEF Once, OnceOut, Carried, Outgoing
<1> QED BY <1>8, <1>10, <1>11

\* Time makes an interface forget.
LEMMA TickKeeps ==
    ASSUME NEW x \in InterfaceSet, NEW ticks \in Nat
    PROVE  LET y == interface_tick(x, ticks)
           IN  /\ y \in InterfaceSet /\ y.datagrams_out = x.datagrams_out
               /\ \A S : \A life : \A i : InterfaceOK(S, life, i, x) => InterfaceOK(S, life, i, y)
               /\ Once(y) <=> Once(x)
               /\ Carried(y) = Carried(x)
<1> DEFINE left(a) == Elapse(x.arp_cache[a].left, ticks)
           cache == [a \in IPs |-> IF left(a) = 0 THEN NoMapping
                                   ELSE [x.arp_cache[a] EXCEPT !.left = left(a)]]
           asked == [a \in IPs |-> Elapse(x.arp_requests[a], ticks)]
           y == [x EXCEPT !.arp_cache = cache, !.arp_requests = asked]
<1>1. y = interface_tick(x, ticks)
  BY DEF interface_tick
<1>2. \A n \in Nat : Elapse(n, ticks) \in Nat /\ (n = 0 => Elapse(n, ticks) = 0)
  BY DEF Elapse
<1>3. \A a \in IPs : x.arp_cache[a] \in [mac : FrameAddresses, left : Nat] /\ x.arp_requests[a] \in Nat
  BY DEF InterfaceSet
<1>4. asked \in [IPs -> Nat]
  BY <1>2, <1>3
<1>5. ASSUME NEW a \in IPs
      PROVE  /\ cache[a] \in [mac : FrameAddresses, left : Nat]
             /\ cache[a].left > 0 => /\ x.arp_cache[a].left > 0
                                     /\ cache[a].mac = x.arp_cache[a].mac
  <2>1. left(a) \in Nat /\ (x.arp_cache[a].left = 0 => left(a) = 0) /\ x.arp_cache[a].left \in Nat
    BY <1>2, <1>3
  <2>2. NoMapping \in [mac : FrameAddresses, left : Nat] /\ NoMapping.left = 0
    BY DEF NoMapping, FrameAddresses
  <2> HIDE DEF left
  <2>3. CASE left(a) = 0
    BY <2>2, <2>3
  <2>4. CASE left(a) # 0
    <3> DEFINE m == [x.arp_cache[a] EXCEPT !.left = left(a)]
    <3>1. m \in [mac : FrameAddresses, left : Nat] /\ m.mac = x.arp_cache[a].mac
      BY <1>3, <2>1
    <3>2. cache[a] = m
      BY <2>4
    <3> QED BY <3>1, <3>2, <2>1, <2>4
  <2> QED BY <2>3, <2>4
<1>6. cache \in [IPs -> [mac : FrameAddresses, left : Nat]]
  BY <1>5
<1> SUFFICES /\ y \in InterfaceSet /\ y.datagrams_out = x.datagrams_out
             /\ \A S : \A life : \A i : InterfaceOK(S, life, i, x) => InterfaceOK(S, life, i, y)
             /\ Once(y) <=> Once(x)
             /\ Carried(y) = Carried(x)
  BY <1>1, ZenonT(60)
<1> HIDE DEF cache, asked
<1>7. /\ y \in InterfaceSet /\ y.arp_cache = cache /\ y.mac = x.mac /\ y.ip = x.ip
      /\ y.pending = x.pending /\ y.frames_out = x.frames_out /\ y.datagrams_out = x.datagrams_out
  BY <1>4, <1>6 DEF InterfaceSet
<1> HIDE DEF y
<1>8. \A S : \A life : \A i : InterfaceOK(S, life, i, x) => InterfaceOK(S, life, i, y)
  BY <1>5, <1>7 DEF InterfaceOK, Knows
<1>9. (Once(y) <=> Once(x)) /\ Carried(y) = Carried(x)
  BY <1>7 DEF Once, OnceOut, Carried, Outgoing, Waiting
<1> QED BY <1>7, <1>8, <1>9
\* What was true of where the datagrams are stays true as more are sent.
LEMMA Grows ==
    ASSUME NEW S, NEW T, Within(S, T), NEW life \in Nat, NEW later \in Nat, life =< later,
           NEW i, NEW x, InterfaceOK(S, life, i, x)
    PROVE  InterfaceOK(T, later, i, x)
<1>1. \A l \in 0..life : l \in 0..later
  OBVIOUS
<1>2. \A a, mac : OwnerMAC(life, i, a, mac) => OwnerMAC(later, i, a, mac)
  BY <1>1 DEF OwnerMAC
<1>3. \A d : Stray(S, d) => Stray(T, d)
  BY DEF Stray, Within
<1>4. \A a, d : Meant(S, i, a, d) => Meant(T, i, a, d)
  BY <1>3 DEF Meant, Within
<1>5. \A d : Got(S, i, d) => Got(T, i, d)
  BY <1>3 DEF Got, Within
<1>6. \A f : FrameOK(S, life, i, f) => FrameOK(T, later, i, f)
  BY <1>1, <1>2, <1>4 DEF FrameOK
<1> QED BY <1>1, <1>2, <1>4, <1>5, <1>6 DEF InterfaceOK
-----------------------------------------------------------------------------
(* The router.                                                              *)

\* Numbers have a least element, bounded numbers a greatest.
LEMMA LeastIs ==
    ASSUME NEW T \in SUBSET Nat, T # {}
    PROVE  \E m \in T : \A k \in T : m =< k
<1> DEFINE R == {ss \in Nat \X Nat : ss[1] < ss[2]}
<1>1. IsWellFoundedOn(R, Nat)
  BY NatLessThanWellFounded, Zenon DEF OpToRel
<1>2. \A a, b \in Nat : a < b => <<a, b>> \in R
  OBVIOUS
<1> HIDE DEF R
<1>3. PICK m \in T : \A k \in T : <<k, m>> \notin R
  BY <1>1, WFMin
<1>4. \A k \in T : m =< k
  <2> TAKE k \in T
  <2>1. k \in Nat /\ m \in Nat
    OBVIOUS
  <2>2. ~(k < m)
    BY <1>2, <1>3, <2>1
  <2> QED BY <2>1, <2>2
<1> QED BY <1>4

LEMMA GreatestIs ==
    ASSUME NEW n \in Nat, NEW T \in SUBSET (0..n), T # {}
    PROVE  \E m \in T : \A k \in T : k =< m
<1> DEFINE below == {m \in 0..n : n - m \in T}
<1>1. below \in SUBSET Nat /\ below # {}
  <2>1. PICK k \in T : TRUE
    OBVIOUS
  <2>2. n - k \in 0..n /\ n - (n - k) = k
    OBVIOUS
  <2>3. n - k \in below /\ below \subseteq Nat
    BY <2>2
  <2> HIDE DEF below
  <2> QED BY <2>3
<1>2. PICK d \in below : \A e \in below : d =< e
  <2> HIDE DEF below
  <2> QED BY <1>1, LeastIs
<1>3. n - d \in T
  OBVIOUS
<1>4. \A k \in T : k =< n - d
  <2> TAKE k \in T
  <2>1. n - k \in below /\ d \in Nat /\ k \in Nat
    OBVIOUS
  <2>2. d =< n - k
    BY <1>2, <2>1
  <2> QED BY <2>1, <2>2
<1> QED BY <1>3, <1>4

\* Where a route matches, route_one_datagram takes the preferred one.
LEMMA BestIs ==
    ASSUME NEW dst, Matching(dst) # {}
    PROVE  /\ BestMatch(dst) \in Preferred(dst)
           /\ BestMatch(dst) \in DOMAIN RoutingTable
<1> DEFINE M == Matching(dst)
           length(k) == RoutingTable[k].prefix_length
           lengths == {length(k) : k \in M}
<1>1. /\ M \subseteq 1..Len(RoutingTable) /\ Len(RoutingTable) \in Nat
      /\ DOMAIN RoutingTable = 1..Len(RoutingTable)
  BY RouterAssumption, LenProperties DEF Matching
<1>2. \A k \in M : length(k) \in 0..AddressBits
  <2> TAKE k \in M
  <2>1. RoutingTable[k] \in RouteEntry
    <3> HIDE DEF M
    <3> QED BY <1>1, RouterAssumption, ElementOfSeq
  <2> QED BY <2>1 DEF RouteEntry
<1>3. lengths \in SUBSET (0..AddressBits) /\ lengths # {}
  BY <1>2
<1>4. PICK longest \in lengths : \A l \in lengths : l =< longest
  <2> HIDE DEF lengths
  <2> QED BY <1>3, RouterAssumption, GreatestIs
<1> DEFINE T == {k \in M : length(k) = longest}
<1>5. T \in SUBSET (0..Len(RoutingTable)) /\ T # {}
  BY <1>1
<1>6. PICK last \in T : \A k \in T : k =< last
  <2> HIDE DEF T
  <2> QED BY <1>1, <1>5, GreatestIs
<1>7. \A m \in M : length(m) < length(last) \/ (length(m) = length(last) /\ m =< last)
  <2> TAKE m \in M
  <2>1. length(m) =< longest /\ length(last) = longest /\ length(m) \in Nat /\ longest \in Nat
    BY <1>2, <1>4
  <2> HIDE DEF length, M
  <2> QED BY <1>6, <2>1
<1> DEFINE b == BestMatch(dst)
<1>8. b \in M /\ \A m \in M : length(m) < length(b) \/ (length(m) = length(b) /\ m =< b)
  <2> DEFINE Best(n) == \A m \in M : length(m) < length(n) \/ (length(m) = length(n) /\ m =< n)
  <2>1. last \in M /\ Best(last)
    BY <1>7
  <2>2. b = CHOOSE n \in M : Best(n)
    BY DEF BestMatch
  <2> HIDE DEF Best, M, b
  <2>3. b \in M /\ Best(b)
    BY <2>1, <2>2
  <2> QED BY <2>3 DEF Best
<1>9. \A m \in M \ {b} : m < b \/ ~(m =< b)
  BY <1>1, <1>8
<1>10. b \in Preferred(dst)
  <2> HIDE DEF b
  <2> QED BY <1>8, <1>9 DEF Preferred
<1> QED BY <1>1, <1>8, <1>10
\* Each interface holds what it may.
Holding(S, life, w) ==
    /\ w \in [Names -> InterfaceSet]
    /\ \A j \in Names : InterfaceOK(S, life, j, w[j]) /\ Once(w[j])

\* Each interface carries no more in u than in w, but o some numbers that nobody else
\* carries.
Moved(w, u, o, ids) ==
    /\ \A j \in Names \ {o} : /\ Carried(u[j]) \subseteq Carried(w[j])
                              /\ Carried(u[j]) \cap ids = {}
    /\ o \in Names => Carried(u[o]) \subseteq Carried(w[o]) \cup ids

LEMMA FineMoves ==
    ASSUME NEW S, NEW life, NEW w, Fine(S, life, w),
           NEW T, Within(S, T), NEW later, NEW u, Holding(T, later, u),
           NEW o, NEW ids, ids \subseteq {d.id : d \in T.sent}, Moved(w, u, o, ids)
    PROVE  Fine(T, later, u)
<1> USE DEF Moved, Holding
<1>1. \A j \in Names : Carried(u[j]) \subseteq {d.id : d \in T.sent}
  <2>1. {d.id : d \in S.sent} \subseteq {d.id : d \in T.sent}
    BY DEF Within
  <2>2. \A j \in Names : Carried(w[j]) \subseteq {d.id : d \in S.sent}
    BY DEF Fine
  <2> QED BY <2>1, <2>2
<1>2. ASSUME NEW j \in Names, NEW k \in Names, j # k
      PROVE  Carried(u[j]) \cap Carried(u[k]) = {}
  <2>1. Carried(w[j]) \cap Carried(w[k]) = {}
    BY <1>2 DEF Fine
  <2>2. CASE j = o
    BY <1>2, <2>1, <2>2
  <2>3. CASE k = o
    BY <1>2, <2>1, <2>3
  <2>4. CASE j # o /\ k # o
    BY <1>2, <2>1, <2>4
  <2> QED BY <2>2, <2>3, <2>4
<1> QED BY <1>1, <1>2 DEF Fine

\* A datagram on its way from the router carries the number it came with, and is meant
\* for the next hop on the preferred route.
LEMMA HopIs ==
    ASSUME NEW S, NEW d \in Datagram, serialized(d) \in S.sent \/ Stray(S, d),
           d.ttl > 1, Matching(d.dst) # {}
    PROVE  LET entry == RoutingTable[BestMatch(d.dst)]
               e == [d EXCEPT !.ttl = @ - 1]
           IN  /\ e \in Datagram /\ e.id = d.id
               /\ entry.interface \in Range(RouterPorts) /\ HopOn(entry, d.dst) \in IPs
               /\ Meant(S, entry.interface, HopOn(entry, d.dst), e)
<1> DEFINE n == BestMatch(d.dst)
           entry == RoutingTable[n]
           e == [d EXCEPT !.ttl = @ - 1]
           s == serialized(d)
<1>1. n \in Preferred(d.dst) /\ n \in DOMAIN RoutingTable
  BY BestIs
<1>2. entry \in RouteEntry
  <2> HIDE DEF n
  <2> QED BY <1>1, RouterAssumption, LenProperties, ElementOfSeq
<1>3. entry.interface \in Range(RouterPorts) /\ entry.next_hop \in IPs \cup {Direct}
  BY <1>2 DEF RouteEntry
<1>4. d.dst \in IPs /\ d.ttl \in Nat
  BY DEF Datagram
<1>5. HopOn(entry, d.dst) \in IPs
  BY <1>3, <1>4 DEF HopOn
<1>6. d.ttl - 1 \in Nat
  BY <1>4
<1>7. e \in Datagram /\ e.id = d.id
  BY <1>6 DEF Datagram
<1>8. s.dst = d.dst /\ s.ttl = d.ttl /\ serialized(e) = Service!Routed(s)
  BY DEF serialized, Datagram, Service!Routed
<1>9. entry.interface \notin Hosts
  BY <1>3, NetworkAssumption
<1>10. s \in Datagram
  BY SerializedIs
<1>11. Stray(S, d) <=> \E o \in S.sent : o.id \in S.altered /\ Service!AlteredFrom(s, o)
  BY DEF Stray
<1> HIDE DEF n, e, s
<1>12. ASSUME Stray(S, d) PROVE Meant(S, entry.interface, HopOn(entry, d.dst), e)
  <2>1. PICK o \in S.sent : o.id \in S.altered /\ Service!AlteredFrom(s, o)
    BY <1>11, <1>12
  <2>2. Service!AlteredFrom(Service!Routed(s), o)
    BY <1>10, <2>1 DEF Service!AlteredFrom, Service!Routed, Datagram
  <2>3. Stray(S, e)
    BY <1>8, <2>1, <2>2 DEF Stray
  <2> HIDE DEF entry
  <2> QED BY <1>9, <2>3 DEF Meant
<1>13. ASSUME s \in S.sent PROVE Meant(S, entry.interface, HopOn(entry, d.dst), e)
  <2>1. s \in S.sent /\ s.ttl > 1 /\ s.dst \in IPs /\ n \in Preferred(s.dst)
    BY <1>1, <1>4, <1>8, <1>13
  <2>2. HopOn(entry, d.dst) = HopOn(RoutingTable[n], s.dst)
    BY <1>8
  <2> HIDE DEF entry
  <2>3. entry.interface = RoutingTable[n].interface
    BY DEF entry
  <2> QED BY <1>8, <1>9, <2>1, <2>2, <2>3 DEF Meant
<1>14. s \in S.sent \/ Stray(S, d)
  BY DEF s
<1>15. Meant(S, entry.interface, HopOn(entry, d.dst), e)
  BY <1>12, <1>13, <1>14
<1> QED BY <1>3, <1>5, <1>7, <1>15 DEF n, e
\* The number of a datagram at the front is nobody else's.
LEMMA FrontIs ==
    ASSUME NEW S, NEW life, NEW w, Fine(S, life, w), NEW i \in Names,
           w[i].datagrams_out # << >>
    PROVE  LET d == Head(w[i].datagrams_out)
               p == Popped(w[i])
           IN  /\ d \in Datagram /\ Got(S, i, d) /\ d.id \in {s.id : s \in S.sent}
               /\ p \in InterfaceSet /\ InterfaceOK(S, life, i, p) /\ Once(p)
               /\ Outgoing(p) = Outgoing(w[i]) /\ Carried(p) \subseteq Carried(w[i]) \ {d.id}
               /\ \A j \in Names \ {i} : d.id \notin Carried(w[j])
<1> DEFINE x == w[i]
           q == x.datagrams_out
           d == Head(q)
           p == Popped(x)
<1> SUFFICES /\ d \in Datagram /\ Got(S, i, d) /\ d.id \in {s.id : s \in S.sent}
             /\ p \in InterfaceSet /\ InterfaceOK(S, life, i, p) /\ Once(p)
             /\ Outgoing(p) = Outgoing(x) /\ Carried(p) \subseteq Carried(x) \ {d.id}
             /\ \A j \in Names \ {i} : d.id \notin Carried(w[j])
  OBVIOUS
<1>1. x \in InterfaceSet /\ InterfaceOK(S, life, i, x) /\ Once(x)
      /\ Carried(x) \subseteq {s.id : s \in S.sent}
  BY DEF Fine
<1>2. \A j \in Names \ {i} : Carried(x) \cap Carried(w[j]) = {}
  BY DEF Fine
<1>3. q # << >> /\ q \in Seq(Datagram)
  BY <1>1 DEF InterfaceSet
<1> HIDE DEF x
<1>4. /\ p \in InterfaceSet /\ p.datagrams_out = Tail(q) /\ InterfaceOK(S, life, i, p)
      /\ OnceOut(p) /\ Outgoing(p) = Outgoing(x)
  BY <1>1, <1>3, PoppedIs DEF Once
<1>5. Distinct(q)
  BY <1>1 DEF Once
<1> HIDE DEF q
<1>6. d \in Range(q) /\ d \in Datagram
  BY <1>3, RangeTail
<1>7. Distinct(Tail(q)) /\ Ids(Tail(q)) \subseteq Ids(q) \ {d.id}
  BY <1>3, <1>5, DistinctTail
<1> HIDE DEF d, p
<1>8. d.id \in Ids(q)
  BY <1>6 DEF Ids
<1>9. Outgoing(x) \cap Ids(q) = {} /\ Carried(x) = Outgoing(x) \cup Ids(q)
  BY <1>1 DEF Once, Carried, q
<1>10. Once(p) /\ Carried(p) \subseteq Carried(x) \ {d.id}
  BY <1>4, <1>7, <1>8, <1>9 DEF Once, Carried
<1>11. Got(S, i, d)
  BY <1>1, <1>6 DEF InterfaceOK, q
<1> QED BY <1>1, <1>2, <1>4, <1>6, <1>8, <1>9, <1>10, <1>11

LEMMA FrontCarried ==
    ASSUME NEW x \in InterfaceSet, x.datagrams_out # << >>
    PROVE  Head(x.datagrams_out).id \in Carried(x)
<1> DEFINE q == x.datagrams_out
<1>1. q # << >> /\ q \in Seq(Datagram)
  BY DEF InterfaceSet
<1> HIDE DEF q
<1>2. Head(q) \in Range(q)
  BY <1>1, RangeTail
<1>3. Head(q).id \in Ids(q)
  BY <1>2 DEF Ids
<1> QED BY <1>3 DEF Carried, q

\* A turn of the inner loop moves the datagram at the front, drops it, or stops.
LEMMA RouteFrontKeeps ==
    ASSUME NEW S, NEW life \in Nat, NEW w, Fine(S, life, w), NEW i \in Range(RouterPorts)
    PROVE  LET u == RouteFront(w, i)
           IN  Fine(S, life, u) /\ \A h \in Hosts : u[h] = w[h]
<1> DEFINE u == RouteFront(w, i)
           d == Head(w[i].datagrams_out)
           p == Popped(w[i])
           v == route_one_datagram(w, d)
<1> SUFFICES Fine(S, life, u) /\ \A h \in Hosts : u[h] = w[h]
  OBVIOUS
<1>1. /\ i \in Names /\ i \notin Hosts /\ w \in [Names -> InterfaceSet]
      /\ \A j \in Names : InterfaceOK(S, life, j, w[j]) /\ Once(w[j]) /\ w[j] \in InterfaceSet
  BY NetworkAssumption DEF Names, Fine
<1>2. \/ u = w
      \/ w[i].datagrams_out # << >> /\ ~Threw(w) /\ Threw(v) /\ u = v
      \/ w[i].datagrams_out # << >> /\ u = [v EXCEPT ![i] = Popped(v[i])]
  BY DEF RouteFront, Popped
<1> SUFFICES ASSUME w[i].datagrams_out # << >>,
                    \/ ~Threw(w) /\ Threw(v) /\ u = v
                    \/ u = [v EXCEPT ![i] = Popped(v[i])]
             PROVE  Fine(S, life, u) /\ \A h \in Hosts : u[h] = w[h]
  BY <1>2
<1>3. /\ d \in Datagram /\ Got(S, i, d) /\ d.id \in {s.id : s \in S.sent}
      /\ p \in InterfaceSet /\ InterfaceOK(S, life, i, p) /\ Once(p)
      /\ Outgoing(p) = Outgoing(w[i]) /\ Carried(p) \subseteq Carried(w[i]) \ {d.id}
      /\ \A j \in Names \ {i} : d.id \notin Carried(w[j])
  BY <1>1, FrontIs
<1> HIDE DEF u, d
<1>4. CASE v = w
  <2>1. u = [w EXCEPT ![i] = p]
    BY <1>4
  <2> HIDE DEF p, v
  <2>2. u \in [Names -> InterfaceSet] /\ u[i] = p /\ \A j \in Names \ {i} : u[j] = w[j]
    BY <1>1, <1>3, <2>1
  <2>3. Fine(S, life, u)
    <3>1. Holding(S, life, u)
      BY <1>1, <1>3, <2>2 DEF Holding
    <3>2. Moved(w, u, i, {})
      BY <1>3, <2>2 DEF Moved
    <3> QED BY <3>1, <3>2, FineMoves DEF Within
  <2> QED BY <1>1, <2>2, <2>3 DEF Names
<1>5. CASE v # w
  <2> DEFINE entry == RoutingTable[BestMatch(d.dst)]
             o == entry.interface
             a == HopOn(entry, d.dst)
             e == [d EXCEPT !.ttl = @ - 1]
             y == send_datagram(w[o], e, a)
  <2>1. d.ttl > 1 /\ Matching(d.dst) # {} /\ v = [w EXCEPT ![o] = y]
    <3>1. d.ttl \in Nat
      BY <1>3 DEF Datagram
    <3> QED BY <1>5, <3>1 DEF route_one_datagram
  <2>2. serialized(d) \in S.sent \/ Stray(S, d)
    BY <1>1, <1>3 DEF Got
  <2>3. /\ e \in Datagram /\ e.id = d.id /\ o \in Range(RouterPorts) /\ a \in IPs
        /\ Meant(S, o, a, e)
    BY <1>3, <2>1, <2>2, HopIs
  <2> HIDE DEF entry, o, a, e
  <2>4. o \in Names /\ o \notin Hosts
    BY <2>3, NetworkAssumption DEF Names
  <2> DEFINE x == w[o]
  <2>5. x \in InterfaceSet /\ InterfaceOK(S, life, o, x) /\ Once(x) /\ OnceOut(x)
    BY <1>1, <2>4 DEF Once
  <2>6. d.id \notin Outgoing(x)
    <3>1. CASE o = i
      BY <1>3, <3>1 DEF Carried
    <3>2. CASE o # i
      BY <1>3, <2>4, <3>2 DEF Carried
    <3> QED BY <3>1, <3>2
  <2> HIDE DEF x
  <2>7. InterfaceOK(S, life, o, y) /\ y.datagrams_out = x.datagrams_out /\ y \in InterfaceSet
    <3>1. InterfaceOK(S, life, o, y) /\ y.datagrams_out = w[o].datagrams_out
      <4>1. y = send_datagram(x, e, a) /\ x = w[o]
        BY DEF x
      <4>2. /\ o \in Names /\ a \in IPs /\ e \in Datagram /\ Meant(S, o, a, e)
            /\ InterfaceOK(S, life, o, x)
        BY <2>3, <2>4, <2>5
      <4> HIDE DEF x, y
      <4>3. /\ InterfaceOK(S, life, o, send_datagram(x, e, a))
            /\ send_datagram(x, e, a).datagrams_out = x.datagrams_out
        BY <4>2, SendKeeps
      <4> QED BY <4>1, <4>3
    <3> HIDE DEF y
    <3> QED BY <3>1 DEF x, InterfaceOK
  <2>8. /\ OnceOut(y) /\ Outgoing(y) \subseteq Outgoing(x) \cup {d.id}
        /\ y.failed # x.failed => Outgoing(y) = Outgoing(x)
    BY <2>3, <2>5, <2>6, SendOnce DEF x
  <2> HIDE DEF y, v, p
  <2>9. v \in [Names -> InterfaceSet] /\ v[o] = y /\ \A j \in Names \ {o} : v[j] = w[j]
    BY <1>1, <2>1, <2>4, <2>7
  <2>10. CASE ~Threw(w) /\ Threw(v) /\ u = v
    <3>1. PICK j \in Range(RouterPorts) : v[j].failed
      BY <2>10 DEF Threw
    <3>2. ~w[j].failed /\ ~x.failed /\ j \in Names
      BY <2>3, <2>10 DEF Threw, x, Names
    <3>3. y.failed # x.failed
      BY <2>9, <3>1, <3>2
    <3>4. Outgoing(y) = Outgoing(x)
      BY <2>8, <3>3
    <3>5. Once(y) /\ Carried(y) = Carried(x)
      BY <2>5, <2>7, <2>8, <3>4 DEF Once, Carried
    <3>6. Holding(S, life, u)
      BY <1>1, <2>7, <2>9, <2>10, <3>5 DEF Holding
    <3>7. Moved(w, u, o, {})
      BY <2>9, <2>10, <3>5 DEF x, Moved
    <3>8. Fine(S, life, u)
      BY <3>6, <3>7, FineMoves DEF Within
    <3> QED BY <1>1, <2>4, <2>9, <2>10, <3>8 DEF Names
  <2>11. CASE u = [v EXCEPT ![i] = Popped(v[i])]
    <3>1. CASE o = i
      <4> DEFINE z == Popped(y)
      <4>1. y.datagrams_out # << >>
        BY <2>7, <3>1 DEF x
      <4>2. /\ z \in InterfaceSet /\ z.datagrams_out = Tail(x.datagrams_out)
            /\ InterfaceOK(S, life, i, z) /\ OnceOut(z) /\ Outgoing(z) = Outgoing(y)
        BY <2>7, <2>8, <3>1, <4>1, PoppedIs
      <4>3. /\ p.datagrams_out = Tail(x.datagrams_out) /\ Once(p)
            /\ Outgoing(p) = Outgoing(x) /\ Carried(p) \subseteq Carried(x) \ {d.id}
        BY <1>1, <1>3, <3>1, PoppedIs DEF p, x
      <4> HIDE DEF z
      <4>4. Once(z) /\ Carried(z) \subseteq Carried(p) \cup {d.id}
        BY <2>8, <4>2, <4>3 DEF Once, Carried
      <4>5. d.id \in Carried(x)
        BY <1>1, <1>3, <3>1, FrontCarried DEF d, x
      <4>6. Carried(z) \subseteq Carried(x)
        BY <4>3, <4>4, <4>5
      <4>7. u \in [Names -> InterfaceSet] /\ u[i] = z /\ \A j \in Names \ {i} : u[j] = w[j]
        BY <1>1, <2>9, <2>11, <3>1, <4>2 DEF z
      <4>8. Holding(S, life, u)
        BY <1>1, <4>2, <4>4, <4>7 DEF Holding
      <4>9. Moved(w, u, i, {})
        BY <3>1, <4>6, <4>7 DEF x, Moved
      <4>10. Fine(S, life, u)
        BY <4>8, <4>9, FineMoves DEF Within
      <4> QED BY <1>1, <4>7, <4>10 DEF Names
    <3>2. CASE o # i
      <4>1. v[i] = w[i]
        BY <1>1, <2>9, <3>2
      <4>2. u \in [Names -> InterfaceSet] /\ u[i] = p /\ u[o] = y
            /\ \A j \in Names \ {i, o} : u[j] = w[j]
        BY <1>1, <1>3, <2>4, <2>9, <2>11, <3>2, <4>1 DEF p
      <4>3. d.id \notin Carried(x)
        BY <1>3, <2>4, <3>2 DEF x
      <4>4. Once(y) /\ Carried(y) \subseteq Carried(x) \cup {d.id}
        BY <2>5, <2>7, <2>8, <4>3 DEF Once, Carried
      <4>5. Holding(S, life, u)
        BY <1>1, <1>3, <2>7, <4>2, <4>4 DEF Holding
      <4>6. Moved(w, u, o, {d.id})
        BY <1>3, <4>2, <4>4 DEF x, Moved
      <4>7. {d.id} \subseteq {s.id : s \in S.sent}
        BY <1>3
      <4>8. Fine(S, life, u)
        BY <4>5, <4>6, <4>7, FineMoves DEF Within
      <4> QED BY <1>1, <2>4, <4>2, <4>8 DEF Names
    <3> QED BY <3>1, <3>2
  <2> QED BY <2>10, <2>11
<1> QED BY <1>4, <1>5
-----------------------------------------------------------------------------
(* The loops of route.                                                      *)

\* The inner loop keeps what each of its turns keeps.
LEMMA DrainKeeps ==
    ASSUME NEW S, NEW life \in Nat, NEW w, Fine(S, life, w), NEW i \in Range(RouterPorts)
    PROVE  LET u == Drain(w, i)
           IN  Fine(S, life, u) /\ \A h \in Hosts : u[h] = w[h]
<1> DEFINE turns == Len(w[i].datagrams_out)
           Loop(f, m) == f = [n \in 0..m |-> IF n = 0 THEN w ELSE RouteFront(f[n - 1], i)]
           after == CHOOSE f : Loop(f, turns)
<1>1. Drain(w, i) = after[turns]
  BY DEF Drain
<1>2. turns \in Nat
  BY NetworkAssumption, LenProperties DEF Fine, InterfaceSet, Names
<1> HIDE DEF turns
<1>3. \A m \in Nat : \E f : Loop(f, m)
  <2> DEFINE bad == {m \in Nat : ~\E f : Loop(f, m)}
  <2> SUFFICES ASSUME bad # {} PROVE FALSE
    OBVIOUS
  <2>1. bad \in SUBSET Nat
    OBVIOUS
  <2>2. PICK m \in bad : \A k \in bad : m =< k
    <3> HIDE DEF bad
    <3> QED BY <2>1, LeastIs
  <2>3. CASE m = 0
    <3> DEFINE f == [n \in 0..0 |-> w]
    <3>1. Loop(f, 0)
      OBVIOUS
    <3> QED BY <2>2, <2>3, <3>1
  <2>4. CASE m # 0
    <3>1. m - 1 \in Nat /\ ~(m =< m - 1) /\ m \in Nat
      BY <2>4
    <3>2. PICK f : Loop(f, m - 1)
      BY <2>2, <3>1
    <3> DEFINE g == [n \in 0..m |-> IF n = 0 THEN w ELSE RouteFront(f[n - 1], i)]
    <3>3. \A n \in 0..m - 1 : g[n] = f[n]
      <4> TAKE n \in 0..m - 1
      <4>1. n \in 0..m
        BY <3>1
      <4>2. g[n] = IF n = 0 THEN w ELSE RouteFront(f[n - 1], i)
        BY <4>1
      <4>3. f[n] = IF n = 0 THEN w ELSE RouteFront(f[n - 1], i)
        BY <3>2
      <4> QED BY <4>2, <4>3
    <3>4. Loop(g, m)
      <4>1. \A n \in 0..m : n # 0 => n - 1 \in 0..m - 1
        BY <3>1
      <4>2. \A n \in 0..m : (IF n = 0 THEN w ELSE RouteFront(g[n - 1], i)) =
                            (IF n = 0 THEN w ELSE RouteFront(f[n - 1], i))
        <5> HIDE DEF g
        <5> QED BY <3>3, <4>1
      <4>3. g = [n \in 0..m |-> IF n = 0 THEN w ELSE RouteFront(f[n - 1], i)]
        OBVIOUS
      <4> HIDE DEF g
      <4>4. g = [n \in 0..m |-> IF n = 0 THEN w ELSE RouteFront(g[n - 1], i)]
        BY <4>2, <4>3
      <4> QED BY <4>4
    <3> HIDE DEF Loop
    <3> QED BY <2>2, <3>4
  <2> QED BY <2>3, <2>4
<1>4. Loop(after, turns)
  <2> HIDE DEF Loop
  <2>1. \E f : Loop(f, turns)
    BY <1>2, <1>3
  <2> QED BY <2>1
<1> HIDE DEF after
<1>5. \A n \in 0..turns : after[n] = IF n = 0 THEN w ELSE RouteFront(after[n - 1], i)
  BY <1>4
<1> HIDE DEF Loop
<1> DEFINE Kept(u) == Fine(S, life, u) /\ \A h \in Hosts : u[h] = w[h]
<1>6. \A n \in 0..turns : Kept(after[n])
  <2> DEFINE bad == {n \in 0..turns : ~Kept(after[n])}
  <2> SUFFICES ASSUME bad # {} PROVE FALSE
    OBVIOUS
  <2>1. bad \in SUBSET Nat
    BY <1>2
  <2>2. PICK n \in bad : \A k \in bad : n =< k
    <3> HIDE DEF bad
    <3> QED BY <2>1, LeastIs
  <2>3. CASE n = 0
    <3>1. after[n] = w
      BY <1>5, <2>3
    <3> QED BY <2>2, <3>1
  <2>4. CASE n # 0
    <3>1. n - 1 \in 0..turns /\ ~(n =< n - 1)
      BY <1>2, <2>4
    <3>2. Kept(after[n - 1])
      BY <2>2, <3>1
    <3>3. after[n] = RouteFront(after[n - 1], i)
      BY <1>5, <2>4
    <3> DEFINE v == after[n - 1]
    <3> HIDE DEF v
    <3>4. Fine(S, life, v) /\ \A h \in Hosts : v[h] = w[h]
      BY <3>2 DEF v
    <3>5. Fine(S, life, RouteFront(v, i)) /\ \A h \in Hosts : RouteFront(v, i)[h] = v[h]
      BY <3>4, RouteFrontKeeps
    <3>6. Kept(after[n])
      BY <3>3, <3>4, <3>5 DEF v
    <3> QED BY <2>2, <3>6
  <2> QED BY <2>3, <2>4
<1>7. Kept(after[turns])
  BY <1>2, <1>6
<1> QED BY <1>1, <1>7
\* And the outer loop, over the interfaces.
LEMMA RouteKeeps ==
    ASSUME NEW S, NEW life \in Nat, NEW w, Fine(S, life, w)
    PROVE  LET u == route(w)
           IN  Fine(S, life, u) /\ \A h \in Hosts : u[h] = w[h]
<1> DEFINE turns == Len(RouterPorts)
           Loop(f, m) == f = [n \in 0..m |-> IF n = 0 THEN w ELSE Drain(f[n - 1], RouterPorts[n])]
           after == CHOOSE f : Loop(f, turns)
<1>1. route(w) = after[turns]
  BY DEF route
<1>2. turns \in Nat
  BY RouterAssumption, LenProperties
<1> HIDE DEF turns
<1>3. \A m \in Nat : \E f : Loop(f, m)
  <2> DEFINE bad == {m \in Nat : ~\E f : Loop(f, m)}
  <2> SUFFICES ASSUME bad # {} PROVE FALSE
    OBVIOUS
  <2>1. bad \in SUBSET Nat
    OBVIOUS
  <2>2. PICK m \in bad : \A k \in bad : m =< k
    <3> HIDE DEF bad
    <3> QED BY <2>1, LeastIs
  <2>3. CASE m = 0
    <3> DEFINE f == [n \in 0..0 |-> w]
    <3>1. Loop(f, 0)
      OBVIOUS
    <3> QED BY <2>2, <2>3, <3>1
  <2>4. CASE m # 0
    <3>1. m - 1 \in Nat /\ ~(m =< m - 1) /\ m \in Nat
      BY <2>4
    <3>2. PICK f : Loop(f, m - 1)
      BY <2>2, <3>1
    <3> DEFINE g == [n \in 0..m |-> IF n = 0 THEN w ELSE Drain(f[n - 1], RouterPorts[n])]
    <3>3. \A n \in 0..m - 1 : g[n] = f[n]
      <4> TAKE n \in 0..m - 1
      <4>1. n \in 0..m
        BY <3>1
      <4>2. g[n] = IF n = 0 THEN w ELSE Drain(f[n - 1], RouterPorts[n])
        BY <4>1
      <4>3. f[n] = IF n = 0 THEN w ELSE Drain(f[n - 1], RouterPorts[n])
        BY <3>2
      <4> QED BY <4>2, <4>3
    <3>4. Loop(g, m)
      <4>1. \A n \in 0..m : n # 0 => n - 1 \in 0..m - 1
        BY <3>1
      <4>2. \A n \in 0..m : (IF n = 0 THEN w ELSE Drain(g[n - 1], RouterPorts[n])) =
                            (IF n = 0 THEN w ELSE Drain(f[n - 1], RouterPorts[n]))
        <5> HIDE DEF g
        <5> QED BY <3>3, <4>1
      <4>3. g = [n \in 0..m |-> IF n = 0 THEN w ELSE Drain(f[n - 1], RouterPorts[n])]
        OBVIOUS
      <4> HIDE DEF g
      <4>4. g = [n \in 0..m |-> IF n = 0 THEN w ELSE Drain(g[n - 1], RouterPorts[n])]
        BY <4>2, <4>3
      <4> QED BY <4>4
    <3> HIDE DEF Loop
    <3> QED BY <2>2, <3>4
  <2> QED BY <2>3, <2>4
<1>4. Loop(after, turns)
  <2> HIDE DEF Loop
  <2>1. \E f : Loop(f, turns)
    BY <1>2, <1>3
  <2> QED BY <2>1
<1> HIDE DEF after
<1>5. \A n \in 0..turns : after[n] = IF n = 0 THEN w ELSE Drain(after[n - 1], RouterPorts[n])
  BY <1>4
<1> HIDE DEF Loop
<1> DEFINE Kept(u) == Fine(S, life, u) /\ \A h \in Hosts : u[h] = w[h]
<1>6. \A n \in 0..turns : Kept(after[n])
  <2> DEFINE bad == {n \in 0..turns : ~Kept(after[n])}
  <2> SUFFICES ASSUME bad # {} PROVE FALSE
    OBVIOUS
  <2>1. bad \in SUBSET Nat
    BY <1>2
  <2>2. PICK n \in bad : \A k \in bad : n =< k
    <3> HIDE DEF bad
    <3> QED BY <2>1, LeastIs
  <2>3. CASE n = 0
    <3>1. after[n] = w
      BY <1>5, <2>3
    <3> QED BY <2>2, <3>1
  <2>4. CASE n # 0
    <3>1. n - 1 \in 0..turns /\ ~(n =< n - 1)
      BY <1>2, <2>4
    <3>2. Kept(after[n - 1])
      BY <2>2, <3>1
    <3>3. RouterPorts[n] \in Range(RouterPorts)
      <4>1. n \in 1..Len(RouterPorts)
        BY <1>2, <2>4 DEF turns
      <4> QED BY <4>1, RouterAssumption, ElementOfSeq
    <3>4. after[n] = Drain(after[n - 1], RouterPorts[n])
      BY <1>5, <2>4
    <3> DEFINE v == after[n - 1]
    <3> HIDE DEF v
    <3>5. Fine(S, life, v) /\ \A h \in Hosts : v[h] = w[h]
      BY <3>2 DEF v
    <3>6. Fine(S, life, Drain(v, RouterPorts[n])) /\ \A h \in Hosts : Drain(v, RouterPorts[n])[h] = v[h]
      BY <3>5, <3>3, DrainKeeps
    <3>7. Kept(after[n])
      BY <3>4, <3>5, <3>6 DEF v
    <3> QED BY <2>2, <3>7
  <2> QED BY <2>3, <2>4
<1>7. Kept(after[turns])
  BY <1>2, <1>6
<1> QED BY <1>1, <1>7
-----------------------------------------------------------------------------
(* What a host is given.                                                    *)

\* A datagram that comes to an adapter.
LEMMA UnwrapKeeps ==
    ASSUME NEW x \in AdapterSet, NEW listened \in BOOLEAN, Bonded(x, listened),
           NEW d \in Datagram
    PROVE  LET y == unwrap_tcp_in_ip(x, d)
           IN  /\ y \in AdapterSet /\ Bonded(y, listened)
               /\ \/ y.handed = x.handed
                  \/ y.handed = Append(x.handed, d) /\ ChecksumHolds(d)
<1> DEFINE y == unwrap_tcp_in_ip(x, d)
           b == IF x.listening THEN Bound(x, d) ELSE x
           q == Append(x.handed, d)
<1> SUFFICES /\ y \in AdapterSet /\ Bonded(y, listened)
             /\ \/ y.handed = x.handed
                \/ y.handed = q /\ ChecksumHolds(d)
  OBVIOUS
<1>1. CASE ~IsOurs(x, d)
  BY <1>1 DEF unwrap_tcp_in_ip
<1>2. CASE IsOurs(x, d)
  <2>1. y = [b EXCEPT !.handed = Append(@, d)]
    BY <1>2 DEF unwrap_tcp_in_ip
  <2>2. /\ b \in AdapterSet /\ b.handed = x.handed /\ ~b.listening /\ IsFromPeer(b, d)
        /\ x.listening \/ b = x
    <3>1. CASE x.listening
      <4>1. d.src \in IPs /\ d.dst \in IPs /\ d.sport \in Nat
        BY DEF Datagram
      <4> QED BY <3>1, <4>1 DEF Bound, AdapterSet, IsFromPeer
    <3>2. CASE ~x.listening
      BY <1>2, <3>2 DEF IsOurs
    <3> QED BY <3>1, <3>2
  <2>3. x.handed \in Seq(Datagram)
    BY DEF AdapterSet
  <2>4. q \in Seq(Datagram)
    BY <2>3
  <2>5. /\ DOMAIN q = 1..Len(x.handed) + 1 /\ Len(x.handed) \in Nat
        /\ DOMAIN x.handed = 1..Len(x.handed)
        /\ \A k \in 1..Len(x.handed) : q[k] = x.handed[k]
        /\ q[Len(x.handed) + 1] = d
    BY <2>3, AppendProperties, LenProperties
  <2>6. y = [b EXCEPT !.handed = q]
    BY <2>1, <2>2
  <2>7. x.listening => d.syn /\ x.handed = << >>
    BY <1>2 DEF IsOurs, Bonded
  <2>13. ChecksumHolds(d)
    BY <1>2 DEF IsOurs
  <2> HIDE DEF b, q
  <2>8. /\ y \in AdapterSet /\ y.handed = q /\ y.listening = b.listening
        /\ y.source = b.source /\ y.destination = b.destination /\ y.peer_port = b.peer_port
    BY <2>2, <2>4, <2>6 DEF AdapterSet
  <2> HIDE DEF y
  <2>9. \A e : IsFromPeer(y, e) <=> IsFromPeer(b, e)
    BY <2>8 DEF IsFromPeer
  <2>10. \A k \in DOMAIN q : IsFromPeer(b, q[k])
    <3> TAKE k \in DOMAIN q
    <3>1. CASE k = Len(x.handed) + 1
      BY <2>2, <2>5, <3>1
    <3>2. CASE k # Len(x.handed) + 1
      <4>1. k \in 1..Len(x.handed)
        BY <2>5, <3>2
      <4>2. ~x.listening
        <5>1. x.handed # << >>
          BY <2>5, <4>1
        <5> QED BY <5>1, <2>7
      <4> QED BY <2>2, <2>5, <4>1, <4>2 DEF Bonded
    <3> QED BY <3>1, <3>2
  <2>11. listened => q[1].syn
    <3>1. CASE x.handed = << >>
      <4>1. q[1] = d
        BY <2>5, <3>1
      <4>2. listened => d.syn
        BY <2>7, <3>1 DEF Bonded
      <4> QED BY <4>1, <4>2
    <3>2. CASE x.handed # << >>
      <4>1. 1 \in 1..Len(x.handed)
        BY <2>3, <3>2, EmptySeq
      <4> QED BY <2>5, <3>2, <4>1 DEF Bonded
    <3> QED BY <3>1, <3>2
  <2>12. q # << >>
    BY <2>5
  <2> QED BY <2>2, <2>8, <2>9, <2>10, <2>11, <2>12, <2>13 DEF Bonded
<1> QED BY <1>1, <1>2
-----------------------------------------------------------------------------
(* The steps.                                                               *)

\* A new interface carries and knows nothing.
LEMMA NewIs ==
    ASSUME NEW i \in Names, NEW life \in Nat, NEW S, NEW q \in Seq(Datagram),
           \A d \in Range(q) : Got(S, i, d)
    PROVE  LET x == [NewInterface(MAC(i, life), IPOf[i]) EXCEPT !.datagrams_out = q]
           IN  /\ InterfaceOK(S, life, i, x) /\ x.datagrams_out = q
               /\ Distinct(q) => Once(x)
               /\ Carried(x) = Ids(q)
<1> DEFINE new == NewInterface(MAC(i, life), IPOf[i])
           x == [new EXCEPT !.datagrams_out = q]
<1> SUFFICES /\ InterfaceOK(S, life, i, x) /\ x.datagrams_out = q
             /\ Distinct(q) => Once(x)
             /\ Carried(x) = Ids(q)
  OBVIOUS
<1>1. MAC(i, life) \in MACs /\ IPOf[i] \in IPs
  BY NetworkAssumption DEF MAC, MACs
<1>2. /\ new \in InterfaceSet /\ new.mac = MAC(i, life) /\ new.ip = IPOf[i]
      /\ \A a \in IPs : new.arp_cache[a].left = 0 /\ new.pending[a] = << >>
      /\ new.frames_out = << >>
  BY <1>1 DEF NewInterface, NoMapping, InterfaceSet, FrameAddresses
<1> HIDE DEF new
<1>3. /\ x \in InterfaceSet /\ x.datagrams_out = q /\ x.mac = MAC(i, life) /\ x.ip = IPOf[i]
      /\ \A a \in IPs : x.arp_cache[a].left = 0 /\ x.pending[a] = << >>
      /\ x.frames_out = << >>
  BY <1>2, DatagramsOutIs
<1> HIDE DEF x
<1>4. InterfaceOK(S, life, i, x)
  BY <1>3, NothingIs DEF InterfaceOK, Knows
<1>5. Waiting(x) = {} /\ FrameIds(x.frames_out) = {} /\ DistinctFrames(x.frames_out)
  BY <1>3, NothingIs DEF Waiting, FrameIds, DistinctFrames
<1>6. Distinct(q) => Once(x)
  BY <1>3, <1>5, NothingIs DEF Once, OnceOut, Outgoing
<1>7. Carried(x) = Ids(q)
  BY <1>3, <1>5 DEF Carried, Outgoing
<1> QED BY <1>3, <1>4, <1>6, <1>7

LEMMA EnvIs ==
    ASSUME env \in Scenarios, NEW h \in Hosts
    PROVE  /\ env.adapters[h] \in AdapterSet /\ env.adapters[h].handed = << >>
           /\ env.adapters[h].listening \in BOOLEAN
           /\ env.sends[h] \in Seq([syn : BOOLEAN, rst : BOOLEAN, ttl : Nat])
           /\ Bonded(env.adapters[h], env.adapters[h].listening)
<1>1. env \in Scenario
  BY NetworkAssumption
<1>2. env.adapters[h] \in [listening : BOOLEAN, source : IPs, port : Nat, destination : IPs,
                           peer_port : Nat, handed : {<< >>}]
  BY <1>1 DEF Scenario
<1>3. env.adapters[h] \in AdapterSet /\ env.adapters[h].handed = << >>
      /\ env.adapters[h].listening \in BOOLEAN
  <2>1. << >> \in Seq(Datagram)
    OBVIOUS
  <2> QED BY <1>2, <2>1 DEF AdapterSet
<1>4. env.sends[h] \in Seq([syn : BOOLEAN, rst : BOOLEAN, ttl : Nat])
  BY <1>1 DEF Scenario
<1>5. Bonded(env.adapters[h], env.adapters[h].listening)
  BY <1>3 DEF Bonded
<1> QED BY <1>3, <1>4, <1>5

LEMMA InitGood == Init => IInv /\ Service!Init
<1> SUFFICES ASSUME Init PROVE IInv /\ Service!Init
  OBVIOUS
<1>1. env \in Scenarios /\ sent = {}
      /\ faults = [lost |-> 0, damaged |-> 0, restarted |-> 0, altered |-> {}]
  BY DEF Init
<1>2. \A i \in Names : /\ InterfaceOK(World, 0, i, ifc[i]) /\ ifc[i].datagrams_out = << >>
                       /\ Once(ifc[i]) /\ Carried(ifc[i]) = {}
  <2> TAKE i \in Names
  <2> DEFINE new == NewInterface(MAC(i, 0), IPOf[i])
  <2>1. << >> \in Seq(Datagram) /\ \A d \in Range(<< >>) : Got(World, i, d)
    BY NothingIs
  <2>2. new = [new EXCEPT !.datagrams_out = << >>]
    <3>1. new \in InterfaceSet /\ new.datagrams_out = << >>
      BY NetworkAssumption
         DEF NewInterface, NoMapping, InterfaceSet, FrameAddresses, MAC, MACs
    <3> HIDE DEF new
    <3> QED BY <3>1 DEF InterfaceSet
  <2>3. ifc[i] = new
    BY DEF Init
  <2>4. InterfaceOK(World, 0, i, new) /\ new.datagrams_out = << >>
        /\ Once(new) /\ Carried(new) = {}
    <3> DEFINE x == [NewInterface(MAC(i, 0), IPOf[i]) EXCEPT !.datagrams_out = << >>]
    <3>1. /\ InterfaceOK(World, 0, i, x) /\ x.datagrams_out = << >>
          /\ Distinct(<< >>) => Once(x)
          /\ Carried(x) = Ids(<< >>)
      BY <2>1, NewIs
    <3>2. x = new
      BY <2>2
    <3> HIDE DEF x, new
    <3> QED BY <3>1, <3>2, NothingIs
  <2> QED BY <2>3, <2>4
<1>3. Fine(World, faults.restarted, ifc)
  <2>1. ifc \in [Names -> InterfaceSet]
    BY <1>2 DEF Init, InterfaceOK
  <2> QED BY <1>1, <1>2, <2>1 DEF Fine
<1>4. TypeOK
  <2>1. adapter \in [Hosts -> AdapterSet]
    <3>1. env \in Scenario /\ adapter = env.adapters
      BY <1>1, NetworkAssumption DEF Init
    <3>2. adapter = [h \in Hosts |-> env.adapters[h]]
      BY <3>1 DEF Scenario
    <3> QED BY <1>1, <3>2, EnvIs
  <2>2. faults \in Faults
    BY <1>1 DEF Faults
  <2> QED BY <1>1, <2>1, <2>2, FS_EmptySet DEF TypeOK
<1>5. Numbered /\ Summed
  BY <1>1 DEF Numbered, Summed
<1>6. \A h \in Hosts : Bonded(adapter[h], env.adapters[h].listening)
  <2>1. adapter = env.adapters
    BY DEF Init
  <2> QED BY <1>1, <2>1, EnvIs
<1>7. \A h \in Hosts : Delivered(h) = << >>
  BY <1>2 DEF Delivered, Names
<1>8. HandedAsSent
  <2>1. \A h \in Hosts : adapter[h].handed = << >>
    BY <1>1, EnvIs DEF Init
  <2> QED BY <2>1, NothingIs DEF HandedAsSent
<1> QED BY <1>1, <1>3, <1>4, <1>5, <1>6, <1>7, <1>8 DEF IInv, Service!Init
\* The number of a new datagram is new.
LEMMA SendStep ==
    ASSUME IInv, NEW h \in Hosts, Send(h)
    PROVE  IInv' /\ Service!Post
<1> DEFINE n == Cardinality(SentBy(h)) + 1
           seg == env.sends[h][n]
           d == wrap_tcp_in_ip(adapter[h], seg, <<h, n>>)
           life == faults.restarted
           x == ifc[h]
           y == send_datagram(x, d, NextHop[h])
<1>1. /\ env \in Scenarios /\ adapter \in [Hosts -> AdapterSet]
      /\ sent \subseteq Datagram /\ IsFiniteSet(sent) /\ life \in Nat
      /\ faults \in Faults
  BY DEF IInv, TypeOK, Faults
<1>2. /\ Cardinality(SentBy(h)) < Len(env.sends[h]) /\ ifc' = [ifc EXCEPT ![h] = y]
      /\ sent' = sent \cup {d} /\ UNCHANGED <<env, adapter, faults>>
  BY DEF Send
<1>3. \A g \in Hosts : IsFiniteSet(SentBy(g)) /\ Cardinality(SentBy(g)) \in Nat
  BY <1>1, FS_Subset, FS_CardinalityType DEF SentBy
<1>4. n \in Nat /\ n \in 1..Len(env.sends[h])
  <2>1. Len(env.sends[h]) \in Nat
    BY <1>1, EnvIs, LenProperties
  <2> QED BY <1>2, <1>3, <2>1
<1>5. seg \in [syn : BOOLEAN, rst : BOOLEAN, ttl : Nat]
  BY <1>1, <1>4, EnvIs, ElementOfSeq
<1>6. d \in Datagram /\ d.id = <<h, n>> /\ serialized(d) = d
  <2>1. adapter[h] \in AdapterSet
    BY <1>1
  <2> HIDE DEF seg, n
  <2>2. d \in Datagram /\ d.id = <<h, n>> /\ d.header = "NoError"
    BY <1>4, <1>5, <2>1 DEF wrap_tcp_in_ip, Datagram, HeaderResults, AdapterSet
  <2> HIDE DEF d
  <2> QED BY <2>2 DEF serialized, Datagram
<1>7. \A e \in sent : e.id # d.id
  <2> TAKE e \in sent
  <2>1. e.id[2] =< Cardinality(SentBy(e.id[1]))
    BY DEF IInv, Numbered
  <2>2. d.id[1] = h /\ d.id[2] = n
    BY <1>6
  <2> QED BY <1>3, <2>1, <2>2
<1>8. d \notin SentBy(h) /\ d \notin sent
  BY <1>7 DEF SentBy
<1>9. Fine(World, life, ifc)
  BY DEF IInv
<1>10. h \in Names /\ NextHop[h] \in IPs
  BY NetworkAssumption DEF Names
<1>11. ifc \in [Names -> InterfaceSet] /\ x \in InterfaceSet /\ Once(x) /\ OnceOut(x)
       /\ d.id \notin Carried(x)
  BY <1>7, <1>9, <1>10 DEF Fine, Once, World
<1> HIDE DEF n, seg, d
<1>12. \A j \in Names : InterfaceOK(World', life, j, ifc[j])
  <2> TAKE j \in Names
  <2>1. InterfaceOK(World, life, j, ifc[j])
    BY <1>9 DEF Fine
  <2>2. Within(World, World') /\ life =< life
    BY <1>1, <1>2 DEF Within, World
  <2> HIDE DEF life
  <2> QED BY <1>1, <2>1, <2>2, Grows
<1>13. Meant(World', h, NextHop[h], d)
  <2>1. World'.sent = sent \cup {d}
    BY <1>2 DEF World
  <2> QED BY <1>6, <2>1 DEF Meant
<1> HIDE DEF life
<1>14. InterfaceOK(World', life, h, x)
  BY <1>10, <1>12
<1> HIDE DEF x
<1>15. InterfaceOK(World', life, h, y) /\ y.datagrams_out = x.datagrams_out
  BY <1>1, <1>6, <1>10, <1>13, <1>14, SendKeeps
<1>16. OnceOut(y) /\ Outgoing(y) \subseteq Outgoing(x) \cup {d.id}
  BY <1>6, <1>10, <1>11, SendOnce DEF Carried
<1> HIDE DEF y
<1>17. Once(y) /\ Carried(y) \subseteq Carried(x) \cup {d.id} /\ y \in InterfaceSet
  BY <1>11, <1>15, <1>16 DEF Once, Carried, InterfaceOK
<1>18. /\ ifc' \in [Names -> InterfaceSet] /\ ifc'[h] = y
       /\ \A j \in Names \ {h} : ifc'[j] = ifc[j]
  BY <1>2, <1>10, <1>11, <1>17
<1>19. Fine(World', life, ifc')
  <2>1. Holding(World', life, ifc')
    BY <1>9, <1>12, <1>15, <1>17, <1>18 DEF Holding, Fine
  <2>2. Moved(ifc, ifc', h, {d.id})
    <3>1. \A j \in Names : d.id \notin Carried(ifc[j])
      BY <1>7, <1>9 DEF Fine, World
    <3> QED BY <1>17, <1>18, <3>1 DEF Moved, x
  <2>3. Within(World, World') /\ {d.id} \subseteq {e.id : e \in World'.sent}
    BY <1>2 DEF Within, World
  <2> QED BY <1>9, <2>1, <2>2, <2>3, FineMoves DEF Within
<1>20. Fine(World, faults.restarted, ifc)'
  BY <1>2, <1>19 DEF life
<1>21. TypeOK'
  <2>1. IsFiniteSet(sent')
    BY <1>1, <1>2, FS_AddElement
  <2> QED BY <1>1, <1>2, <1>6, <2>1 DEF TypeOK
<1>22. Numbered'
  <2>1. \A g \in Hosts : SentBy(g)' = IF g = h THEN SentBy(h) \cup {d} ELSE SentBy(g)
    BY <1>2, <1>6 DEF SentBy
  <2>2. Cardinality(SentBy(h) \cup {d}) = n
    BY <1>3, <1>8, FS_AddElement DEF n
  <2> SUFFICES ASSUME NEW e \in sent' PROVE e.id[2] =< Cardinality(SentBy(e.id[1])')
    BY DEF Numbered
  <2>3. e.id[1] \in Hosts /\ e.id[2] \in Nat
    BY <1>1, <1>2, <1>6 DEF Datagram
  <2>4. CASE e = d
    <3>1. e.id[1] = h /\ e.id[2] = n
      BY <1>6, <2>4
    <3>2. Cardinality(SentBy(e.id[1])') = n
      BY <2>1, <2>2, <3>1
    <3> QED BY <1>4, <3>1, <3>2
  <2>5. CASE e # d
    <3>1. e.id[2] =< Cardinality(SentBy(e.id[1]))
      BY <1>2, <2>5 DEF IInv, Numbered
    <3>2. CASE e.id[1] = h
      <4>1. Cardinality(SentBy(h)) \in Nat /\ n = Cardinality(SentBy(h)) + 1
        BY <1>3 DEF n
      <4>2. Cardinality(SentBy(e.id[1])') = n
        BY <2>1, <2>2, <3>2
      <4> QED BY <2>3, <3>1, <3>2, <4>1, <4>2
    <3>3. CASE e.id[1] # h
      <4>1. SentBy(e.id[1])' = SentBy(e.id[1])
        BY <2>1, <2>3, <3>3
      <4> QED BY <3>1, <4>1
    <3> QED BY <3>2, <3>3
  <2> QED BY <2>4, <2>5
<1>23. Summed' /\ HandedAsSent'
  <2>1. ChecksumHolds(d)
    <3>1. adapter[h] \in AdapterSet
      BY <1>1
    <3> HIDE DEF n, seg
    <3> QED BY <3>1 DEF d, wrap_tcp_in_ip, ChecksumHolds
  <2>2. Summed'
    BY <1>2, <2>1 DEF IInv, Summed
  <2>3. HandedAsSent'
    BY <1>2 DEF IInv, HandedAsSent
  <2> QED BY <2>2, <2>3
<1>26. IInv'
  BY <1>2, <1>20, <1>21, <1>22, <1>23 DEF IInv
<1>24. \A g \in Hosts : Delivered(g)' = Delivered(g)
  BY <1>15, <1>18 DEF Delivered, Names, x
<1>25. Service!Post
  BY <1>2, <1>7, <1>24 DEF Service!Post
<1> QED BY <1>25, <1>26
\* What a host received is what it had received, and the datagram.
LEMMA DeliveredAppend ==
    ASSUME NEW q \in Seq(Datagram), NEW d \in Datagram
    PROVE  LET t == Append(q, d)
           IN  [n \in DOMAIN t |-> serialized(t[n])] =
                   Append([n \in DOMAIN q |-> serialized(q[n])], serialized(d))
<1> DEFINE t == Append(q, d)
           a == [n \in DOMAIN t |-> serialized(t[n])]
           p == [n \in DOMAIN q |-> serialized(q[n])]
           b == Append(p, serialized(d))
<1>1. /\ Len(q) \in Nat /\ DOMAIN q = 1..Len(q)
      /\ t \in Seq(Datagram) /\ DOMAIN t = 1..Len(q) + 1
      /\ \A n \in 1..Len(q) : t[n] = q[n]
      /\ t[Len(q) + 1] = d
  BY AppendProperties, LenProperties
<1>2. \A n \in 1..Len(q) : q[n] \in Datagram
  BY <1>1, ElementOfSeq
<1>3. p \in Seq(Datagram) /\ Len(p) = Len(q)
  <2>1. \A n \in 1..Len(q) : serialized(q[n]) \in Datagram
    BY <1>2, SerializedIs
  <2>2. p = [n \in 1..Len(q) |-> serialized(q[n])]
    BY <1>1
  <2> HIDE DEF p
  <2> QED BY <1>1, <2>1, <2>2
<1>4. \A n \in 1..Len(q) : p[n] = serialized(q[n])
  BY <1>1
<1>5. serialized(d) \in Datagram
  BY SerializedIs
<1> HIDE DEF p
<1>6. /\ b \in Seq(Datagram) /\ Len(b) = Len(q) + 1
      /\ \A n \in 1..Len(q) : b[n] = p[n]
      /\ b[Len(q) + 1] = serialized(d)
  BY <1>3, <1>5, AppendProperties
<1> HIDE DEF t, b
<1>7. a \in Seq(Datagram) /\ Len(a) = Len(q) + 1
  <2>1. \A n \in 1..Len(q) + 1 : serialized(t[n]) \in Datagram
    BY <1>1, SerializedIs, ElementOfSeq, LenProperties
  <2>2. a = [n \in 1..Len(q) + 1 |-> serialized(t[n])]
    BY <1>1
  <2> HIDE DEF a
  <2> QED BY <1>1, <2>1, <2>2
<1>8. \A n \in 1..Len(q) + 1 : a[n] = b[n]
  <2> TAKE n \in 1..Len(q) + 1
  <2>1. a[n] = serialized(t[n])
    BY <1>1
  <2>2. n \in 1..Len(q) \/ n = Len(q) + 1
    BY <1>1
  <2> HIDE DEF a
  <2> QED BY <1>1, <1>4, <1>6, <2>1, <2>2
<1> HIDE DEF a
<1>9. a = b
  BY <1>6, <1>7, <1>8, SeqEqual
<1> QED BY <1>9 DEF a, b, t, p

\* A frame goes to those who are there; at most one of them takes its datagram.
LEMMA TransmitFine ==
    ASSUME IInv, NEW i \in Names, NEW missing, Transmit(i, missing)
    PROVE  LET f == Head(ifc[i].frames_out)
           IN  /\ f \in Frame /\ Fine(World, faults.restarted, ifc')
               /\ \A h \in Hosts :
                    \/ ifc'[h].datagrams_out = ifc[h].datagrams_out
                    \/ /\ f.type = "IPv4" /\ f.dst[1] = h /\ Got(World, h, f.payload)
                       /\ Takes(ifc[h], ifc'[h], f.payload)
               /\ f.type = "IPv4" =>
                    \A h \in Hosts : f.payload.id \notin Ids(ifc[h].datagrams_out)
<1> DEFINE life == faults.restarted
           x == ifc[i]
           f == Head(x.frames_out)
           y == [x EXCEPT !.frames_out = Tail(@)]
           to == (Others(i) \cap Running) \ missing
           ids == IF f.type = "IPv4" THEN {f.payload.id} ELSE {}
           Given(j) == \/ ifc'[j].datagrams_out = ifc[j].datagrams_out
                       \/ /\ f.type = "IPv4" /\ f.dst[1] = j /\ Got(World, j, f.payload)
                          /\ Takes(ifc[j], ifc'[j], f.payload)
<1>1. Fine(World, life, ifc) /\ life \in Nat
  BY DEF IInv, TypeOK, Faults
<1>2. x.frames_out # << >>
      /\ ifc' = [j \in Names |-> IF j = i THEN y
                                 ELSE IF j \in to THEN recv_frame(ifc[j], f) ELSE ifc[j]]
  BY DEF Transmit, deliver
<1>3. /\ ifc \in [Names -> InterfaceSet]
      /\ \A j \in Names : /\ InterfaceOK(World, life, j, ifc[j]) /\ Once(ifc[j])
                          /\ ifc[j] \in InterfaceSet
                          /\ Carried(ifc[j]) \subseteq {d.id : d \in World.sent}
      /\ \A j \in Names \ {i} : Carried(ifc[j]) \cap Carried(x) = {}
  BY <1>1 DEF Fine
<1> HIDE DEF life
<1>4. /\ f \in Frame /\ y \in InterfaceSet /\ y.datagrams_out = x.datagrams_out
      /\ InterfaceOK(World, life, i, y) /\ FrameOK(World, life, i, f)
      /\ Once(y) /\ Carried(y) \subseteq Carried(x)
      /\ f.type = "IPv4" => f.payload.id \in Carried(x) \ Carried(y)
  BY <1>2, <1>3, TakenIs
<1>5. to \subseteq Others(i) /\ to \subseteq Names /\ i \notin to
  BY OthersIs
<1> HIDE DEF f, y, to
<1>6. ids \subseteq Carried(x) /\ ids \cap Carried(y) = {}
  BY <1>4
<1>7. /\ ifc'[i] = y
      /\ \A j \in to : ifc'[j] = recv_frame(ifc[j], f)
      /\ \A k \in Names \ (to \cup {i}) : ifc'[k] = ifc[k]
  BY <1>2, <1>5
<1>8. ASSUME NEW j \in to
      PROVE  /\ InterfaceOK(World, life, j, ifc'[j]) /\ Once(ifc'[j]) /\ Given(j)
             /\ \/ Carried(ifc'[j]) \subseteq Carried(ifc[j])
                \/ f.dst[1] = j /\ Carried(ifc'[j]) \subseteq Carried(ifc[j]) \cup ids
  <2> DEFINE z == ifc[j]
             u == recv_frame(z, f)
  <2>1. j \in Names /\ j \in Others(i) /\ j # i
    BY <1>5
  <2>2. InterfaceOK(World, life, j, z) /\ Once(z) /\ z \in InterfaceSet
        /\ Carried(z) \cap Carried(x) = {}
    BY <1>3, <2>1
  <2>3. ifc'[j] = u
    BY <1>7
  <2> HIDE DEF z
  <2>4. /\ InterfaceOK(World, life, j, u)
        /\ \/ u.datagrams_out = z.datagrams_out
           \/ /\ f.type = "IPv4" /\ f.dst[1] = j /\ Got(World, j, f.payload)
              /\ Takes(z, u, f.payload)
    <3>1. /\ i \in Names /\ j \in Others(i) /\ InterfaceOK(World, life, j, z)
          /\ f \in Frame /\ FrameOK(World, life, i, f) /\ life \in Nat
      BY <1>1, <1>4, <2>1, <2>2
    <3> QED BY <3>1, RecvKeeps
  <2>5. f.type = "IPv4" => f.payload.id \notin Carried(z)
    BY <1>4, <2>2
  <2>6. /\ Once(u)
        /\ \/ Carried(u) \subseteq Carried(z)
           \/ /\ f.type = "IPv4" /\ Accepts(z, f)
              /\ Carried(u) = Carried(z) \cup {f.payload.id}
    BY <1>4, <2>2, <2>5, RecvOnce
  <2>7. f.type = "IPv4" /\ Accepts(z, f) => f.dst[1] = j
    BY <1>1, <1>4, <2>1, <2>2, AcceptedIs
  <2> HIDE DEF u
  <2> QED BY <2>3, <2>4, <2>6, <2>7 DEF z
<1>9. Holding(World, life, ifc')
  <2>1. \A j \in Names : InterfaceOK(World, life, j, ifc'[j]) /\ Once(ifc'[j])
    BY <1>3, <1>4, <1>7, <1>8
  <2>2. \A j \in Names : ifc'[j] \in InterfaceSet
    BY <2>1 DEF InterfaceOK
  <2>3. DOMAIN ifc' = Names /\ ifc' = [j \in Names |-> ifc'[j]]
    BY <1>2
  <2> QED BY <2>1, <2>2, <2>3 DEF Holding
<1>10. Moved(ifc, ifc', f.dst[1], ids)
  <2> HIDE DEF ids
  <2>1. \A j \in Names \ {f.dst[1]} : Carried(ifc'[j]) \subseteq Carried(ifc[j])
    BY <1>4, <1>7, <1>8 DEF x
  <2>2. \A j \in Names \ {f.dst[1]} : Carried(ifc'[j]) \cap ids = {}
    <3> TAKE j \in Names \ {f.dst[1]}
    <3>1. CASE j = i
      BY <1>6, <1>7, <3>1
    <3>2. CASE j # i
      BY <1>3, <1>6, <2>1, <3>2
    <3> QED BY <3>1, <3>2
  <2>3. f.dst[1] \in Names => Carried(ifc'[f.dst[1]]) \subseteq Carried(ifc[f.dst[1]]) \cup ids
    BY <1>4, <1>7, <1>8 DEF x
  <2> QED BY <2>1, <2>2, <2>3 DEF Moved
<1>11. ids \subseteq {d.id : d \in World.sent}
  BY <1>3, <1>6 DEF x
<1>12. Fine(World, life, ifc')
  BY <1>1, <1>9, <1>10, <1>11, FineMoves DEF Within
<1>13. \A h \in Hosts : Given(h)
  <2> TAKE h \in Hosts
  <2>1. h \in Names
    BY DEF Names
  <2>2. CASE h = i
    BY <1>4, <1>7, <2>2 DEF x
  <2>3. CASE h \in to
    BY <1>8, <2>3
  <2>4. CASE h \notin to \cup {i}
    BY <1>7, <2>1, <2>4
  <2> QED BY <2>2, <2>3, <2>4
<1>14. ASSUME f.type = "IPv4", NEW h \in Hosts
       PROVE  f.payload.id \notin Ids(ifc[h].datagrams_out)
  <2>1. h \in Names
    BY DEF Names
  <2>2. CASE h = i
    BY <1>4, <1>14, <2>2 DEF Carried, x
  <2>3. CASE h # i
    BY <1>3, <1>4, <1>14, <2>1, <2>3 DEF Carried
  <2> QED BY <2>2, <2>3
<1> QED BY <1>4, <1>12, <1>13, <1>14 DEF life, f, x
LEMMA NamesFinite == IsFiniteSet(Names)
<1>1. RouterPorts \in Seq(Range(RouterPorts)) /\ Len(RouterPorts) \in Nat
      /\ DOMAIN RouterPorts = 1..Len(RouterPorts)
  BY RouterAssumption, LenProperties
<1>2. IsFiniteSet(1..Len(RouterPorts))
  BY <1>1, FS_Interval
<1>3. RouterPorts \in Surjection(1..Len(RouterPorts), Range(RouterPorts))
  BY <1>1, LenProperties DEF Surjection, Range
<1>4. IsFiniteSet(Range(RouterPorts))
  BY <1>2, <1>3, FS_Surjection
<1> QED BY <1>4, NetworkAssumption, FS_Union DEF Names

\* The adapter of a host reads what the host takes.
LEMMA ReadKeeps ==
    ASSUME IInv, NEW h \in Hosts, NEW d,
           \/ ifc'[h].datagrams_out = ifc[h].datagrams_out
           \/ d \in Datagram /\ Takes(ifc[h], ifc'[h], d)
    PROVE  /\ ReadByAdapter(h) \in AdapterSet
           /\ Bonded(ReadByAdapter(h), env.adapters[h].listening)
           /\ \/ ReadByAdapter(h).handed = adapter[h].handed
              \/ /\ ReadByAdapter(h).handed = Append(adapter[h].handed, d)
                 /\ ChecksumHolds(d) /\ d \in Datagram /\ Takes(ifc[h], ifc'[h], d)
<1> DEFINE q == ifc[h].datagrams_out
           t == ifc'[h].datagrams_out
<1>1. adapter[h] \in AdapterSet /\ Bonded(adapter[h], env.adapters[h].listening)
      /\ env.adapters[h].listening \in BOOLEAN
  BY EnvIs DEF IInv, TypeOK
<1>2. q \in Seq(Datagram) /\ Len(q) \in Nat
  BY LenProperties DEF IInv, Fine, InterfaceSet, Names
<1>3. CASE t = q
  BY <1>1, <1>2, <1>3 DEF ReadByAdapter
<1>4. CASE d \in Datagram /\ Takes(ifc[h], ifc'[h], d)
  <2>1. t = Append(q, d)
    BY <1>4 DEF Takes
  <2>2. Len(t) = Len(q) + 1 /\ t[Len(t)] = d
    <3> HIDE DEF q, t
    <3> QED BY <1>2, <1>4, <2>1, AppendProperties
  <2>3. Last(t) = d
    BY <2>2 DEF Last
  <2>4. ReadByAdapter(h) = unwrap_tcp_in_ip(adapter[h], d)
    <3> HIDE DEF q, t
    <3>1. Len(t) > Len(q)
      BY <1>2, <2>2
    <3> QED BY <2>3, <3>1 DEF ReadByAdapter, q, t
  <2>5. /\ unwrap_tcp_in_ip(adapter[h], d) \in AdapterSet
        /\ Bonded(unwrap_tcp_in_ip(adapter[h], d), env.adapters[h].listening)
        /\ \/ unwrap_tcp_in_ip(adapter[h], d).handed = adapter[h].handed
           \/ /\ unwrap_tcp_in_ip(adapter[h], d).handed = Append(adapter[h].handed, d)
              /\ ChecksumHolds(d)
    BY <1>1, <1>4, UnwrapKeeps
  <2> QED BY <1>4, <2>4, <2>5
<1> QED BY <1>3, <1>4

\* A datagram that came to a host, with a checksum that holds, says what one says that
\* was sent.
LEMMA GenuineIs ==
    ASSUME IInv, NEW h \in Hosts, NEW d \in Datagram, Got(World, h, d), ChecksumHolds(d)
    PROVE  \E s \in sent : d = [s EXCEPT !.ttl = d.ttl, !.header = d.header]
<1> DEFINE p == serialized(d)
<1>1. p \in Datagram
  BY SerializedIs
<1>2. /\ p.src = d.src /\ p.dst = d.dst /\ p.cksum = d.cksum /\ p.ttl = d.ttl
      /\ d = [p EXCEPT !.header = d.header]
  BY DEF serialized, Datagram
<1>3. PICK s \in sent : p = Service!Routed(s) \/ Service!AlteredFrom(p, s)
  BY DEF Got, Stray, World
<1> HIDE DEF p
<1>4. s \in Datagram /\ s.cksum = <<s.src, s.dst>>
  BY DEF IInv, TypeOK, Summed, ChecksumHolds
<1>5. p = [s EXCEPT !.ttl = p.ttl]
  <2>1. CASE p = Service!Routed(s)
    BY <1>4, <2>1 DEF Service!Routed, Datagram
  <2>2. CASE Service!AlteredFrom(p, s)
    <3>1. /\ p = [s EXCEPT !.src = p.src, !.dst = p.dst, !.ttl = p.ttl, !.cksum = p.cksum]
          /\ p.cksum \in {s.cksum, Corrupt}
      BY <2>2 DEF Service!AlteredFrom, Corrupt
    <3>2. p.cksum = <<p.src, p.dst>> /\ p.cksum # Corrupt
      BY <1>2 DEF ChecksumHolds, Corrupt
    <3>3. p.src = s.src /\ p.dst = s.dst /\ p.cksum = s.cksum
      BY <1>4, <3>1, <3>2
    <3> QED BY <1>4, <3>1, <3>3 DEF Datagram
  <2> QED BY <1>3, <2>1, <2>2
<1>6. d = [s EXCEPT !.ttl = d.ttl, !.header = d.header]
  BY <1>2, <1>4, <1>5 DEF Datagram
<1> QED BY <1>6

\* Steps that no host takes or sends a datagram in, and no wire alters one.
Inside == UNCHANGED <<sent, faults.altered, [h \in Hosts |-> Delivered(h)]>>

\* The datagram of a frame arrives where it was sent to, or altered, or nothing does.
LEMMA TransmitStep ==
    ASSUME IInv, NEW i \in Names, NEW missing \in SUBSET Others(i), Transmit(i, missing)
    PROVE  IInv' /\ (Service!Arrive \/ Service!ArriveAltered \/ Inside)
<1> DEFINE f == Head(ifc[i].frames_out)
           d == f.payload
<1>1. /\ f \in Frame /\ Fine(World, faults.restarted, ifc')
      /\ \A h \in Hosts :
            \/ ifc'[h].datagrams_out = ifc[h].datagrams_out
            \/ /\ f.type = "IPv4" /\ f.dst[1] = h /\ Got(World, h, d)
               /\ Takes(ifc[h], ifc'[h], d)
      /\ f.type = "IPv4" => \A h \in Hosts : d.id \notin Ids(ifc[h].datagrams_out)
  BY TransmitFine
<1>2. /\ UNCHANGED <<env, sent>> /\ adapter' = [h \in Hosts |-> ReadByAdapter(h)]
      /\ faults' = [faults EXCEPT !.lost = @ + Cardinality(missing)]
      /\ faults.lost + Cardinality(missing) =< env.losses
  BY DEF Transmit
<1> HIDE DEF f
<1>3. f.type = "IPv4" => d \in Datagram
  BY <1>1, PayloadIs
<1>4. /\ faults' \in Faults /\ faults'.restarted = faults.restarted
      /\ faults'.altered = faults.altered
  <2>1. faults \in Faults
    BY DEF IInv, TypeOK
  <2>2. Cardinality(missing) \in Nat
    <3>1. IsFiniteSet(missing)
      BY NamesFinite, OthersIs, FS_Subset
    <3> QED BY <3>1, FS_CardinalityType
  <2> QED BY <1>2, <2>1, <2>2 DEF Faults
<1>9. World' = World
  BY <1>2, <1>4 DEF World
<1>5. \A h \in Hosts : /\ adapter'[h] \in AdapterSet
                       /\ Bonded(adapter'[h], env.adapters[h].listening)
  BY <1>1, <1>2, <1>3, ReadKeeps
<1>6. IInv'
  <2>1. TypeOK'
    BY <1>2, <1>4, <1>5 DEF IInv, TypeOK
  <2>2. Numbered' /\ Summed'
    BY <1>2 DEF IInv, Numbered, Summed, SentBy
  <2>3. HandedAsSent'
    <3> SUFFICES ASSUME NEW h \in Hosts, NEW e \in Range(adapter'[h].handed)
                 PROVE  \E s \in sent : e = [s EXCEPT !.ttl = e.ttl, !.header = e.header]
      BY <1>2 DEF HandedAsSent
    <3>1. adapter[h].handed \in Seq(Datagram)
      BY DEF IInv, TypeOK, AdapterSet
    <3>2. CASE e \in Range(adapter[h].handed)
      BY <3>2 DEF IInv, HandedAsSent
    <3>3. CASE e \notin Range(adapter[h].handed)
      <4>1. adapter'[h] = ReadByAdapter(h)
        BY <1>2
      <4>2. /\ adapter'[h].handed = Append(adapter[h].handed, d)
            /\ ChecksumHolds(d) /\ d \in Datagram /\ Takes(ifc[h], ifc'[h], d)
        BY <1>1, <1>3, <3>3, <4>1, ReadKeeps
      <4>3. e = d
        BY <3>1, <3>3, <4>2, RangeAppend
      <4>4. ifc'[h].datagrams_out # ifc[h].datagrams_out
        <5> DEFINE q == ifc[h].datagrams_out
        <5>1. q \in Seq(Datagram)
          BY DEF IInv, Fine, InterfaceSet, Names
        <5> HIDE DEF q
        <5>2. Append(q, d) # q
          BY <4>2, <5>1, AppendProperties
        <5> QED BY <4>2, <5>2 DEF Takes, q
      <4>5. Got(World, h, d)
        BY <1>1, <4>4
      <4> QED BY <4>2, <4>3, <4>5, GenuineIs
    <3> QED BY <3>2, <3>3
  <2> QED BY <1>1, <1>2, <1>4, <1>5, <1>9, <2>1, <2>2, <2>3 DEF IInv
<1>7. CASE \A h \in Hosts : ifc'[h].datagrams_out = ifc[h].datagrams_out
  <2>1. \A h \in Hosts : Delivered(h)' = Delivered(h)
    BY <1>7 DEF Delivered
  <2> QED BY <1>2, <1>4, <1>6, <2>1 DEF Inside
<1>8. ASSUME NEW h \in Hosts, ifc'[h].datagrams_out # ifc[h].datagrams_out
      PROVE  Service!Arrive \/ Service!ArriveAltered
  <2>1. /\ f.type = "IPv4" /\ f.dst[1] = h /\ Got(World, h, d) /\ Takes(ifc[h], ifc'[h], d)
        /\ d \in Datagram
    BY <1>1, <1>3, <1>8
  <2>2. \A g \in Hosts \ {h} : ifc'[g].datagrams_out = ifc[g].datagrams_out
    BY <1>1, <2>1
  <2> DEFINE p == serialized(d)
  <2>3. PICK s \in sent :
            \/ /\ s.ttl > 1 /\ p = Service!Routed(s)
               /\ s.dst \in DOMAIN ReceiverOf /\ ReceiverOf[s.dst] = h
            \/ s.id \in faults.altered /\ Service!AlteredFrom(p, s)
    BY <2>1 DEF Got, Stray, World
  <2> HIDE DEF p
  <2>4. s.id = d.id
    <3>1. p.id = d.id /\ s \in Datagram
      BY <2>1, SerializedIs DEF p, IInv, TypeOK
    <3>2. p = Service!Routed(s) => p.id = s.id
      BY <3>1 DEF Datagram, Service!Routed
    <3>3. Service!AlteredFrom(p, s) => p.id = s.id
      BY <3>1 DEF Datagram, Service!AlteredFrom
    <3> QED BY <2>3, <3>1, <3>2, <3>3
  <2>5. ~Service!HasArrived(s)
    <3> SUFFICES ASSUME NEW g \in Hosts, NEW e \in Range(Delivered(g)), e.id = s.id
                 PROVE  FALSE
      BY DEF Service!HasArrived, Service!Range, Range
    <3> DEFINE q == ifc[g].datagrams_out
    <3>1. q \in Seq(Datagram)
      BY DEF IInv, Fine, InterfaceSet, Names
    <3>2. PICK n \in DOMAIN q : e = serialized(q[n])
      BY DEF Delivered, Range
    <3>3. q[n] \in Datagram /\ q[n] \in Range(q)
      <4> HIDE DEF q
      <4> QED BY <3>1, LenProperties, ElementOfSeq DEF Range
    <3>4. q[n].id = s.id
      BY <3>2, <3>3, SerializedIs
    <3>5. d.id \in Ids(q)
      <4> HIDE DEF q
      <4> QED BY <2>4, <3>3, <3>4 DEF Ids
    <3> QED BY <1>1, <2>1, <3>5
  <2>6. Delivered(h)' = Append(Delivered(h), p)
    <3> DEFINE q == ifc[h].datagrams_out
    <3>1. q \in Seq(Datagram)
      BY DEF IInv, Fine, InterfaceSet, Names
    <3>2. ifc'[h].datagrams_out = Append(q, d)
      BY <2>1 DEF Takes
    <3> DEFINE t == ifc'[h].datagrams_out
    <3>3. Delivered(h) = [n \in DOMAIN q |-> serialized(q[n])]
      BY DEF Delivered
    <3>4. Delivered(h)' = [n \in DOMAIN t |-> serialized(t[n])]
      BY DEF Delivered
    <3> HIDE DEF q
    <3>5. [n \in DOMAIN Append(q, d) |-> serialized(Append(q, d)[n])]
             = Append([n \in DOMAIN q |-> serialized(q[n])], serialized(d))
      BY <2>1, <3>1, DeliveredAppend
    <3>6. t = Append(q, d)
      BY <3>2
    <3> HIDE DEF t
    <3> QED BY <3>3, <3>4, <3>5, <3>6 DEF p
  <2>7. \A g \in Hosts \ {h} : Delivered(g)' = Delivered(g)
    BY <2>2 DEF Delivered
  <2>8. [g \in Hosts |-> Delivered(g)]' =
            [[g \in Hosts |-> Delivered(g)] EXCEPT ![h] = Append(@, p)]
    BY <2>6, <2>7
  <2>9. CASE Service!AlteredFrom(p, s) /\ s.id \in faults.altered
    <3> DEFINE now == [g \in Hosts |-> Delivered(g)]'
    <3>1. now[h] = Append(Delivered(h), p)
      BY <2>6
    <3>2. p \in Range(now[h])
      <4> DEFINE q == ifc[h].datagrams_out
      <4>1. Delivered(h) \in Seq(Datagram) /\ p \in Datagram
        <5>1. q \in Seq(Datagram) /\ Delivered(h) = [n \in DOMAIN q |-> serialized(q[n])]
          BY DEF IInv, Fine, InterfaceSet, Names, Delivered
        <5>2. \A n \in DOMAIN q : serialized(q[n]) \in Datagram
          BY <5>1, ElementOfSeq, LenProperties, SerializedIs
        <5>3. DOMAIN q = 1..Len(q) /\ Len(q) \in Nat
          BY <5>1, LenProperties
        <5> HIDE DEF q
        <5>4. Delivered(h) = [n \in 1..Len(q) |-> serialized(q[n])]
          BY <5>1, <5>3
        <5> QED BY <2>1, <5>2, <5>3, <5>4, SerializedIs DEF p
      <4>2. p \in Range(Append(Delivered(h), p))
        BY <4>1, RangeAppend
      <4> HIDE DEF now
      <4> QED BY <3>1, <4>2
    <3> DEFINE before == [g \in Hosts |-> Delivered(g)]
    <3>3. now = [before EXCEPT ![h] = Append(@, p)]
      BY <2>8
    <3> HIDE DEF now, before
    <3>4. \E dgram \in sent, g \in Hosts : \E e \in Range(now[g]) :
            /\ dgram.id \in faults.altered /\ Service!AlteredFrom(e, dgram)
            /\ ~Service!HasArrived(dgram)
            /\ now = [before EXCEPT ![g] = Append(@, e)]
      BY <2>5, <2>9, <3>2, <3>3
    <3>5. UNCHANGED <<sent, faults.altered>>
      BY <1>2, <1>4
    <3>6. Service!ArriveAltered
      BY <3>4, <3>5 DEF Service!ArriveAltered, Service!Range, Range, now, before
    <3> QED BY <3>6
  <2>10. CASE ~(Service!AlteredFrom(p, s) /\ s.id \in faults.altered)
    BY <1>2, <1>4, <2>3, <2>5, <2>8, <2>10 DEF Service!Arrive
  <2> QED BY <2>9, <2>10
<1> QED BY <1>6, <1>7, <1>8

LEMMA InsideIs ==
    ASSUME sent' = sent, faults'.altered = faults.altered,
           \A h \in Hosts : ifc'[h].datagrams_out = ifc[h].datagrams_out
    PROVE  Inside
<1>1. \A h \in Hosts : Delivered(h)' = Delivered(h)
  BY DEF Delivered
<1> QED BY <1>1 DEF Inside

\* What a step that sends nothing and reads nothing leaves as it is.
LEMMA StillSo ==
    ASSUME IInv, UNCHANGED <<env, adapter, sent>>, faults' \in Faults
    PROVE  TypeOK' /\ Numbered' /\ Summed' /\ HandedAsSent'
           /\ \A h \in Hosts : Bonded(adapter'[h], env'.adapters[h].listening)
  BY DEF IInv, TypeOK, Numbered, SentBy, Summed, HandedAsSent

LEMMA RouteStep ==
    ASSUME IInv, Route
    PROVE  IInv' /\ Inside
<1>1. /\ Fine(World, faults.restarted, ifc) /\ faults.restarted \in Nat
      /\ ifc' = route(ifc) /\ UNCHANGED <<env, adapter, sent, faults>>
      /\ faults \in Faults
  BY DEF IInv, TypeOK, Faults, Route
<1>2. Fine(World, faults.restarted, ifc') /\ \A h \in Hosts : ifc'[h] = ifc[h]
  BY <1>1, RouteKeeps
<1>3. World' = World
  BY <1>1 DEF World
<1>4. IInv'
  BY <1>1, <1>2, <1>3, StillSo DEF IInv
<1> QED BY <1>1, <1>2, <1>4, InsideIs

LEMMA TickStep ==
    ASSUME IInv, NEW clock \in Clocks, Tick(clock)
    PROVE  IInv' /\ Inside
<1> DEFINE life == faults.restarted
<1>1. /\ Fine(World, life, ifc) /\ UNCHANGED <<env, adapter, sent, faults>>
      /\ ifc' = [i \in Names |-> IF i \in clock THEN interface_tick(ifc[i], 1) ELSE ifc[i]]
      /\ faults \in Faults
  BY DEF IInv, TypeOK, Tick
<1>2. \A i \in Names : ifc[i] \in InterfaceSet /\ InterfaceOK(World, life, i, ifc[i]) /\ Once(ifc[i])
  BY <1>1 DEF Fine
<1>3. \A i \in Names : /\ InterfaceOK(World, life, i, ifc'[i]) /\ Once(ifc'[i])
                       /\ ifc'[i] \in InterfaceSet /\ Carried(ifc'[i]) = Carried(ifc[i])
                       /\ ifc'[i].datagrams_out = ifc[i].datagrams_out
  <2> TAKE i \in Names
  <2> DEFINE x == ifc[i]
             y == interface_tick(x, 1)
  <2>1. x \in InterfaceSet /\ InterfaceOK(World, life, i, x) /\ Once(x)
    BY <1>2
  <2> HIDE DEF x, life
  <2>2. y \in InterfaceSet /\ y.datagrams_out = x.datagrams_out /\ InterfaceOK(World, life, i, y)
        /\ Once(y) /\ Carried(y) = Carried(x)
    BY <2>1, TickKeeps
  <2>3. ifc'[i] = y \/ ifc'[i] = x
    BY <1>1 DEF x
  <2> HIDE DEF y
  <2>4. /\ InterfaceOK(World, life, i, ifc'[i]) /\ Once(ifc'[i])
        /\ ifc'[i] \in InterfaceSet /\ Carried(ifc'[i]) = Carried(x)
        /\ ifc'[i].datagrams_out = x.datagrams_out
    BY <2>1, <2>2, <2>3
  <2> QED BY <2>4 DEF x
<1> HIDE DEF life
<1>4. Fine(World, life, ifc')
  <2>1. ifc' \in [Names -> InterfaceSet]
    BY <1>1, <1>3
  <2> QED BY <1>1, <1>3, <2>1 DEF Fine
<1>5. World' = World
  BY <1>1 DEF World
<1>6. IInv'
  BY <1>1, <1>4, <1>5, StillSo DEF IInv, life
<1>7. \A h \in Hosts : ifc'[h].datagrams_out = ifc[h].datagrams_out
  BY <1>3 DEF Names
<1> QED BY <1>1, <1>6, <1>7, InsideIs

\* A damaged frame carries the datagram still, marked as altered unless only the verdict on
\* its header is another.
LEMMA DamageStep ==
    ASSUME IInv, NEW i \in Names, Damage(i)
    PROVE  IInv' /\ (Service!Alter \/ Inside)
<1> DEFINE life == faults.restarted
           x == ifc[i]
           f == Head(x.frames_out)
<1>1. /\ Fine(World, life, ifc) /\ faults \in Faults /\ life \in Nat
      /\ UNCHANGED <<env, adapter, sent>> /\ x.frames_out # << >>
  BY DEF IInv, TypeOK, Faults, Damage
<1>2. PICK g \in Damaged(f) :
         /\ ifc' = [ifc EXCEPT ![i].frames_out[1] = g]
         /\ faults' = [faults EXCEPT !.damaged = @ + 1, !.altered = @ \cup AlteredId(f, g)]
  BY DEF Damage
<1> DEFINE y == [x EXCEPT !.frames_out[1] = g]
<1>3. ifc \in [Names -> InterfaceSet] /\ x \in InterfaceSet /\ Once(x)
      /\ (\A j \in Names : InterfaceOK(World, life, j, ifc[j]) /\ Once(ifc[j]))
      /\ Carried(x) \subseteq {d.id : d \in World.sent}
  BY <1>1 DEF Fine
<1> HIDE DEF f
<1>4. AlteredId(f, g) = {} \/ \E d \in sent : AlteredId(f, g) = {d.id}
  <2>1. CASE f.type = "IPv4" /\ AlteredId(f, g) = {f.payload.id}
    <3>1. f.payload.id \in Carried(x)
      <4>1. x.frames_out \in Seq(Frame)
        BY <1>3 DEF InterfaceSet
      <4>2. f \in Range(x.frames_out)
        <5> DEFINE fs == x.frames_out
        <5>1. fs \in Seq(Frame) /\ fs # << >>
          BY <1>1, <4>1
        <5> HIDE DEF fs
        <5>2. Head(fs) \in Range(fs)
          BY <5>1, RangeTail
        <5> QED BY <5>2 DEF fs, f
      <4> QED BY <2>1, <4>2 DEF Carried, Outgoing, FrameIds
    <3> QED BY <1>3, <2>1, <3>1 DEF World
  <2> QED BY <2>1 DEF AlteredId
<1>5. /\ faults' \in Faults /\ faults'.restarted = life
      /\ faults'.altered = faults.altered \cup AlteredId(f, g)
  <2>1. AlteredId(f, g) \subseteq Hosts \X Nat
    <3>1. \A d \in sent : d.id \in Hosts \X Nat
      BY DEF IInv, TypeOK, Datagram
    <3> QED BY <1>4, <3>1
  <2> DEFINE ids == faults.altered \cup AlteredId(f, g)
  <2>2. ids \in SUBSET (Hosts \X Nat)
    BY <1>1, <2>1 DEF Faults
  <2>3. faults' = [faults EXCEPT !.damaged = @ + 1, !.altered = ids]
    BY <1>2
  <2> HIDE DEF ids
  <2> DEFINE T == SUBSET (Hosts \X Nat)
             F == [lost : Nat, damaged : Nat, restarted : Nat, altered : T]
  <2>4. F = Faults /\ faults \in F /\ ids \in T
    BY <1>1, <2>2 DEF Faults
  <2> HIDE DEF T
  <2>5. faults' \in F /\ faults'.restarted = life /\ faults'.altered = ids
    <3>1. /\ faults.lost \in Nat /\ faults.damaged + 1 \in Nat /\ faults.restarted \in Nat
          /\ faults = [lost |-> faults.lost, damaged |-> faults.damaged,
                       restarted |-> faults.restarted, altered |-> faults.altered]
      BY <2>4
    <3>2. faults' = [lost |-> faults.lost, damaged |-> faults.damaged + 1,
                     restarted |-> faults.restarted, altered |-> ids]
      BY <2>3, <3>1
    <3> QED BY <2>4, <3>1, <3>2
  <2> QED BY <2>4, <2>5 DEF ids
<1> DEFINE S == World'
<1>6. Within(World, S) /\ AlteredId(f, g) \subseteq S.altered /\ S.sent = sent
  BY <1>1, <1>5 DEF Within, World
<1> HIDE DEF life
<1>7. \A j \in Names : InterfaceOK(S, life, j, ifc[j])
  <2>1. life =< life
    BY <1>1
  <2> HIDE DEF S
  <2> QED BY <1>1, <1>3, <1>6, <2>1, Grows
<1>8. /\ y \in InterfaceSet /\ y.datagrams_out = x.datagrams_out
      /\ InterfaceOK(S, life, i, y) /\ Once(y) /\ Carried(y) \subseteq Carried(x)
  <2>1. InterfaceOK(S, life, i, x)
    BY <1>7
  <2> HIDE DEF x, S
  <2> QED BY <1>1, <1>2, <1>3, <1>6, <2>1, DamageKeeps DEF f
<1>9. ifc' = [ifc EXCEPT ![i] = y]
  BY <1>2
<1> HIDE DEF y, S
<1>10. ifc' \in [Names -> InterfaceSet] /\ ifc'[i] = y /\ \A j \in Names \ {i} : ifc'[j] = ifc[j]
  BY <1>3, <1>8, <1>9
<1>11. Fine(S, life, ifc')
  <2>1. Holding(S, life, ifc')
    BY <1>3, <1>7, <1>8, <1>10 DEF Holding
  <2>2. Moved(ifc, ifc', i, {})
    BY <1>8, <1>10 DEF Moved
  <2> QED BY <1>1, <1>6, <2>1, <2>2, FineMoves
<1>12. IInv'
  BY <1>1, <1>5, <1>11, StillSo DEF IInv, S
<1>13. \A h \in Hosts : ifc'[h].datagrams_out = ifc[h].datagrams_out
  BY <1>8, <1>10 DEF Names
<1>14. CASE AlteredId(f, g) = {}
  BY <1>1, <1>5, <1>12, <1>13, <1>14, InsideIs
<1>15. ASSUME NEW d \in sent, AlteredId(f, g) = {d.id}
       PROVE  Service!Alter
  <2>1. \A h \in Hosts : Delivered(h)' = Delivered(h)
    BY <1>13 DEF Delivered
  <2> QED BY <1>1, <1>5, <1>15, <2>1 DEF Service!Alter
<1> QED BY <1>4, <1>12, <1>14, <1>15

LEMMA RestartStep ==
    ASSUME IInv, NEW h \in Hosts, Restart(h)
    PROVE  IInv' /\ Inside
<1> DEFINE life == faults.restarted
           later == life + 1
           x == ifc[h]
           q == x.datagrams_out
           y == [NewInterface(MAC(h, later), IPOf[h]) EXCEPT !.datagrams_out = q]
<1>1. /\ Fine(World, life, ifc) /\ faults \in Faults
      /\ env \in Scenarios /\ adapter \in [Hosts -> AdapterSet]
      /\ UNCHANGED <<env, sent>> /\ faults' = [faults EXCEPT !.restarted = @ + 1]
      /\ ifc' = [ifc EXCEPT ![h] = y] /\ adapter' = [adapter EXCEPT ![h] = env.adapters[h]]
  BY DEF IInv, TypeOK, Restart
<1>2. life \in Nat /\ later \in Nat /\ life =< later /\ h \in Names
  BY <1>1 DEF Names, Faults
<1>3. ifc \in [Names -> InterfaceSet] /\ x \in InterfaceSet /\ Once(x)
      /\ \A j \in Names : InterfaceOK(World, life, j, ifc[j]) /\ Once(ifc[j])
  BY <1>1, <1>2 DEF Fine
<1>4. /\ faults' \in Faults /\ faults'.restarted = later
      /\ faults'.altered = faults.altered /\ World' = World
  BY <1>1 DEF Faults, World
<1> HIDE DEF life, later
<1>5. \A j \in Names : InterfaceOK(World, later, j, ifc[j])
  BY <1>2, <1>3, Grows DEF Within
<1>6. q \in Seq(Datagram) /\ (\A d \in Range(q) : Got(World, h, d)) /\ Distinct(q)
      /\ Ids(q) \subseteq Carried(x)
  BY <1>2, <1>3 DEF InterfaceSet, InterfaceOK, Once, Carried
<1> HIDE DEF q
<1>7. InterfaceOK(World, later, h, y) /\ y.datagrams_out = q /\ Once(y) /\ Carried(y) \subseteq Carried(x)
  <2>1. /\ InterfaceOK(World, later, h, y) /\ y.datagrams_out = q
        /\ Distinct(q) => Once(y)
        /\ Carried(y) = Ids(q)
    BY <1>2, <1>6, NewIs, Zenon
  <2> QED BY <1>6, <2>1
<1> HIDE DEF y
<1>8. ifc' \in [Names -> InterfaceSet] /\ ifc'[h] = y /\ \A j \in Names \ {h} : ifc'[j] = ifc[j]
  <2>1. y \in InterfaceSet
    BY <1>7 DEF InterfaceOK
  <2> QED BY <1>1, <1>2, <1>3, <2>1
<1>9. Fine(World, later, ifc')
  <2>1. Holding(World, later, ifc')
    BY <1>3, <1>5, <1>7, <1>8 DEF Holding
  <2>2. Moved(ifc, ifc', h, {})
    BY <1>7, <1>8 DEF Moved
  <2> QED BY <1>1, <2>1, <2>2, FineMoves DEF Within
<1>10. adapter' \in [Hosts -> AdapterSet]
       /\ (\A g \in Hosts : Bonded(adapter'[g], env.adapters[g].listening))
       /\ HandedAsSent'
  <2>1. \A g \in Hosts : adapter'[g] = IF g = h THEN env.adapters[g] ELSE adapter[g]
    BY <1>1
  <2>2. env.adapters[h] \in AdapterSet /\ Bonded(env.adapters[h], env.adapters[h].listening)
    BY <1>1, EnvIs
  <2>3. adapter' \in [Hosts -> AdapterSet]
    BY <1>1, <2>2
  <2>4. \A g \in Hosts : Range(adapter'[g].handed) \subseteq Range(adapter[g].handed)
    <3>1. Range(env.adapters[h].handed) = {}
      BY <1>1, EnvIs DEF Range
    <3> QED BY <2>1, <3>1
  <2>5. HandedAsSent'
    BY <1>1, <2>4 DEF IInv, HandedAsSent
  <2> QED BY <2>1, <2>2, <2>3, <2>5 DEF IInv
<1>11. IInv'
  BY <1>1, <1>4, <1>9, <1>10 DEF IInv, TypeOK, Numbered, SentBy, Summed
<1>12. \A g \in Hosts : ifc'[g].datagrams_out = ifc[g].datagrams_out
  BY <1>7, <1>8 DEF Names, q
<1> QED BY <1>1, <1>4, <1>11, <1>12, InsideIs

-----------------------------------------------------------------------------
(* What follows.                                                            *)

LEMMA StepGood ==
    ASSUME IInv, [Next]_vars
    PROVE  IInv' /\ (\/ Service!Post \/ Service!Alter
                     \/ Service!Arrive \/ Service!ArriveAltered \/ Inside)
<1>1. ASSUME NEW h \in Hosts, Send(h) PROVE IInv' /\ Service!Post
  BY <1>1, SendStep
<1>2. ASSUME NEW h \in Hosts, Restart(h) PROVE IInv' /\ Inside
  BY <1>2, RestartStep
<1>3. ASSUME NEW i \in Names, NEW missing \in SUBSET Others(i), Transmit(i, missing)
      PROVE  IInv' /\ (Service!Arrive \/ Service!ArriveAltered \/ Inside)
  BY <1>3, TransmitStep
<1>4. ASSUME NEW i \in Names, Damage(i) PROVE IInv' /\ (Service!Alter \/ Inside)
  BY <1>4, DamageStep
<1>5. CASE Route
  BY <1>5, RouteStep
<1>6. ASSUME NEW clock \in Clocks, Tick(clock) PROVE IInv' /\ Inside
  BY <1>6, TickStep
<1>7. CASE UNCHANGED vars
  <2>1. IInv'
    <3>1. /\ UNCHANGED <<env, adapter, sent>> /\ faults' = faults /\ ifc' = ifc
          /\ faults \in Faults
      BY <1>7 DEF vars, IInv, TypeOK
    <3>2. World' = World
      BY <3>1 DEF World
    <3> QED BY <3>1, <3>2, StillSo DEF IInv
  <2>2. \A h \in Hosts : ifc'[h].datagrams_out = ifc[h].datagrams_out
    BY <1>7 DEF vars
  <2> QED BY <1>7, <2>1, <2>2, InsideIs DEF vars
<1> QED BY <1>1, <1>2, <1>3, <1>4, <1>5, <1>6, <1>7 DEF Next

LEMMA Consequences == IInv => MappingsNameOwners /\ OnePeer /\ HandedAsSent
<1> SUFFICES ASSUME IInv PROVE MappingsNameOwners /\ OnePeer /\ HandedAsSent
  OBVIOUS
<1>1. MappingsNameOwners
  BY DEF IInv, Fine, InterfaceOK, OwnerMAC, MappingsNameOwners
<1>2. OnePeer
  <2> SUFFICES ASSUME NEW h \in Hosts, NEW d \in Range(adapter[h].handed)
               PROVE  /\ IsFromPeer(adapter[h], d)
                      /\ env.adapters[h].listening => Head(adapter[h].handed).syn
    BY DEF OnePeer
  <2> DEFINE x == adapter[h]
  <2>1. Bonded(x, env.adapters[h].listening) /\ x.handed \in Seq(Datagram)
    BY DEF IInv, TypeOK, AdapterSet
  <2>2. PICK k \in DOMAIN x.handed : d = x.handed[k]
    BY DEF Range
  <2> HIDE DEF x
  <2>3. x.handed # << >>
    BY <2>2
  <2>4. Head(x.handed) = x.handed[1]
    BY <2>1, <2>3, RangeTail
  <2>5. IsFromPeer(x, d) /\ (env.adapters[h].listening => Head(x.handed).syn)
    BY <2>1, <2>2, <2>3, <2>4 DEF Bonded
  <2> QED BY <2>5 DEF x
<1> QED BY <1>1, <1>2 DEF IInv

\* The inductive invariant: every datagram is in one place; where one is that no wire
\* altered says where it was sent to; which address the frames of an interface are for,
\* and whose the mappings are; and every segment was sent with a checksum that holds.
THEOREM Inductive == Spec => []IInv
<1>1. Init => IInv
  BY InitGood
<1>2. IInv /\ [Next]_vars => IInv'
  BY StepGood
<1> QED BY <1>1, <1>2, PTL DEF Spec

\* Requests, replies and requests for somebody else teach the sender's mapping and no
\* other (recv_frame, network_interface.cc): a cache only says what was true.
THEOREM TrueMappings == Spec => []MappingsNameOwners
<1> QED BY Inductive, Consequences, PTL

\* A connection is given segments of the peer that its replies go to, and of no other
\* (unwrap_tcp_in_ip, tcp_over_ip.cc).
THEOREM Peer == Spec => []OnePeer
<1> QED BY Inductive, Consequences, PTL

\* Although the router sends a datagram on by the address of a damaged header, and with a
\* good checksum (ipv4_datagram.cc:13, router.cc), a connection is given a segment only as
\* the host of those addresses sent it (tcp_over_ip.cc:45).
THEOREM Genuine == Spec => []HandedAsSent
<1> QED BY Inductive, Consequences, PTL

\* The interfaces, the router and the wires implement the datagram service: whatever is
\* lost or restarted, a datagram arrives at most once, and where it was sent to, a hop
\* older, unless a wire has altered its addresses, its time to live or its segment.
THEOREM Serves == Spec => ServesDatagrams
<1>1. Init => Service!Init
  BY InitGood
<1>2. IInv /\ [Next]_vars =>
        [Service!Post \/ Service!Alter \/ Service!Arrive \/ Service!ArriveAltered]_<<
            sent, faults.altered, [h \in Hosts |-> Delivered(h)]>>
  BY StepGood DEF Inside
<1> QED BY Inductive, <1>1, <1>2, PTL DEF Spec, ServesDatagrams, Service!Spec
=============================================================================
