------------------------------ MODULE PairProofs ------------------------------
(***************************************************************************)
(* Two TCPConnections over a network that delays, reorders, loses and       *)
(* repeats segments: an endpoint believes acknowledged only what its peer   *)
(* has taken, the pair implements ReliableStream, only one endpoint need    *)
(* not linger, and no state of tcp_state.cc is taken back.                  *)
(***************************************************************************)
EXTENDS TCPPair, ConnectionLemmas

-----------------------------------------------------------------------------
(* The invariant.                                                           *)

\* The invariant of the pair: both connections are fine, each with regard to its peer,
\* no window is left unused, and what is in flight tells the truth.
PairInv ==
    /\ env \in Scenarios
    /\ conn \in [Ends -> ConnectionSet]
    /\ net \in [Ends -> SUBSET SegmentSet]
    /\ \A e \in Ends :
          /\ Fine(conn[e], conn[Peer(e)], env.bytes[e])
          /\ FilledUp(conn[e].sender)
          /\ conn[e].sender.isn = ISN[e]
          /\ conn[e].segments_out = << >>
          /\ \A seg \in net[Peer(e)] : Sound(seg, conn[e], ISN[Peer(e)])

\* The two ends are each other's peers.
LEMMA Peers ==
    ASSUME NEW e \in Ends
    PROVE  /\ Peer(e) \in Ends /\ Peer(e) # e /\ Peer(Peer(e)) = e
           /\ \A f \in Ends : f = e \/ f = Peer(e)
BY DEF Ends, Peer

\* The constants, for one endpoint.
LEMMA ScenarioFacts ==
    ASSUME env \in Scenarios, NEW e \in Ends
    PROVE  Short(env.bytes[e]) /\ ISN[e] \in 0..(Mod32 - 1) /\ env.capacity \in Nat
<1>1. env.bytes[e] \in Nat /\ env.capacity \in Nat
  BY PairAssumption DEF Scenario
<1>2. env.bytes[e] + 2 < Half /\ env.bytes[e] + 2 + Mod32 < Mod64
  BY StreamAssumption
<1> QED BY <1>1, <1>2, PairAssumption DEF Short

\* The parts of the invariant for one endpoint.
LEMMA PairParts ==
    ASSUME PairInv, NEW e \in Ends
    PROVE  LET p == Peer(e)
               u == conn[e]
               d == conn[p]
           IN  /\ Fine(u, d, env.bytes[e]) /\ Fine(d, u, env.bytes[p])
               /\ FilledUp(u.sender) /\ u.segments_out = << >> /\ d.segments_out = << >>
               /\ u.sender.isn = ISN[e] /\ d.sender.isn = ISN[p]
               /\ d.sender.isn \in 0..(Mod32 - 1) /\ u.sender.isn \in 0..(Mod32 - 1)
               /\ Short(env.bytes[e]) /\ Short(env.bytes[p])
               /\ env.bytes[e] \in Nat /\ env.bytes[p] \in Nat
               /\ u \in ConnectionSet /\ d \in ConnectionSet
               /\ \A seg \in net[p] : Sound(seg, u, d.sender.isn)
               /\ \A seg \in net[e] : Sound(seg, d, u.sender.isn)
<1>1. /\ Peer(e) \in Ends /\ Peer(Peer(e)) = e
  BY Peers
<1>2. env \in Scenarios
  BY DEF PairInv
<1>3. /\ Short(env.bytes[e]) /\ Short(env.bytes[Peer(e)])
      /\ ISN[e] \in 0..(Mod32 - 1) /\ ISN[Peer(e)] \in 0..(Mod32 - 1)
  BY <1>1, <1>2, ScenarioFacts
<1> QED BY <1>1, <1>3 DEF PairInv, Short

\* What every call of endpoint e does: it goes forward, leaves the peer alone, and sends
\* nothing that does not say what it has taken so far.
Called(e) ==
    /\ env' = env /\ conn'[Peer(e)] = conn[Peer(e)]
    /\ Onward(conn[e], conn'[e])
    /\ net'[e] \subseteq net[e]
    /\ \A seg \in net'[Peer(e)] :
          seg \in net[Peer(e)] \/ Fresh(seg, conn'[e], ISN[Peer(e)])

\* A call of endpoint e that leaves it as c, fine and further than before, keeps the
\* invariant; the peer's connection is what it was.
LEMMA CallKeeps ==
    ASSUME PairInv, NEW e \in Ends, NEW c, NEW inbox, Step(e, c, inbox), env' = env,
           inbox \subseteq net[e],
           Fine(c, conn[Peer(e)], env.bytes[e]), Onward(conn[e], c), FilledUp(c.sender),
           \A seg \in Range(c.segments_out) :
               seg \in Range(conn[e].segments_out) \/ Fresh(seg, c, conn[Peer(e)].sender.isn)
    PROVE  LET v == conn'[e]
           IN  /\ PairInv' /\ Called(e)
               /\ v.sender = c.sender /\ v.receiver = c.receiver
               /\ v.active = c.active /\ v.linger = c.linger
<1> DEFINE p == Peer(e)
           u == conn[e]
           d == conn[p]
           n == env.bytes[e]
           m == env.bytes[p]
           q == << >>
           v == [c EXCEPT !.segments_out = q]
<1>1. /\ p \in Ends /\ p # e /\ Peer(p) = e /\ \A f \in Ends : f = e \/ f = p
  BY Peers
<1>2. /\ conn \in [Ends -> ConnectionSet] /\ net \in [Ends -> SUBSET SegmentSet]
      /\ env \in Scenarios
  BY DEF PairInv
<1>3. /\ Fine(u, d, n) /\ Fine(d, u, m) /\ u.sender.isn = ISN[e] /\ d.sender.isn = ISN[p]
      /\ u.segments_out = << >> /\ d.segments_out = << >> /\ FilledUp(d.sender)
      /\ \A seg \in net[p] : Sound(seg, u, d.sender.isn)
      /\ \A seg \in net[e] : Sound(seg, d, u.sender.isn)
  BY <1>1, PairParts DEF PairInv
<1>4. /\ conn' = [conn EXCEPT ![e] = v]
      /\ net' = [net EXCEPT ![e] = inbox, ![p] = @ \cup Range(c.segments_out)]
  BY DEF Step
<1>5. q \in Seq(SegmentSet) /\ Range(q) = {}
  BY DEF Range
<1> HIDE DEF q
<1>6. /\ Fine(v, d, n) /\ Onward(c, v)
      /\ v.sender = c.sender /\ v.receiver = c.receiver /\ v.segments_out = q
      /\ v.active = c.active /\ v.linger = c.linger
  <2>1. \A seg \in Range(q) : Sound(seg, c, d.sender.isn)
    BY <1>5
  <2> QED BY <1>5, <2>1, OutMoves
<1> HIDE DEF v
<1>7. conn'[e] = v /\ conn'[p] = d
  BY <1>1, <1>2, <1>4
<1>8. net'[e] = inbox /\ net'[p] = net[p] \cup Range(c.segments_out)
  BY <1>1, <1>2, <1>4
<1>9. Onward(u, v)
  BY <1>3, <1>6, OnwardChains
<1>10. /\ u.sender.stream.bytes_read \in Nat /\ v.sender.stream.bytes_read \in Nat
       /\ u.receiver \in ReceiverSet /\ v.receiver \in ReceiverSet
       /\ TakenBy(u.receiver) \in Nat /\ TakenBy(v.receiver) \in Nat
       /\ d.sender.ackno \in Nat /\ v \in ConnectionSet /\ c.segments_out \in Seq(SegmentSet)
  BY <1>3, <1>6, FineParts
<1>11. v.sender.isn = ISN[e] /\ FilledUp(v.sender)
  BY <1>3, <1>6, <1>9 DEF Onward, Ahead
<1>12. \A seg \in net'[p] : Sound(seg, v, ISN[p])
  <2>1. ASSUME NEW seg \in net[p] PROVE Sound(seg, v, ISN[p])
    <3>1. Sound(seg, u, ISN[p])
      BY <1>3
    <3>2. Ahead(u.sender, v.sender) /\ TakenBy(u.receiver) =< TakenBy(v.receiver)
      BY <1>9 DEF Onward
    <3> QED BY <1>10, <3>1, <3>2, SoundStays
  <2>2. ASSUME NEW seg \in Range(c.segments_out) PROVE Sound(seg, v, ISN[p])
    <3>1. Sound(seg, c, ISN[p])
      BY <1>3 DEF Fine
    <3> QED BY <3>1, <1>6 DEF Sound
  <2> QED BY <1>8, <2>1, <2>2
<1>13. Fine(d, v, m)
  <2>1. Sends(d, m)
    BY <1>3 DEF Fine
  <2>2. Hears(d, v.sender)
    <3>1. Hears(d, u.sender) /\ Ahead(u.sender, v.sender)
      BY <1>3, <1>9 DEF Fine, Onward
    <3> QED BY <1>10, <3>1, HearsStays
  <2>3. d.sender.ackno =< TakenBy(v.receiver)
    <3>1. d.sender.ackno =< TakenBy(u.receiver) /\ TakenBy(u.receiver) =< TakenBy(v.receiver)
      BY <1>3, <1>9 DEF Fine, Onward
    <3> QED BY <1>10, <3>1
  <2>4. \A seg \in Range(d.segments_out) : Sound(seg, d, v.sender.isn)
    BY <1>3, <1>11 DEF Fine
  <2> QED BY <2>1, <2>2, <2>3, <2>4 DEF Fine
<1>14. \A seg \in net'[e] : Sound(seg, d, ISN[e])
  BY <1>3, <1>8
<1>15. conn' \in [Ends -> ConnectionSet] /\ net' \in [Ends -> SUBSET SegmentSet]
  <2>1. Range(c.segments_out) \subseteq SegmentSet
    BY <1>5, <1>10, Ranges
  <2> QED BY <1>2, <1>4, <1>10, <2>1
<1>16. v.segments_out = << >>
  BY <1>6 DEF q
<1>17. ASSUME NEW f \in Ends
       PROVE  /\ Fine(conn'[f], conn'[Peer(f)], env'.bytes[f])
              /\ FilledUp(conn'[f].sender)
              /\ conn'[f].sender.isn = ISN[f]
              /\ conn'[f].segments_out = << >>
              /\ \A seg \in net'[Peer(f)] : Sound(seg, conn'[f], ISN[Peer(f)])
  <2>1. CASE f = e
    BY <1>6, <1>7, <1>11, <1>12, <1>16, <2>1
  <2>2. CASE f = p
    BY <1>1, <1>3, <1>7, <1>13, <1>14, <2>2
  <2> QED BY <1>1, <2>1, <2>2
<1>18. PairInv'
  BY <1>2, <1>15, <1>17 DEF PairInv
<1>19. Called(e)
  <2>1. Range(u.segments_out) = {}
    BY <1>3 DEF Range
  <2>2. \A seg \in Range(c.segments_out) : Fresh(seg, v, ISN[p])
    BY <1>3, <1>6, <2>1 DEF Fresh
  <2> QED BY <1>7, <1>8, <1>9, <2>2 DEF Called
<1> QED BY <1>6, <1>7, <1>18, <1>19

-----------------------------------------------------------------------------
(* The actions.                                                             *)

\* The application sees of v what it saw of u.
SameInbound(u, v) ==
    /\ v.receiver.isn = u.receiver.isn
    /\ v.receiver.reassembler.eof_idx = u.receiver.reassembler.eof_idx
    /\ inbound(v.receiver).buffer = inbound(u.receiver).buffer
    /\ inbound(v.receiver).bytes_written = inbound(u.receiver).bytes_written
    /\ inbound(v.receiver).input_ended = inbound(u.receiver).input_ended

\* Connect keeps the invariant and changes neither stream.
LEMMA ConnectCall ==
    ASSUME PairInv, NEW e \in Ends, Connect(e)
    PROVE  LET u == conn[e]
               v == conn'[e]
           IN  /\ PairInv' /\ Called(e) /\ SameSource(u, v) /\ SameInbound(u, v)
               /\ v.active = u.active /\ v.linger = u.linger
<1> DEFINE u == conn[e]
           d == conn[Peer(e)]
           n == env.bytes[e]
           c == connect(u)
<1>1. Fine(u, d, n) /\ d.sender.isn \in 0..(Mod32 - 1) /\ n \in Nat
  BY PairParts
<1>2. u.active /\ Step(e, c, net[e]) /\ env' = env /\ net[e] \subseteq net[e]
  BY DEF Connect, CanConnect
<1>3. /\ Fine(c, d, n) /\ Onward(u, c) /\ FilledUp(c.sender) /\ SameSource(u, c)
      /\ c.receiver = u.receiver /\ c.active = u.active /\ c.linger = u.linger
      /\ \A seg \in Range(c.segments_out) :
            seg \in Range(u.segments_out) \/ Fresh(seg, c, d.sender.isn)
  BY <1>1, <1>2, ConnectMoves
<1> HIDE DEF c
<1>4. /\ PairInv' /\ Called(e)
      /\ conn'[e].sender = c.sender /\ conn'[e].receiver = c.receiver
      /\ conn'[e].active = c.active /\ conn'[e].linger = c.linger
  BY <1>2, <1>3, CallKeeps
<1> QED BY <1>3, <1>4 DEF SameSource, SameInbound

\* Write keeps the invariant and adds a byte to the outbound stream.
LEMMA WriteCall ==
    ASSUME PairInv, NEW e \in Ends, Write(e)
    PROVE  LET u == conn[e]
               v == conn'[e]
           IN  /\ PairInv' /\ Called(e) /\ SameInbound(u, v)
               /\ ~u.sender.stream.input_ended
               /\ v.sender.stream.bytes_written = u.sender.stream.bytes_written + 1
               /\ v.sender.stream.input_ended = u.sender.stream.input_ended
               /\ v.sender.stream.error = u.sender.stream.error
               /\ v.active = u.active /\ v.linger = u.linger
<1> DEFINE u == conn[e]
           d == conn[Peer(e)]
           n == env.bytes[e]
           c == connection_write(u, << u.sender.stream.bytes_written >>)
<1>1. Fine(u, d, n) /\ d.sender.isn \in 0..(Mod32 - 1) /\ n \in Nat
  BY PairParts
<1>2. /\ Step(e, c, net[e]) /\ env' = env /\ net[e] \subseteq net[e]
      /\ u.active /\ u.sender.stream.bytes_written < n /\ ~u.sender.stream.input_ended
      /\ remaining_capacity(u.sender.stream) > 0
  BY DEF Write, CanWrite, WriteNext
<1>3. /\ Fine(c, d, n) /\ Onward(u, c) /\ FilledUp(c.sender)
      /\ c.sender.stream.bytes_written = u.sender.stream.bytes_written + 1
      /\ c.sender.stream.input_ended = u.sender.stream.input_ended
      /\ c.sender.stream.error = u.sender.stream.error
      /\ c.receiver = u.receiver /\ c.active = u.active /\ c.linger = u.linger
      /\ \A seg \in Range(c.segments_out) :
            seg \in Range(u.segments_out) \/ Fresh(seg, c, d.sender.isn)
  <2> DEFINE b == u.sender.stream.bytes_written
             st == u.sender.stream
  <2>1. b \in Nat /\ st \in StreamSet /\ st.error = FALSE /\ Len(st.buffer) \in Nat
        /\ st.capacity \in Nat
    <3>1. st \in StreamSet /\ ~st.error
      BY <1>1, <1>2, FineParts DEF Fine, Sends
    <3> QED BY <3>1 DEF StreamSet
  <2>2. << b >> = Excerpt(b, 1)
    <3> HIDE DEF b
    <3>1. \A k \in 1..1 : b + k - 1 = b
      BY <2>1
    <3>2. Excerpt(b, 1) = [k \in 1..1 |-> b]
      BY <3>1 DEF Excerpt
    <3> QED BY <3>2
  <2>3. Accepted(st, 1) = 1
    <3>1. remaining_capacity(st) \in Int /\ remaining_capacity(st) > 0
      BY <1>2, <2>1 DEF remaining_capacity
    <3>2. ~st.input_ended /\ ~st.error
      BY <1>2, <2>1
    <3>3. Accepted(st, 1) = Lesser(1, remaining_capacity(st))
      BY <3>2 DEF Accepted
    <3> HIDE DEF st
    <3> QED BY <3>1, <3>3 DEF Lesser
  <2>4. 1 \in Nat /\ b + 1 =< n
    BY <1>1, <1>2, <2>1
  <2>5. c = connection_write(u, Excerpt(b, 1))
    BY <2>2
  <2> HIDE DEF u, d, n, c
  <2>6. u.active /\ ~u.sender.stream.input_ended
    BY <1>2
  <2> DEFINE k == 1
             v == connection_write(u, Excerpt(u.sender.stream.bytes_written, k))
  <2>7. k \in Nat /\ u.sender.stream.bytes_written + k =< n /\ n \in Nat
    BY <1>1, <2>4
  <2>8. c = v /\ Accepted(u.sender.stream, k) = k
    BY <2>3, <2>5
  <2>9. v = connection_write(u, Excerpt(u.sender.stream.bytes_written, k))
    OBVIOUS
  <2> HIDE DEF k, c, v
  <2>10. /\ Fine(v, d, n) /\ Onward(u, v) /\ FilledUp(v.sender)
        /\ v.sender.stream.bytes_written
             = u.sender.stream.bytes_written + Accepted(u.sender.stream, k)
        /\ v.sender.stream.input_ended = u.sender.stream.input_ended
        /\ v.sender.stream.error = u.sender.stream.error
        /\ v.receiver = u.receiver /\ v.active = u.active /\ v.linger = u.linger
        /\ \A seg \in Range(v.segments_out) :
              seg \in Range(u.segments_out) \/ Fresh(seg, v, d.sender.isn)
    BY ONLY <1>1, <2>6, <2>7, <2>9, WriteMoves, ZenonT(60)
  <2> QED BY ONLY <2>8, <2>10 DEF k
<1> HIDE DEF c
<1>4. /\ PairInv' /\ Called(e)
      /\ conn'[e].sender = c.sender /\ conn'[e].receiver = c.receiver
      /\ conn'[e].active = c.active /\ conn'[e].linger = c.linger
  BY <1>2, <1>3, CallKeeps
<1> QED BY <1>2, <1>3, <1>4 DEF SameInbound

\* EndInput keeps the invariant and ends the outbound stream.
LEMMA EndCall ==
    ASSUME PairInv, NEW e \in Ends, EndInput(e)
    PROVE  LET u == conn[e]
               v == conn'[e]
           IN  /\ PairInv' /\ Called(e) /\ SameInbound(u, v)
               /\ inbound(v.receiver).error = inbound(u.receiver).error
               /\ ~u.sender.stream.input_ended
               /\ v.sender.stream.bytes_written = u.sender.stream.bytes_written
               /\ v.sender.stream.input_ended
               /\ v.sender.stream.error = u.sender.stream.error
               /\ v.active = u.active /\ v.linger = u.linger
<1> DEFINE u == conn[e]
           d == conn[Peer(e)]
           n == env.bytes[e]
           c == end_input_stream(u)
<1>1. Fine(u, d, n) /\ d.sender.isn \in 0..(Mod32 - 1) /\ n \in Nat
  BY PairParts
<1>2. /\ Step(e, c, net[e]) /\ env' = env /\ net[e] \subseteq net[e]
      /\ ~u.sender.stream.input_ended
  BY DEF EndInput, CanEndInput
<1>3. /\ Fine(c, d, n) /\ Onward(u, c) /\ FilledUp(c.sender)
      /\ c.sender.stream.bytes_written = u.sender.stream.bytes_written
      /\ c.sender.stream.input_ended
      /\ c.sender.stream.error = u.sender.stream.error
      /\ c.receiver = u.receiver /\ c.active = u.active /\ c.linger = u.linger
      /\ \A seg \in Range(c.segments_out) :
            seg \in Range(u.segments_out) \/ Fresh(seg, c, d.sender.isn)
  BY <1>1, EndMoves
<1> HIDE DEF c
<1>4. /\ PairInv' /\ Called(e)
      /\ conn'[e].sender = c.sender /\ conn'[e].receiver = c.receiver
      /\ conn'[e].active = c.active /\ conn'[e].linger = c.linger
  BY <1>2, <1>3, CallKeeps
<1> QED BY <1>2, <1>3, <1>4 DEF SameInbound

\* Read keeps the invariant and takes the first unread byte.
LEMMA ReadCall ==
    ASSUME PairInv, NEW e \in Ends, Read(e)
    PROVE  LET u == conn[e]
               v == conn'[e]
           IN  /\ PairInv' /\ Called(e) /\ v.sender = u.sender
               /\ inbound(u.receiver).buffer # << >>
               /\ v.receiver.isn = u.receiver.isn
               /\ v.receiver.reassembler.eof_idx = u.receiver.reassembler.eof_idx
               /\ inbound(v.receiver).buffer = Tail(inbound(u.receiver).buffer)
               /\ inbound(v.receiver).bytes_written = inbound(u.receiver).bytes_written
               /\ inbound(v.receiver).input_ended = inbound(u.receiver).input_ended
               /\ inbound(v.receiver).error = inbound(u.receiver).error
               /\ v.active = u.active /\ v.linger = u.linger
<1> DEFINE u == conn[e]
           d == conn[Peer(e)]
           n == env.bytes[e]
           c == read_inbound(u, 1)
<1>1. Fine(u, d, n) /\ Fine(d, u, env.bytes[Peer(e)]) /\ FilledUp(u.sender)
  BY PairParts
<1>2. d.sender.stream.bytes_read \in Nat
  BY <1>1, FineParts
<1>3. /\ Step(e, c, net[e]) /\ env' = env /\ net[e] \subseteq net[e]
      /\ inbound(u.receiver).buffer # << >>
  BY DEF Read, CanRead
<1>4. /\ Fine(c, d, n) /\ Onward(u, c)
      /\ c.sender = u.sender /\ c.segments_out = u.segments_out
      /\ c.active = u.active /\ c.linger = u.linger
      /\ c.receiver.isn = u.receiver.isn
      /\ c.receiver.reassembler.eof_idx = u.receiver.reassembler.eof_idx
      /\ inbound(c.receiver).buffer = Tail(inbound(u.receiver).buffer)
      /\ inbound(c.receiver).bytes_written = inbound(u.receiver).bytes_written
      /\ inbound(c.receiver).input_ended = inbound(u.receiver).input_ended
      /\ inbound(c.receiver).error = inbound(u.receiver).error
  <2> DEFINE b == inbound(u.receiver).buffer
  <2>1. /\ b \in Seq(Nat) /\ b # << >> /\ Len(b) \in Nat /\ 1 =< Len(b) /\ 1 \in Nat
        /\ SubSeq(b, 1 + 1, Len(b)) = Tail(b)
    <3>1. b \in Seq(Nat) /\ b # << >>
      BY <1>1, <1>3, FineParts DEF StreamSet
    <3> HIDE DEF b
    <3>2. Len(b) \in Nat /\ Len(b) > 0 /\ SubSeq(b, 2, Len(b)) = Tail(b)
      BY <3>1, HeadTailProperties, TailIsSubSeq
    <3> QED BY <3>1, <3>2
  <2> HIDE DEF u, d, n
  <2> QED BY <1>1, <1>2, <2>1, ReadMoves, ZenonT(60)
<1> HIDE DEF c
<1>5. /\ FilledUp(c.sender)
      /\ \A seg \in Range(c.segments_out) :
            seg \in Range(u.segments_out) \/ Fresh(seg, c, d.sender.isn)
  BY <1>1, <1>4
<1>6. /\ PairInv' /\ Called(e)
      /\ conn'[e].sender = c.sender /\ conn'[e].receiver = c.receiver
      /\ conn'[e].active = c.active /\ conn'[e].linger = c.linger
  BY <1>3, <1>4, <1>5, CallKeeps
<1> QED BY <1>3, <1>4, <1>6

\* Tick keeps the invariant; the endpoint fails, goes on, or is done.
LEMMA TickCall ==
    ASSUME PairInv, NEW e \in Ends, Tick(e)
    PROVE  LET u == conn[e]
               v == conn'[e]
           IN  /\ PairInv' /\ Called(e) /\ u.active
               /\ \/ Broken(u, v)
                  \/ /\ SameSource(u, v) /\ SameInbound(u, v) /\ v.linger = u.linger
                     /\ v.active \/ (/\ inbound(v.receiver).input_ended
                                     /\ eof(v.sender.stream) /\ Settled(v.sender))
<1> DEFINE u == conn[e]
           d == conn[Peer(e)]
           n == env.bytes[e]
           c == connection_tick(u, 1)
<1>1. Fine(u, d, n) /\ d.sender.isn \in 0..(Mod32 - 1) /\ n \in Nat /\ FilledUp(u.sender)
  BY PairParts
<1>2. u.active /\ Step(e, c, net[e]) /\ env' = env /\ net[e] \subseteq net[e] /\ 1 \in Nat
  BY DEF Tick, CanTick
<1>3. /\ Fine(c, d, n) /\ Onward(u, c)
      /\ \/ Broken(u, c)
         \/ /\ SameSource(u, c) /\ c.receiver = u.receiver /\ c.linger = u.linger
            /\ c.active \/ (/\ inbound(c.receiver).input_ended
                            /\ eof(c.sender.stream) /\ Settled(c.sender))
      /\ \A seg \in Range(c.segments_out) :
            seg \in Range(u.segments_out) \/ Fresh(seg, c, d.sender.isn)
  BY <1>1, <1>2, TickMoves
<1> HIDE DEF c
<1>4. FilledUp(c.sender)
  BY <1>1, <1>3 DEF Onward
<1>5. /\ PairInv' /\ Called(e)
      /\ conn'[e].sender = c.sender /\ conn'[e].receiver = c.receiver
      /\ conn'[e].active = c.active /\ conn'[e].linger = c.linger
  BY <1>2, <1>3, <1>4, CallKeeps
<1>6. CASE Broken(u, c)
  <2>1. Broken(u, conn'[e])
    BY <1>5, <1>6 DEF Broken
  <2> QED BY <1>2, <1>5, <2>1
<1>7. CASE ~Broken(u, c)
  <2>1. /\ SameSource(u, conn'[e]) /\ SameInbound(u, conn'[e]) /\ conn'[e].linger = u.linger
        /\ conn'[e].active \/ (/\ inbound(conn'[e].receiver).input_ended
                               /\ eof(conn'[e].sender.stream) /\ Settled(conn'[e].sender))
    BY <1>3, <1>5, <1>7 DEF SameSource, SameInbound
  <2> QED BY <1>2, <1>5, <2>1
<1> QED BY <1>6, <1>7

\* Receive keeps the invariant; the endpoint is over already, or fails with the peer's
\* reset, or takes what follows of the peer's stream.
LEMMA ReceiveCall ==
    ASSUME PairInv, NEW e \in Ends, NEW seg \in net[e], NEW again \in BOOLEAN,
           Receive(e, seg, again)
    PROVE  LET u == conn[e]
               d == conn[Peer(e)]
               v == conn'[e]
           IN  /\ PairInv' /\ Called(e)
               /\ \/ Broken(u, v) /\ u.active
                  \/ /\ SameSource(u, v) /\ SameInbound(u, v)
                     /\ v.linger = u.linger /\ v.active = u.active
                  \/ /\ SameSource(u, v) /\ u.active /\ v.active
                     /\ Arrived(inbound(u.receiver), inbound(v.receiver))
                     /\ ~u.linger => ~v.linger
                     /\ ~v.linger => \/ ~u.linger
                                     \/ inbound(v.receiver).input_ended /\ ~u.sender.fin_sent
                     /\ ~seg.rst
                     /\ v.receiver.reassembler.eof_idx # u.receiver.reassembler.eof_idx => seg.fin
                     /\ seg.ack => \E a \in 0..TakenBy(d.receiver) :
                           seg.ackno = wrap(a, u.sender.isn) /\ a =< v.sender.ackno
<1> DEFINE u == conn[e]
           d == conn[Peer(e)]
           n == env.bytes[e]
           m == env.bytes[Peer(e)]
           v == conn'[e]
           c == segment_received(u, seg)
           inbox == IF again THEN net[e] ELSE net[e] \ {seg}
<1>1. /\ Fine(u, d, n) /\ Fine(d, u, m) /\ d.sender.isn \in 0..(Mod32 - 1) /\ FilledUp(u.sender)
      /\ Short(n) /\ Short(m) /\ n \in Nat /\ Sound(seg, d, u.sender.isn)
      /\ u \in ConnectionSet
  BY PairParts
<1>2. Step(e, c, inbox) /\ env' = env /\ inbox \subseteq net[e]
  BY DEF Receive
<1> HIDE DEF inbox, v
<1>3. CASE ~u.active
  <2>1. c = u
    BY <1>3 DEF segment_received
  <2>2. Onward(u, u)
    BY <1>1, FlagMoves
  <2> HIDE DEF c
  <2>3. /\ PairInv' /\ Called(e)
        /\ v.sender = c.sender /\ v.receiver = c.receiver
        /\ v.active = c.active /\ v.linger = c.linger
    BY <1>1, <1>2, <2>1, <2>2, CallKeeps DEF v
  <2> QED BY <2>1, <2>3 DEF SameSource, SameInbound, v
<1>4. CASE u.active /\ seg.rst
  <2> DEFINE heard == [u EXCEPT !.time_since_last_segment_received = 0]
  <2>1. c = unclean_shutdown(heard, FALSE)
    BY <1>4 DEF segment_received
  <2>2. /\ heard \in ConnectionSet /\ heard.sender = u.sender /\ heard.receiver = u.receiver
        /\ heard.segments_out = u.segments_out /\ heard.active = u.active
        /\ heard.linger = u.linger
    BY <1>1 DEF ConnectionSet
  <2> HIDE DEF heard, c
  <2>3. Fine(heard, d, n) /\ Onward(u, heard)
    BY <1>1, <2>2, FlagMoves
  <2>4. /\ Fine(c, d, n) /\ Onward(heard, c) /\ Broken(heard, c)
        /\ c.segments_out = heard.segments_out
    BY <2>1, <2>3, FailMoves
  <2>5. Onward(u, c) /\ Broken(u, c)
    BY <1>1, <2>2, <2>3, <2>4, OnwardChains DEF Broken
  <2>6. /\ FilledUp(c.sender)
        /\ \A s \in Range(c.segments_out) :
              s \in Range(u.segments_out) \/ Fresh(s, c, d.sender.isn)
    BY <1>1, <2>2, <2>4, <2>5 DEF Onward
  <2>7. /\ PairInv' /\ Called(e)
        /\ v.sender = c.sender /\ v.receiver = c.receiver
        /\ v.active = c.active /\ v.linger = c.linger
    BY <1>2, <2>4, <2>5, <2>6, CallKeeps DEF v
  <2>8. Broken(u, v)
    BY <2>5, <2>7 DEF Broken
  <2> QED BY <1>4, <2>7, <2>8 DEF v
<1>5. CASE u.active /\ ~seg.rst
  <2>1. PICK a : seg.ack => a \in 0..TakenBy(d.receiver) /\ seg.ackno = wrap(a, u.sender.isn)
    BY <1>1 DEF Sound
  <2>2. /\ Sends(d, m) /\ d.receiver \in ReceiverSet /\ TakenBy(d.receiver) =< u.sender.next_seqno
    <3>1. FillInv(u.sender) /\ d.receiver \in ReceiverSet /\ Hears(d, u.sender)
      BY <1>1, FineParts DEF Fine
    <3> QED BY <1>1, <3>1, TakenIsSent DEF Fine
  <2>3. /\ Fine(c, d, n) /\ Onward(u, c) /\ SameSource(u, c) /\ c.active
        /\ Arrived(inbound(u.receiver), inbound(c.receiver))
        /\ ~u.linger => ~c.linger
        /\ ~c.linger => \/ ~u.linger
                        \/ inbound(c.receiver).input_ended /\ ~u.sender.fin_sent
        /\ c.receiver.reassembler.eof_idx # u.receiver.reassembler.eof_idx => seg.fin
        /\ seg.ack => a =< c.sender.ackno
        /\ \A s \in Range(c.segments_out) :
              s \in Range(u.segments_out) \/ Fresh(s, c, d.sender.isn)
    <3> HIDE DEF u, d, n, m
    <3> QED BY <1>1, <1>5, <2>1, <2>2, ReceiveMoves
  <2> HIDE DEF c
  <2>4. FilledUp(c.sender)
    BY <1>1, <2>3 DEF Onward
  <2>5. /\ PairInv' /\ Called(e)
        /\ v.sender = c.sender /\ v.receiver = c.receiver
        /\ v.active = c.active /\ v.linger = c.linger
    BY <1>2, <2>3, <2>4, CallKeeps DEF v
  <2>6. SameSource(u, v)
    BY <2>3, <2>5 DEF SameSource
  <2>7. seg.ack => \E b \in 0..TakenBy(d.receiver) :
                      seg.ackno = wrap(b, u.sender.isn) /\ b =< v.sender.ackno
    BY <2>1, <2>3, <2>5
  <2>8. /\ SameSource(u, v) /\ u.active /\ v.active
        /\ Arrived(inbound(u.receiver), inbound(v.receiver))
        /\ ~u.linger => ~v.linger
        /\ ~v.linger => \/ ~u.linger
                        \/ inbound(v.receiver).input_ended /\ ~u.sender.fin_sent
        /\ ~seg.rst
        /\ v.receiver.reassembler.eof_idx # u.receiver.reassembler.eof_idx => seg.fin
    BY <1>5, <2>3, <2>5, <2>6
  <2> QED BY <2>5, <2>7, <2>8 DEF v
<1> QED BY <1>3, <1>4, <1>5

\* Losing a segment keeps the invariant.
LEMMA LoseCall ==
    ASSUME PairInv, NEW e \in Ends, NEW seg \in net[e], Lose(e, seg)
    PROVE  PairInv' /\ conn' = conn /\ env' = env /\ \A f \in Ends : net'[f] \subseteq net[f]
<1>1. conn' = conn /\ env' = env /\ net' = [net EXCEPT ![e] = @ \ {seg}]
  BY DEF Lose
<1>2. net \in [Ends -> SUBSET SegmentSet]
  BY DEF PairInv
<1>3. net' \in [Ends -> SUBSET SegmentSet] /\ \A f \in Ends : net'[f] \subseteq net[f]
  BY <1>1, <1>2
<1>4. \A f \in Ends : Peer(f) \in Ends
  BY Peers
<1> QED BY <1>1, <1>3, <1>4 DEF PairInv

\* The first state satisfies the invariant.
LEMMA PairInit ==
    ASSUME Init
    PROVE  PairInv
<1>1. /\ env \in Scenarios
      /\ conn = [e \in Ends |-> NewConnection(ISN[e], env.capacity, env.capacity)]
      /\ net = [e \in Ends |-> {}]
  BY DEF Init
<1>2. ASSUME NEW e \in Ends
      PROVE  /\ conn[e] \in ConnectionSet /\ conn[e].segments_out = << >>
             /\ FilledUp(conn[e].sender) /\ conn[e].sender.isn = ISN[e]
             /\ FillInv(conn[e].sender)
             /\ (conn[e].sender.timer_running <=> ~Settled(conn[e].sender))
             /\ conn[e].sender.segments_out = << >> /\ conn[e].sender.ackno = 0
             /\ conn[e].sender.stream = NewStream(env.capacity)
             /\ conn[e].receiver = NewReceiver(env.capacity)
             /\ \A N \in Nat : /\ Good(conn[e].receiver.reassembler, N)
                               /\ Closed(conn[e].receiver.reassembler, N)
             /\ conn[e].receiver \in ReceiverSet
  <2> DEFINE C == env.capacity
             s == NewSender(ISN[e], C)
             x == NewReassembler(C)
             rcv == NewReceiver(C)
  <2>1. ISN[e] \in Int /\ C \in Nat
    <3>1. ISN[e] \in 0..(Mod32 - 1) /\ C \in Nat
      BY <1>1, ScenarioFacts
    <3> QED BY <3>1
  <2>2. /\ FillInv(s) /\ s.isn = ISN[e] /\ (s.timer_running <=> ~Settled(s)) /\ FilledUp(s)
    BY <2>1, NewSenderFacts
  <2>3. /\ s.segments_out = << >> /\ s.ackno = 0 /\ s.stream = NewStream(C) /\ s \in SenderSet
    BY <2>2 DEF NewSender, FillInv
  <2>4. \A N \in Nat : Good(x, N) /\ Closed(x, N)
    BY <2>1, NewReassemblerGood
  <2>5. x \in [chunks : Stores, next : Nat, unassembled_bytes : Nat, eof_idx : Int,
               output : StreamSet]
    BY <2>4, GoodIsStored
  <2>6. rcv \in ReceiverSet /\ rcv.reassembler = x
    BY <2>5 DEF NewReceiver, ReceiverSet, None
  <2>7. conn[e] = [sender |-> s, receiver |-> rcv, segments_out |-> << >>,
                   linger |-> TRUE, active |-> TRUE, time_since_last_segment_received |-> 0]
    BY <1>1 DEF NewConnection
  <2> HIDE DEF s, rcv, x
  <2>8. << >> \in Seq(SegmentSet)
    OBVIOUS
  <2>9. conn[e] \in ConnectionSet
    BY <2>3, <2>6, <2>7, <2>8 DEF ConnectionSet
  <2> QED BY <2>2, <2>3, <2>4, <2>6, <2>7, <2>9 DEF rcv
<1>3. ASSUME NEW e \in Ends PROVE Fine(conn[e], conn[Peer(e)], env.bytes[e])
  <2>1. Peer(e) \in Ends
    BY Peers
  <2>2. env.bytes[e] \in Nat /\ ISN[e] \in 0..(Mod32 - 1)
    BY <1>1, ScenarioFacts DEF Short
  <2>3. Range(conn[e].sender.segments_out) = {} /\ Range(conn[e].segments_out) = {}
    BY <1>2 DEF Range
  <2>4. Sends(conn[e], env.bytes[e])
    <3>1. conn[e].sender.stream.error = FALSE /\ conn[e].sender.stream.bytes_written = 0
      BY <1>2 DEF NewStream
    <3> QED BY <1>2, <2>2, <2>3, <3>1 DEF Sends
  <2>5. Hears(conn[e], conn[Peer(e)].sender)
    <3> DEFINE rcv == conn[e].receiver
    <3>1. /\ rcv.isn = None /\ inbound(rcv).bytes_written = 0 /\ inbound(rcv).input_ended = FALSE
          /\ inbound(rcv).buffer = << >> /\ inbound(rcv).capacity = env.capacity
          /\ rcv.reassembler.eof_idx = NoEof
      BY <1>2 DEF NewReceiver, NewReassembler, NewStream, inbound
    <3>2. conn[Peer(e)].sender.stream.bytes_read = 0
      BY <1>2, <2>1 DEF NewStream
    <3>3. env.capacity \in Nat /\ Len(<< >>) = 0
      BY <1>1, ScenarioFacts
    <3>4. rcv \in ReceiverSet /\ Good(rcv.reassembler, 0) /\ Closed(rcv.reassembler, 0)
      BY <1>2
    <3> HIDE DEF rcv
    <3> QED BY <3>1, <3>2, <3>3, <3>4 DEF Hears, rcv
  <2>6. conn[e].sender.ackno =< TakenBy(conn[Peer(e)].receiver)
    <3>1. TakenBy(conn[Peer(e)].receiver) \in Nat
      BY <1>2, <2>1, TakenType
    <3> QED BY <1>2, <3>1
  <2> QED BY <2>3, <2>4, <2>5, <2>6 DEF Fine
<1>4. conn \in [Ends -> ConnectionSet] /\ net \in [Ends -> SUBSET SegmentSet]
  BY <1>1, <1>2
<1>5. \A e \in Ends : Peer(e) \in Ends
  BY Peers
<1> QED BY <1>1, <1>2, <1>3, <1>4, <1>5 DEF PairInv

-----------------------------------------------------------------------------
(* The invariant holds.                                                     *)

\* Every step keeps the invariant.
LEMMA PairNext ==
    ASSUME PairInv, [Next]_vars
    PROVE  PairInv'
<1>1. CASE UNCHANGED vars
  BY <1>1 DEF PairInv, vars
<1>2. CASE Next
  <2> SUFFICES ASSUME NEW e \in Ends,
                      \/ Connect(e) \/ Write(e) \/ EndInput(e) \/ Read(e) \/ Tick(e)
                      \/ \E seg \in net[e], again \in BOOLEAN : Receive(e, seg, again)
                      \/ \E seg \in net[e] : Lose(e, seg)
               PROVE  PairInv'
    BY <1>2 DEF Next
  <2>1. CASE Connect(e)
    BY <2>1, ConnectCall
  <2>2. CASE Write(e)
    BY <2>2, WriteCall
  <2>3. CASE EndInput(e)
    BY <2>3, EndCall
  <2>4. CASE Read(e)
    BY <2>4, ReadCall
  <2>5. CASE Tick(e)
    BY <2>5, TickCall
  <2>6. ASSUME NEW seg \in net[e], NEW again \in BOOLEAN, Receive(e, seg, again)
        PROVE  PairInv'
    BY <2>6, ReceiveCall
  <2>7. ASSUME NEW seg \in net[e], Lose(e, seg)
        PROVE  PairInv'
    BY <2>7, LoseCall
  <2> QED BY <2>1, <2>2, <2>3, <2>4, <2>5, <2>6, <2>7
<1> QED BY <1>1, <1>2

\* Both connections stay fine whatever the network delays, reorders, loses or repeats
\* (tcp_connection.cc, tcp_sender.cc, tcp_receiver.cc together).
THEOREM PairInvariant == Spec => []PairInv
<1>1. Init => PairInv
  BY PairInit
<1>2. PairInv /\ [Next]_vars => PairInv'
  BY PairNext
<1> QED BY <1>1, <1>2, PTL DEF Spec

\* An acknowledgment that tcp_sender.cc:96-125 believes is true: the peer has taken that
\* much, and it takes nothing that was not sent.
THEOREM AcknoHolds == Spec => []AcknoIsTrue
<1>1. PairInv => AcknoIsTrue
  <2> SUFFICES ASSUME PairInv, NEW e \in Ends
               PROVE  /\ conn[Peer(e)].receiver.isn \in {None, ISN[e]}
                      /\ conn[e].sender.ackno =< Taken(e)
                      /\ Taken(e) =< conn[e].sender.next_seqno
    BY DEF AcknoIsTrue
  <2> DEFINE u == conn[e]
             d == conn[Peer(e)]
  <2>1. /\ Fine(u, d, env.bytes[e]) /\ Fine(d, u, env.bytes[Peer(e)])
        /\ u.sender.isn = ISN[e]
    BY PairParts
  <2>2. Taken(e) = TakenBy(d.receiver)
    BY DEF Taken, TakenBy, Got
  <2>3. Hears(d, u.sender) /\ FillInv(u.sender) /\ u.sender.ackno =< TakenBy(d.receiver)
    BY <2>1 DEF Fine, Sends
  <2>4. TakenBy(d.receiver) =< u.sender.next_seqno
    BY <2>3, TakenIsSent
  <2>5. d.receiver.isn \in {None, u.sender.isn}
    BY <2>3 DEF Hears
  <2> QED BY <2>1, <2>2, <2>3, <2>4, <2>5
<1> QED BY <1>1, PairInvariant, PTL

-----------------------------------------------------------------------------
(* The promise.                                                             *)

\* What arrived was written, and the end arrives after the last byte of a closed stream.
LEMMA ArrivedIsWritten ==
    ASSUME NEW d, NEW s, Hears(d, s), FillInv(s)
    PROVE  LET o == inbound(d.receiver)
           IN  /\ o.bytes_written \in Nat /\ s.stream.bytes_written \in Nat
               /\ o.bytes_written =< s.stream.bytes_written
               /\ o.input_ended => s.stream.input_ended /\ o.bytes_written = s.stream.bytes_written
<1> DEFINE o == inbound(d.receiver)
<1>1. /\ o.bytes_written \in Nat /\ o.bytes_written =< s.stream.bytes_read
      /\ o.input_ended => s.fin_sent /\ o.bytes_written = s.stream.bytes_read
  BY DEF Hears, ReceiverSet, StreamSet, inbound
<1>2. /\ s.stream.bytes_read \in Nat /\ s.stream.bytes_written \in Nat
      /\ Len(s.stream.buffer) \in Nat
  BY DEF FillInv, SenderSet, StreamSet
<1>3. /\ s.stream.bytes_written = s.stream.bytes_read + Len(s.stream.buffer)
      /\ s.fin_sent => s.stream.input_ended /\ s.stream.buffer = << >>
  BY DEF FillInv, Buffers, Accounts
<1> HIDE DEF o
<1>4. o.bytes_written =< s.stream.bytes_written
  BY <1>1, <1>2, <1>3
<1>5. s.fin_sent => s.stream.bytes_written = s.stream.bytes_read
  BY <1>2, <1>3
<1> QED BY <1>1, <1>2, <1>3, <1>4, <1>5 DEF o

\* An endpoint with nothing left to send and nothing outstanding has its FIN
\* acknowledged, so its stream has ended at the peer.
LEMMA DoneIsEnded ==
    ASSUME NEW v, NEW d, NEW n, Fine(v, d, n), Hears(d, v.sender), FilledUp(v.sender),
           eof(v.sender.stream), Settled(v.sender)
    PROVE  inbound(d.receiver).input_ended
<1> DEFINE s == v.sender
           o == inbound(d.receiver)
           N == s.stream.bytes_read
<1>1. /\ FillInv(s) /\ s.ackno \in Nat /\ N \in Nat /\ s.ackno =< TakenBy(d.receiver)
  BY FineParts
<1>2. s.ackno = s.next_seqno /\ s.next_seqno \in Nat
  BY <1>1, SettledIsAcked
<1>3. s.next_seqno < WindowRight(s)
  <2>1. s.window_size \in Nat
    BY <1>1 DEF FillInv, SenderSet
  <2> HIDE DEF s
  <2> QED BY <1>2, <2>1 DEF WindowRight
<1>4. s.fin_sent
  <2>1. WindowRight(s) \in Nat
    <3>1. s.window_size \in Nat
      BY <1>1 DEF FillInv, SenderSet
    <3> HIDE DEF s
    <3> QED BY <1>1, <3>1 DEF WindowRight
  <2>2. ~(s.next_seqno >= WindowRight(s))
    BY <1>2, <1>3, <2>1
  <2>3. s.stream.input_ended
    BY DEF eof
  <2> QED BY <2>2, <2>3 DEF FilledUp
<1>5. s.next_seqno = 1 + N + 1
  <2>1. s.syn_sent
    BY <1>1, <1>4 DEF FillInv, Accounts
  <2> HIDE DEF s
  <2> QED BY <1>1, <1>4, <2>1 DEF FillInv, Accounts, N
<1>6. o.bytes_written \in Nat /\ o.bytes_written =< N
  BY DEF Hears, ReceiverSet, StreamSet, inbound
<1>7. TakenBy(d.receiver) = IF d.receiver.isn = None THEN 0
                            ELSE 1 + o.bytes_written + (IF o.input_ended THEN 1 ELSE 0)
  BY DEF TakenBy
<1> HIDE DEF s, o, N
<1>8. TakenBy(d.receiver) >= 1 + N + 1
  BY <1>1, <1>2, <1>5, <1>7, <1>6
<1>9. CASE ~o.input_ended
  <2>1. TakenBy(d.receiver) = 0 \/ TakenBy(d.receiver) = 1 + o.bytes_written
    BY <1>6, <1>7, <1>9
  <2> QED BY <1>1, <1>6, <1>8, <2>1
<1> QED BY <1>9 DEF o

\* What the promise sees of a call of endpoint e.
LEMMA CallSeen ==
    ASSUME NEW e \in Ends, Called(e)
    PROVE  LET p == Peer(e)
           IN  /\ Sent(e)' = conn'[e].sender.stream /\ Sent(p)' = Sent(p)
               /\ Got(e)' = Got(e) /\ Got(p)' = inbound(conn'[e].receiver)
               /\ Got(e) = inbound(conn[p].receiver) /\ Got(p) = inbound(conn[e].receiver)
               /\ ClosedCleanly(p)' = ClosedCleanly(p)
               /\ ClosedCleanly(e)' = (~conn'[e].active /\ ~conn'[e].sender.stream.error)
<1>1. Peer(Peer(e)) = e /\ conn'[Peer(e)] = conn[Peer(e)]
  BY Peers DEF Called
<1> QED BY <1>1 DEF Sent, Got, ClosedCleanly, Failed

\* A call that changes neither stream and does not close the connection is not seen.
LEMMA NotSeen ==
    ASSUME NEW e \in Ends, Called(e), SameSource(conn[e], conn'[e]) \/ Broken(conn[e], conn'[e]),
           SameInbound(conn[e], conn'[e]), ClosedCleanly(e)' = ClosedCleanly(e)
    PROVE  UNCHANGED Promise!vars
<1>1. /\ \A f \in Ends : f = e \/ f = Peer(e)
      /\ Peer(e) \in Ends
  BY Peers
<1>2. ASSUME NEW f \in Ends
      PROVE  /\ Sent(f)'.bytes_written = Sent(f).bytes_written
             /\ Sent(f)'.input_ended = Sent(f).input_ended
             /\ Got(f)'.bytes_written = Got(f).bytes_written
             /\ Got(f)'.buffer = Got(f).buffer
             /\ Got(f)'.input_ended = Got(f).input_ended
             /\ ClosedCleanly(f)' = ClosedCleanly(f)
  <2>1. CASE f = e
    BY <2>1, CallSeen DEF SameSource, Broken, Sent
  <2>2. CASE f = Peer(e)
    BY <2>2, CallSeen DEF SameInbound
  <2> QED BY <1>1, <2>1, <2>2
<1> QED BY <1>2 DEF Promise!vars

\* The parts of the invariant after a call of endpoint e.
LEMMA AfterCall ==
    ASSUME PairInv', NEW e \in Ends, Called(e)
    PROVE  LET v == conn'[e]
               d == conn[Peer(e)]
           IN  /\ Fine(v, d, env.bytes[e]) /\ Fine(d, v, env.bytes[Peer(e)])
               /\ FilledUp(v.sender)
<1>1. Peer(e) \in Ends /\ Peer(Peer(e)) = e
  BY Peers
<1>2. env' = env /\ conn'[Peer(e)] = conn[Peer(e)]
  BY DEF Called
<1>3. \A f \in Ends : /\ Fine(conn'[f], conn'[Peer(f)], env'.bytes[f])
                      /\ FilledUp(conn'[f].sender)
  BY DEF PairInv
<1> QED BY <1>1, <1>2, <1>3

\* An active endpoint has not failed.
LEMMA ActiveIsWhole ==
    ASSUME PairInv, NEW e \in Ends
    PROVE  conn[e].active => ~conn[e].sender.stream.error
BY PairParts DEF Fine, Sends

\* Connect is not seen.
LEMMA ConnectSeen ==
    ASSUME PairInv, NEW e \in Ends, Connect(e)
    PROVE  UNCHANGED Promise!vars
<1>1. /\ Called(e) /\ SameSource(conn[e], conn'[e]) /\ SameInbound(conn[e], conn'[e])
      /\ conn'[e].active = conn[e].active
  BY ConnectCall
<1>2. ClosedCleanly(e)' = ClosedCleanly(e)
  BY <1>1, CallSeen DEF ClosedCleanly, Failed, Sent, SameSource
<1> QED BY <1>1, <1>2, NotSeen

\* Write writes the next byte.
LEMMA WriteSeen ==
    ASSUME PairInv, NEW e \in Ends, Write(e)
    PROVE  Promise!Write(e)
<1>1. /\ Called(e) /\ SameInbound(conn[e], conn'[e])
      /\ ~conn[e].sender.stream.input_ended
      /\ conn'[e].sender.stream.bytes_written = conn[e].sender.stream.bytes_written + 1
      /\ conn'[e].sender.stream.input_ended = conn[e].sender.stream.input_ended
      /\ conn'[e].sender.stream.error = conn[e].sender.stream.error
      /\ conn'[e].active = conn[e].active
  BY WriteCall
<1>2. Peer(e) \in Ends /\ Peer(e) # e /\ \A f \in Ends : f = e \/ f = Peer(e)
  BY Peers
<1>3. /\ Sent(e)'.bytes_written = Sent(e).bytes_written + 1
      /\ Sent(e)'.input_ended = Sent(e).input_ended /\ ~Sent(e).input_ended
      /\ ClosedCleanly(e)' = ClosedCleanly(e)
      /\ Sent(Peer(e))' = Sent(Peer(e)) /\ ClosedCleanly(Peer(e))' = ClosedCleanly(Peer(e))
  BY <1>1, CallSeen DEF Sent, ClosedCleanly, Failed
<1>4. ASSUME NEW f \in Ends
      PROVE  /\ Got(f)'.bytes_written = Got(f).bytes_written
             /\ Got(f)'.buffer = Got(f).buffer
             /\ Got(f)'.input_ended = Got(f).input_ended
  <2>1. CASE f = e
    BY <1>1, <2>1, CallSeen
  <2>2. CASE f = Peer(e)
    BY <1>1, <2>2, CallSeen DEF SameInbound
  <2> QED BY <1>2, <2>1, <2>2
<1> QED BY <1>2, <1>3, <1>4 DEF Promise!Write

\* EndInput closes the stream.
LEMMA EndSeen ==
    ASSUME PairInv, NEW e \in Ends, EndInput(e)
    PROVE  Promise!Close(e)
<1>1. /\ Called(e) /\ SameInbound(conn[e], conn'[e])
      /\ conn'[e].sender.stream.bytes_written = conn[e].sender.stream.bytes_written
      /\ conn'[e].sender.stream.input_ended
      /\ conn'[e].sender.stream.error = conn[e].sender.stream.error
      /\ conn'[e].active = conn[e].active
  BY EndCall
<1>2. Peer(e) \in Ends /\ Peer(e) # e /\ \A f \in Ends : f = e \/ f = Peer(e)
  BY Peers
<1>3. /\ Sent(e)'.bytes_written = Sent(e).bytes_written
      /\ Sent(e)'.input_ended
      /\ ClosedCleanly(e)' = ClosedCleanly(e)
      /\ Sent(Peer(e))' = Sent(Peer(e)) /\ ClosedCleanly(Peer(e))' = ClosedCleanly(Peer(e))
  BY <1>1, CallSeen DEF Sent, ClosedCleanly, Failed
<1>4. ASSUME NEW f \in Ends
      PROVE  /\ Got(f)'.bytes_written = Got(f).bytes_written
             /\ Got(f)'.buffer = Got(f).buffer
             /\ Got(f)'.input_ended = Got(f).input_ended
  <2>1. CASE f = e
    BY <1>1, <2>1, CallSeen
  <2>2. CASE f = Peer(e)
    BY <1>1, <2>2, CallSeen DEF SameInbound
  <2> QED BY <1>2, <2>1, <2>2
<1> QED BY <1>2, <1>3, <1>4 DEF Promise!Close

\* Read takes the first unread byte of the peer's stream.
LEMMA ReadSeen ==
    ASSUME PairInv, NEW e \in Ends, Read(e)
    PROVE  Promise!Take(Peer(e))
<1> DEFINE p == Peer(e)
<1>1. /\ Called(e) /\ conn'[e].sender = conn[e].sender
      /\ inbound(conn[e].receiver).buffer # << >>
      /\ inbound(conn'[e].receiver).buffer = Tail(inbound(conn[e].receiver).buffer)
      /\ inbound(conn'[e].receiver).bytes_written = inbound(conn[e].receiver).bytes_written
      /\ inbound(conn'[e].receiver).input_ended = inbound(conn[e].receiver).input_ended
      /\ conn'[e].active = conn[e].active
  BY ReadCall
<1>2. p \in Ends /\ p # e /\ \A f \in Ends : f = e \/ f = p
  BY Peers
<1>3. /\ Got(p)'.bytes_written = Got(p).bytes_written
      /\ Got(p)'.buffer = Tail(Got(p).buffer) /\ Got(p).buffer # << >>
      /\ Got(p)'.input_ended = Got(p).input_ended
      /\ Got(e)' = Got(e)
  BY <1>1, CallSeen
<1>4. /\ Sent(e)' = Sent(e) /\ ClosedCleanly(e)' = ClosedCleanly(e)
      /\ Sent(p)' = Sent(p) /\ ClosedCleanly(p)' = ClosedCleanly(p)
  BY <1>1, CallSeen DEF Sent, ClosedCleanly, Failed
<1>5. ASSUME NEW f \in Ends
      PROVE  /\ Sent(f)' = Sent(f) /\ ClosedCleanly(f)' = ClosedCleanly(f)
             /\ Got(f)'.bytes_written = Got(f).bytes_written
             /\ Got(f)'.input_ended = Got(f).input_ended
             /\ Got(f)'.buffer = IF f = p THEN Tail(Got(p).buffer) ELSE Got(f).buffer
  BY <1>2, <1>3, <1>4
<1> QED BY <1>2, <1>3, <1>5 DEF Promise!Take

\* Tick is seen only when it closes the connection: then both streams have ended.
LEMMA TickSeen ==
    ASSUME PairInv, NEW e \in Ends, Tick(e)
    PROVE  Promise!Release(e) \/ UNCHANGED Promise!vars
<1> DEFINE u == conn[e]
           v == conn'[e]
           p == Peer(e)
<1>1. PairInv' /\ Called(e) /\ u.active
  BY TickCall
<1>2. ClosedCleanly(e) = FALSE
  BY <1>1 DEF ClosedCleanly
<1>3. p \in Ends /\ p # e /\ Peer(p) = e /\ \A f \in Ends : f = e \/ f = p
  BY Peers
<1>4. CASE Broken(u, v)
  <2>1. ClosedCleanly(e)' = FALSE
    BY <1>1, <1>4, CallSeen DEF Broken
  <2>2. SameInbound(u, v)
    BY <1>4 DEF Broken, SameInbound
  <2> QED BY <1>1, <1>2, <1>4, <2>1, <2>2, NotSeen
<1>5. CASE ~Broken(u, v) /\ v.active
  <2>1. SameSource(u, v) /\ SameInbound(u, v)
    BY <1>5, TickCall
  <2>2. ClosedCleanly(e)' = FALSE
    BY <1>1, <1>5, CallSeen
  <2> QED BY <1>1, <1>2, <2>1, <2>2, NotSeen
<1>6. CASE ~Broken(u, v) /\ ~v.active
  <2>1. /\ SameSource(u, v) /\ SameInbound(u, v)
        /\ inbound(v.receiver).input_ended /\ eof(v.sender.stream) /\ Settled(v.sender)
    BY <1>6, TickCall
  <2>2. /\ Fine(v, conn[p], env.bytes[e]) /\ Fine(conn[p], v, env.bytes[p])
        /\ FilledUp(v.sender)
    BY <1>1, AfterCall
  <2>3. inbound(conn[p].receiver).input_ended
    BY <2>1, <2>2, DoneIsEnded DEF Fine
  <2>4. Got(e).input_ended /\ Got(p).input_ended
    BY <1>1, <2>1, <2>3, CallSeen DEF SameInbound
  <2>5. ~v.sender.stream.error
    BY <1>1, <2>1, ActiveIsWhole DEF SameSource
  <2>6. ClosedCleanly(e)' /\ ClosedCleanly(p)' = ClosedCleanly(p)
    BY <1>1, <1>6, <2>5, CallSeen
  <2>7. ASSUME NEW f \in Ends
        PROVE  /\ Sent(f)'.bytes_written = Sent(f).bytes_written
               /\ Sent(f)'.input_ended = Sent(f).input_ended
               /\ Got(f)'.bytes_written = Got(f).bytes_written
               /\ Got(f)'.buffer = Got(f).buffer
               /\ Got(f)'.input_ended = Got(f).input_ended
    <3>1. CASE f = e
      BY <1>1, <2>1, <3>1, CallSeen DEF SameSource, Sent
    <3>2. CASE f = p
      BY <1>1, <2>1, <3>2, CallSeen DEF SameInbound
    <3> QED BY <1>3, <3>1, <3>2
  <2> HIDE DEF p, u, v
  <2>8. Promise!Release(e)
    BY <1>3, <2>4, <2>6, <2>7 DEF Promise!Release, p
  <2> QED BY <2>8
<1> QED BY <1>4, <1>5, <1>6

\* Receive is not seen, or more of the peer's stream arrives.
LEMMA ReceiveSeen ==
    ASSUME PairInv, NEW e \in Ends, NEW seg \in net[e], NEW again \in BOOLEAN,
           Receive(e, seg, again)
    PROVE  \/ \E k \in 0..(Sent(Peer(e)).bytes_written - Got(Peer(e)).bytes_written) :
                 Promise!Arrive(Peer(e), k)
           \/ UNCHANGED Promise!vars
<1> DEFINE u == conn[e]
           d == conn[Peer(e)]
           v == conn'[e]
           p == Peer(e)
<1>1. PairInv' /\ Called(e)
  BY ReceiveCall
<1>2. p \in Ends /\ p # e /\ Peer(p) = e /\ \A f \in Ends : f = e \/ f = p
  BY Peers
<1>3. CASE Broken(u, v) /\ u.active
  <2>1. ClosedCleanly(e)' = FALSE /\ ClosedCleanly(e) = FALSE
    BY <1>1, <1>3, CallSeen DEF Broken, ClosedCleanly
  <2>2. SameInbound(u, v)
    BY <1>3 DEF Broken, SameInbound
  <2> QED BY <1>1, <1>3, <2>1, <2>2, NotSeen
<1>4. CASE SameSource(u, v) /\ SameInbound(u, v) /\ v.active = u.active
  <2>1. ClosedCleanly(e)' = ClosedCleanly(e)
    BY <1>1, <1>4, CallSeen DEF SameSource, ClosedCleanly, Failed, Sent
  <2> QED BY <1>1, <1>4, <2>1, NotSeen
<1>5. CASE /\ SameSource(u, v) /\ u.active /\ v.active
           /\ Arrived(inbound(u.receiver), inbound(v.receiver))
  <2> DEFINE k == Got(p)'.bytes_written - Got(p).bytes_written
  <2>1. /\ Got(p)' = inbound(v.receiver) /\ Got(p) = inbound(u.receiver)
        /\ Got(e)' = Got(e) /\ Sent(p)' = Sent(p) /\ Sent(p) = d.sender.stream
    BY <1>1, CallSeen DEF Sent
  <2>2. /\ k \in Nat
        /\ Got(p)'.buffer = Got(p).buffer \o Excerpt(Got(p).bytes_written, k)
        /\ Got(p).input_ended => Got(p)'.input_ended
    BY <1>5, <2>1 DEF Arrived
  <2>3. /\ Fine(v, d, env.bytes[e]) /\ Fine(d, v, env.bytes[p])
    BY <1>1, AfterCall
  <2>4. Hears(v, d.sender) /\ FillInv(d.sender)
    BY <2>3 DEF Fine, Sends
  <2>5. /\ Got(p)'.bytes_written \in Nat /\ Sent(p).bytes_written \in Nat
        /\ Got(p)'.bytes_written =< Sent(p).bytes_written
        /\ Got(p)'.input_ended => /\ Sent(p).input_ended
                                  /\ Got(p)'.bytes_written = Sent(p).bytes_written
    BY <2>1, <2>4, ArrivedIsWritten
  <2>6. Got(p).bytes_written \in Nat
    <3>1. Hears(u, d.sender) /\ FillInv(d.sender)
      BY PairParts DEF Fine, Sends
    <3> QED BY <2>1, <3>1, ArrivedIsWritten
  <2>7. /\ ClosedCleanly(e)' = ClosedCleanly(e) /\ ClosedCleanly(p)' = ClosedCleanly(p)
        /\ Sent(e)'.bytes_written = Sent(e).bytes_written
        /\ Sent(e)'.input_ended = Sent(e).input_ended
    BY <1>1, <1>5, CallSeen DEF ClosedCleanly, SameSource, Sent
  <2> HIDE DEF p, u, v, d, k
  <2>8. /\ Got(p)'.bytes_written = Got(p).bytes_written + k
        /\ Got(p).bytes_written + k =< Sent(p).bytes_written
        /\ k \in 0..(Sent(p).bytes_written - Got(p).bytes_written)
    BY <2>2, <2>5, <2>6 DEF k
  <2>9. Got(p)'.buffer = Got(p).buffer \o [j \in 1..k |-> Got(p).bytes_written + j - 1]
    BY <2>2 DEF Excerpt
  <2>10. Promise!Arrive(p, k)
    <3> DEFINE now == {f \in Ends : Got(f).input_ended}
               then == {f \in Ends : Got(f)'.input_ended}
    <3>1. then \in {now, now \cup {p}}
      <4>1. CASE Got(p)'.input_ended
        BY <4>1, <1>2, <2>1
      <4>2. CASE ~Got(p)'.input_ended
        BY <4>2, <1>2, <2>1, <2>2
      <4> QED BY <4>1, <4>2
    <3>2. then # now => /\ p \in {f \in Ends : Sent(f).input_ended}
                        /\ Got(p)'.bytes_written = Sent(p).bytes_written
      BY <1>2, <2>1, <2>2, <2>5
    <3> QED
      BY <1>2, <2>1, <2>7, <2>8, <2>9, <3>1, <3>2 DEF Promise!Arrive
  <2> QED BY <2>8, <2>10 DEF p
<1> QED BY <1>3, <1>4, <1>5, ReceiveCall

\* What is lost was not seen.
LEMMA SeenOfConn ==
    ASSUME conn' = conn
    PROVE  UNCHANGED Promise!vars
BY DEF Promise!vars, Got, Sent, ClosedCleanly, Failed

\* The two connections are the two byte streams of ReliableStream: what one application
\* writes reaches the other in order, once, its end last, and a connection that closes
\* without a reset (tcp_connection.cc:100-112) has delivered both streams to their ends.
THEOREM PairKeepsPromise == Spec => KeepsPromise
<1>1. Init => Promise!Init
  <2> SUFFICES ASSUME Init PROVE Promise!Init
    OBVIOUS
  <2>1. conn = [e \in Ends |-> NewConnection(ISN[e], env.capacity, env.capacity)]
    BY DEF Init
  <2>2. \A e \in Ends : Peer(e) \in Ends
    BY Peers
  <2>3. \A e \in Ends : /\ Sent(e).bytes_written = 0 /\ Sent(e).input_ended = FALSE
                        /\ Got(e).bytes_written = 0 /\ Got(e).buffer = << >>
                        /\ Got(e).input_ended = FALSE /\ conn[e].active = TRUE
    BY <2>1, <2>2 DEF Sent, Got, inbound, NewConnection, NewSender, NewReceiver,
                      NewReassembler, NewStream
  <2> QED BY <2>3 DEF Promise!Init, ClosedCleanly
<1>2. PairInv /\ [Next]_vars => [Promise!Next]_(Promise!vars)
  <2> SUFFICES ASSUME PairInv, [Next]_vars
               PROVE  Promise!Next \/ UNCHANGED Promise!vars
    OBVIOUS
  <2>1. CASE UNCHANGED vars
    <3>1. conn' = conn
      BY <2>1 DEF vars
    <3> QED BY <3>1, SeenOfConn
  <2>2. CASE Next
    <3>1. PICK e \in Ends :
                 \/ Connect(e) \/ Write(e) \/ EndInput(e) \/ Read(e) \/ Tick(e)
                 \/ \E seg \in net[e], again \in BOOLEAN : Receive(e, seg, again)
                 \/ \E seg \in net[e] : Lose(e, seg)
      BY <2>2 DEF Next
    <3>2. Peer(e) \in Ends
      BY Peers
    <3>3. CASE Connect(e)
      BY <3>3, ConnectSeen
    <3>4. CASE Write(e)
      <4>1. Promise!Write(e)
        BY <3>4, WriteSeen
      <4> QED BY <4>1 DEF Promise!Next
    <3>5. CASE EndInput(e)
      <4>1. Promise!Close(e)
        BY <3>5, EndSeen
      <4> QED BY <4>1 DEF Promise!Next
    <3>6. CASE Read(e)
      <4>1. Promise!Take(Peer(e))
        BY <3>6, ReadSeen
      <4> QED BY <3>2, <4>1 DEF Promise!Next
    <3>7. CASE Tick(e)
      <4>1. Promise!Release(e) \/ UNCHANGED Promise!vars
        BY <3>7, TickSeen
      <4> QED BY <4>1 DEF Promise!Next
    <3>8. ASSUME NEW seg \in net[e], NEW again \in BOOLEAN, Receive(e, seg, again)
          PROVE  Promise!Next \/ UNCHANGED Promise!vars
      <4> DEFINE p == Peer(e)
      <4>1. \/ \E k \in 0..(Sent(p).bytes_written - Got(p).bytes_written) : Promise!Arrive(p, k)
            \/ UNCHANGED Promise!vars
        BY <3>8, ReceiveSeen
      <4>2. p \in Ends
        BY <3>2
      <4> HIDE DEF p
      <4> QED BY <4>1, <4>2 DEF Promise!Next
    <3>9. ASSUME NEW seg \in net[e], Lose(e, seg)
          PROVE  UNCHANGED Promise!vars
      BY <3>9, LoseCall, SeenOfConn
    <3> QED BY <3>1, <3>3, <3>4, <3>5, <3>6, <3>7, <3>8, <3>9
  <2> QED BY <2>1, <2>2
<1> QED BY <1>1, <1>2, PairInvariant, PTL DEF Spec, KeepsPromise, Promise!Spec

-----------------------------------------------------------------------------
(* Lingering.                                                               *)

\* An endpoint that need not linger knows the whole stream of its peer, has told it so
\* with every FIN it sent, and the peer is the one to linger.
LingersNot(e) ==
    LET u == conn[e]
        d == conn[Peer(e)]
    IN  ~u.linger =>
            /\ inbound(u.receiver).input_ended
            /\ d.linger
            /\ \A seg \in net[Peer(e)] : seg.fin /\ ~seg.rst =>
                   seg.ack /\ seg.ackno = wrap(d.sender.next_seqno, d.sender.isn)
            /\ inbound(d.receiver).input_ended \/ d.receiver.reassembler.eof_idx # NoEof =>
                   d.sender.ackno = d.sender.next_seqno

\* An endpoint that closed without a reset has sent and received its streams to the end.
BothEnded(e) ==
    ClosedCleanly(e) => Got(e).input_ended /\ Got(Peer(e)).input_ended

LingerInv == \A e \in Ends : LingersNot(e) /\ BothEnded(e)

\* Of two numbers a sender has used, the sequence number tells which.
LEMMA WrapTells ==
    ASSUME NEW i \in 0..(Mod32 - 1), NEW a \in Nat, NEW b \in Nat, a < Half, b < Half,
           b + Mod32 < Mod64, a + Mod32 < Mod64, wrap(a, i) = wrap(b, i)
    PROVE  a = b
<1>1. Half \in Nat /\ Mod32 \in Nat /\ Mod64 \in Nat
  BY HalfIsHalf, WidthAssumption
<1>2. a \in 0..(Mod64 - 1) /\ b \in 0..(Mod64 - 1)
  BY <1>1
<1>3. Distance(a, b) < Half /\ Distance(b, b) < Half
  BY <1>1, HalfIsHalf DEF Distance
<1>4. unwrap(wrap(a, i), i, b) = a
  BY <1>2, <1>3, UnwrapInvertsWrap
<1>5. unwrap(wrap(b, i), i, b) = b
  BY <1>2, <1>3, UnwrapInvertsWrap
<1> QED BY <1>4, <1>5

\* Once its FIN is sent, a sender's next number stays.
LEMMA NextStays ==
    ASSUME NEW s, NEW t, FillInv(s), FillInv(t), Ahead(s, t), s.fin_sent
    PROVE  t.fin_sent /\ t.next_seqno = s.next_seqno
<1>1. t.fin_sent /\ t.stream.bytes_read = s.stream.bytes_read
  BY DEF Ahead
<1>2. s.syn_sent /\ t.syn_sent
  BY <1>1 DEF FillInv, Accounts
<1> QED BY <1>1, <1>2 DEF FillInv, Accounts

\* A receiver whose stream has ended acknowledges all that the peer has sent.
LEMMA EndIsAcked ==
    ASSUME NEW v, NEW s, Hears(v, s), FillInv(s), inbound(v.receiver).input_ended
    PROVE  /\ s.fin_sent /\ v.receiver.isn # None
           /\ AbsoluteAckno(v.receiver) = s.next_seqno
<1>1. /\ s.fin_sent /\ inbound(v.receiver).bytes_written = s.stream.bytes_read
      /\ v.receiver.fin_received /\ v.receiver.isn # None
  BY DEF Hears
<1>2. s.next_seqno = 1 + s.stream.bytes_read + 1 /\ s.stream.bytes_read \in Nat
  BY <1>1 DEF FillInv, Accounts, SenderSet, StreamSet
<1>3. AbsoluteAckno(v.receiver) = inbound(v.receiver).bytes_written + 1 + 1
  BY <1>1 DEF AbsoluteAckno
<1> QED BY <1>1, <1>2, <1>3

\* A call of endpoint e keeps the invariant if e stops to linger only before its FIN is
\* sent, learns of the end of the peer's stream only by an acknowledgment of all its
\* own, if the peer does not linger, and closes only when both streams have ended.
LEMMA LingerKeeps ==
    ASSUME PairInv, PairInv', LingerInv, NEW e \in Ends, Called(e),
           NEW u, u = conn[e], NEW v, v = conn'[e], NEW d, d = conn[Peer(e)],
           ~v.linger => \/ ~u.linger
                        \/ inbound(v.receiver).input_ended /\ ~u.sender.fin_sent,
           ~d.linger /\ (inbound(v.receiver).input_ended \/ v.receiver.reassembler.eof_idx # NoEof)
               => \/ inbound(u.receiver).input_ended \/ u.receiver.reassembler.eof_idx # NoEof
                  \/ v.sender.ackno = v.sender.next_seqno,
           inbound(u.receiver).input_ended => inbound(v.receiver).input_ended,
           ClosedCleanly(e)' => \/ ClosedCleanly(e)
                                \/ /\ inbound(v.receiver).input_ended
                                   /\ inbound(d.receiver).input_ended
    PROVE  LingerInv'
<1> DEFINE p == Peer(e)
<1>1. /\ p \in Ends /\ p # e /\ Peer(p) = e /\ \A f \in Ends : f = e \/ f = p
  BY Peers
<1>2. /\ Hears(u, d.sender) /\ Hears(d, u.sender) /\ FillInv(u.sender) /\ FillInv(d.sender)
      /\ u.sender.isn = ISN[e] /\ d.sender.isn = ISN[p]
      /\ \A seg \in net[p] : Sound(seg, u, d.sender.isn)
  BY PairParts DEF Fine, Sends
<1>3. Hears(v, d.sender) /\ FillInv(v.sender)
  BY AfterCall DEF Fine, Sends
<1>4. /\ conn'[p] = d /\ net'[e] \subseteq net[e]
      /\ \A seg \in net'[p] : seg \in net[p] \/ Fresh(seg, v, ISN[p])
      /\ Ahead(u.sender, v.sender) /\ u.sender.ackno =< v.sender.ackno
  BY DEF Called, Onward
<1>5. LingersNot(e) /\ LingersNot(p) /\ BothEnded(e) /\ BothEnded(p)
  BY <1>1 DEF LingerInv
<1>6. inbound(d.receiver).input_ended \/ d.receiver.reassembler.eof_idx # NoEof => u.sender.fin_sent
  BY <1>2 DEF Hears
<1>7. LingersNot(e)'
  <2> SUFFICES ASSUME ~v.linger
               PROVE  /\ inbound(v.receiver).input_ended
                      /\ d.linger
                      /\ \A seg \in net'[p] : seg.fin /\ ~seg.rst =>
                             seg.ack /\ seg.ackno = wrap(d.sender.next_seqno, d.sender.isn)
                      /\ inbound(d.receiver).input_ended \/ d.receiver.reassembler.eof_idx # NoEof =>
                             d.sender.ackno = d.sender.next_seqno
    BY <1>4 DEF LingersNot
  <2>1. CASE ~u.linger
    <3>1. /\ inbound(u.receiver).input_ended /\ d.linger
          /\ \A seg \in net[p] : seg.fin /\ ~seg.rst =>
                 seg.ack /\ seg.ackno = wrap(d.sender.next_seqno, d.sender.isn)
          /\ inbound(d.receiver).input_ended \/ d.receiver.reassembler.eof_idx # NoEof =>
                 d.sender.ackno = d.sender.next_seqno
      BY <1>5, <2>1 DEF LingersNot
    <3>2. inbound(v.receiver).input_ended
      BY <3>1
    <3>3. v.receiver.isn # None /\ AbsoluteAckno(v.receiver) = d.sender.next_seqno
      BY <1>2, <1>3, <3>2, EndIsAcked
    <3>4. ASSUME NEW seg \in net'[p], seg.fin, ~seg.rst
          PROVE  seg.ack /\ seg.ackno = wrap(d.sender.next_seqno, d.sender.isn)
      <4>1. CASE seg \in net[p]
        BY <3>1, <3>4, <4>1
      <4>2. CASE Fresh(seg, v, ISN[p])
        BY <1>2, <3>3, <3>4, <4>2 DEF Fresh
      <4> QED BY <1>4, <4>1, <4>2
    <3> QED BY <3>1, <3>2, <3>4
  <2>2. CASE u.linger
    <3>1. inbound(v.receiver).input_ended /\ ~u.sender.fin_sent
      BY <2>2
    <3>2. v.receiver.isn # None /\ AbsoluteAckno(v.receiver) = d.sender.next_seqno
      BY <1>2, <1>3, <3>1, EndIsAcked
    <3>3. ~inbound(d.receiver).input_ended /\ d.receiver.reassembler.eof_idx = NoEof
      BY <1>6, <3>1
    <3>4. d.linger
      BY <1>1, <1>5, <3>3 DEF LingersNot
    <3>5. ASSUME NEW seg \in net'[p], seg.fin, ~seg.rst
          PROVE  seg.ack /\ seg.ackno = wrap(d.sender.next_seqno, d.sender.isn)
      <4>1. CASE seg \in net[p]
        <5>1. Sound(seg, u, d.sender.isn)
          BY <1>2, <4>1
        <5>2. CarriesPart(seg, u.sender)
          BY <3>5, <5>1 DEF Sound, Blank
        <5> QED BY <3>1, <3>5, <5>2 DEF CarriesPart
      <4>2. CASE Fresh(seg, v, ISN[p])
        BY <1>2, <3>2, <3>5, <4>2 DEF Fresh
      <4> QED BY <1>4, <4>1, <4>2
    <3> QED BY <3>1, <3>3, <3>4, <3>5
  <2> QED BY <2>1, <2>2
<1>8. LingersNot(p)'
  <2> SUFFICES ASSUME ~d.linger
               PROVE  /\ inbound(d.receiver).input_ended
                      /\ v.linger
                      /\ \A seg \in net'[e] : seg.fin /\ ~seg.rst =>
                             seg.ack /\ seg.ackno = wrap(v.sender.next_seqno, v.sender.isn)
                      /\ inbound(v.receiver).input_ended \/ v.receiver.reassembler.eof_idx # NoEof =>
                             v.sender.ackno = v.sender.next_seqno
    BY <1>1, <1>4 DEF LingersNot
  <2>1. /\ inbound(d.receiver).input_ended /\ u.linger
        /\ \A seg \in net[e] : seg.fin /\ ~seg.rst =>
               seg.ack /\ seg.ackno = wrap(u.sender.next_seqno, u.sender.isn)
        /\ inbound(u.receiver).input_ended \/ u.receiver.reassembler.eof_idx # NoEof =>
               u.sender.ackno = u.sender.next_seqno
    BY <1>1, <1>5 DEF LingersNot
  <2>2. u.sender.fin_sent
    BY <1>6, <2>1
  <2>3. v.linger
    BY <2>1, <2>2
  <2>4. v.sender.next_seqno = u.sender.next_seqno /\ v.sender.isn = u.sender.isn
    BY <1>2, <1>3, <1>4, <2>2, NextStays DEF Ahead
  <2>5. ASSUME inbound(u.receiver).input_ended \/ u.receiver.reassembler.eof_idx # NoEof
        PROVE  v.sender.ackno = v.sender.next_seqno
    <3>1. u.sender.ackno = v.sender.next_seqno
      BY <2>1, <2>4, <2>5
    <3>2. /\ v.sender.ackno \in Nat /\ v.sender.next_seqno \in Nat
          /\ v.sender.ackno =< v.sender.next_seqno
      BY <1>3 DEF FillInv, SenderSet, Covers
    <3> QED BY <1>4, <3>1, <3>2
  <2> QED BY <1>4, <2>1, <2>3, <2>4, <2>5
<1>9. BothEnded(e)' /\ BothEnded(p)'
  <2>1. /\ Got(e)' = inbound(d.receiver) /\ Got(p)' = inbound(v.receiver)
        /\ Got(e) = inbound(d.receiver) /\ Got(p) = inbound(u.receiver)
        /\ ClosedCleanly(p)' = ClosedCleanly(p)
    BY CallSeen
  <2>2. ClosedCleanly(e)' => Got(e)'.input_ended /\ Got(p)'.input_ended
    BY <1>5, <2>1 DEF BothEnded
  <2>3. ClosedCleanly(p)' => Got(e)'.input_ended /\ Got(p)'.input_ended
    BY <1>1, <1>5, <2>1 DEF BothEnded
  <2> QED BY <1>1, <2>2, <2>3 DEF BothEnded
<1> QED BY <1>1, <1>7, <1>8, <1>9 DEF LingerInv

\* So does a call that changes neither the need to linger nor the end of a stream.
LEMMA LingerStays ==
    ASSUME PairInv, PairInv', LingerInv, NEW e \in Ends, Called(e),
           conn'[e].linger = conn[e].linger,
           conn'[e].receiver.reassembler.eof_idx = conn[e].receiver.reassembler.eof_idx,
           inbound(conn'[e].receiver).input_ended = inbound(conn[e].receiver).input_ended,
           ClosedCleanly(e)' => \/ ClosedCleanly(e)
                                \/ /\ inbound(conn'[e].receiver).input_ended
                                   /\ inbound(conn[Peer(e)].receiver).input_ended
    PROVE  LingerInv'
<1> DEFINE u == conn[e]
           v == conn'[e]
           d == conn[Peer(e)]
<1>1. ~v.linger => \/ ~u.linger
                   \/ inbound(v.receiver).input_ended /\ ~u.sender.fin_sent
  OBVIOUS
<1>2. ~d.linger /\ (inbound(v.receiver).input_ended \/ v.receiver.reassembler.eof_idx # NoEof)
          => \/ inbound(u.receiver).input_ended \/ u.receiver.reassembler.eof_idx # NoEof
             \/ v.sender.ackno = v.sender.next_seqno
  OBVIOUS
<1>3. /\ inbound(u.receiver).input_ended => inbound(v.receiver).input_ended
      /\ ClosedCleanly(e)' => \/ ClosedCleanly(e)
                              \/ /\ inbound(v.receiver).input_ended
                                 /\ inbound(d.receiver).input_ended
  OBVIOUS
<1>4. u = conn[e] /\ v = conn'[e] /\ d = conn[Peer(e)]
  OBVIOUS
<1> HIDE DEF u, v, d
<1> QED BY <1>1, <1>2, <1>3, <1>4, LingerKeeps

\* A call that leaves the outbound stream's error and the connection's state alone does
\* not close it.
LEMMA NotClosed ==
    ASSUME NEW e \in Ends, Called(e), conn'[e].active = conn[e].active,
           conn'[e].sender.stream.error = conn[e].sender.stream.error
    PROVE  ClosedCleanly(e)' => ClosedCleanly(e)
BY CallSeen DEF ClosedCleanly, Failed, Sent

\* Tick keeps the invariant.
LEMMA TickLingers ==
    ASSUME PairInv, LingerInv, NEW e \in Ends, Tick(e)
    PROVE  LingerInv'
<1> DEFINE u == conn[e]
           v == conn'[e]
           d == conn[Peer(e)]
<1>1. PairInv' /\ Called(e) /\ u.active
  BY TickCall
<1>2. ClosedCleanly(e)' = (~v.active /\ ~v.sender.stream.error)
  BY <1>1, CallSeen
<1>3. CASE Broken(u, v)
  <2>1. ~ClosedCleanly(e)'
    BY <1>2, <1>3 DEF Broken
  <2>2. /\ v.linger = u.linger
        /\ v.receiver.reassembler.eof_idx = u.receiver.reassembler.eof_idx
        /\ inbound(v.receiver).input_ended = inbound(u.receiver).input_ended
    BY <1>3 DEF Broken
  <2> QED BY <1>1, <2>1, <2>2, LingerStays
<1>4. CASE ~Broken(u, v)
  <2>1. /\ v.linger = u.linger /\ SameInbound(u, v)
        /\ v.active \/ (/\ inbound(v.receiver).input_ended
                        /\ eof(v.sender.stream) /\ Settled(v.sender))
    BY <1>4, TickCall
  <2>2. /\ v.receiver.reassembler.eof_idx = u.receiver.reassembler.eof_idx
        /\ inbound(v.receiver).input_ended = inbound(u.receiver).input_ended
    BY <2>1 DEF SameInbound
  <2>3. ~v.active => inbound(v.receiver).input_ended /\ inbound(d.receiver).input_ended
    <3>1. Fine(v, d, env.bytes[e]) /\ Fine(d, v, env.bytes[Peer(e)]) /\ FilledUp(v.sender)
      BY <1>1, AfterCall
    <3> QED BY <2>1, <3>1, DoneIsEnded DEF Fine
  <2> QED BY <1>1, <1>2, <2>1, <2>2, <2>3, LingerStays
<1> QED BY <1>3, <1>4

\* Receive keeps the invariant: the FIN of a peer that does not linger acknowledges all
\* that this endpoint has sent.
LEMMA ReceiveLingers ==
    ASSUME PairInv, LingerInv, NEW e \in Ends, NEW seg \in net[e], NEW again \in BOOLEAN,
           Receive(e, seg, again)
    PROVE  LingerInv'
<1> DEFINE u == conn[e]
           v == conn'[e]
           d == conn[Peer(e)]
<1>1. PairInv' /\ Called(e)
  BY ReceiveCall
<1>2. CASE Broken(u, v) /\ u.active
  <2>1. ~ClosedCleanly(e)'
    BY <1>1, <1>2, CallSeen DEF Broken
  <2>2. /\ v.linger = u.linger
        /\ v.receiver.reassembler.eof_idx = u.receiver.reassembler.eof_idx
        /\ inbound(v.receiver).input_ended = inbound(u.receiver).input_ended
    BY <1>2 DEF Broken
  <2> QED BY <1>1, <2>1, <2>2, LingerStays
<1>3. CASE SameSource(u, v) /\ SameInbound(u, v) /\ v.linger = u.linger /\ v.active = u.active
  <2>1. /\ v.receiver.reassembler.eof_idx = u.receiver.reassembler.eof_idx
        /\ inbound(v.receiver).input_ended = inbound(u.receiver).input_ended
        /\ v.sender.stream.error = u.sender.stream.error
    BY <1>3 DEF SameSource, SameInbound
  <2> QED BY <1>1, <1>3, <2>1, NotClosed, LingerStays
<1>4. CASE /\ SameSource(u, v) /\ u.active /\ v.active
           /\ Arrived(inbound(u.receiver), inbound(v.receiver))
           /\ ~v.linger => \/ ~u.linger
                           \/ inbound(v.receiver).input_ended /\ ~u.sender.fin_sent
           /\ ~seg.rst
           /\ v.receiver.reassembler.eof_idx # u.receiver.reassembler.eof_idx => seg.fin
           /\ seg.ack => \E a \in 0..TakenBy(d.receiver) :
                 seg.ackno = wrap(a, u.sender.isn) /\ a =< v.sender.ackno
  <2>1. ~ClosedCleanly(e)'
    BY <1>1, <1>4, CallSeen
  <2>2. inbound(u.receiver).input_ended => inbound(v.receiver).input_ended
    BY <1>4 DEF Arrived
  <2>3. ASSUME ~d.linger, ~inbound(u.receiver).input_ended,
               u.receiver.reassembler.eof_idx = NoEof,
               inbound(v.receiver).input_ended \/ v.receiver.reassembler.eof_idx # NoEof
        PROVE  v.sender.ackno = v.sender.next_seqno
    <3>1. /\ Fine(u, d, env.bytes[e]) /\ Fine(v, d, env.bytes[e]) /\ Short(env.bytes[e])
          /\ Hears(d, u.sender) /\ Hears(v, d.sender)
          /\ FillInv(u.sender) /\ FillInv(v.sender)
          /\ u.sender.isn \in 0..(Mod32 - 1)
          /\ u.sender.stream.bytes_written =< env.bytes[e]
          /\ v.sender.stream.bytes_written =< env.bytes[e]
      BY <1>1, AfterCall, PairParts DEF Fine, Sends
    <3>2. v.receiver.reassembler.eof_idx # NoEof
      <4>1. Good(v.receiver.reassembler, d.sender.stream.bytes_read)
        BY <1>4, <3>1 DEF Hears
      <4> QED BY <2>3, <4>1 DEF Good, inbound
    <3>3. seg.fin
      BY <1>4, <2>3, <3>2
    <3>4. /\ inbound(d.receiver).input_ended
          /\ seg.ack /\ seg.ackno = wrap(u.sender.next_seqno, u.sender.isn)
      <4>1. Peer(e) \in Ends /\ Peer(Peer(e)) = e
        BY Peers
      <4>2. LingersNot(Peer(e))
        BY <4>1 DEF LingerInv
      <4> QED BY <1>4, <2>3, <3>3, <4>1, <4>2 DEF LingersNot
    <3>5. PICK a \in 0..TakenBy(d.receiver) :
                 seg.ackno = wrap(a, u.sender.isn) /\ a =< v.sender.ackno
      BY <1>4, <3>4
    <3>6. u.sender.fin_sent /\ Ahead(u.sender, v.sender)
      BY <1>1, <3>1, <3>4 DEF Hears, Called, Onward
    <3>7. v.sender.next_seqno = u.sender.next_seqno
      BY <3>1, <3>6, NextStays
    <3>8. /\ u.sender.next_seqno \in Nat /\ u.sender.next_seqno < Half
          /\ u.sender.next_seqno + Mod32 < Mod64
      BY <3>1, SentIsShort
    <3>9. v.sender.ackno \in Nat /\ v.sender.ackno =< v.sender.next_seqno
      BY <3>1, SentIsShort
    <3>10. a \in Nat
      <4>1. TakenBy(d.receiver) \in Nat
        BY <3>1, TakenType DEF Hears
      <4> QED BY <4>1
    <3>11. a < Half /\ a + Mod32 < Mod64 /\ Half \in Nat /\ Mod32 \in Nat /\ Mod64 \in Nat
      <4>1. Half \in Nat /\ Mod32 \in Nat /\ Mod64 \in Nat
        BY HalfIsHalf, WidthAssumption
      <4> HIDE DEF u, v, d
      <4> QED BY <3>5, <3>7, <3>8, <3>9, <3>10, <4>1
    <3>12. a = u.sender.next_seqno
      <4> DEFINE b == u.sender.next_seqno
                 i == u.sender.isn
      <4>1. /\ i \in 0..(Mod32 - 1) /\ b \in Nat /\ b < Half /\ b + Mod32 < Mod64
            /\ wrap(a, i) = wrap(b, i)
        BY <3>1, <3>4, <3>5, <3>8
      <4> HIDE DEF b, i
      <4>2. a = b
        BY <3>10, <3>11, <4>1, WrapTells
      <4> QED BY <4>2 DEF b
    <3> QED BY <3>5, <3>7, <3>8, <3>9, <3>10, <3>12
  <2>4. ~v.linger => \/ ~u.linger
                     \/ inbound(v.receiver).input_ended /\ ~u.sender.fin_sent
    BY <1>4
  <2>5. u = conn[e] /\ v = conn'[e] /\ d = conn[Peer(e)]
    OBVIOUS
  <2> HIDE DEF u, v, d
  <2> QED BY <1>1, <2>1, <2>2, <2>3, <2>4, <2>5, LingerKeeps
<1> QED BY <1>2, <1>3, <1>4, ReceiveCall

\* Both connections stay fine and one of them at most need not linger.
THEOREM LingerInvariant == Spec => []LingerInv
<1>1. Init => LingerInv
  <2> SUFFICES ASSUME Init PROVE LingerInv
    OBVIOUS
  <2>1. conn = [e \in Ends |-> NewConnection(ISN[e], env.capacity, env.capacity)]
    BY DEF Init
  <2>2. \A e \in Ends : conn[e].linger = TRUE /\ conn[e].active = TRUE
    BY <2>1 DEF NewConnection
  <2> QED BY <2>2 DEF LingerInv, LingersNot, BothEnded, ClosedCleanly
<1>2. PairInv /\ LingerInv /\ [Next]_vars => LingerInv'
  <2> SUFFICES ASSUME PairInv, LingerInv, [Next]_vars PROVE LingerInv'
    OBVIOUS
  <2>1. CASE UNCHANGED vars
    BY <2>1 DEF LingerInv, LingersNot, BothEnded, ClosedCleanly, Got, Failed, Sent, vars
  <2>2. CASE Next
    <3>1. PICK e \in Ends :
                 \/ Connect(e) \/ Write(e) \/ EndInput(e) \/ Read(e) \/ Tick(e)
                 \/ \E seg \in net[e], again \in BOOLEAN : Receive(e, seg, again)
                 \/ \E seg \in net[e] : Lose(e, seg)
      BY <2>2 DEF Next
    <3>2. CASE Connect(e)
      <4>1. /\ PairInv' /\ Called(e) /\ SameSource(conn[e], conn'[e])
            /\ SameInbound(conn[e], conn'[e])
            /\ conn'[e].active = conn[e].active /\ conn'[e].linger = conn[e].linger
        BY <3>2, ConnectCall
      <4> QED BY <4>1, NotClosed, LingerStays DEF SameSource, SameInbound
    <3>3. CASE Write(e)
      <4>1. /\ PairInv' /\ Called(e) /\ SameInbound(conn[e], conn'[e])
            /\ conn'[e].sender.stream.error = conn[e].sender.stream.error
            /\ conn'[e].active = conn[e].active /\ conn'[e].linger = conn[e].linger
        BY <3>3, WriteCall
      <4> QED BY <4>1, NotClosed, LingerStays DEF SameInbound
    <3>4. CASE EndInput(e)
      <4>1. /\ PairInv' /\ Called(e) /\ SameInbound(conn[e], conn'[e])
            /\ conn'[e].sender.stream.error = conn[e].sender.stream.error
            /\ conn'[e].active = conn[e].active /\ conn'[e].linger = conn[e].linger
        BY <3>4, EndCall
      <4> QED BY <4>1, NotClosed, LingerStays DEF SameInbound
    <3>5. CASE Read(e)
      <4>1. /\ PairInv' /\ Called(e) /\ conn'[e].sender = conn[e].sender
            /\ conn'[e].receiver.reassembler.eof_idx = conn[e].receiver.reassembler.eof_idx
            /\ inbound(conn'[e].receiver).input_ended = inbound(conn[e].receiver).input_ended
            /\ conn'[e].active = conn[e].active /\ conn'[e].linger = conn[e].linger
        BY <3>5, ReadCall
      <4> QED BY <4>1, NotClosed, LingerStays
    <3>6. CASE Tick(e)
      BY <3>6, TickLingers
    <3>7. ASSUME NEW seg \in net[e], NEW again \in BOOLEAN, Receive(e, seg, again)
          PROVE  LingerInv'
      BY <3>7, ReceiveLingers
    <3>8. ASSUME NEW seg \in net[e], Lose(e, seg) PROVE LingerInv'
      <4>1. conn' = conn /\ \A f \in Ends : net'[f] \subseteq net[f]
        BY <3>8, LoseCall
      <4>2. \A f \in Ends : Peer(f) \in Ends
        BY Peers
      <4>3. \A f \in Ends : LingersNot(f)'
        BY <4>1, <4>2 DEF LingerInv, LingersNot
      <4>4. \A f \in Ends : BothEnded(f)'
        BY <4>1 DEF LingerInv, BothEnded, ClosedCleanly, Got, Failed, Sent
      <4> QED BY <4>3, <4>4 DEF LingerInv
    <3> QED BY <3>1, <3>2, <3>3, <3>4, <3>5, <3>6, <3>7, <3>8
  <2> QED BY <2>1, <2>2
<1> QED BY <1>1, <1>2, PairInvariant, PTL DEF Spec

\* The endpoint that closes without lingering (tcp_connection.cc:43-46, 100-112) leaves
\* a peer that has its FIN and all its bytes acknowledged and lingers itself.
THEOREM NoLingerHolds == Spec => []NoLingerLeavesPeerSettled
<1>1. PairInv /\ LingerInv => NoLingerLeavesPeerSettled
  <2> SUFFICES ASSUME PairInv, LingerInv, NEW e \in Ends, ClosedCleanly(e), ~conn[e].linger
               PROVE  /\ Settled(conn[Peer(e)].sender)
                      /\ conn[Peer(e)].sender.fin_sent
                      /\ conn[Peer(e)].linger
    BY DEF NoLingerLeavesPeerSettled
  <2> DEFINE u == conn[e]
             d == conn[Peer(e)]
  <2>1. FillInv(d.sender) /\ Hears(u, d.sender)
    BY PairParts DEF Fine, Sends
  <2>2. inbound(d.receiver).input_ended
    BY DEF LingerInv, BothEnded, Got
  <2>3. /\ inbound(u.receiver).input_ended /\ d.linger
        /\ d.sender.ackno = d.sender.next_seqno
    BY <2>2 DEF LingerInv, LingersNot
  <2>4. Settled(d.sender)
    BY <2>1, <2>3, SettledIsAcked
  <2>5. d.sender.fin_sent
    BY <2>1, <2>3 DEF Hears
  <2> QED BY <2>3, <2>4, <2>5
<1> QED BY <1>1, PairInvariant, LingerInvariant, PTL

-----------------------------------------------------------------------------
(* The states of tcp_state.cc.                                              *)

\* The stage of a sender, by its counters.
Stage(s) ==
    IF s.stream.error THEN 5
    ELSE IF s.next_seqno = 0 THEN 0
    ELSE IF s.ackno = 0 THEN 1
    ELSE IF ~s.fin_sent THEN 2
    ELSE IF s.ackno < s.next_seqno THEN 3 ELSE 4

\* The summary of tcp_state.cc:26-46 is that stage: a sender whose every number is in
\* flight waits for its SYN, one that is at the end and has used two numbers more than
\* bytes has sent its FIN.
LEMMA StageIs ==
    ASSUME NEW s, FillInv(s)
    PROVE  SenderStage[SenderSummary(s)] = Stage(s)
<1> DEFINE n == s.next_seqno
           b == bytes_in_flight(s)
           w == s.stream.bytes_written
<1>1. /\ n \in Nat /\ s.ackno \in Nat /\ s.ackno =< n /\ s.stream.error \in BOOLEAN
      /\ s.stream.bytes_read \in Nat /\ w \in Nat /\ Len(s.stream.buffer) \in Nat
      /\ s.stream.buffer \in Seq(Nat) /\ s.fin_sent \in BOOLEAN /\ s.syn_sent \in BOOLEAN
  BY DEF FillInv, SenderSet, StreamSet, Covers
<1>2. /\ b \in Nat /\ (s.ackno = 0 => b = n) /\ (s.ackno > 0 => b < n)
      /\ b = 0 <=> s.ackno = n
  BY InFlight, SettledIsAcked
<1>3. s.ackno > 0 => ((eof(s.stream) /\ n >= w + 2) <=> s.fin_sent)
  <2>1. /\ n = (IF s.syn_sent THEN 1 ELSE 0) + s.stream.bytes_read
                 + (IF s.fin_sent THEN 1 ELSE 0)
        /\ s.fin_sent => s.syn_sent /\ s.stream.input_ended /\ s.stream.buffer = << >>
        /\ w = s.stream.bytes_read + Len(s.stream.buffer)
    BY DEF FillInv, Accounts, Buffers
  <2>2. CASE s.fin_sent
    <3>1. Len(s.stream.buffer) = 0
      BY <2>1, <2>2
    <3>2. n = s.stream.bytes_read + 2 /\ w = s.stream.bytes_read
      BY <1>1, <2>1, <2>2, <3>1
    <3> QED BY <1>1, <2>1, <2>2, <3>2 DEF eof
  <2>3. CASE ~s.fin_sent
    <3>1. n =< s.stream.bytes_read + 1
      BY <1>1, <2>1, <2>3
    <3>2. n < w + 2
      BY <1>1, <2>1, <3>1
    <3> QED BY <1>1, <2>3, <3>2
  <2> QED BY <2>2, <2>3
<1>4. SenderSummary(s) =
        IF s.stream.error THEN "ERROR"
        ELSE IF n = 0 THEN "CLOSED"
        ELSE IF s.ackno = 0 THEN "SYN_SENT"
        ELSE IF ~s.fin_sent THEN "SYN_ACKED"
        ELSE IF s.ackno < n THEN "FIN_SENT" ELSE "FIN_ACKED"
  <2>1. CASE s.stream.error
    BY <2>1 DEF SenderSummary
  <2>2. CASE ~s.stream.error /\ n = 0
    BY <1>1, <2>2 DEF SenderSummary
  <2>3. CASE ~s.stream.error /\ n # 0
    <3>1. n > 0
      BY <1>1, <2>3
    <3>2. SenderSummary(s) =
            IF n = b THEN "SYN_SENT"
            ELSE IF ~eof(s.stream) \/ n < w + 2 THEN "SYN_ACKED"
            ELSE IF b > 0 THEN "FIN_SENT" ELSE "FIN_ACKED"
      BY <2>3, <3>1 DEF SenderSummary
    <3>3. n = b <=> s.ackno = 0
      BY <1>1, <1>2
    <3>4. s.ackno # 0 => ((~eof(s.stream) \/ n < w + 2) <=> ~s.fin_sent)
      BY <1>1, <1>3
    <3>5. b > 0 <=> s.ackno < n
      BY <1>1, <1>2
    <3> HIDE DEF n, b, w
    <3> QED BY <2>3, <3>2, <3>3, <3>4, <3>5
  <2> QED BY <2>1, <2>2, <2>3
<1> QED BY <1>4 DEF SenderStage, Stage

\* A sender that goes on does not fall back.
LEMMA StageGrows ==
    ASSUME NEW s, NEW t, FillInv(s), FillInv(t), Ahead(s, t), s.ackno =< t.ackno,
           s.stream.error => t.stream.error
    PROVE  Stage(s) =< Stage(t)
<1>1. /\ s.next_seqno \in Nat /\ t.next_seqno \in Nat /\ s.ackno \in Nat /\ t.ackno \in Nat
      /\ s.ackno =< s.next_seqno /\ t.ackno =< t.next_seqno
      /\ s.stream.bytes_read \in Nat /\ t.stream.bytes_read \in Nat
  BY DEF FillInv, SenderSet, StreamSet, Covers
<1>2. s.fin_sent => t.fin_sent /\ t.next_seqno = s.next_seqno
  BY NextStays
<1>3. s.next_seqno =< t.next_seqno
  <2>1. /\ s.next_seqno = (IF s.syn_sent THEN 1 ELSE 0) + s.stream.bytes_read
                            + (IF s.fin_sent THEN 1 ELSE 0)
        /\ t.next_seqno = (IF t.syn_sent THEN 1 ELSE 0) + t.stream.bytes_read
                            + (IF t.fin_sent THEN 1 ELSE 0)
    BY DEF FillInv, Accounts
  <2>2. /\ s.syn_sent => t.syn_sent
        /\ s.fin_sent => t.fin_sent
        /\ s.stream.bytes_read =< t.stream.bytes_read
    BY DEF Ahead
  <2> QED BY <1>1, <2>1, <2>2
<1> QED BY <1>1, <1>2, <1>3 DEF Stage

\* A receiver has an acknowledgment number once a SYN has come.
LEMMA AcknoNone ==
    ASSUME NEW rcv \in ReceiverSet
    PROVE  ackno(rcv) = None <=> rcv.isn = None
<1>1. CASE rcv.isn = None
  BY <1>1 DEF ackno
<1>2. CASE rcv.isn # None
  <2>1. inbound(rcv).bytes_written \in Nat /\ rcv.isn \in Int
    BY DEF ReceiverSet, StreamSet, inbound
  <2>2. AbsoluteAckno(rcv) \in Int
    BY <2>1 DEF AbsoluteAckno
  <2>3. (AbsoluteAckno(rcv) + rcv.isn) % Mod32 \in Nat
    BY <2>1, <2>2, WidthAssumption
  <2> QED BY <1>2, <2>3 DEF ackno, wrap, None
<1> QED BY <1>1, <1>2

\* The stage of a receiver, by its state.
LEMMA ReceiverStageIs ==
    ASSUME NEW rcv \in ReceiverSet
    PROVE  ReceiverStage[ReceiverSummary(rcv)] =
             IF inbound(rcv).error THEN 3
             ELSE IF rcv.isn = None THEN 0
             ELSE IF inbound(rcv).input_ended THEN 2 ELSE 1
BY AcknoNone DEF ReceiverSummary, ReceiverStage

\* What NeverGoesBack asks of endpoint e.
GoesOn(e) ==
    LET was == StateOf(conn[e])
        now == StateOf(conn'[e])
    IN  /\ SenderStage[was.sender] =< SenderStage[now.sender]
        /\ ReceiverStage[was.receiver] =< ReceiverStage[now.receiver]
        /\ now.linger => was.linger
        /\ ~was.active => now = was

\* A call that loses no end, no error and no need to linger takes no state back.
LEMMA CallGoesOn ==
    ASSUME PairInv, PairInv', NEW e \in Ends, Called(e),
           NEW u, u = conn[e], NEW v, v = conn'[e],
           u.sender.stream.error => v.sender.stream.error,
           inbound(u.receiver).error => inbound(v.receiver).error,
           u.receiver.isn # None => v.receiver.isn # None,
           inbound(u.receiver).input_ended => inbound(v.receiver).input_ended,
           v.active /\ v.linger => u.active /\ u.linger,
           ~u.active => StateOf(v) = StateOf(u)
    PROVE  GoesOn(e)
<1>1. FillInv(u.sender) /\ FillInv(v.sender) /\ u.receiver \in ReceiverSet /\ v.receiver \in ReceiverSet
  <2>1. FillInv(v.sender) /\ v \in ConnectionSet
    BY AfterCall DEF Fine, Sends
  <2>2. FillInv(u.sender) /\ u \in ConnectionSet
    BY PairParts DEF Fine, Sends
  <2> QED BY <2>1, <2>2 DEF ConnectionSet
<1>2. Ahead(u.sender, v.sender) /\ u.sender.ackno =< v.sender.ackno
  BY DEF Called, Onward
<1>3. SenderStage[SenderSummary(u.sender)] =< SenderStage[SenderSummary(v.sender)]
  BY <1>1, <1>2, StageIs, StageGrows
<1>4. ReceiverStage[ReceiverSummary(u.receiver)] =< ReceiverStage[ReceiverSummary(v.receiver)]
  BY <1>1, ReceiverStageIs
<1>5. /\ StateOf(u).sender = SenderSummary(u.sender) /\ StateOf(v).sender = SenderSummary(v.sender)
      /\ StateOf(u).receiver = ReceiverSummary(u.receiver)
      /\ StateOf(v).receiver = ReceiverSummary(v.receiver)
      /\ StateOf(u).linger = (u.active /\ u.linger) /\ StateOf(v).linger = (v.active /\ v.linger)
      /\ StateOf(u).active = u.active
  BY DEF StateOf, Summary
<1> QED BY <1>3, <1>4, <1>5 DEF GoesOn

\* An active endpoint's streams have not failed, and what a clean close leaves has ended.
LEMMA Unfailed ==
    ASSUME PairInv, NEW e \in Ends
    PROVE  conn[e].active => /\ ~conn[e].sender.stream.error
                             /\ ~inbound(conn[e].receiver).error
<1> SUFFICES ASSUME conn[e].active
             PROVE  ~conn[e].sender.stream.error /\ ~inbound(conn[e].receiver).error
  OBVIOUS
<1> DEFINE s == conn[Peer(e)].sender
<1>1. Hears(conn[e], s) /\ s.stream.bytes_read \in Nat
  BY PairParts, FineParts DEF Fine
<1>2. Good(conn[e].receiver.reassembler, s.stream.bytes_read)
  BY <1>1 DEF Hears
<1>3. conn[e].receiver.reassembler.output.error = FALSE
  BY <1>1, <1>2, GoodIsStored
<1> QED BY <1>3, ActiveIsWhole DEF inbound

\* A connection that is over ignores what arrives.
LEMMA ReceiveIgnored ==
    ASSUME PairInv, NEW e \in Ends, NEW seg \in net[e], NEW again \in BOOLEAN,
           Receive(e, seg, again), ~conn[e].active
    PROVE  conn'[e] = conn[e]
<1> DEFINE q == << >>
           c == segment_received(conn[e], seg)
<1>1. conn' = [conn EXCEPT ![e] = [c EXCEPT !.segments_out = q]]
  BY DEF Receive, Step
<1>2. c = conn[e]
  BY DEF segment_received
<1>3. conn[e] \in ConnectionSet /\ conn[e].segments_out = q /\ conn \in [Ends -> ConnectionSet]
  BY PairParts DEF PairInv
<1> HIDE DEF c, q
<1>4. conn'[e] = [conn[e] EXCEPT !.segments_out = q]
  BY <1>1, <1>2, <1>3
<1> QED BY <1>3, <1>4 DEF ConnectionSet

\* An endpoint whose peer was called stays as it is.
LEMMA OnlyOneGoes ==
    ASSUME NEW e \in Ends, conn'[Peer(e)] = conn[Peer(e)],
           conn'[e] # conn[e] => GoesOn(e)
    PROVE  \A f \in Ends : conn'[f] # conn[f] => GoesOn(f)
BY Peers

\* A failure takes no state back: it is the last one.
LEMMA BrokenGoesOn ==
    ASSUME PairInv, PairInv', NEW e \in Ends, Called(e), conn[e].active,
           Broken(conn[e], conn'[e])
    PROVE  GoesOn(e)
<1> DEFINE u == conn[e]
           v == conn'[e]
<1>1. /\ v.sender.stream.error /\ inbound(v.receiver).error /\ ~v.active /\ u.active
      /\ v.receiver.isn = u.receiver.isn
      /\ inbound(v.receiver).input_ended = inbound(u.receiver).input_ended
  BY DEF Broken
<1>2. u = conn[e] /\ v = conn'[e]
  OBVIOUS
<1> HIDE DEF u, v
<1> QED BY <1>1, <1>2, CallGoesOn

\* A call of an active connection that changes no error and keeps the inbound stream.
LEMMA ActiveGoesOn ==
    ASSUME PairInv, PairInv', NEW e \in Ends, Called(e), conn[e].active,
           SameInbound(conn[e], conn'[e]), conn'[e].linger = conn[e].linger
    PROVE  GoesOn(e)
<1> DEFINE u == conn[e]
           v == conn'[e]
<1>1. /\ v.receiver.isn = u.receiver.isn
      /\ inbound(v.receiver).input_ended = inbound(u.receiver).input_ended
      /\ v.linger = u.linger /\ u.active
  BY DEF SameInbound
<1>2. ~u.sender.stream.error /\ ~inbound(u.receiver).error
  BY Unfailed
<1>3. u = conn[e] /\ v = conn'[e]
  OBVIOUS
<1> HIDE DEF u, v
<1> QED BY <1>1, <1>2, <1>3, CallGoesOn

\* EndInput takes no state back: on a connection that is over it can only come after a
\* failure, since a clean close comes after the end of the stream.
LEMMA EndGoesOn ==
    ASSUME PairInv, LingerInv, NEW e \in Ends, EndInput(e)
    PROVE  GoesOn(e)
<1> DEFINE u == conn[e]
           v == conn'[e]
<1>1. /\ PairInv' /\ Called(e) /\ SameInbound(u, v)
      /\ inbound(v.receiver).error = inbound(u.receiver).error
      /\ ~u.sender.stream.input_ended
      /\ v.sender.stream.error = u.sender.stream.error
      /\ v.active = u.active /\ v.linger = u.linger
  BY EndCall
<1>2. CASE u.active
  BY <1>1, <1>2, ActiveGoesOn
<1>3. CASE ~u.active
  <2>1. u.sender.stream.error
    <3> SUFFICES ASSUME ~u.sender.stream.error PROVE FALSE
      OBVIOUS
    <3>1. Got(e).input_ended
      BY <1>3 DEF LingerInv, BothEnded, ClosedCleanly, Failed, Sent
    <3>2. Hears(conn[Peer(e)], u.sender) /\ FillInv(u.sender)
      BY PairParts DEF Fine, Sends
    <3>3. u.sender.fin_sent
      BY <3>1, <3>2 DEF Hears, Got
    <3> QED BY <1>1, <3>2, <3>3 DEF FillInv, Accounts
  <2>2. u.receiver \in ReceiverSet /\ v.receiver \in ReceiverSet
    BY <1>1, PairParts, AfterCall DEF Fine, Hears
  <2>3. /\ v.receiver.isn = u.receiver.isn
        /\ inbound(v.receiver).input_ended = inbound(u.receiver).input_ended
        /\ inbound(v.receiver).bytes_written = inbound(u.receiver).bytes_written
    BY <1>1 DEF SameInbound
  <2>4. SenderSummary(u.sender) = "ERROR" /\ SenderSummary(v.sender) = "ERROR"
    BY <1>1, <2>1 DEF SenderSummary
  <2>5. ackno(v.receiver) = None <=> ackno(u.receiver) = None
    BY <2>2, <2>3, AcknoNone
  <2>6. ReceiverSummary(v.receiver) = ReceiverSummary(u.receiver)
    BY <1>1, <2>3, <2>5 DEF ReceiverSummary
  <2>7. StateOf(v) = StateOf(u)
    BY <1>1, <2>4, <2>6 DEF StateOf
  <2>8. u = conn[e] /\ v = conn'[e]
    OBVIOUS
  <2> HIDE DEF u, v
  <2> QED BY <1>1, <2>3, <2>7, <2>8, CallGoesOn
<1> QED BY <1>2, <1>3

\* Read takes no state back.
LEMMA ReadGoesOn ==
    ASSUME PairInv, NEW e \in Ends, Read(e)
    PROVE  GoesOn(e)
<1> DEFINE u == conn[e]
           v == conn'[e]
<1>1. /\ PairInv' /\ Called(e) /\ v.sender = u.sender
      /\ v.receiver.isn = u.receiver.isn
      /\ inbound(v.receiver).input_ended = inbound(u.receiver).input_ended
      /\ inbound(v.receiver).error = inbound(u.receiver).error
      /\ v.active = u.active /\ v.linger = u.linger
  BY ReadCall
<1>2. u.receiver \in ReceiverSet /\ v.receiver \in ReceiverSet
  BY <1>1, PairParts, AfterCall DEF Fine, Hears
<1>3. ackno(v.receiver) = None <=> ackno(u.receiver) = None
  BY <1>1, <1>2, AcknoNone
<1>4. ReceiverSummary(v.receiver) = ReceiverSummary(u.receiver)
  BY <1>1, <1>3 DEF ReceiverSummary
<1>5. StateOf(v) = StateOf(u)
  BY <1>1, <1>4 DEF StateOf
<1>6. u = conn[e] /\ v = conn'[e]
  OBVIOUS
<1> HIDE DEF u, v
<1> QED BY <1>1, <1>5, <1>6, CallGoesOn

\* Tick takes no state back.
LEMMA TickGoesOn ==
    ASSUME PairInv, NEW e \in Ends, Tick(e)
    PROVE  GoesOn(e)
<1>1. PairInv' /\ Called(e) /\ conn[e].active
  BY TickCall
<1>2. \/ Broken(conn[e], conn'[e])
      \/ SameInbound(conn[e], conn'[e]) /\ conn'[e].linger = conn[e].linger
  BY TickCall
<1> QED BY <1>1, <1>2, BrokenGoesOn, ActiveGoesOn

\* Receive takes no state back.
LEMMA ReceiveGoesOn ==
    ASSUME PairInv, NEW e \in Ends, NEW seg \in net[e], NEW again \in BOOLEAN,
           Receive(e, seg, again), conn[e].active
    PROVE  GoesOn(e)
<1> DEFINE u == conn[e]
           v == conn'[e]
<1>1. PairInv' /\ Called(e)
  BY ReceiveCall
<1>2. CASE Broken(u, v)
  BY <1>1, <1>2, BrokenGoesOn
<1>3. CASE SameInbound(u, v) /\ v.linger = u.linger
  BY <1>1, <1>3, ActiveGoesOn
<1>4. CASE Arrived(inbound(u.receiver), inbound(v.receiver)) /\ (~u.linger => ~v.linger)
  <2>1. inbound(u.receiver).input_ended => inbound(v.receiver).input_ended
    BY <1>4 DEF Arrived
  <2>2. ~u.sender.stream.error /\ ~inbound(u.receiver).error
    BY Unfailed
  <2>3. u.receiver.isn # None => v.receiver.isn # None
    <3>1. TakenBy(u.receiver) =< TakenBy(v.receiver)
      BY <1>1 DEF Called, Onward
    <3>2. inbound(u.receiver).bytes_written \in Nat
      <4>1. u.receiver \in ReceiverSet
        BY PairParts DEF ConnectionSet
      <4> QED BY <4>1 DEF ReceiverSet, StreamSet, inbound
    <3> QED BY <3>1, <3>2 DEF TakenBy
  <2>4. u = conn[e] /\ v = conn'[e] /\ u.active
    OBVIOUS
  <2> HIDE DEF u, v
  <2> QED BY <1>1, <1>4, <2>1, <2>2, <2>3, <2>4, CallGoesOn
<1> QED BY <1>2, <1>3, <1>4, ReceiveCall

\* No call and no segment takes a connection back to an earlier state of tcp_state.hh,
\* and one that is over stays as it is.
THEOREM NeverGoesBackHolds == Spec => NeverGoesBack
<1> DEFINE A == \A e \in Ends : conn'[e] # conn[e] =>
                  LET was == StateOf(conn[e])
                      now == StateOf(conn'[e])
                  IN  /\ SenderStage[was.sender] =< SenderStage[now.sender]
                      /\ ReceiverStage[was.receiver] =< ReceiverStage[now.receiver]
                      /\ now.linger => was.linger
                      /\ ~was.active => now = was
<1>1. PairInv /\ LingerInv /\ [Next]_vars => [A]_vars
  <2> SUFFICES ASSUME PairInv, LingerInv, Next
               PROVE  \A e \in Ends : conn'[e] # conn[e] => GoesOn(e)
    BY DEF GoesOn
  <2>1. PICK e \in Ends :
               \/ Connect(e) \/ Write(e) \/ EndInput(e) \/ Read(e) \/ Tick(e)
               \/ \E seg \in net[e], again \in BOOLEAN : Receive(e, seg, again)
               \/ \E seg \in net[e] : Lose(e, seg)
    BY DEF Next
  <2>2. CASE Connect(e)
    <3>1. /\ PairInv' /\ Called(e) /\ SameInbound(conn[e], conn'[e])
          /\ conn'[e].linger = conn[e].linger
      BY <2>2, ConnectCall
    <3>2. conn[e].active
      BY <2>2 DEF Connect, CanConnect
    <3> QED BY <3>1, <3>2, ActiveGoesOn, OnlyOneGoes DEF Called
  <2>3. CASE Write(e)
    <3>1. /\ PairInv' /\ Called(e) /\ SameInbound(conn[e], conn'[e])
          /\ conn'[e].linger = conn[e].linger
      BY <2>3, WriteCall
    <3>2. conn[e].active
      BY <2>3 DEF Write, CanWrite
    <3> QED BY <3>1, <3>2, ActiveGoesOn, OnlyOneGoes DEF Called
  <2>4. CASE EndInput(e)
    <3>1. Called(e) /\ GoesOn(e)
      BY <2>4, EndCall, EndGoesOn
    <3> QED BY <3>1, OnlyOneGoes DEF Called
  <2>5. CASE Read(e)
    <3>1. Called(e) /\ GoesOn(e)
      BY <2>5, ReadCall, ReadGoesOn
    <3> QED BY <3>1, OnlyOneGoes DEF Called
  <2>6. CASE Tick(e)
    <3>1. Called(e) /\ GoesOn(e)
      BY <2>6, TickCall, TickGoesOn
    <3> QED BY <3>1, OnlyOneGoes DEF Called
  <2>7. ASSUME NEW seg \in net[e], NEW again \in BOOLEAN, Receive(e, seg, again)
        PROVE  \A f \in Ends : conn'[f] # conn[f] => GoesOn(f)
    <3>1. Called(e)
      BY <2>7, ReceiveCall
    <3>2. conn'[e] # conn[e] => GoesOn(e)
      BY <2>7, ReceiveIgnored, ReceiveGoesOn
    <3> QED BY <3>1, <3>2, OnlyOneGoes DEF Called
  <2>8. ASSUME NEW seg \in net[e], Lose(e, seg)
        PROVE  conn' = conn
    BY <2>8 DEF Lose
  <2> QED BY <2>1, <2>2, <2>3, <2>4, <2>5, <2>6, <2>7, <2>8
<1> QED BY <1>1, PairInvariant, LingerInvariant, PTL DEF Spec, NeverGoesBack
=============================================================================
