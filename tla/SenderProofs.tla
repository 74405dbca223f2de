---------------------------- MODULE SenderProofs ----------------------------
(***************************************************************************)
(* The TCPSender's invariants, for every window, capacity and payload size. *)
(***************************************************************************)
EXTENDS SenderSpec, ConnectionLemmas

AckSet == [seqno : Nat, window : Nat]

\* The inductive invariant.
SenderInv ==
    /\ FillInv(s) /\ s.isn = ISN
    /\ s.timer_running <=> ~Settled(s)
    /\ peer \in [ackno : Nat, window : Nat]
    /\ acks \in Seq(AckSet)

\* The owner draining the queue of segments changes nothing else.
LEMMA DrainedFacts ==
    ASSUME SenderInv
    PROVE  /\ FillInv(Drained) /\ Drained.segments_out = << >> /\ Drained.isn = ISN
           /\ (Drained.timer_running <=> ~Settled(Drained))
           /\ Drained.ackno = s.ackno /\ Drained.rto = s.rto /\ Drained.stream = s.stream
           /\ Drained.consecutive_retransmissions = s.consecutive_retransmissions
           /\ Drained.outstanding = s.outstanding
           /\ Drained.timer_running = s.timer_running
           /\ s.rto \in Nat /\ s.consecutive_retransmissions \in Nat /\ s.ackno \in Nat
<1> DEFINE u == Drained
<1>1. /\ s \in SenderSet /\ Accounts(s) /\ Buffers(s) /\ FillInv(s) /\ s.isn = ISN
      /\ (s.timer_running <=> ~Settled(s))
  BY DEF SenderInv, FillInv
<1>2. << >> \in Seq(SegmentSet)
  OBVIOUS
<1>3. u = [s EXCEPT !.segments_out = << >>]
  BY DEF Drained
<1> HIDE DEF u
<1>4. /\ u \in SenderSet /\ u.isn = s.isn /\ u.ackno = s.ackno
      /\ u.next_seqno = s.next_seqno /\ u.outstanding = s.outstanding
      /\ u.fin_sent = s.fin_sent /\ u.syn_sent = s.syn_sent /\ u.stream = s.stream
      /\ u.timer_running = s.timer_running /\ u.rto = s.rto
      /\ u.consecutive_retransmissions = s.consecutive_retransmissions
      /\ u.segments_out = << >>
  BY <1>1, <1>2, <1>3 DEF SenderSet
<1>5. Accounts(u) /\ Buffers(u)
  BY <1>1, <1>4 DEF Accounts, Buffers
<1>6. FillInv(u) /\ (Settled(u) <=> Settled(s))
  BY <1>1, <1>4, <1>5, FrameStep
<1>7. s.rto \in Nat /\ s.consecutive_retransmissions \in Nat /\ s.ackno \in Nat
  BY <1>1 DEF SenderSet
<1> QED BY <1>1, <1>4, <1>6, <1>7 DEF u

\* The back-off goes down only if the window moves; the count goes up only with the
\* oldest segment sent.
BackoffStep ==
    /\ \/ s'.ackno > s.ackno
       \/ /\ s'.rto >= s.rto
          /\ s'.consecutive_retransmissions >= s.consecutive_retransmissions
    /\ s'.consecutive_retransmissions > s.consecutive_retransmissions =>
          \E p \in DOMAIN s.outstanding :
              /\ p =< s.ackno /\ s.ackno < SegEnd(s, p)
              /\ s'.segments_out = <<s.outstanding[p]>>

\* A step on the sender: the invariant after it, and what it did to the back-off.
SenderStep ==
    /\ FillInv(s') /\ s'.isn = ISN /\ (s'.timer_running <=> ~Settled(s'))
    /\ BackoffStep

\* A step that keeps the back-off is one of those a step may take.
LEMMA KeptBackoff ==
    ASSUME SenderInv, s'.rto = s.rto,
           s'.consecutive_retransmissions = s.consecutive_retransmissions
    PROVE  BackoffStep
<1>1. s.rto \in Nat /\ s.consecutive_retransmissions \in Nat
  BY DrainedFacts
<1> QED BY <1>1 DEF BackoffStep

\* An acknowledgment, of whatever number.
LEMMA AckBackoff ==
    ASSUME SenderInv, NEW seqno \in Int, NEW window \in Nat,
           s' = ack_received(Drained, seqno, window)
    PROVE  SenderStep
<1> DEFINE t == Drained
           u == ack_received(t, seqno, window)
<1>1. /\ FillInv(t) /\ t.isn = ISN /\ (t.timer_running <=> ~Settled(t))
      /\ t.ackno = s.ackno /\ t.rto = s.rto
      /\ t.consecutive_retransmissions = s.consecutive_retransmissions
      /\ s.rto \in Nat /\ s.consecutive_retransmissions \in Nat
  BY DrainedFacts
<1> HIDE DEF t
<1>2. /\ FillInv(u) /\ Grown(t, u) /\ (u.timer_running <=> ~Settled(u))
      /\ \/ u.ackno > t.ackno
         \/ /\ u.ackno = t.ackno /\ u.rto = t.rto
            /\ u.consecutive_retransmissions = t.consecutive_retransmissions
      /\ u.consecutive_retransmissions =< t.consecutive_retransmissions
  BY <1>1, AckReceivedStep
<1>3. u = s'
  BY DEF t
<1> HIDE DEF u
<1>4. u.consecutive_retransmissions \in Nat
  BY <1>2 DEF FillInv, SenderSet
<1> QED BY <1>1, <1>2, <1>3, <1>4 DEF SenderStep, BackoffStep, Grown

\* Every step of the specification.
LEMMA EveryStep ==
    ASSUME SenderInv, [Next]_vars
    PROVE  SenderInv' /\ (SenderStep \/ UNCHANGED s)
<1> DEFINE t == Drained
<1>1. /\ FillInv(t) /\ t.segments_out = << >> /\ t.isn = ISN
      /\ (t.timer_running <=> ~Settled(t))
      /\ t.ackno = s.ackno /\ t.rto = s.rto /\ t.stream = s.stream
      /\ t.consecutive_retransmissions = s.consecutive_retransmissions
      /\ t.outstanding = s.outstanding /\ t.timer_running = s.timer_running
      /\ s.rto \in Nat /\ s.consecutive_retransmissions \in Nat
  BY DrainedFacts
<1>2. /\ peer \in [ackno : Nat, window : Nat] /\ acks \in Seq(AckSet)
      /\ FillInv(s) /\ s.isn = ISN /\ (s.timer_running <=> ~Settled(s))
  BY DEF SenderInv
<1> HIDE DEF t
\* A call that ends in fill_window, after u.
<1>3. ASSUME NEW u, FillInv(u), u.timer_running <=> ~Settled(u), u.rto = s.rto, u.isn = ISN,
             u.consecutive_retransmissions = s.consecutive_retransmissions,
             s' = fill_window(u)
      PROVE  SenderStep
  <2> DEFINE f == fill_window(u)
  <2>1. /\ FillInv(f) /\ f.rto = u.rto /\ f.isn = u.isn /\ (f.timer_running <=> ~Settled(f))
        /\ f.consecutive_retransmissions = u.consecutive_retransmissions
    BY <1>3, FillStep DEF Filled, Grown
  <2>2. f = s'
    BY <1>3
  <2> HIDE DEF f
  <2>3. BackoffStep
    BY <1>3, <2>1, <2>2, KeptBackoff
  <2> QED BY <1>3, <2>1, <2>2, <2>3 DEF SenderStep
\* A change of the stream keeps the other fields.
<1>4. ASSUME NEW out
      PROVE  LET u == [t EXCEPT !.stream = out]
             IN  /\ u.timer_running = t.timer_running /\ u.rto = t.rto /\ u.isn = t.isn
                 /\ u.consecutive_retransmissions = t.consecutive_retransmissions
  BY <1>1 DEF FillInv, SenderSet
<1>5. CASE Connect
  <2>1. s' = fill_window(t)
    BY <1>5 DEF Connect, t
  <2>2. SenderStep
    BY <1>1, <1>3, <2>1
  <2> QED BY <1>2, <1>5, <2>2 DEF Connect, SenderStep, SenderInv
<1>6. ASSUME NEW n \in 1..StreamLength, Write(n)
      PROVE  SenderInv' /\ SenderStep
  <2> DEFINE data == Excerpt(t.stream.bytes_written, n)
             u    == [t EXCEPT !.stream = write(@, data)]
  <2>1. n \in Nat
    BY SenderSpecAssumption
  <2>2. s' = fill_window(u)
    BY <1>1, <1>6 DEF Write, t
  <2>3. FillInv(u) /\ (Settled(u) <=> Settled(t))
    BY <1>1, <2>1, WriteStep
  <2>4. /\ u.timer_running = t.timer_running /\ u.rto = t.rto /\ u.isn = t.isn
        /\ u.consecutive_retransmissions = t.consecutive_retransmissions
    BY <1>4
  <2> HIDE DEF u
  <2>5. SenderStep
    BY <1>1, <1>3, <2>2, <2>3, <2>4
  <2> QED BY <1>2, <1>6, <2>5 DEF Write, SenderStep, SenderInv
<1>7. CASE EndInput
  <2> DEFINE u == [t EXCEPT !.stream = end_input(@)]
  <2>1. s' = fill_window(u)
    BY <1>7 DEF EndInput, t
  <2>2. FillInv(u) /\ (Settled(u) <=> Settled(t))
    BY <1>1, EndStep
  <2>3. /\ u.timer_running = t.timer_running /\ u.rto = t.rto /\ u.isn = t.isn
        /\ u.consecutive_retransmissions = t.consecutive_retransmissions
    BY <1>4
  <2> HIDE DEF u
  <2>4. SenderStep
    BY <1>1, <1>3, <2>1, <2>2, <2>3
  <2> QED BY <1>2, <1>7, <2>4 DEF EndInput, SenderStep, SenderInv
<1>8. ASSUME NEW ms \in 1..2, Tick(ms)
      PROVE  SenderInv' /\ SenderStep
  <2> DEFINE u == sender_tick(t, ms)
  <2>1. ms \in Nat /\ s' = u
    BY <1>8 DEF Tick, t
  <2>2. /\ FillInv(u) /\ (u.timer_running <=> ~Settled(u))
        /\ Filled(t, u)
        /\ u.rto >= t.rto
        /\ u.consecutive_retransmissions >= t.consecutive_retransmissions
        /\ u.consecutive_retransmissions > t.consecutive_retransmissions =>
              \E p \in DOMAIN t.outstanding :
                  /\ p =< t.ackno /\ t.ackno < SegEnd(t, p)
                  /\ u.segments_out = Append(t.segments_out, t.outstanding[p])
    BY <1>1, <2>1, TickStep
  <2>3. \A x : Append(<< >>, x) = <<x>>
    OBVIOUS
  <2>4. \A p : SegEnd(t, p) = SegEnd(s, p)
    BY <1>1 DEF SegEnd
  <2> HIDE DEF u
  <2>5. SenderStep
    BY <1>1, <2>1, <2>2, <2>3, <2>4 DEF SenderStep, BackoffStep, Filled, Grown
  <2> QED BY <1>2, <1>8, <2>5 DEF Tick, SenderStep, SenderInv
<1>9. ASSUME NEW a \in 0..s.next_seqno, NEW w \in 0..MaxWindow, PeerAck(a, w)
      PROVE  SenderInv' /\ UNCHANGED s
  <2>1. a \in Nat /\ w \in Nat
    BY <1>2, SenderSpecAssumption DEF FillInv, SenderSet
  <2>2. wrap(a, ISN) \in Nat
    BY <2>1, WidthAssumption, SenderSpecAssumption DEF wrap
  <2>3. [seqno |-> wrap(a, ISN), window |-> w] \in AckSet
    BY <2>1, <2>2 DEF AckSet
  <2>4. acks' \in Seq(AckSet) /\ peer' \in [ackno : Nat, window : Nat] /\ s' = s
    BY <1>2, <1>9, <2>1, <2>3 DEF PeerAck
  <2> QED BY <1>2, <2>4 DEF SenderInv
\* Taking one acknowledgment out of those in flight.
<1>10. ASSUME NEW k \in DOMAIN acks
       PROVE  /\ SubSeq(acks, 1, k - 1) \o SubSeq(acks, k + 1, Len(acks)) \in Seq(AckSet)
              /\ acks[k].seqno \in Int /\ acks[k].window \in Nat
  <2>1. k \in 1..Len(acks) /\ Len(acks) \in Nat /\ \A i \in 1..Len(acks) : acks[i] \in AckSet
    BY <1>2
  <2>2. SubSeq(acks, 1, k - 1) \in Seq(AckSet)
    <3>1. \A i \in 1..(k - 1) : acks[i] \in AckSet
      BY <2>1
    <3> QED BY <2>1, <3>1, SubSeqProperties
  <2>3. SubSeq(acks, k + 1, Len(acks)) \in Seq(AckSet)
    <3>1. \A i \in (k + 1)..Len(acks) : acks[i] \in AckSet
      BY <2>1
    <3> QED BY <2>1, <3>1, SubSeqProperties
  <2>4. acks[k].seqno \in Int /\ acks[k].window \in Nat
    BY <2>1 DEF AckSet
  <2> QED BY <2>2, <2>3, <2>4, ConcatProperties
<1>11. ASSUME NEW k \in 1..MaxAcks, NEW again \in BOOLEAN, Deliver(k, again)
       PROVE  SenderInv' /\ SenderStep
  <2>1. k \in DOMAIN acks /\ s' = ack_received(Drained, acks[k].seqno, acks[k].window)
    BY <1>11 DEF Deliver
  <2>2. SenderStep
    BY <1>10, <2>1, AckBackoff
  <2>3. acks' \in Seq(AckSet) /\ peer' = peer
    BY <1>2, <1>10, <1>11 DEF Deliver
  <2> QED BY <1>2, <2>2, <2>3 DEF SenderStep, SenderInv
<1>12. ASSUME NEW w \in 0..MaxWindow, DeliverImpossible(w)
       PROVE  SenderInv' /\ SenderStep
  <2>1. w \in Nat /\ wrap(s.next_seqno + 1, ISN) \in Int
    BY <1>2, SenderSpecAssumption, WidthAssumption DEF FillInv, SenderSet, wrap
  <2>2. SenderStep
    BY <1>12, <2>1, AckBackoff DEF DeliverImpossible
  <2> QED BY <1>2, <1>12, <2>2 DEF DeliverImpossible, SenderStep, SenderInv
<1>13. ASSUME NEW k \in 1..MaxAcks, Lose(k)
       PROVE  SenderInv' /\ UNCHANGED s
  BY <1>2, <1>10, <1>13 DEF Lose, SenderInv
<1>14. CASE UNCHANGED vars
  BY <1>2, <1>14 DEF vars, SenderInv
<1> QED
  BY <1>5, <1>6, <1>7, <1>8, <1>9, <1>11, <1>12, <1>13, <1>14 DEF Next

\* A new sender satisfies the invariant.
LEMMA InitialSender == Init => SenderInv
<1> SUFFICES ASSUME Init PROVE SenderInv
  OBVIOUS
<1>1. s = NewSender(ISN, SendCapacity) /\ peer = [ackno |-> 0, window |-> 1] /\ acks = << >>
  BY DEF Init
<1>2. FillInv(s) /\ s.isn = ISN /\ (s.timer_running <=> ~Settled(s))
  BY <1>1, SenderSpecAssumption, WidthAssumption, NewSenderFacts
<1>3. peer \in [ackno : Nat, window : Nat] /\ acks \in Seq(AckSet)
  BY <1>1
<1> QED BY <1>2, <1>3 DEF SenderInv

\* SenderInv is an invariant of the specification.
LEMMA SenderInvHolds == Spec => []SenderInv
<1>1. SenderInv /\ [Next]_vars => SenderInv'
  BY EveryStep
<1> QED BY <1>1, InitialSender, PTL DEF Spec

\* The types of the sender and of the acknowledgments in flight.
TypeOK ==
    /\ s \in SenderSet
    /\ peer \in [ackno : Nat, window : Nat]
    /\ acks \in Seq(AckSet)

\* Every counter of the sender is a natural number, the queue of segments and the map
\* of outstanding ones hold segments: no subtraction goes below zero and no segment is
\* looked up where there is none.
THEOREM TypeCorrect == Spec => []TypeOK
<1>1. SenderInv => TypeOK
  BY DEF SenderInv, FillInv, TypeOK
<1> QED BY <1>1, SenderInvHolds, PTL

\* For every window, capacity and payload size: the retransmission timer runs exactly
\* while a segment is outstanding.
THEOREM TimerHolds == Spec => []TimerIffOutstanding
<1>1. SenderInv => TimerIffOutstanding
  BY DEF SenderInv, TimerIffOutstanding
<1> QED BY <1>1, SenderInvHolds, PTL

\* Every number sent and not acknowledged is in exactly one outstanding segment, and
\* no segment is held that is acknowledged whole.
THEOREM OutstandingHolds == Spec => []UnackedIsOutstanding
<1>1. SenderInv => UnackedIsOutstanding
  BY DEF SenderInv, FillInv, Covers, UnackedIsOutstanding
<1> QED BY <1>1, SenderInvHolds, PTL

\* The next sequence number counts the SYN, the bytes taken and the FIN.
THEOREM AccountingHolds == Spec => []SeqnoAccounting
<1>1. SenderInv => SeqnoAccounting
  BY DEF SenderInv, FillInv, Accounts, SeqnoAccounting, eof
<1> QED BY <1>1, SenderInvHolds, PTL

\* Every outstanding segment carries the bytes its sequence number says, so that what
\* is sent again is what was sent first.
THEOREM ContentHolds == Spec => []SegmentsCarryTheStream
<1>1. SenderInv => SegmentsCarryTheStream
  <2> SUFFICES ASSUME SenderInv, NEW p \in DOMAIN s.outstanding
               PROVE  LET seg == s.outstanding[p]
                      IN  /\ seg.seqno = wrap(p, ISN)
                          /\ seg.syn <=> p = 0
                          /\ seg.fin <=> (s.fin_sent /\ SegEnd(s, p) = s.next_seqno)
                          /\ Len(seg.payload) =< MAX_PAYLOAD_SIZE
                          /\ seg.payload = Excerpt(p - 1, Len(seg.payload))
    BY DEF SegmentsCarryTheStream
  <2> DEFINE seg == s.outstanding[p]
             n   == Len(seg.payload)
  <2>1. seg \in SegmentSet
    <3>1. PICK D \in SUBSET Nat : s.outstanding \in [D -> SegmentSet]
      BY DEF SenderInv, FillInv, SenderSet, Tracked
    <3> QED BY <3>1
  <2>2. seg.payload \in Seq(Nat)
    BY <2>1 DEF SegmentSet
  <2>3. /\ seg.seqno = wrap(p, ISN) /\ (seg.syn <=> p = 0)
        /\ (seg.fin <=> (s.fin_sent /\ SegEnd(s, p) = s.next_seqno))
        /\ Len(seg.payload) =< MAX_PAYLOAD_SIZE
        /\ \A k \in 1..n : seg.payload[k] = p + k - 2
    BY DEF SenderInv, FillInv, Carries
  <2> HIDE DEF seg
  <2>4. seg.payload = [k \in 1..n |-> seg.payload[k]]
    BY <2>2
  <2>5. seg.payload = Excerpt(p - 1, n)
    <3>1. p \in Nat /\ \A k \in 1..n : p + k - 2 = (p - 1) + k - 1
      <4>1. p \in Nat
        BY DEF SenderInv, FillInv, SenderSet, Tracked
      <4> QED BY <4>1
    <3> HIDE DEF n
    <3> QED BY <2>3, <2>4, <3>1 DEF Excerpt
  <2> QED BY <2>3, <2>5 DEF seg
<1> QED BY <1>1, SenderInvHolds, PTL

\* The timeout and the count of retransmissions go down only when the window moves.
THEOREM BackoffHolds == Spec => BackoffResetsOnProgress
<1> DEFINE A == (\/ s'.consecutive_retransmissions < s.consecutive_retransmissions
                 \/ s'.rto < s.rto)
                => s'.ackno > s.ackno
<1>1. SenderInv /\ [Next]_vars => [A]_vars
  <2> SUFFICES ASSUME SenderInv, [Next]_vars PROVE A
    OBVIOUS
  <2>1. s.rto \in Nat /\ s.consecutive_retransmissions \in Nat
    BY DrainedFacts
  <2>2. CASE UNCHANGED s
    BY <2>1, <2>2
  <2>3. CASE SenderStep
    <3>1. s'.rto \in Nat /\ s'.consecutive_retransmissions \in Nat
      BY <2>3 DEF SenderStep, FillInv, SenderSet
    <3> QED BY <2>1, <2>3, <3>1 DEF SenderStep, BackoffStep
  <2> QED BY <2>2, <2>3, EveryStep
<1> QED BY <1>1, SenderInvHolds, PTL DEF Spec, BackoffResetsOnProgress

\* A timeout sends the segment with the first unacknowledged number.
THEOREM TimeoutHolds == Spec => TimeoutSendsOldest
<1> DEFINE A == s'.consecutive_retransmissions > s.consecutive_retransmissions =>
                  \E p \in DOMAIN s.outstanding :
                      /\ p =< s.ackno /\ s.ackno < SegEnd(s, p)
                      /\ s'.segments_out = <<s.outstanding[p]>>
<1>1. SenderInv /\ [Next]_vars => [A]_vars
  <2> SUFFICES ASSUME SenderInv, [Next]_vars PROVE A
    OBVIOUS
  <2>1. s.consecutive_retransmissions \in Nat
    BY DrainedFacts
  <2>2. CASE UNCHANGED s
    BY <2>1, <2>2
  <2>3. CASE SenderStep
    BY <2>3 DEF SenderStep, BackoffStep
  <2> QED BY <2>2, <2>3, EveryStep
<1> QED BY <1>1, SenderInvHolds, PTL DEF Spec, TimeoutSendsOldest

-----------------------------------------------------------------------------
(* The window, when the network keeps the acknowledgments' order.           *)

\* The right edge of a window w after the number a, with room for a probe.
Edge(a, w) == a + Greater(w, 1)

\* The acknowledgments q, of the numbers given, move the window between the one that a
\* sender t knows and the one that the peer p has to the right only.
Advance(q, numbers, t, p) ==
    /\ \A k \in DOMAIN q :
        /\ numbers[k] \in Nat /\ q[k].seqno = wrap(numbers[k], ISN) /\ q[k].window \in Nat
        /\ q[k].window =< Greater(MaxWindow, 1)
        /\ t.ackno =< numbers[k] /\ numbers[k] =< p.ackno
        /\ WindowRight(t) =< Edge(numbers[k], q[k].window)
        /\ Edge(numbers[k], q[k].window) =< Edge(p.ackno, p.window)
    /\ \A j, k \in DOMAIN q : j < k =>
        /\ numbers[j] =< numbers[k]
        /\ Edge(numbers[j], q[j].window) =< Edge(numbers[k], q[k].window)

Behind(t, p) ==
    /\ t.ackno =< p.ackno /\ p.ackno =< t.next_seqno
    /\ t.window_size =< Greater(MaxWindow, 1) /\ p.window =< Greater(MaxWindow, 1)
    /\ t.next_seqno =< WindowRight(t) /\ WindowRight(t) =< Edge(p.ackno, p.window)

WindowInv ==
    /\ SenderInv
    /\ s.stream.bytes_written =< StreamLength
    /\ inOrder => /\ Behind(s, peer)
                  /\ \E numbers : Advance(acks, numbers, s, peer)

\* The next number of a natural bound is bounded by the stream (SYN, bytes, FIN).
LEMMA NextBound ==
    ASSUME NEW t, FillInv(t), t.stream.bytes_written =< StreamLength
    PROVE  /\ t.ackno \in Nat /\ t.next_seqno \in Nat /\ t.window_size \in Nat
           /\ t.ackno =< t.next_seqno /\ t.next_seqno =< StreamLength + 2
           /\ WindowRight(t) = Edge(t.ackno, t.window_size)
           /\ t.stream.bytes_written \in Nat
<1>1. /\ t \in SenderSet /\ Covers(t) /\ Accounts(t) /\ Buffers(t)
  BY DEF FillInv
<1>2. /\ t.ackno \in Nat /\ t.next_seqno \in Nat /\ t.window_size \in Nat
      /\ t.stream.bytes_read \in Nat /\ t.stream.bytes_written \in Nat
      /\ t.stream.buffer \in Seq(Nat)
  BY <1>1 DEF SenderSet, StreamSet
<1>3. Len(t.stream.buffer) \in Nat
  BY <1>2
<1>4. t.ackno =< t.next_seqno
  BY <1>1 DEF Covers
<1>5. t.next_seqno =< 2 + t.stream.bytes_read
  BY <1>1, <1>2 DEF Accounts
<1>6. t.stream.bytes_read =< t.stream.bytes_written
  BY <1>1, <1>2, <1>3 DEF Buffers
<1>7. t.next_seqno =< StreamLength + 2
  BY <1>2, <1>5, <1>6, SenderSpecAssumption
<1>8. WindowRight(t) = Edge(t.ackno, t.window_size)
  BY <1>2 DEF WindowRight, Edge, Greater
<1> QED BY <1>2, <1>4, <1>7, <1>8

\* Tracking segments leaves the window and the stream alone.
LEMMA TrackWindow ==
    ASSUME NEW t \in SenderSet, NEW new, NEW end
    PROVE  LET u == Track(t, new, end)
           IN  /\ u.ackno = t.ackno /\ u.window_size = t.window_size
               /\ u.stream = t.stream /\ u.next_seqno = end
BY DEF Track, SenderSet

\* The pieces that one call sends end in the window.
LEMMA DataWindow ==
    ASSUME NEW t, FillInv(t), t.next_seqno =< WindowRight(t)
    PROVE  LET v == SendData(t)
           IN  /\ v.ackno = t.ackno /\ v.window_size = t.window_size
               /\ v.stream.bytes_written = t.stream.bytes_written
               /\ t.next_seqno =< v.next_seqno /\ v.next_seqno =< WindowRight(t)
<1> DEFINE n   == Sendable(t)
           one == IF FinFits(t) THEN 1 ELSE 0
           end == t.next_seqno + n + one
           u   == Track(t, Pieces(t), end)
           v   == SendData(t)
<1>1. /\ t \in SenderSet /\ t.next_seqno \in Nat /\ t.stream \in StreamSet
      /\ t.ackno \in Nat /\ t.window_size \in Nat
  BY DEF FillInv, SenderSet
<1>2. WindowRight(t) \in Nat
  BY <1>1 DEF WindowRight
<1>3. n \in Nat /\ n =< Len(t.stream.buffer) /\ Len(t.stream.buffer) \in Nat
  BY <1>1, SendableType
<1>4. t.next_seqno + n =< WindowRight(t)
  BY <1>1, <1>2, <1>3 DEF Sendable, Lesser
<1>5. one \in {0, 1} /\ (one = 1 => t.next_seqno + n < WindowRight(t))
  BY DEF FinFits
<1>6. u \in SenderSet
  BY <1>1, PiecesTile, TrackType
<1>7. u.ackno = t.ackno /\ u.window_size = t.window_size /\ u.stream = t.stream /\ u.next_seqno = end
  BY <1>1, TrackWindow
<1>8. v = [u EXCEPT !.stream = pop_output(u.stream, n), !.fin_sent = u.fin_sent \/ FinFits(t)]
  BY DEF SendData
<1> HIDE DEF u, v
<1>9. /\ v.ackno = u.ackno /\ v.window_size = u.window_size /\ v.next_seqno = u.next_seqno
      /\ v.stream = pop_output(u.stream, n)
  BY <1>6, <1>8 DEF SenderSet
<1>10. pop_output(t.stream, n).bytes_written = t.stream.bytes_written
  <2> HIDE DEF n
  <2> QED BY <1>1, <1>3, PopFacts
<1> HIDE DEF n, one
<1>11. t.next_seqno =< end /\ end =< WindowRight(t)
  BY <1>1, <1>2, <1>3, <1>4, <1>5
<1> QED BY <1>7, <1>9, <1>10, <1>11 DEF v

\* fill_window stops at the window's edge.
LEMMA FillWindow ==
    ASSUME NEW t, FillInv(t)
    PROVE  LET u == fill_window(t)
           IN  /\ u.ackno = t.ackno /\ u.window_size = t.window_size
               /\ u.stream.bytes_written = t.stream.bytes_written
               /\ t.next_seqno =< u.next_seqno
               /\ u.next_seqno =< WindowRight(t) \/ u.next_seqno = t.next_seqno
<1> DEFINE u == fill_window(t)
           b == SendSyn(t)
<1>1. /\ t \in SenderSet /\ t.next_seqno \in Nat /\ t.ackno \in Nat /\ t.window_size \in Nat
  BY DEF FillInv, SenderSet
<1>2. WindowRight(t) \in Nat
  BY <1>1 DEF WindowRight
<1>3. CASE t.next_seqno >= WindowRight(t)
  BY <1>1, <1>3 DEF fill_window
<1>4. CASE t.next_seqno < WindowRight(t) /\ t.syn_sent
  <2>1. u = SendData(t)
    BY <1>1, <1>2, <1>4 DEF fill_window
  <2> HIDE DEF u
  <2> QED BY <1>1, <1>2, <1>4, <2>1, DataWindow DEF u
<1>5. CASE t.next_seqno < WindowRight(t) /\ ~t.syn_sent
  <2>1. u = SendData(b)
    BY <1>1, <1>2, <1>5 DEF fill_window
  <2>2. FillInv(b)
    BY <1>5, SynStep
  <2>3. /\ b.ackno = t.ackno /\ b.window_size = t.window_size /\ b.stream = t.stream
        /\ b.next_seqno = t.next_seqno + 1
    <3> DEFINE t1 == [t EXCEPT !.syn_sent = TRUE]
    <3>1. /\ t1 \in SenderSet /\ t1.ackno = t.ackno /\ t1.window_size = t.window_size
          /\ t1.stream = t.stream
      BY <1>1 DEF SenderSet
    <3> HIDE DEF t1
    <3>2. \E new : b = Track(t1, new, t.next_seqno + 1)
      BY DEF SendSyn, t1
    <3> QED BY <3>1, <3>2, TrackWindow
  <2> HIDE DEF b, u
  <2>4. WindowRight(b) = WindowRight(t)
    BY <2>3 DEF WindowRight
  <2>5. b.next_seqno =< WindowRight(b)
    BY <1>1, <1>2, <1>5, <2>3, <2>4
  <2>6. /\ u.ackno = b.ackno /\ u.window_size = b.window_size
        /\ u.stream.bytes_written = b.stream.bytes_written
        /\ b.next_seqno =< u.next_seqno /\ u.next_seqno =< WindowRight(b)
    BY <2>1, <2>2, <2>5, DataWindow
  <2>7. FillInv(u)
    BY FillStep DEF u
  <2>8. u.next_seqno \in Nat
    BY <2>7 DEF FillInv, SenderSet
  <2> QED BY <1>1, <2>3, <2>4, <2>6, <2>8 DEF u
<1> QED BY <1>1, <1>2, <1>3, <1>4, <1>5

\* An acknowledgment of the number a: beyond what was sent it is ignored, otherwise its
\* window counts, from the highest number known, and nothing is sent past its edge.
LEMMA AcknoMoves ==
    ASSUME NEW t, FillInv(t), NEW seqno \in Int, NEW window \in Nat
    PROVE  LET a == unwrap(seqno, t.isn, t.ackno)
               u == ack_received(t, seqno, window)
           IN  /\ a > t.next_seqno => u = t
               /\ a =< t.next_seqno =>
                     /\ u.ackno = Greater(t.ackno, a) /\ u.window_size = window
                     /\ u.stream.bytes_written = t.stream.bytes_written
                     /\ t.next_seqno =< u.next_seqno
                     /\ u.next_seqno =< WindowRight(u) \/ u.next_seqno = t.next_seqno
<1> DEFINE a == unwrap(seqno, t.isn, t.ackno)
           b == [t EXCEPT !.window_size = window]
           c == Acknowledge(b, a)
           f == fill_window(c)
           run == f.timer_running /\ ~Settled(f)
           u == ack_received(t, seqno, window)
<1>1. /\ t \in SenderSet /\ t.ackno \in Nat /\ t.isn \in Int /\ t.next_seqno \in Nat
      /\ Accounts(t) /\ Buffers(t)
  BY DEF FillInv, SenderSet
<1>2. a \in Nat
  BY <1>1, UnwrapType
<1>3. u = IF a > t.next_seqno THEN t ELSE [f EXCEPT !.timer_running = run]
  BY DEF ack_received
<1> HIDE DEF a, u
<1>4. CASE a > t.next_seqno
  <2>1. u = t
    BY <1>3, <1>4
  <2> QED BY <1>1, <1>2, <1>4, <2>1 DEF u, a
<1>5. CASE ~(a > t.next_seqno)
  <2>1. u = [f EXCEPT !.timer_running = run]
    BY <1>3, <1>5
  <2>2. /\ b \in SenderSet /\ b.isn = t.isn /\ b.ackno = t.ackno
        /\ b.next_seqno = t.next_seqno /\ b.outstanding = t.outstanding
        /\ b.fin_sent = t.fin_sent /\ b.syn_sent = t.syn_sent /\ b.stream = t.stream
        /\ b.timer_running = t.timer_running /\ b.window_size = window
    BY <1>1 DEF SenderSet
  <2> HIDE DEF b
  <2>3. FillInv(b)
    <3>1. Accounts(b) /\ Buffers(b)
      BY <1>1, <2>2 DEF Accounts, Buffers
    <3> QED BY <2>2, <3>1, FrameStep
  <2>4. a =< b.next_seqno
    BY <1>1, <1>2, <1>5, <2>2
  <2>5. FillInv(c)
    BY <1>2, <2>3, <2>4, AcknowledgeStep
  <2>6. /\ c.ackno = Greater(b.ackno, a) /\ c.window_size = b.window_size
        /\ c.stream = b.stream /\ c.next_seqno = b.next_seqno
    BY <2>2 DEF Acknowledge, SenderSet
  <2> HIDE DEF c
  <2>7. /\ f.ackno = c.ackno /\ f.window_size = c.window_size
        /\ f.stream.bytes_written = c.stream.bytes_written
        /\ c.next_seqno =< f.next_seqno
        /\ f.next_seqno =< WindowRight(c) \/ f.next_seqno = c.next_seqno
    BY <2>5, FillWindow
  <2>8. f \in SenderSet
    BY <2>5, FillStep DEF FillInv
  <2> HIDE DEF f, run
  <2>9. /\ u.ackno = f.ackno /\ u.window_size = f.window_size
        /\ u.next_seqno = f.next_seqno /\ u.stream = f.stream
    BY <2>1, <2>8 DEF SenderSet
  <2>10. WindowRight(u) = WindowRight(c)
    BY <2>7, <2>9 DEF WindowRight
  <2> QED BY <1>1, <1>2, <1>5, <2>2, <2>6, <2>7, <2>9, <2>10 DEF u, a
<1> QED BY <1>4, <1>5

\* A tick leaves the window and the stream alone.
LEMMA TickWindow ==
    ASSUME NEW t \in SenderSet, NEW ms
    PROVE  LET u == sender_tick(t, ms)
           IN  /\ u.ackno = t.ackno /\ u.window_size = t.window_size
               /\ u.stream = t.stream /\ u.next_seqno = t.next_seqno
<1> DEFINE u == sender_tick(t, ms)
           timer == t.timer + ms
           expired == timer >= t.rto /\ ~Settled(t)
<1>1. CASE ~t.timer_running
  BY <1>1 DEF sender_tick
<1>2. CASE t.timer_running /\ ~expired
  BY <1>2 DEF sender_tick, SenderSet
<1>3. CASE t.timer_running /\ expired
  <2> DEFINE queue == Append(t.segments_out, t.outstanding[Min(DOMAIN t.outstanding)])
             rto == IF t.window_size > 0 THEN 2 * t.rto ELSE t.rto
             count == t.consecutive_retransmissions + 1
  <2>1. u = [t EXCEPT !.timer = 0, !.segments_out = queue, !.rto = rto,
                      !.consecutive_retransmissions = count]
    BY <1>3 DEF sender_tick
  <2> HIDE DEF u, queue, rto, count
  <2>2. /\ u.ackno = t.ackno /\ u.window_size = t.window_size
        /\ u.stream = t.stream /\ u.next_seqno = t.next_seqno
    BY <2>1 DEF SenderSet
  <2> QED BY <2>2 DEF u
<1> QED BY <1>1, <1>2, <1>3

\* A write takes at most what is offered.
LEMMA WriteBound ==
    ASSUME NEW st \in StreamSet, NEW n \in Nat, NEW data, Len(data) = n,
           Len(st.buffer) =< st.capacity
    PROVE  /\ write(st, data).bytes_written \in Nat
           /\ write(st, data).bytes_written =< st.bytes_written + n
<1> DEFINE m == Accepted(st, n)
<1>1. st.capacity \in Nat /\ st.bytes_written \in Nat /\ st.buffer \in Seq(Nat)
  BY DEF StreamSet
<1>2. m \in Nat /\ m =< n
  BY <1>1 DEF Accepted, Lesser, remaining_capacity
<1>3. write(st, data).bytes_written = st.bytes_written + m
  BY DEF write, StreamSet
<1> QED BY <1>1, <1>2, <1>3

\* Draining the queue of segments leaves the window alone.
LEMMA DrainedWindow ==
    ASSUME SenderInv
    PROVE  /\ Drained.window_size = s.window_size /\ Drained.next_seqno = s.next_seqno
           /\ WindowRight(Drained) = WindowRight(s)
<1>1. s \in SenderSet
  BY DEF SenderInv, FillInv
<1> QED BY <1>1, DrainedFacts DEF Drained, SenderSet, WindowRight

\* Taking one acknowledgment out of those in flight keeps the others' order.
LEMMA Thinned ==
    ASSUME NEW q \in Seq(AckSet), NEW k \in DOMAIN q, NEW numbers, NEW t, NEW p,
           Advance(q, numbers, t, p)
    PROVE  \E others : Advance(SubSeq(q, 1, k - 1) \o SubSeq(q, k + 1, Len(q)), others, t, p)
<1> DEFINE n == Len(q)
           r == SubSeq(q, 1, k - 1) \o SubSeq(q, k + 1, n)
           from(j) == IF j < k THEN j ELSE j + 1
           others == [j \in 1..(n - 1) |-> numbers[from(j)]]
<1>1. n \in Nat /\ k \in 1..n /\ DOMAIN q = 1..n /\ \A j \in 1..n : q[j] \in AckSet
  OBVIOUS
<1>2. /\ SubSeq(q, 1, k - 1) \in Seq(AckSet) /\ Len(SubSeq(q, 1, k - 1)) = k - 1
      /\ \A j \in 1..(k - 1) : SubSeq(q, 1, k - 1)[j] = q[j]
  <2>1. \A j \in 1..(k - 1) : q[j] \in AckSet
    BY <1>1
  <2>2. /\ SubSeq(q, 1, k - 1) \in Seq(AckSet)
        /\ Len(SubSeq(q, 1, k - 1)) = IF 1 =< k - 1 THEN (k - 1) - 1 + 1 ELSE 0
        /\ \A j \in 1..((k - 1) - 1 + 1) : SubSeq(q, 1, k - 1)[j] = q[1 + j - 1]
    BY <1>1, <2>1, SubSeqProperties
  <2> QED BY <1>1, <2>2
<1>3. /\ SubSeq(q, k + 1, n) \in Seq(AckSet) /\ Len(SubSeq(q, k + 1, n)) = n - k
      /\ \A j \in 1..(n - k) : SubSeq(q, k + 1, n)[j] = q[k + j]
  <2>1. \A j \in (k + 1)..n : q[j] \in AckSet
    BY <1>1
  <2>2. /\ SubSeq(q, k + 1, n) \in Seq(AckSet)
        /\ Len(SubSeq(q, k + 1, n)) = IF k + 1 =< n THEN n - (k + 1) + 1 ELSE 0
        /\ \A j \in 1..(n - (k + 1) + 1) : SubSeq(q, k + 1, n)[j] = q[(k + 1) + j - 1]
    BY <1>1, <2>1, SubSeqProperties
  <2> DEFINE rest == SubSeq(q, k + 1, n)
  <2> HIDE DEF rest
  <2>3. ASSUME NEW j \in 1..(n - k) PROVE rest[j] = q[k + j]
    <3>1. j \in 1..(n - (k + 1) + 1) /\ (k + 1) + j - 1 = k + j
      BY <1>1
    <3> QED BY <2>2, <3>1 DEF rest
  <2>4. Len(rest) = n - k
    BY <1>1, <2>2 DEF rest
  <2> QED BY <2>2, <2>3, <2>4 DEF rest
<1> HIDE DEF n
<1>4. DOMAIN r = 1..(n - 1) /\ \A j \in 1..(n - 1) : r[j] = q[from(j)]
  <2> DEFINE front == SubSeq(q, 1, k - 1)
             rest  == SubSeq(q, k + 1, n)
  <2>1. /\ front \in Seq(AckSet) /\ rest \in Seq(AckSet)
        /\ Len(front) = k - 1 /\ Len(rest) = n - k /\ r = front \o rest
        /\ \A j \in 1..(k - 1) : front[j] = q[j]
        /\ \A j \in 1..(n - k) : rest[j] = q[k + j]
    BY <1>2, <1>3
  <2> HIDE DEF front, rest, r
  <2>2. /\ Len(r) = n - 1 /\ r \in Seq(AckSet)
        /\ \A j \in 1..(n - 1) : r[j] = IF j =< k - 1 THEN front[j] ELSE rest[j - (k - 1)]
    <3>1. Len(front) + Len(rest) = n - 1
      BY <1>1, <2>1
    <3>2. /\ front \o rest \in Seq(AckSet)
          /\ Len(front \o rest) = Len(front) + Len(rest)
          /\ \A j \in 1..(Len(front) + Len(rest)) :
                (front \o rest)[j] = IF j =< Len(front) THEN front[j] ELSE rest[j - Len(front)]
      BY <2>1, ConcatProperties, ZenonT(30)
    <3> QED BY <2>1, <3>1, <3>2, Zenon
  <2>3. ASSUME NEW j \in 1..(n - 1) PROVE r[j] = q[from(j)]
    <3>1. CASE j < k
      BY <1>1, <2>1, <2>2, <3>1
    <3>2. CASE ~(j < k)
      <4>1. j - (k - 1) \in 1..(n - k) /\ k + (j - (k - 1)) = j + 1
        BY <1>1, <3>2
      <4>2. r[j] = rest[j - (k - 1)]
        BY <1>1, <2>2, <3>2
      <4> QED BY <2>1, <3>2, <4>1, <4>2
    <3> QED BY <3>1, <3>2
  <2> QED BY <1>1, <2>2, <2>3
<1>5. \A j \in 1..(n - 1) : from(j) \in 1..n
  BY <1>1
<1>6. \A i, j \in 1..(n - 1) : i < j => from(i) < from(j)
  BY <1>1
<1>7. \A j \in 1..(n - 1) : others[j] = numbers[from(j)]
  OBVIOUS
<1> HIDE DEF r, from, others
<1>8. Advance(r, others, t, p)
  <2>1. ASSUME NEW j \in DOMAIN r
        PROVE  /\ others[j] \in Nat /\ r[j].seqno = wrap(others[j], ISN) /\ r[j].window \in Nat
               /\ r[j].window =< Greater(MaxWindow, 1)
               /\ t.ackno =< others[j] /\ others[j] =< p.ackno
               /\ WindowRight(t) =< Edge(others[j], r[j].window)
               /\ Edge(others[j], r[j].window) =< Edge(p.ackno, p.window)
    <3>1. from(j) \in DOMAIN q /\ r[j] = q[from(j)] /\ others[j] = numbers[from(j)]
      BY <1>1, <1>4, <1>5, <1>7, <2>1
    <3> QED BY <3>1 DEF Advance
  <2>2. ASSUME NEW i \in DOMAIN r, NEW j \in DOMAIN r, i < j
        PROVE  /\ others[i] =< others[j]
               /\ Edge(others[i], r[i].window) =< Edge(others[j], r[j].window)
    <3>1. /\ from(i) \in DOMAIN q /\ r[i] = q[from(i)] /\ others[i] = numbers[from(i)]
          /\ from(j) \in DOMAIN q /\ r[j] = q[from(j)] /\ others[j] = numbers[from(j)]
          /\ from(i) < from(j)
      BY <1>1, <1>4, <1>5, <1>6, <1>7, <2>2
    <3> QED BY <3>1 DEF Advance
  <2> QED BY <2>1, <2>2 DEF Advance
<1> QED BY <1>8 DEF r, n

\* Edges are naturals.
LEMMA EdgeType ==
    ASSUME NEW a \in Nat, NEW w \in Nat
    PROVE  Edge(a, w) \in Nat /\ Greater(w, 1) \in Nat
BY DEF Edge, Greater

\* The peer's new acknowledgment lies to the right of those in flight.
LEMMA Appended ==
    ASSUME NEW q \in Seq(AckSet), NEW numbers, NEW t, NEW a \in Nat, NEW w \in Nat,
           NEW p \in [ackno : Nat, window : Nat],
           t.ackno \in Nat, WindowRight(t) \in Nat,
           Advance(q, numbers, t, p), t.ackno =< p.ackno,
           WindowRight(t) =< Edge(p.ackno, p.window),
           p.ackno =< a, p.ackno + p.window =< a + w, w =< Greater(MaxWindow, 1)
    PROVE  /\ Edge(p.ackno, p.window) =< Edge(a, w)
           /\ \E others : Advance(Append(q, [seqno |-> wrap(a, ISN), window |-> w]), others, t,
                                  [ackno |-> a, window |-> w])
<1> DEFINE n == Len(q)
           new == [seqno |-> wrap(a, ISN), window |-> w]
           r == Append(q, new)
           u == [ackno |-> a, window |-> w]
           others == [j \in 1..(n + 1) |-> IF j =< n THEN numbers[j] ELSE a]
<1>1. n \in Nat /\ DOMAIN q = 1..n /\ \A j \in 1..n : q[j] \in AckSet
  OBVIOUS
<1>2. p.ackno \in Nat /\ p.window \in Nat
  OBVIOUS
<1>3. Edge(p.ackno, p.window) =< Edge(a, w)
  BY <1>2 DEF Edge, Greater
<1>4. /\ Edge(p.ackno, p.window) \in Nat /\ Edge(a, w) \in Nat
      /\ \A j \in 1..n : numbers[j] \in Nat /\ Edge(numbers[j], q[j].window) \in Nat
  BY <1>1, <1>2, EdgeType DEF Advance
<1>5. /\ DOMAIN r = 1..(n + 1) /\ r[n + 1] = new /\ new.seqno = wrap(a, ISN) /\ new.window = w
      /\ \A j \in 1..n : r[j] = q[j]
  BY <1>1
<1>6. /\ others[n + 1] = a /\ \A j \in 1..n : others[j] = numbers[j]
      /\ u.ackno = a /\ u.window = w
  BY <1>1
<1> HIDE DEF n, new, r, u, others
<1>7. ASSUME NEW j \in DOMAIN r
      PROVE  /\ others[j] \in Nat /\ r[j].seqno = wrap(others[j], ISN) /\ r[j].window \in Nat
             /\ r[j].window =< Greater(MaxWindow, 1)
             /\ t.ackno =< others[j] /\ others[j] =< u.ackno
             /\ WindowRight(t) =< Edge(others[j], r[j].window)
             /\ Edge(others[j], r[j].window) =< Edge(u.ackno, u.window)
  <2>1. CASE j \in 1..n
    <3>1. /\ numbers[j] \in Nat /\ q[j].seqno = wrap(numbers[j], ISN) /\ q[j].window \in Nat
          /\ q[j].window =< Greater(MaxWindow, 1)
          /\ t.ackno =< numbers[j] /\ numbers[j] =< p.ackno
          /\ WindowRight(t) =< Edge(numbers[j], q[j].window)
          /\ Edge(numbers[j], q[j].window) =< Edge(p.ackno, p.window)
      BY <1>1, <2>1 DEF Advance
    <3>2. others[j] = numbers[j] /\ r[j] = q[j]
      BY <1>5, <1>6, <2>1
    <3>3. Edge(numbers[j], q[j].window) \in Nat
      BY <1>4, <2>1
    <3>4. numbers[j] =< u.ackno
      BY <1>2, <1>6, <3>1
    <3>5. Edge(numbers[j], q[j].window) =< Edge(u.ackno, u.window)
      <4> DEFINE e == Edge(numbers[j], q[j].window)
                 f == Edge(p.ackno, p.window)
                 g == Edge(a, w)
      <4>1. e \in Nat /\ f \in Nat /\ g \in Nat /\ e =< f /\ f =< g
        BY <1>3, <1>4, <3>1, <3>3
      <4>2. Edge(u.ackno, u.window) = g
        BY <1>6
      <4> HIDE DEF e, f, g
      <4>3. e =< g
        BY <4>1
      <4> QED BY <4>2, <4>3 DEF e
    <3> QED BY <3>1, <3>2, <3>4, <3>5
  <2>2. CASE j = n + 1
    <3>1. others[j] = a /\ r[j].seqno = wrap(a, ISN) /\ r[j].window = w
      BY <1>5, <1>6, <2>2
    <3>2. t.ackno =< a
      BY <1>2
    <3>3. WindowRight(t) =< Edge(a, w)
      BY <1>3, <1>4
    <3>4. a =< u.ackno /\ Edge(a, w) =< Edge(u.ackno, u.window)
      BY <1>4, <1>6
    <3> QED BY <3>1, <3>2, <3>3, <3>4
  <2> QED BY <1>1, <1>5, <2>1, <2>2
<1>8. ASSUME NEW i \in DOMAIN r, NEW j \in DOMAIN r, i < j
      PROVE  /\ others[i] =< others[j]
             /\ Edge(others[i], r[i].window) =< Edge(others[j], r[j].window)
  <2>1. CASE j \in 1..n
    <3>1. i \in 1..n
      BY <1>1, <1>5, <1>8, <2>1
    <3> QED BY <1>1, <1>5, <1>6, <1>8, <2>1, <3>1 DEF Advance
  <2>2. CASE j = n + 1
    <3>1. i \in 1..n
      BY <1>1, <1>5, <1>8, <2>2
    <3>2. others[i] =< u.ackno /\ Edge(others[i], r[i].window) =< Edge(u.ackno, u.window)
      BY <1>7
    <3> QED BY <1>5, <1>6, <2>2, <3>2
  <2> QED BY <1>1, <1>5, <2>1, <2>2
<1>9. Advance(r, others, t, u)
  BY <1>7, <1>8 DEF Advance
<1> QED BY <1>3, <1>9 DEF r, new, u

\* A step that keeps the window and sends no further than its edge.
LEMMA QuietStep ==
    ASSUME WindowInv, SenderInv', UNCHANGED <<peer, acks, inOrder>>,
           s'.ackno = s.ackno, s'.window_size = s.window_size,
           s'.stream.bytes_written =< StreamLength,
           s.next_seqno =< s'.next_seqno,
           s'.next_seqno =< WindowRight(s) \/ s'.next_seqno = s.next_seqno
    PROVE  WindowInv'
<1>1. /\ s.ackno \in Nat /\ s.next_seqno \in Nat /\ s'.next_seqno \in Nat
      /\ peer.ackno \in Nat /\ s.window_size \in Nat
  BY DEF WindowInv, SenderInv, FillInv, SenderSet
<1>2. WindowRight(s') = WindowRight(s) /\ WindowRight(s) \in Nat
  BY <1>1 DEF WindowRight
<1>3. ASSUME inOrder
      PROVE  /\ Behind(s', peer)
             /\ \E numbers : Advance(acks, numbers, s', peer)
  <2>1. Behind(s, peer)
    BY <1>3 DEF WindowInv
  <2>2. Behind(s', peer)
    BY <1>1, <1>2, <2>1 DEF Behind
  <2>3. PICK numbers : Advance(acks, numbers, s, peer)
    BY <1>3 DEF WindowInv
  <2>4. Advance(acks, numbers, s', peer)
    BY <1>2, <2>3 DEF Advance
  <2> QED BY <2>2, <2>4
<1> QED BY <1>3 DEF WindowInv

\* A call that ends in fill_window, after u, which only differs from s in its stream,
\* its queue and its flags.
LEMMA FillQuiet ==
    ASSUME WindowInv, SenderInv', UNCHANGED <<peer, acks, inOrder>>,
           NEW u, FillInv(u), u.ackno = s.ackno, u.window_size = s.window_size,
           u.next_seqno = s.next_seqno, u.stream.bytes_written =< StreamLength,
           s' = fill_window(u)
    PROVE  WindowInv'
<1> DEFINE f == fill_window(u)
<1>1. /\ f.ackno = u.ackno /\ f.window_size = u.window_size
      /\ f.stream.bytes_written = u.stream.bytes_written
      /\ u.next_seqno =< f.next_seqno
      /\ f.next_seqno =< WindowRight(u) \/ f.next_seqno = u.next_seqno
  BY FillWindow
<1>2. s' = f
  OBVIOUS
<1> HIDE DEF f
<1>3. WindowRight(u) = WindowRight(s)
  BY DEF WindowRight
<1> QED BY <1>1, <1>2, <1>3, QuietStep

\* The numbers that arrive in order are unwrapped as they were wrapped: they lie less
\* than half a period from the acknowledged one.
LEMMA NearNumbers ==
    ASSUME WindowInv, inOrder, NEW x \in Nat, s.ackno =< x, x =< s.next_seqno + 1
    PROVE  unwrap(wrap(x, ISN), Drained.isn, Drained.ackno) = x
<1>1. /\ FillInv(s) /\ s.stream.bytes_written =< StreamLength /\ Behind(s, peer)
  BY DEF WindowInv, SenderInv
<1>2. /\ s.ackno \in Nat /\ s.next_seqno \in Nat /\ s.window_size \in Nat
      /\ s.ackno =< s.next_seqno /\ s.next_seqno =< StreamLength + 2
      /\ WindowRight(s) = Edge(s.ackno, s.window_size)
  BY <1>1, NextBound
<1>3. /\ s.next_seqno =< WindowRight(s) /\ s.window_size =< Greater(MaxWindow, 1)
  BY <1>1 DEF Behind
<1>4. /\ Mod32 \in Nat /\ Mod64 \in Nat /\ Half \in Nat /\ StreamLength \in Nat
      /\ MaxWindow \in Nat /\ ISN \in 0..(Mod32 - 1) /\ Half =< Mod32
  BY WidthAssumption, HalfIsHalf, SenderSpecAssumption
<1>5. Greater(MaxWindow, 1) \in Nat /\ Greater(MaxWindow, 1) >= 1
      /\ Greater(s.window_size, 1) =< Greater(MaxWindow, 1)
  BY <1>2, <1>3, <1>4 DEF Greater
<1>6. Greater(MaxWindow, 1) + 1 < Half /\ StreamLength + 2 + Mod32 < Mod64
  BY WindowAssumption
<1>7. Greater(s.window_size, 1) \in Nat
  BY <1>2, EdgeType
<1>8. s.next_seqno =< s.ackno + Greater(MaxWindow, 1)
  BY <1>2, <1>3, <1>5, <1>7 DEF Edge
<1>9. x - s.ackno < Half
  BY <1>2, <1>4, <1>5, <1>6, <1>8
<1>10. s.ackno + Mod32 < Mod64 /\ x < Mod64
  BY <1>2, <1>4, <1>6, <1>5
<1>11. Distance(x, s.ackno) < Half
  BY <1>2, <1>4, <1>9, HalfIsHalf DEF Distance
<1>12. unwrap(wrap(x, ISN), ISN, s.ackno) = x
  <2>1. x \in 0..(Mod64 - 1)
    BY <1>4, <1>10
  <2> QED BY <1>2, <1>4, <1>10, <1>11, <2>1, UnwrapInvertsWrap
<1>13. Drained.isn = ISN /\ Drained.ackno = s.ackno
  BY DrainedFacts DEF WindowInv
<1> QED BY <1>12, <1>13

\* The oldest acknowledgment in flight arrives: its window is the one known from then
\* on, to the right of the one before and to the left of those that follow.
LEMMA DeliverWindow ==
    ASSUME WindowInv, SenderInv', inOrder, 1 \in DOMAIN acks, UNCHANGED <<peer, inOrder>>,
           s' = ack_received(Drained, acks[1].seqno, acks[1].window),
           \/ acks' = acks
           \/ acks' = SubSeq(acks, 1, 1 - 1) \o SubSeq(acks, 1 + 1, Len(acks))
    PROVE  WindowInv'
<1> DEFINE t == Drained
           w == acks[1].window
<1>1. PICK numbers : Advance(acks, numbers, s, peer)
  BY DEF WindowInv
<1> DEFINE x == numbers[1]
<1>2. /\ x \in Nat /\ acks[1].seqno = wrap(x, ISN) /\ w \in Nat /\ w =< Greater(MaxWindow, 1)
      /\ s.ackno =< x /\ x =< peer.ackno
      /\ WindowRight(s) =< Edge(x, w) /\ Edge(x, w) =< Edge(peer.ackno, peer.window)
  BY <1>1 DEF Advance
<1>3. /\ FillInv(s) /\ s.stream.bytes_written =< StreamLength /\ Behind(s, peer)
      /\ peer.ackno \in Nat /\ peer.window \in Nat /\ acks \in Seq(AckSet)
  BY DEF WindowInv, SenderInv
<1>4. /\ s.ackno \in Nat /\ s.next_seqno \in Nat /\ s.window_size \in Nat
      /\ WindowRight(s) = Edge(s.ackno, s.window_size) /\ WindowRight(s) \in Nat
  <2>1. /\ s.ackno \in Nat /\ s.next_seqno \in Nat /\ s.window_size \in Nat
        /\ WindowRight(s) = Edge(s.ackno, s.window_size)
    BY <1>3, NextBound
  <2> QED BY <2>1, EdgeType
<1>5. x =< s.next_seqno
  BY <1>2, <1>3, <1>4 DEF Behind
<1>6. unwrap(acks[1].seqno, t.isn, t.ackno) = x
  BY <1>2, <1>4, <1>5, NearNumbers
<1>7. /\ FillInv(t) /\ t.ackno = s.ackno /\ t.stream = s.stream /\ t.next_seqno = s.next_seqno
  BY DrainedFacts, DrainedWindow DEF WindowInv
<1>8. acks[1].seqno \in Int
  <2>1. acks[1] \in AckSet
    BY <1>3
  <2> QED BY <2>1 DEF AckSet
<1> HIDE DEF t, x, w
<1>9. /\ s'.ackno = Greater(t.ackno, x) /\ s'.window_size = w
      /\ s'.stream.bytes_written = t.stream.bytes_written
      /\ t.next_seqno =< s'.next_seqno
      /\ s'.next_seqno =< WindowRight(s') \/ s'.next_seqno = t.next_seqno
  BY <1>2, <1>5, <1>6, <1>7, <1>8, AcknoMoves DEF t, w
<1>10. s'.ackno = x /\ WindowRight(s') = Edge(x, w) /\ Edge(x, w) \in Nat
       /\ s'.next_seqno \in Nat
  <2>1. s'.ackno = x
    BY <1>2, <1>4, <1>7, <1>9 DEF Greater
  <2>2. FillInv(s') /\ s'.next_seqno \in Nat
    BY DEF SenderInv, FillInv, SenderSet
  <2>3. WindowRight(s') = Edge(x, w)
    BY <1>2, <1>9, <2>1 DEF WindowRight, Edge, Greater
  <2> QED BY <1>2, <2>1, <2>2, <2>3, EdgeType
<1>11. s'.next_seqno =< WindowRight(s')
  <2>1. s.next_seqno =< WindowRight(s)
    BY <1>3 DEF Behind
  <2> QED BY <1>2, <1>4, <1>7, <1>9, <1>10, <2>1
<1>12. Behind(s', peer)
  <2>1. peer.ackno =< s.next_seqno /\ peer.window =< Greater(MaxWindow, 1)
    BY <1>3 DEF Behind
  <2> QED BY <1>2, <1>3, <1>4, <1>7, <1>9, <1>10, <1>11, <2>1 DEF Behind
<1>13. Advance(acks, numbers, s', peer)
  <2>1. ASSUME NEW k \in DOMAIN acks
        PROVE  x =< numbers[k] /\ Edge(x, w) =< Edge(numbers[k], acks[k].window)
    <3>1. numbers[k] \in Nat /\ acks[k].window \in Nat
      BY <1>1 DEF Advance
    <3>2. k \in Nat /\ k >= 1
      BY <1>3
    <3>3. CASE k = 1
      BY <1>2, <1>10, <3>3 DEF x, w
    <3>4. CASE 1 < k
      BY <1>1, <3>4 DEF Advance, x, w
    <3> QED BY <3>2, <3>3, <3>4
  <2> QED BY <1>1, <1>10, <2>1 DEF Advance
<1>14. \E others : Advance(acks', others, s', peer)
  <2>1. CASE acks' = acks
    BY <1>13, <2>1
  <2>2. CASE acks' = SubSeq(acks, 1, 1 - 1) \o SubSeq(acks, 1 + 1, Len(acks))
    BY <1>3, <1>13, <2>2, Thinned
  <2> QED BY <2>1, <2>2
<1> QED BY <1>3, <1>7, <1>9, <1>12, <1>14 DEF WindowInv

\* Every step keeps the window's invariant.
LEMMA WindowStep ==
    ASSUME WindowInv, [Next]_vars
    PROVE  WindowInv'
<1> DEFINE t == Drained
<1>1. SenderInv /\ SenderInv' /\ FillInv(s) /\ s.stream.bytes_written =< StreamLength
  BY EveryStep DEF WindowInv, SenderInv
<1>2. /\ s \in SenderSet /\ s.stream \in StreamSet /\ s.stream.bytes_written \in Nat
      /\ s.ackno \in Nat /\ s.next_seqno \in Nat
      /\ peer \in [ackno : Nat, window : Nat] /\ acks \in Seq(AckSet)
      /\ Len(s.stream.buffer) =< s.stream.capacity
  BY <1>1 DEF SenderInv, FillInv, SenderSet, StreamSet, Buffers
<1>3. /\ FillInv(t) /\ t.ackno = s.ackno /\ t.window_size = s.window_size
      /\ t.next_seqno = s.next_seqno /\ t.stream = s.stream
      /\ WindowRight(t) = WindowRight(s) /\ t \in SenderSet
      /\ (t.timer_running <=> ~Settled(t))
  BY <1>1, DrainedFacts, DrainedWindow DEF FillInv
<1> HIDE DEF t
\* A change of the stream keeps the window.
<1>4. ASSUME NEW out
      PROVE  LET u == [t EXCEPT !.stream = out]
             IN  /\ u.ackno = s.ackno /\ u.window_size = s.window_size
                 /\ u.next_seqno = s.next_seqno /\ u.stream = out
  BY <1>3 DEF SenderSet
<1>5. CASE Connect
  <2>1. s' = fill_window(t) /\ UNCHANGED <<peer, acks, inOrder>>
    BY <1>5 DEF Connect, t
  <2> QED BY <1>1, <1>3, <2>1, FillQuiet
<1>6. ASSUME NEW n \in 1..StreamLength, Write(n)
      PROVE  WindowInv'
  <2> DEFINE data == Excerpt(t.stream.bytes_written, n)
             out  == write(t.stream, data)
             u    == [t EXCEPT !.stream = out]
  <2>1. n \in Nat /\ s.stream.bytes_written + n =< StreamLength /\ StreamLength \in Nat
    BY <1>6, SenderSpecAssumption DEF Write
  <2>2. s' = fill_window(u) /\ UNCHANGED <<peer, acks, inOrder>>
    BY <1>6 DEF Write, t
  <2>3. FillInv(u)
    BY <1>3, <2>1, WriteStep
  <2>4. Len(data) = n
    BY <2>1 DEF Excerpt
  <2>5. out.bytes_written \in Nat /\ out.bytes_written =< s.stream.bytes_written + n
    <3> HIDE DEF data
    <3> QED BY <1>2, <1>3, <2>1, <2>4, WriteBound
  <2> HIDE DEF data, out
  <2>6. /\ u.ackno = s.ackno /\ u.window_size = s.window_size
        /\ u.next_seqno = s.next_seqno /\ u.stream.bytes_written =< StreamLength
    BY <1>2, <1>4, <2>1, <2>5
  <2> HIDE DEF u
  <2> QED BY <1>1, <2>2, <2>3, <2>6, FillQuiet
<1>7. CASE EndInput
  <2> DEFINE out == end_input(t.stream)
             u   == [t EXCEPT !.stream = out]
  <2>1. s' = fill_window(u) /\ UNCHANGED <<peer, acks, inOrder>>
    BY <1>7 DEF EndInput, t
  <2>2. FillInv(u)
    BY <1>3, EndStep
  <2>3. out.bytes_written = s.stream.bytes_written
    BY <1>2, <1>3 DEF end_input, StreamSet
  <2> HIDE DEF out
  <2>4. /\ u.ackno = s.ackno /\ u.window_size = s.window_size
        /\ u.next_seqno = s.next_seqno /\ u.stream.bytes_written =< StreamLength
    BY <1>1, <1>4, <2>3
  <2> HIDE DEF u
  <2> QED BY <1>1, <2>1, <2>2, <2>4, FillQuiet
<1>8. ASSUME NEW ms \in 1..2, Tick(ms)
      PROVE  WindowInv'
  <2>1. s' = sender_tick(t, ms) /\ UNCHANGED <<peer, acks, inOrder>>
    BY <1>8 DEF Tick, t
  <2>2. /\ s'.ackno = s.ackno /\ s'.window_size = s.window_size
        /\ s'.stream = s.stream /\ s'.next_seqno = s.next_seqno
    BY <1>3, <2>1, TickWindow
  <2> QED BY <1>1, <1>2, <2>1, <2>2, QuietStep
<1>9. ASSUME NEW a \in 0..s.next_seqno, NEW w \in 0..MaxWindow, PeerAck(a, w)
      PROVE  WindowInv'
  <2>1. /\ a \in Nat /\ w \in Nat /\ w =< Greater(MaxWindow, 1) /\ a =< s.next_seqno
    BY <1>2, SenderSpecAssumption DEF Greater
  <2>2. /\ peer.ackno =< a /\ peer.ackno + peer.window =< a + w
        /\ peer' = [ackno |-> a, window |-> w]
        /\ acks' = Append(acks, [seqno |-> wrap(a, ISN), window |-> w])
        /\ s' = s /\ inOrder' = inOrder
    BY <1>2, <1>9, <2>1 DEF PeerAck
  <2>3. ASSUME inOrder
        PROVE  Behind(s, peer') /\ \E others : Advance(acks', others, s, peer')
    <3>1. Behind(s, peer)
      BY <2>3 DEF WindowInv
    <3>2. PICK numbers : Advance(acks, numbers, s, peer)
      BY <2>3 DEF WindowInv
    <3>3. WindowRight(s) \in Nat
      <4>1. s.ackno \in Nat /\ s.window_size \in Nat
        BY <1>2 DEF SenderSet
      <4> QED BY <4>1 DEF WindowRight
    <3>4. /\ Edge(peer.ackno, peer.window) =< Edge(a, w)
          /\ \E others : Advance(acks', others, s, peer')
      <4>1. s.ackno =< peer.ackno /\ WindowRight(s) =< Edge(peer.ackno, peer.window)
        BY <3>1 DEF Behind
      <4> QED BY <1>2, <2>1, <2>2, <3>2, <3>3, <4>1, Appended
    <3>5. /\ Edge(peer.ackno, peer.window) \in Nat /\ Edge(a, w) \in Nat
          /\ peer.ackno \in Nat
      BY <1>2, <2>1, EdgeType
    <3>6. peer'.ackno = a /\ peer'.window = w
      BY <2>2
    <3>7. Behind(s, peer')
      <4>1. /\ s.ackno =< peer.ackno /\ s.window_size =< Greater(MaxWindow, 1)
            /\ s.next_seqno =< WindowRight(s)
            /\ WindowRight(s) =< Edge(peer.ackno, peer.window)
        BY <3>1 DEF Behind
      <4>2. s.ackno =< a
        BY <1>2, <2>1, <2>2, <3>5, <4>1
      <4>3. WindowRight(s) =< Edge(a, w)
        BY <3>3, <3>4, <3>5, <4>1
      <4> QED BY <2>1, <3>6, <4>1, <4>2, <4>3 DEF Behind
    <3> QED BY <3>4, <3>7
  <2> QED BY <1>1, <2>2, <2>3 DEF WindowInv
\* An acknowledgment keeps what was written.
<1>10. ASSUME NEW seqno \in Int, NEW window \in Nat, s' = ack_received(t, seqno, window)
       PROVE  s'.stream.bytes_written =< StreamLength
  <2>1. t.isn \in Int /\ t.ackno \in Nat
    BY <1>3 DEF SenderSet
  <2>2. unwrap(seqno, t.isn, t.ackno) \in Nat
    BY <2>1, UnwrapType
  <2>3. s' = t \/ s'.stream.bytes_written = t.stream.bytes_written
    BY <1>2, <1>3, <1>10, <2>2, AcknoMoves
  <2> QED BY <1>1, <1>3, <2>3
<1>11. ASSUME NEW k \in 1..MaxAcks, NEW again \in BOOLEAN, Deliver(k, again)
       PROVE  WindowInv'
  <2>1. /\ k \in DOMAIN acks /\ (inOrder => k = 1)
        /\ s' = ack_received(t, acks[k].seqno, acks[k].window)
        /\ \/ acks' = acks
           \/ acks' = SubSeq(acks, 1, k - 1) \o SubSeq(acks, k + 1, Len(acks))
        /\ UNCHANGED <<peer, inOrder>>
    BY <1>11 DEF Deliver, t
  <2>2. CASE inOrder
    <3>1. k = 1
      BY <2>1, <2>2
    <3> QED BY <1>1, <2>1, <2>2, <3>1, DeliverWindow DEF t
  <2>3. CASE ~inOrder
    <3>1. acks[k].seqno \in Int /\ acks[k].window \in Nat
      <4>1. acks[k] \in AckSet
        BY <1>2, <2>1
      <4> QED BY <4>1 DEF AckSet
    <3>2. s'.stream.bytes_written =< StreamLength
      BY <1>10, <2>1, <3>1
    <3> QED BY <1>1, <2>1, <2>3, <3>2 DEF WindowInv
  <2> QED BY <2>2, <2>3
<1>12. ASSUME NEW w \in 0..MaxWindow, DeliverImpossible(w)
       PROVE  WindowInv'
  <2> DEFINE x == s.next_seqno + 1
  <2>1. /\ s' = ack_received(t, wrap(x, ISN), w) /\ UNCHANGED <<peer, acks, inOrder>>
        /\ w \in Nat /\ wrap(x, ISN) \in Int /\ x \in Nat
    <3>1. s' = ack_received(t, wrap(x, ISN), w) /\ UNCHANGED <<peer, acks, inOrder>>
      BY <1>12 DEF DeliverImpossible, t
    <3>2. w \in Nat /\ x \in Nat
      BY <1>2, SenderSpecAssumption
    <3> HIDE DEF x
    <3>3. wrap(x, ISN) \in Int
      BY <3>2, SenderSpecAssumption, WidthAssumption DEF wrap
    <3> QED BY <3>1, <3>2, <3>3
  <2>2. s'.stream.bytes_written =< StreamLength
    BY <1>10, <2>1
  <2>3. CASE inOrder
    <3>1. s.ackno =< x
      BY <1>1, <1>2 DEF FillInv, Covers
    <3>2. unwrap(wrap(x, ISN), t.isn, t.ackno) = x
      BY <1>2, <2>1, <2>3, <3>1, NearNumbers DEF t
    <3>3. s' = t
      <4>1. x > t.next_seqno
        BY <1>2, <1>3
      <4> QED BY <1>3, <2>1, <3>2, <4>1, AcknoMoves
    <3>4. /\ s'.ackno = s.ackno /\ s'.window_size = s.window_size
          /\ s'.next_seqno = s.next_seqno
      BY <1>3, <3>3
    <3> QED BY <1>1, <1>2, <2>1, <2>2, <3>4, QuietStep
  <2>4. CASE ~inOrder
    BY <1>1, <2>1, <2>2, <2>4 DEF WindowInv
  <2> QED BY <2>3, <2>4
<1>13. ASSUME NEW k \in 1..MaxAcks, Lose(k)
       PROVE  WindowInv'
  <2>1. /\ k \in DOMAIN acks /\ UNCHANGED <<s, peer, inOrder>>
        /\ acks' = SubSeq(acks, 1, k - 1) \o SubSeq(acks, k + 1, Len(acks))
    BY <1>13 DEF Lose
  <2>2. ASSUME inOrder
        PROVE  Behind(s, peer) /\ \E others : Advance(acks', others, s, peer)
    <3>1. Behind(s, peer)
      BY <2>2 DEF WindowInv
    <3>2. PICK numbers : Advance(acks, numbers, s, peer)
      BY <2>2 DEF WindowInv
    <3> QED BY <1>2, <2>1, <3>1, <3>2, Thinned
  <2> QED BY <1>1, <2>1, <2>2 DEF WindowInv
<1>14. CASE UNCHANGED vars
  <2>1. UNCHANGED <<s, peer, acks, inOrder>>
    BY <1>14 DEF vars
  <2>2. ASSUME inOrder
        PROVE  Behind(s, peer) /\ \E others : Advance(acks, others, s, peer)
    BY <2>2 DEF WindowInv
  <2> QED BY <1>1, <2>1, <2>2 DEF WindowInv
<1> QED
  BY <1>5, <1>6, <1>7, <1>8, <1>9, <1>11, <1>12, <1>13, <1>14 DEF Next

\* At the start the peer has acknowledged nothing and nothing is in flight.
LEMMA InitialWindow == Init => WindowInv
<1> SUFFICES ASSUME Init PROVE WindowInv
  OBVIOUS
<1>1. /\ s = NewSender(ISN, SendCapacity) /\ peer = [ackno |-> 0, window |-> 1]
      /\ acks = << >> /\ SenderInv
  BY InitialSender DEF Init
<1>2. /\ s.stream.bytes_written = 0 /\ s.ackno = 0 /\ s.next_seqno = 0 /\ s.window_size = 1
  BY <1>1 DEF NewSender, NewStream
<1>3. peer.ackno = 0 /\ peer.window = 1 /\ DOMAIN acks = {}
  BY <1>1
<1>4. MaxWindow \in Nat /\ StreamLength \in Nat
  BY SenderSpecAssumption
<1>5. WindowRight(s) = 1 /\ Edge(peer.ackno, peer.window) = 1 /\ 1 =< Greater(MaxWindow, 1)
  BY <1>2, <1>3, <1>4 DEF WindowRight, Edge, Greater
<1>6. Behind(s, peer)
  BY <1>2, <1>3, <1>5 DEF Behind
<1>7. Advance(acks, acks, s, peer)
  BY <1>3 DEF Advance
<1> QED BY <1>1, <1>2, <1>4, <1>6, <1>7 DEF WindowInv

\* WindowInv is an invariant of the specification.
LEMMA WindowInvHolds == Spec => []WindowInv
<1>1. WindowInv /\ [Next]_vars => WindowInv'
  BY WindowStep
<1> QED BY <1>1, InitialWindow, PTL DEF Spec

\* For every window, capacity and payload size: nothing is sent past the edge of the
\* window the peer advertised, but for a probe, if acknowledgments arrive in order.
THEOREM WindowHolds == Spec => []WithinAdvertisedWindow
<1>1. WindowInv => WithinAdvertisedWindow
  <2> SUFFICES ASSUME WindowInv, inOrder
               PROVE  s.next_seqno =< peer.ackno + Greater(peer.window, 1)
    BY DEF WithinAdvertisedWindow
  <2>1. Behind(s, peer)
    BY DEF WindowInv
  <2>2. s.next_seqno \in Nat /\ WindowRight(s) \in Nat /\ Edge(peer.ackno, peer.window) \in Nat
    <3>1. /\ s.ackno \in Nat /\ s.window_size \in Nat /\ s.next_seqno \in Nat
          /\ peer.ackno \in Nat /\ peer.window \in Nat
      BY DEF WindowInv, SenderInv, FillInv, SenderSet
    <3>2. WindowRight(s) \in Nat
      BY <3>1 DEF WindowRight
    <3> QED BY <3>1, <3>2, EdgeType
  <2>3. s.next_seqno =< Edge(peer.ackno, peer.window)
    BY <2>1, <2>2 DEF Behind
  <2> QED BY <2>3 DEF Edge
<1> QED BY <1>1, WindowInvHolds, PTL
=============================================================================
