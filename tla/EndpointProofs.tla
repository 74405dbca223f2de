--------------------------- MODULE EndpointProofs ---------------------------
(***************************************************************************)
(* The bytes on their way through Endpoint: from stdin over the copying      *)
(* program, the stream pair and both connections to the peer's application,  *)
(* and from there to stdout.  BytesInOrder holds for all scenarios, buffers, *)
(* widths and payload sizes, whatever the two threads and the peer do.       *)
(***************************************************************************)
EXTENDS Endpoint, ConnectionLemmas

-----------------------------------------------------------------------------
(* Sequences of bytes.                                                      *)

\* A sequence that is cut in two.
LEMMA PartAt ==
    ASSUME NEW s \in Seq(Nat), NEW k \in 0..Len(s)
    PROVE  /\ SubSeq(s, 1, k) \in Seq(Nat) /\ Len(SubSeq(s, 1, k)) = k
           /\ SubSeq(s, k + 1, Len(s)) \in Seq(Nat)
           /\ Len(SubSeq(s, k + 1, Len(s))) = Len(s) - k
           /\ \A a \in Nat : s = Excerpt(a, Len(s)) =>
                 /\ SubSeq(s, 1, k) = Excerpt(a, k)
                 /\ SubSeq(s, k + 1, Len(s)) = Excerpt(a + k, Len(s) - k)
<1> DEFINE n == Len(s)
<1>1. n \in Nat /\ k \in Nat /\ k =< n /\ \A i \in 1..n : s[i] \in Nat
  OBVIOUS
<1>2. SubSeq(s, 1, k) \in Seq(Nat) /\ Len(SubSeq(s, 1, k)) = k
  <2>1. \A i \in 1..k : s[i] \in Nat
    BY <1>1
  <2>2. /\ SubSeq(s, 1, k) \in Seq(Nat)
        /\ Len(SubSeq(s, 1, k)) = IF 1 =< k THEN k - 1 + 1 ELSE 0
    BY <1>1, <2>1, SubSeqProperties
  <2> QED BY <1>1, <2>2
<1>3. SubSeq(s, k + 1, n) \in Seq(Nat) /\ Len(SubSeq(s, k + 1, n)) = n - k
  <2>1. \A i \in (k + 1)..n : s[i] \in Nat
    BY <1>1
  <2>2. /\ SubSeq(s, k + 1, n) \in Seq(Nat)
        /\ Len(SubSeq(s, k + 1, n)) = IF k + 1 =< n THEN n - (k + 1) + 1 ELSE 0
    BY <1>1, <2>1, SubSeqProperties
  <2> QED BY <1>1, <2>2
<1>4. ASSUME NEW a \in Nat, s = Excerpt(a, n)
      PROVE  /\ SubSeq(s, 1, k) = Excerpt(a, k)
             /\ SubSeq(s, k + 1, n) = Excerpt(a + k, n - k)
  <2> HIDE DEF n
  <2>1. /\ 1 \in 1..(n + 1) /\ k \in (1 - 1)..n /\ a + 1 - 1 = a /\ k - 1 + 1 = k
        /\ k + 1 \in 1..(n + 1) /\ n \in (k + 1 - 1)..n
        /\ a + (k + 1) - 1 = a + k /\ n - (k + 1) + 1 = n - k
    BY <1>1
  <2>2. SubSeq(Excerpt(a, n), 1, k) = Excerpt(a + 1 - 1, k - 1 + 1)
    BY <1>1, <2>1, ExcerptPart
  <2>3. SubSeq(Excerpt(a, n), k + 1, n) = Excerpt(a + (k + 1) - 1, n - (k + 1) + 1)
    <3> DEFINE i == k + 1
    <3>1. i \in 1..(n + 1) /\ n \in (i - 1)..n
      BY <2>1
    <3> HIDE DEF i
    <3>2. SubSeq(Excerpt(a, n), i, n) = Excerpt(a + i - 1, n - i + 1)
      BY <1>1, <3>1, ExcerptPart
    <3> QED BY <3>2 DEF i
  <2> QED BY <1>4, <2>1, <2>2, <2>3
<1> QED BY <1>2, <1>3, <1>4

\* One sequence after another.
LEMMA JoinAt ==
    ASSUME NEW s \in Seq(Nat), NEW t \in Seq(Nat)
    PROVE  /\ s \o t \in Seq(Nat) /\ Len(s \o t) = Len(s) + Len(t)
           /\ Len(s) \in Nat /\ Len(t) \in Nat
           /\ \A a \in Nat :
                 s = Excerpt(a, Len(s)) /\ t = Excerpt(a + Len(s), Len(t)) =>
                     s \o t = Excerpt(a, Len(s) + Len(t))
<1>1. /\ s \o t \in Seq(Nat) /\ Len(s \o t) = Len(s) + Len(t)
      /\ Len(s) \in Nat /\ Len(t) \in Nat
  OBVIOUS
<1>2. ASSUME NEW a \in Nat, s = Excerpt(a, Len(s)), t = Excerpt(a + Len(s), Len(t))
      PROVE  s \o t = Excerpt(a, Len(s) + Len(t))
  BY <1>1, <1>2, ExcerptJoin
<1> QED BY <1>1, <1>2

\* The lesser of two numbers.
LEMMA LesserIs ==
    ASSUME NEW a \in Nat, NEW b \in Nat
    PROVE  Lesser(a, b) \in 0..a /\ Lesser(a, b) \in 0..b
BY DEF Lesser

\* A byte stream that has not failed takes what it has room for, unless it has ended.
LEMMA WriteTakes ==
    ASSUME NEW o \in StreamSet, ~o.error, NEW data \in Seq(Nat),
           Len(o.buffer) + Len(data) =< o.capacity
    PROVE  LET p == write(o, data)
           IN  /\ p \in StreamSet /\ p.input_ended = o.input_ended /\ ~p.error
               /\ p.buffer = IF o.input_ended THEN o.buffer ELSE o.buffer \o data
               /\ Len(p.buffer) =< p.capacity
<1> DEFINE k == Accepted(o, Len(data))
           b == o.buffer \o SubSeq(data, 1, k)
           w == o.bytes_written + k
           p == write(o, data)
<1>1. /\ o.buffer \in Seq(Nat) /\ Len(o.buffer) \in Nat /\ Len(data) \in Nat
      /\ o.capacity \in Nat /\ o.bytes_written \in Nat /\ o.input_ended \in BOOLEAN
      /\ o.error = FALSE
  BY DEF StreamSet
<1>2. p = [o EXCEPT !.buffer = b, !.bytes_written = w]
  BY DEF write
<1>3. k = IF o.input_ended THEN 0 ELSE Len(data)
  <2> DEFINE r == o.capacity - Len(o.buffer)
             l == Len(data)
  <2>1. k = IF o.input_ended THEN 0 ELSE IF l < r THEN l ELSE r
    BY <1>1 DEF Accepted, Lesser, remaining_capacity
  <2>2. r \in Int /\ l \in Nat /\ l =< r
    BY <1>1
  <2> HIDE DEF r, l, k
  <2> QED BY <2>1, <2>2 DEF l
<1>4. /\ SubSeq(data, 1, k) = IF o.input_ended THEN << >> ELSE data
      /\ k \in Nat
  <2> HIDE DEF k
  <2>1. SubSeq(data, 1, Len(data)) = data /\ SubSeq(data, 1, 0) = << >>
    BY SubSeqFull, SubSeqEmpty
  <2> QED BY <1>1, <1>3, <2>1
<1> HIDE DEF k
<1>5. b = IF o.input_ended THEN o.buffer ELSE o.buffer \o data
  <2>1. o.buffer \o << >> = o.buffer
    BY <1>1, ConcatEmptySeq
  <2> QED BY <1>4, <2>1
<1>6. b \in Seq(Nat) /\ w \in Nat /\ Len(b) =< o.capacity
  <2>1. o.buffer \o data \in Seq(Nat) /\ Len(o.buffer \o data) = Len(o.buffer) + Len(data)
    BY <1>1
  <2> HIDE DEF b
  <2>2. b = o.buffer \/ b = o.buffer \o data
    BY <1>5
  <2>3. Len(o.buffer) =< o.capacity /\ Len(o.buffer \o data) =< o.capacity
    BY <1>1, <2>1
  <2>4. b \in Seq(Nat) /\ Len(b) =< o.capacity
    <3>1. CASE b = o.buffer
      BY <1>1, <2>3, <3>1
    <3>2. CASE b = o.buffer \o data
      BY <2>1, <2>3, <3>2
    <3> QED BY <2>2, <3>1, <3>2
  <2> QED BY <1>1, <1>4, <2>4
<1> HIDE DEF b, w, p
<1>7. /\ p \in StreamSet /\ p.input_ended = o.input_ended /\ p.error = o.error
      /\ p.buffer = b /\ p.capacity = o.capacity
  BY <1>2, <1>6 DEF StreamSet
<1> QED BY <1>1, <1>5, <1>6, <1>7 DEF p

-----------------------------------------------------------------------------
(* One connection of the two, whichever it is.                              *)

\* How many bytes the application has taken from the stream o.
Popped(o) == o.bytes_written - Len(o.buffer)

\* The buffer holds the bytes that follow those.
Ordered(o) ==
    /\ Len(o.buffer) =< o.bytes_written
    /\ o.buffer = Excerpt(Popped(o), Len(o.buffer))

\* The connections u and d, whose applications write at most n and m bytes.
Linked(u, d, n, m) == Fine(u, d, n) /\ Fine(d, u, m) /\ Short(n) /\ Short(m)

\* When one of the two goes forward both stay fine, and so does what it has sent.
LEMMA GoesOn ==
    ASSUME NEW u, NEW d, NEW n, NEW m, Linked(u, d, n, m),
           NEW v, Fine(v, d, n), Onward(u, v)
    PROVE  /\ Linked(v, d, n, m) /\ v.sender.isn = u.sender.isn
           /\ \A seg, j : Sound(seg, u, j) => Sound(seg, v, j)
<1>1. Fine(u, d, n) /\ Fine(d, u, m)
  BY DEF Linked
<1>2. /\ u.sender.stream.bytes_read \in Nat /\ v.sender.stream.bytes_read \in Nat
      /\ u.receiver \in ReceiverSet /\ v.receiver \in ReceiverSet
      /\ TakenBy(u.receiver) \in Nat /\ TakenBy(v.receiver) \in Nat /\ d.sender.ackno \in Nat
  BY <1>1, FineParts
<1>3. Ahead(u.sender, v.sender) /\ TakenBy(u.receiver) =< TakenBy(v.receiver)
  BY DEF Onward
<1>4. v.sender.isn = u.sender.isn
  BY <1>3 DEF Ahead
<1>5. \A seg, j : Sound(seg, u, j) => Sound(seg, v, j)
  BY <1>2, <1>3, SoundStays
<1>6. Hears(d, v.sender)
  <2>1. Hears(d, u.sender)
    BY <1>1 DEF Fine
  <2> QED BY <1>2, <1>3, <2>1, HearsStays
<1>7. d.sender.ackno =< TakenBy(v.receiver)
  <2>1. d.sender.ackno =< TakenBy(u.receiver)
    BY <1>1 DEF Fine
  <2> QED BY <1>2, <1>3, <2>1
<1>8. Fine(d, v, m)
  BY <1>1, <1>4, <1>6, <1>7 DEF Fine
<1> QED BY <1>4, <1>5, <1>8 DEF Linked

\* Bytes that arrive go behind those that did before.
LEMMA ArrivedInOrder ==
    ASSUME NEW o \in StreamSet, NEW p \in StreamSet, Ordered(o), Arrived(o, p)
    PROVE  Ordered(p) /\ Popped(p) = Popped(o)
<1> DEFINE w == o.bytes_written
           l == Len(o.buffer)
           k == p.bytes_written - w
           e == Excerpt(w, k)
<1>1. /\ w \in Nat /\ l \in Nat /\ k \in Nat /\ l =< w /\ o.buffer \in Seq(Nat)
      /\ o.buffer = Excerpt(w - l, l) /\ p.buffer = o.buffer \o e
      /\ p.bytes_written \in Nat
  BY DEF StreamSet, Ordered, Popped, Arrived
<1>2. p.bytes_written = w + k /\ w - l \in Nat /\ w - l + l = w
  BY <1>1
<1>3. e \in Seq(Nat) /\ Len(e) = k
  BY <1>1, ExcerptType DEF Bytes
<1> HIDE DEF w, l, k, e
<1>4. Excerpt(w - l, l) \o Excerpt(w - l + l, k) = Excerpt(w - l, l + k)
  BY <1>1, <1>2, ExcerptJoin
<1>5. p.buffer = Excerpt(w - l, l + k)
  BY <1>1, <1>2, <1>4 DEF e
<1>6. Len(p.buffer) = l + k
  <2>1. l + k \in Nat
    BY <1>1
  <2> QED BY <1>2, <1>5, <2>1, ExcerptType
<1>7. (w + k) - (l + k) = w - l /\ l + k =< w + k
  BY <1>1
<1>8. Popped(p) = w - l
  BY <1>2, <1>6, <1>7 DEF Popped
<1>9. Ordered(p)
  BY <1>2, <1>5, <1>6, <1>7, <1>8 DEF Ordered
<1>10. Popped(o) = w - l
  BY DEF Popped, w, l
<1> QED BY <1>8, <1>9, <1>10

\* The application takes what comes first.
LEMMA ReadInOrder ==
    ASSUME NEW o \in StreamSet, NEW p, Ordered(o), NEW k \in 0..Len(o.buffer),
           p.bytes_written = o.bytes_written, p.buffer = SubSeq(o.buffer, k + 1, Len(o.buffer))
    PROVE  /\ Ordered(p) /\ Popped(p) = Popped(o) + k /\ Popped(o) \in Nat
           /\ SubSeq(o.buffer, 1, k) = Excerpt(Popped(o), k)
<1> DEFINE w == o.bytes_written
           l == Len(o.buffer)
<1>1. /\ w \in Nat /\ l \in Nat /\ k \in 0..l /\ l =< w /\ o.buffer \in Seq(Nat)
      /\ o.buffer = Excerpt(w - l, l) /\ w - l \in Nat
  BY DEF StreamSet, Ordered, Popped
<1>2. /\ Len(p.buffer) = l - k /\ p.buffer = Excerpt(w - l + k, l - k)
      /\ SubSeq(o.buffer, 1, k) = Excerpt(w - l, k)
  BY <1>1, PartAt
<1> HIDE DEF w, l
<1>3. w - (l - k) = w - l + k /\ l - k =< w
  BY <1>1
<1> QED BY <1>1, <1>2, <1>3 DEF Ordered, Popped, w, l

\* What the application has taken it was sent, and it was written before that.
LEMMA PoppedIsWritten ==
    ASSUME NEW u, NEW d, NEW n, NEW m, Linked(u, d, n, m), Ordered(inbound(u.receiver))
    PROVE  /\ Popped(inbound(u.receiver)) \in Nat /\ m \in Nat
           /\ Popped(inbound(u.receiver)) =< m
<1>1. /\ inbound(u.receiver) \in StreamSet /\ FillInv(d.sender)
      /\ d.sender.stream.bytes_written =< m /\ m \in Nat /\ Short(m)
  BY FineParts DEF Linked, Short
<1>2. inbound(u.receiver).bytes_written =< d.sender.stream.bytes_read
  BY DEF Linked, Fine, Hears
<1>3. d.sender.stream.bytes_read \in Nat /\ d.sender.stream.bytes_read =< m
  BY <1>1, SentIsShort
<1>4. /\ inbound(u.receiver).bytes_written \in Nat /\ Len(inbound(u.receiver).buffer) \in Nat
      /\ Len(inbound(u.receiver).buffer) =< inbound(u.receiver).bytes_written
  BY <1>1 DEF StreamSet, Ordered
<1> QED BY <1>1, <1>2, <1>3, <1>4 DEF Popped

\* A call that neither writes nor reads: what was written, and taken, is what it was.
Kept(u, v) ==
    /\ v.sender.stream.bytes_written = u.sender.stream.bytes_written
    /\ Popped(inbound(v.receiver)) = Popped(inbound(u.receiver))
    /\ Ordered(inbound(v.receiver))

\* A segment of the peer arrives.
LEMMA GetKeeps ==
    ASSUME NEW u, NEW d, NEW n, NEW m, Linked(u, d, n, m), Ordered(inbound(u.receiver)),
           NEW seg, Sound(seg, d, u.sender.isn)
    PROVE  LET v == segment_received(u, seg)
           IN  Fine(v, d, n) /\ Onward(u, v) /\ Kept(u, v)
<1> DEFINE c == segment_received(u, seg)
<1>1. /\ Fine(u, d, n) /\ Fine(d, u, m) /\ Short(n) /\ Short(m) /\ n \in Nat
      /\ u \in ConnectionSet
  BY FineParts DEF Linked, Short
<1>2. CASE ~u.active
  <2>1. c = u
    BY <1>2 DEF segment_received
  <2>2. Onward(u, u)
    BY <1>1, FlagMoves
  <2> HIDE DEF c
  <2> QED BY <1>1, <2>1, <2>2 DEF Kept, c
<1>3. CASE u.active /\ seg.rst
  <2> DEFINE heard == [u EXCEPT !.time_since_last_segment_received = 0]
  <2>1. c = unclean_shutdown(heard, FALSE)
    BY <1>3 DEF segment_received
  <2>2. /\ heard \in ConnectionSet /\ heard.sender = u.sender /\ heard.receiver = u.receiver
        /\ heard.segments_out = u.segments_out /\ heard.active = u.active
        /\ heard.linger = u.linger
    BY <1>1 DEF ConnectionSet
  <2> HIDE DEF heard, c
  <2>3. Fine(heard, d, n) /\ Onward(u, heard)
    BY <1>1, <2>2, FlagMoves
  <2>4. Fine(c, d, n) /\ Onward(heard, c) /\ Broken(heard, c)
    BY <2>1, <2>3, FailMoves
  <2>5. Onward(u, c) /\ Kept(u, c)
    BY <1>1, <2>2, <2>3, <2>4, OnwardChains DEF Broken, Kept, Ordered, Popped
  <2> QED BY <2>4, <2>5 DEF c
<1>4. CASE u.active /\ ~seg.rst
  <2>1. PICK a : seg.ack => a \in 0..TakenBy(d.receiver) /\ seg.ackno = wrap(a, u.sender.isn)
    BY <1>1 DEF Sound
  <2>2. /\ Sends(d, m) /\ d.receiver \in ReceiverSet /\ TakenBy(d.receiver) =< u.sender.next_seqno
    <3>1. FillInv(u.sender) /\ d.receiver \in ReceiverSet /\ Hears(d, u.sender)
      BY <1>1, FineParts DEF Fine
    <3>2. Sends(d, m)
      BY <1>1 DEF Fine
    <3>3. TakenBy(d.receiver) =< u.sender.next_seqno
      BY <3>1, TakenIsSent
    <3> QED BY <3>1, <3>2, <3>3
  <2>3. /\ Fine(c, d, n) /\ Onward(u, c) /\ SameSource(u, c)
        /\ Arrived(inbound(u.receiver), inbound(c.receiver))
    BY ONLY <1>1, <1>4, <2>1, <2>2, Sound(seg, d, u.sender.isn), ReceiveMoves
  <2> HIDE DEF c
  <2>4. inbound(u.receiver) \in StreamSet /\ inbound(c.receiver) \in StreamSet
    BY <1>1, <2>3, FineParts
  <2>5. /\ Ordered(inbound(c.receiver))
        /\ Popped(inbound(c.receiver)) = Popped(inbound(u.receiver))
    BY <2>3, <2>4, ArrivedInOrder
  <2> QED BY <2>3, <2>5 DEF Kept, SameSource, c
<1> QED BY <1>2, <1>3, <1>4

\* A tick; a connection that is over does nothing.
LEMMA TickKeeps ==
    ASSUME NEW u, NEW d, NEW n, NEW m, Linked(u, d, n, m), Ordered(inbound(u.receiver)),
           NEW ms \in Nat
    PROVE  LET v == connection_tick(u, ms)
           IN  Fine(v, d, n) /\ Onward(u, v) /\ Kept(u, v)
<1> DEFINE c == connection_tick(u, ms)
<1>1. /\ Fine(u, d, n) /\ n \in Nat /\ d.sender.isn \in 0..(Mod32 - 1) /\ u \in ConnectionSet
  BY FineParts DEF Linked, Short
<1>2. CASE ~u.active
  <2>1. c = u
    BY <1>2 DEF connection_tick
  <2>2. Onward(u, u)
    BY <1>1, FlagMoves
  <2> HIDE DEF c
  <2> QED BY <1>1, <2>1, <2>2 DEF Kept, c
<1>3. CASE u.active
  <2>1. /\ Fine(c, d, n) /\ Onward(u, c)
        /\ \/ Broken(u, c)
           \/ /\ SameSource(u, c) /\ c.receiver = u.receiver /\ c.linger = u.linger
              /\ c.active \/ (/\ inbound(c.receiver).input_ended
                              /\ eof(c.sender.stream) /\ Settled(c.sender))
    BY <1>1, <1>3, TickMoves
  <2> HIDE DEF c
  <2> QED BY <2>1 DEF Broken, SameSource, Kept, Ordered, Popped, c
<1> QED BY <1>2, <1>3

\* The outbound stream is ended.
LEMMA EndKeeps ==
    ASSUME NEW u, NEW d, NEW n, NEW m, Linked(u, d, n, m), Ordered(inbound(u.receiver))
    PROVE  LET v == end_input_stream(u)
           IN  Fine(v, d, n) /\ Onward(u, v) /\ Kept(u, v)
<1> DEFINE c == end_input_stream(u)
<1>1. Fine(u, d, n) /\ n \in Nat /\ d.sender.isn \in 0..(Mod32 - 1)
  BY FineParts DEF Linked, Short
<1>2. /\ Fine(c, d, n) /\ Onward(u, c) /\ c.receiver = u.receiver
      /\ c.sender.stream.bytes_written = u.sender.stream.bytes_written
  BY <1>1, EndMoves
<1> HIDE DEF c
<1> QED BY <1>2 DEF Kept, c

-----------------------------------------------------------------------------
(* The invariant.                                                           *)

SockSet ==
    [tcp : ConnectionSet, rules : SUBSET (1..4), at : {"opening", "running", "over", "failed"},
     listening : BOOLEAN, abort : BOOLEAN, in : Seq(SegmentSet), out : Seq(SegmentSet),
     thread_eof : BOOLEAN, outbound_shutdown : BOOLEAN, inbound_shutdown : BOOLEAN]

CopySet ==
    [input : Seq(Nat), input_eof : BOOLEAN, socket_eof : BOOLEAN,
     outbound : StreamSet, inbound : StreamSet,
     outbound_shutdown : BOOLEAN, inbound_shutdown : BOOLEAN,
     output : Seq(Nat), rules : SUBSET (1..4), at : {"copying", "done", "closed", "failed"}]

PipeSet == [{"owner", "tcp"} -> [bytes : Seq(Nat), shut : BOOLEAN]]

PeerSet == [tcp : ConnectionSet, got : Seq(Nat), dead : BOOLEAN]

\* No buffer of the owner's program, or between it and the socket, holds too much.
Roomy(c, p) ==
    /\ \A o \in {c.outbound, c.inbound} : ~o.error /\ Len(o.buffer) =< o.capacity
    /\ \A e \in {"owner", "tcp"} : Len(p[e].bytes) =< PipeCapacity

\* The two connections, what is under way between them, and what both applications read.
Wire(s, r, n, m) ==
    /\ Linked(s.tcp, r.tcp, n, m)
    /\ r.tcp.segments_out = << >>
    /\ \A seg \in Range(s.out) : Sound(seg, s.tcp, r.tcp.sender.isn)
    /\ \A seg \in Range(s.in) : Sound(seg, r.tcp, s.tcp.sender.isn)
    /\ Ordered(inbound(s.tcp.receiver)) /\ Ordered(inbound(r.tcp.receiver))
    /\ r.got = Excerpt(0, Popped(inbound(r.tcp.receiver)))

\* Of the n bytes typed, the connection was given the first w; then come those in the
\* pipe, in the outbound stream and in stdin.  What is read after the end is left out.
Outward(w, c, p, n) ==
    LET a == Len(p["tcp"].bytes)
        b == Len(c.outbound.buffer)
        k == Len(c.input)
    IN  /\ w + a + b + k =< n
        /\ p["tcp"].bytes = Excerpt(w, a)
        /\ c.outbound.buffer = Excerpt(w + a, b)
        /\ c.input = Excerpt(n - k, k)
        /\ c.outbound.input_ended \/ w + a + b + k = n

\* Of the q bytes taken from the connection, first come those on stdout and in the
\* inbound stream, last those in the pipe.
Inward(q, c, p) ==
    LET a == Len(c.output)
        b == Len(c.inbound.buffer)
        k == Len(p["owner"].bytes)
    IN  /\ a + b + k =< q
        /\ c.output = Excerpt(0, a)
        /\ c.inbound.buffer = Excerpt(a, b)
        /\ p["owner"].bytes = Excerpt(q - k, k)
        /\ c.inbound.input_ended \/ a + b + k = q

\* All of it.  When a callback of the TCP thread has thrown, the program is at its end
\* and what it had not passed on is lost.
Whole(s, c, p, r, n, m) ==
    /\ s \in SockSet /\ c \in CopySet /\ p \in PipeSet /\ r \in PeerSet /\ Roomy(c, p)
    /\ Wire(s, r, n, m)
    /\ s.at = "failed" \/ Outward(s.tcp.sender.stream.bytes_written, c, p, n)
    /\ Inward(Popped(inbound(s.tcp.receiver)), c, p)

EndpointInv ==
    /\ env \in Scenarios
    /\ Whole(sock, copy, pipe, peer, Len(env.typed), Len(env.bytes))

\* The socket's connection goes forward; datagrams at the adapter are taken, and those
\* that are put there are sound.
LEMMA SelfGoes ==
    ASSUME NEW s \in SockSet, NEW r \in PeerSet, NEW n, NEW m, Wire(s, r, n, m),
           NEW t \in SockSet, Fine(t.tcp, r.tcp, n), Onward(s.tcp, t.tcp),
           Ordered(inbound(t.tcp.receiver)), Range(t.in) \subseteq Range(s.in),
           \A seg \in Range(t.out) :
               seg \in Range(s.out) \/ Sound(seg, t.tcp, r.tcp.sender.isn)
    PROVE  Wire(t, r, n, m)
<1>1. Linked(s.tcp, r.tcp, n, m)
  BY DEF Wire
<1>2. /\ Linked(t.tcp, r.tcp, n, m) /\ t.tcp.sender.isn = s.tcp.sender.isn
      /\ \A seg, j : Sound(seg, s.tcp, j) => Sound(seg, t.tcp, j)
  BY <1>1, GoesOn
<1> QED BY <1>2 DEF Wire

\* The peer's connection goes forward as v, and its application has read got; what it
\* sends reaches the adapter at once.
LEMMA PeerGoes ==
    ASSUME NEW s \in SockSet, NEW r \in PeerSet, NEW n, NEW m, Wire(s, r, n, m),
           NEW v, Fine(v, s.tcp, m), Onward(r.tcp, v), Ordered(inbound(v.receiver)),
           NEW q \in PeerSet, q.tcp = [v EXCEPT !.segments_out = << >>],
           q.got = Excerpt(0, Popped(inbound(v.receiver))),
           NEW t \in SockSet, t.tcp = s.tcp, Range(t.out) \subseteq Range(s.out),
           t.in = s.in \o v.segments_out
    PROVE  Wire(t, q, n, m)
<1> DEFINE x == [v EXCEPT !.segments_out = << >>]
<1>1. /\ Linked(s.tcp, r.tcp, n, m) /\ Linked(r.tcp, s.tcp, m, n)
      /\ \A seg \in Range(s.in) : Sound(seg, r.tcp, s.tcp.sender.isn)
      /\ \A seg \in Range(s.out) : Sound(seg, s.tcp, r.tcp.sender.isn)
  BY DEF Wire, Linked
<1>2. /\ Linked(v, s.tcp, m, n) /\ v.sender.isn = r.tcp.sender.isn
      /\ \A seg, j : Sound(seg, r.tcp, j) => Sound(seg, v, j)
  BY <1>1, GoesOn
<1>3. << >> \in Seq(SegmentSet) /\ Range(<< >>) = {} /\ Len(<< >>) = 0
  BY DEF Range
<1>4. /\ Fine(x, s.tcp, m) /\ Onward(v, x) /\ x.sender = v.sender /\ x.receiver = v.receiver
      /\ x.segments_out = << >>
  BY <1>3, OutMoves, ZenonT(60)
<1> HIDE DEF x
<1>5. /\ Linked(x, s.tcp, m, n)
      /\ \A seg, j : Sound(seg, v, j) => Sound(seg, x, j)
  BY <1>2, <1>4, GoesOn
<1>6. \A seg \in Range(t.in) : Sound(seg, x, s.tcp.sender.isn)
  <2>1. s.in \in Seq(SegmentSet) /\ v.segments_out \in Seq(SegmentSet)
    BY FineParts DEF SockSet
  <2>2. Range(t.in) = Range(s.in) \cup Range(v.segments_out)
    BY <2>1, Ranges
  <2>3. \A seg \in Range(v.segments_out) : Sound(seg, v, s.tcp.sender.isn)
    BY DEF Fine
  <2> QED BY <1>1, <1>2, <1>5, <2>2, <2>3
<1>7. q.tcp = x
  BY DEF x
<1> QED BY <1>1, <1>2, <1>4, <1>5, <1>6, <1>7 DEF Wire, Linked

-----------------------------------------------------------------------------
(* A turn of the socket's loop.                                             *)

\* The state of the socket's loop, while the owner's program is c and the peer r.
SockOk(st, c, r, n, m) ==
    /\ st \in [s : SockSet, pipe : PipeSet]
    /\ Whole(st.s, c, st.pipe, r, n, m)

\* A change of the socket by which neither stream moves.
LEMMA SockKeeps ==
    ASSUME NEW c, NEW r, NEW n, NEW m, NEW st, SockOk(st, c, r, n, m),
           NEW t \in [s : SockSet, pipe : PipeSet],
           Fine(t.s.tcp, r.tcp, n), Onward(st.s.tcp, t.s.tcp), Kept(st.s.tcp, t.s.tcp),
           Range(t.s.in) \subseteq Range(st.s.in),
           \A seg \in Range(t.s.out) :
               seg \in Range(st.s.out) \/ Sound(seg, t.s.tcp, r.tcp.sender.isn),
           t.s.at = "failed" \/ st.s.at # "failed",
           \A e \in {"owner", "tcp"} : t.pipe[e].bytes = st.pipe[e].bytes
    PROVE  SockOk(t, c, r, n, m)
<1>1. /\ st.s \in SockSet /\ t.s \in SockSet /\ r \in PeerSet /\ c \in CopySet
      /\ t.pipe \in PipeSet /\ Wire(st.s, r, n, m)
  BY DEF SockOk, Whole
<1>2. Wire(t.s, r, n, m)
  BY <1>1, SelfGoes DEF Kept
<1>3. Roomy(c, t.pipe)
  BY DEF SockOk, Whole, Roomy
<1>4. t.s.at = "failed" \/ Outward(t.s.tcp.sender.stream.bytes_written, c, t.pipe, n)
  BY DEF SockOk, Whole, Kept, Outward
<1>5. Inward(Popped(inbound(t.s.tcp.receiver)), c, t.pipe)
  BY DEF SockOk, Whole, Kept, Inward
<1> QED BY <1>1, <1>2, <1>3, <1>4, <1>5 DEF SockOk, Whole

\* The parts of the invariant that the calls of the socket's connection take.
LEMMA SockParts ==
    ASSUME NEW c, NEW r, NEW n, NEW m, NEW st, SockOk(st, c, r, n, m)
    PROVE  /\ st \in [s : SockSet, pipe : PipeSet] /\ st.s \in SockSet /\ st.pipe \in PipeSet
           /\ st.s.tcp \in ConnectionSet /\ r \in PeerSet /\ c \in CopySet
           /\ Linked(st.s.tcp, r.tcp, n, m) /\ Ordered(inbound(st.s.tcp.receiver))
           /\ Fine(st.s.tcp, r.tcp, n) /\ Fine(r.tcp, st.s.tcp, m)
           /\ r.tcp.sender.isn \in 0..(Mod32 - 1) /\ n \in Nat /\ m \in Nat
           /\ inbound(st.s.tcp.receiver) \in StreamSet
           /\ st.s.tcp.sender.stream \in StreamSet
           /\ Wire(st.s, r, n, m)
<1>1. /\ st.s \in SockSet /\ st.pipe \in PipeSet /\ r \in PeerSet /\ c \in CopySet
      /\ Wire(st.s, r, n, m) /\ st \in [s : SockSet, pipe : PipeSet]
  BY DEF SockOk, Whole
<1>2. /\ Linked(st.s.tcp, r.tcp, n, m) /\ Ordered(inbound(st.s.tcp.receiver))
      /\ Fine(st.s.tcp, r.tcp, n) /\ Fine(r.tcp, st.s.tcp, m) /\ n \in Nat /\ m \in Nat
  BY <1>1 DEF Wire, Linked, Short
<1> QED BY <1>1, <1>2, FineParts

\* Rule 1.
LEMMA ReadDatagramKeeps ==
    ASSUME NEW c, NEW r, NEW n, NEW m, NEW st, SockOk(st, c, r, n, m), st.s.in # << >>
    PROVE  SockOk(ReadDatagram(st), c, r, n, m)
<1> DEFINE seg == Head(st.s.in)
           v == segment_received(st.s.tcp, seg)
           t == ReadDatagram(st)
<1>1. /\ st \in [s : SockSet, pipe : PipeSet] /\ st.s \in SockSet
      /\ Linked(st.s.tcp, r.tcp, n, m) /\ Ordered(inbound(st.s.tcp.receiver))
      /\ Wire(st.s, r, n, m)
  BY SockParts
<1>2. st.s.in \in Seq(SegmentSet)
  BY <1>1 DEF SockSet
<1>3. /\ seg \in Range(st.s.in) /\ seg \in SegmentSet
      /\ Tail(st.s.in) \in Seq(SegmentSet) /\ Range(Tail(st.s.in)) \subseteq Range(st.s.in)
  <2>1. PICK x \in SegmentSet : TRUE
    <3>1. st.s.in[1] \in SegmentSet
      BY <1>2
    <3> QED BY <3>1
  <2> QED BY <1>2, RangeEnds
<1>4. Sound(seg, r.tcp, st.s.tcp.sender.isn)
  BY <1>1, <1>3 DEF Wire
<1>5. Fine(v, r.tcp, n) /\ Onward(st.s.tcp, v) /\ Kept(st.s.tcp, v)
  BY <1>1, <1>4, GetKeeps
<1>6. v \in ConnectionSet
  BY <1>5, FineParts
<1>7. t = [st EXCEPT !.s.tcp = v, !.s.in = Tail(st.s.in)]
  BY <1>1 DEF ReadDatagram, SockSet
<1> HIDE DEF v, t
<1>8. /\ t \in [s : SockSet, pipe : PipeSet] /\ t.pipe = st.pipe /\ t.s.tcp = v
      /\ t.s.in = Tail(st.s.in) /\ t.s.out = st.s.out /\ t.s.at = st.s.at
  BY <1>1, <1>3, <1>6, <1>7 DEF SockSet
<1> HIDE DEF seg
<1>9. SockOk(t, c, r, n, m)
  BY <1>3, <1>5, <1>8, SockKeeps
<1> QED BY <1>9 DEF t

\* The end of the outbound stream, which rule 2 passes on and its cancellation, too.
LEMMA EndOutboundKeeps ==
    ASSUME NEW c, NEW r, NEW n, NEW m, NEW st, SockOk(st, c, r, n, m)
    PROVE  SockOk(EndOutbound(st), c, r, n, m)
<1> DEFINE v == end_input_stream(st.s.tcp)
           t == EndOutbound(st)
<1>1. /\ st \in [s : SockSet, pipe : PipeSet] /\ st.s \in SockSet
      /\ Linked(st.s.tcp, r.tcp, n, m) /\ Ordered(inbound(st.s.tcp.receiver))
  BY SockParts
<1>2. Fine(v, r.tcp, n) /\ Onward(st.s.tcp, v) /\ Kept(st.s.tcp, v)
  BY <1>1, EndKeeps
<1>3. v \in ConnectionSet
  BY <1>2, FineParts
<1>4. t = [st EXCEPT !.s.tcp = v, !.s.outbound_shutdown = TRUE]
  BY <1>1 DEF EndOutbound, SockSet
<1> HIDE DEF v, t
<1>5. /\ t \in [s : SockSet, pipe : PipeSet] /\ t.pipe = st.pipe /\ t.s.tcp = v
      /\ t.s.in = st.s.in /\ t.s.out = st.s.out /\ t.s.at = st.s.at
  BY <1>1, <1>3, <1>4 DEF SockSet
<1>6. SockOk(t, c, r, n, m)
  BY <1>2, <1>5, SockKeeps
<1> QED BY <1>6 DEF t

\* Rule 4.
LEMMA WriteDatagramsKeeps ==
    ASSUME NEW c, NEW r, NEW n, NEW m, NEW st, SockOk(st, c, r, n, m)
    PROVE  SockOk(WriteDatagrams(st), c, r, n, m)
<1> DEFINE u == st.s.tcp
           q == << >>
           v == [u EXCEPT !.segments_out = q]
           out == st.s.out \o u.segments_out
           t == WriteDatagrams(st)
<1>1. /\ st \in [s : SockSet, pipe : PipeSet] /\ st.s \in SockSet /\ u \in ConnectionSet
      /\ Fine(u, r.tcp, n) /\ Ordered(inbound(u.receiver))
  BY SockParts
<1>2. q \in Seq(SegmentSet) /\ Range(q) = {}
  BY DEF Range
<1> HIDE DEF q
<1>3. /\ Fine(v, r.tcp, n) /\ Onward(u, v) /\ v.sender = u.sender /\ v.receiver = u.receiver
  <2>1. \A seg \in Range(q) : Sound(seg, u, r.tcp.sender.isn)
    BY <1>2
  <2> QED BY <1>1, <1>2, <2>1, OutMoves
<1>4. Kept(u, v)
  BY <1>1, <1>3 DEF Kept
<1>5. v \in ConnectionSet
  BY <1>3, FineParts
<1>6. /\ out \in Seq(SegmentSet) /\ Range(out) = Range(st.s.out) \cup Range(u.segments_out)
  <2>1. st.s.out \in Seq(SegmentSet) /\ u.segments_out \in Seq(SegmentSet)
    BY <1>1 DEF SockSet, ConnectionSet
  <2> QED BY <2>1, Ranges
<1>7. \A seg \in Range(u.segments_out) : Sound(seg, v, r.tcp.sender.isn)
  BY <1>1, <1>3 DEF Fine, Sound
<1>8. t = [st EXCEPT !.s.out = out, !.s.tcp = v]
  BY <1>1 DEF WriteDatagrams, SockSet, ConnectionSet, q
<1> HIDE DEF v, t, out
<1>9. /\ t \in [s : SockSet, pipe : PipeSet] /\ t.pipe = st.pipe /\ t.s.tcp = v
      /\ t.s.in = st.s.in /\ t.s.out = out /\ t.s.at = st.s.at
  BY <1>1, <1>5, <1>6, <1>8 DEF SockSet
<1> HIDE DEF u
<1>10. SockOk(t, c, r, n, m)
  BY <1>3, <1>4, <1>6, <1>7, <1>9, SockKeeps DEF u
<1> QED BY <1>10 DEF t

\* A change by which the connection stays what it was.
LEMMA SameTcpKeeps ==
    ASSUME NEW c, NEW r, NEW n, NEW m, NEW st, SockOk(st, c, r, n, m),
           NEW t \in [s : SockSet, pipe : PipeSet],
           t.s.tcp = st.s.tcp, t.s.in = st.s.in, t.s.out = st.s.out,
           t.s.at = "failed" \/ st.s.at # "failed",
           \A e \in {"owner", "tcp"} : t.pipe[e].bytes = st.pipe[e].bytes
    PROVE  SockOk(t, c, r, n, m)
<1> DEFINE u == st.s.tcp
<1>1. Fine(u, r.tcp, n) /\ u \in ConnectionSet /\ Ordered(inbound(u.receiver))
  BY SockParts
<1>2. Onward(u, u) /\ Kept(u, u)
  BY <1>1, FlagMoves DEF Kept
<1> QED BY <1>1, <1>2, SockKeeps

\* A callback throws.
LEMMA FailKeeps ==
    ASSUME NEW c, NEW r, NEW n, NEW m, NEW st, SockOk(st, c, r, n, m)
    PROVE  SockOk(Fail(st), c, r, n, m)
<1> DEFINE t == Fail(st)
<1>1. st \in [s : SockSet, pipe : PipeSet] /\ st.s \in SockSet /\ st.pipe \in PipeSet
  BY SockParts
<1>2. t = [st EXCEPT !.s.at = "failed"]
  BY DEF Fail
<1> HIDE DEF t
<1>3. /\ t \in [s : SockSet, pipe : PipeSet] /\ t.pipe = st.pipe /\ t.s.tcp = st.s.tcp
      /\ t.s.in = st.s.in /\ t.s.out = st.s.out /\ t.s.at = "failed"
  BY <1>1, <1>2 DEF SockSet
<1>4. SockOk(t, c, r, n, m)
  BY <1>3, SameTcpKeeps
<1> QED BY <1>4 DEF t

\* What is read from an end of the pipe comes first in it.
LEMMA PipeRead ==
    ASSUME NEW p \in PipeSet, NEW e \in {"owner", "tcp"}, NEW limit \in Nat
    PROVE  LET b == p[e].bytes
               k == Lesser(limit, Len(b))
               q == AfterRead(p, e, limit)
           IN  /\ k \in 0..Len(b) /\ k \in 0..limit /\ Len(b) \in Nat /\ b \in Seq(Nat)
               /\ ReadData(p, e, limit) = SubSeq(b, 1, k)
               /\ ReadData(p, e, limit) \in Seq(Nat) /\ Len(ReadData(p, e, limit)) = k
               /\ q \in PipeSet
               /\ q[e].bytes = SubSeq(b, k + 1, Len(b)) /\ Len(q[e].bytes) = Len(b) - k
               /\ \A f \in {"owner", "tcp"} : f # e => q[f] = p[f]
<1> DEFINE b == p[e].bytes
           k == Lesser(limit, Len(b))
           q == AfterRead(p, e, limit)
           x == SubSeq(b, k + 1, Len(b))
<1>1. b \in Seq(Nat) /\ Len(b) \in Nat
  BY DEF PipeSet
<1>2. k \in 0..Len(b) /\ k \in 0..limit
  BY <1>1, LesserIs
<1>3. /\ SubSeq(b, 1, k) \in Seq(Nat) /\ Len(SubSeq(b, 1, k)) = k
      /\ x \in Seq(Nat) /\ Len(x) = Len(b) - k
  BY <1>1, <1>2, PartAt
<1>4. q = [p EXCEPT ![e].bytes = x]
  BY DEF AfterRead, PipeSet
<1> HIDE DEF x, q
<1>5. /\ q \in PipeSet /\ q[e].bytes = x
      /\ \A f \in {"owner", "tcp"} : f # e => q[f] = p[f]
  BY <1>3, <1>4 DEF PipeSet
<1> QED BY <1>1, <1>2, <1>3, <1>5 DEF ReadData, x, q

\* What is written into the pipe comes last at its other end, as much of it as fits.
LEMMA PipeWrite ==
    ASSUME NEW p \in PipeSet, NEW e \in {"owner", "tcp"}, NEW data \in Seq(Nat),
           Len(p[Other(e)].bytes) =< PipeCapacity
    PROVE  LET f == Other(e)
               k == WriteSize(p, e, data)
               q == AfterWrite(p, e, data)
               x == SubSeq(data, 1, k)
           IN  /\ k \in 0..Len(data) /\ x \in Seq(Nat) /\ Len(x) = k
               /\ q \in PipeSet /\ q[e] = p[e] /\ q[f].bytes = p[f].bytes \o x
               /\ Len(p[f].bytes) \in Nat /\ Len(q[f].bytes) = Len(p[f].bytes) + k
               /\ Len(q[f].bytes) =< PipeCapacity
<1> DEFINE f == Other(e)
           b == p[f].bytes
           k == WriteSize(p, e, data)
           x == SubSeq(data, 1, k)
           y == b \o x
           q == AfterWrite(p, e, data)
           room == PipeCapacity - Len(b)
<1>1. f \in {"owner", "tcp"} /\ f # e
  BY DEF Other
<1>2. b \in Seq(Nat) /\ Len(b) \in Nat
  BY <1>1 DEF PipeSet
<1>3. room \in Nat /\ PipeCapacity \in Nat
  BY <1>2, PipeAssumption
<1>4. k \in 0..Len(data) /\ k \in 0..room
  <2>1. k = Lesser(Len(data), room)
    BY DEF WriteSize
  <2>2. Len(data) \in Nat
    OBVIOUS
  <2> HIDE DEF k, room
  <2> QED BY <1>3, <2>1, <2>2, LesserIs
<1>5. x \in Seq(Nat) /\ Len(x) = k
  BY <1>4, PartAt
<1> HIDE DEF x
<1>6. y \in Seq(Nat) /\ Len(y) = Len(b) + k
  <2>1. y \in Seq(Nat) /\ Len(y) = Len(b) + Len(x)
    <3> HIDE DEF b
    <3> QED BY <1>2, <1>5, JoinAt
  <2> HIDE DEF y, b, k
  <2> QED BY <1>5, <2>1
<1>7. Len(b) + k =< PipeCapacity
  <2> HIDE DEF k, b
  <2> QED BY <1>2, <1>3, <1>4 DEF room
<1>8. q = [p EXCEPT ![f].bytes = y]
  BY DEF AfterWrite, x
<1> HIDE DEF y, q, k
<1>9. q \in PipeSet /\ q[e] = p[e] /\ q[f].bytes = y
  BY <1>1, <1>6, <1>8 DEF PipeSet
<1> QED BY <1>1, <1>2, <1>4, <1>5, <1>6, <1>7, <1>9 DEF x, y, q, k

\* Bytes that the application takes from the connection go into the pipe.
LEMMA InwardGrows ==
    ASSUME NEW q \in Nat, NEW c \in CopySet, NEW p \in PipeSet, NEW z \in PipeSet, NEW k \in Nat,
           Inward(q, c, p), z["owner"].bytes = p["owner"].bytes \o Excerpt(q, k)
    PROVE  Inward(q + k, c, z)
<1> DEFINE a == Len(c.output)
           b == Len(c.inbound.buffer)
           s == p["owner"].bytes
           l == Len(s)
<1>1. /\ a \in Nat /\ b \in Nat /\ s \in Seq(Nat) /\ l \in Nat
      /\ a + b + l =< q /\ s = Excerpt(q - l, l)
      /\ c.output = Excerpt(0, a) /\ c.inbound.buffer = Excerpt(a, b)
      /\ c.inbound.input_ended \/ a + b + l = q
  <2>1. /\ c.output \in Seq(Nat) /\ c.inbound \in StreamSet /\ s \in Seq(Nat)
        /\ c.inbound.buffer \in Seq(Nat)
    BY DEF CopySet, PipeSet, StreamSet
  <2>2. a \in Nat /\ b \in Nat /\ l \in Nat
    BY <2>1
  <2> QED BY <2>1, <2>2 DEF Inward
<1> HIDE DEF a, b, s, l
<1>2. Excerpt(q, k) \in Seq(Nat) /\ Len(Excerpt(q, k)) = k
  BY ExcerptType DEF Bytes
<1>3. q - l \in Nat /\ q - l + l = q /\ (q + k) - (l + k) = q - l
  BY <1>1
<1>4. s \o Excerpt(q, k) = Excerpt(q - l, l + k) /\ Len(s \o Excerpt(q, k)) = l + k
  <2>1. Len(s \o Excerpt(q, k)) = l + k
    BY <1>1, <1>2, JoinAt DEF l
  <2>2. Excerpt(q - l, l) \o Excerpt(q - l + l, k) = Excerpt(q - l, l + k)
    BY <1>1, <1>3, ExcerptJoin
  <2> QED BY <1>1, <1>3, <2>1, <2>2
<1>5. z["owner"].bytes = Excerpt((q + k) - (l + k), l + k) /\ Len(z["owner"].bytes) = l + k
  BY <1>3, <1>4 DEF s
<1>6. a + b + (l + k) =< q + k /\ (a + b + l = q => a + b + (l + k) = q + k)
  BY <1>1
<1> QED BY <1>1, <1>5, <1>6 DEF Inward, a, b

\* The bytes in the pipe are the next ones that the connection is to be given.
LEMMA OutwardGiven ==
    ASSUME NEW w \in Nat, NEW n \in Nat, NEW c \in CopySet, NEW p \in PipeSet, NEW z \in PipeSet,
           Outward(w, c, p, n), NEW k \in 0..Len(p["tcp"].bytes),
           z["tcp"].bytes = SubSeq(p["tcp"].bytes, k + 1, Len(p["tcp"].bytes))
    PROVE  /\ SubSeq(p["tcp"].bytes, 1, k) = Excerpt(w, k) /\ w + k =< n
           /\ Outward(w + k, c, z, n)
<1> DEFINE a == Len(p["tcp"].bytes)
           b == Len(c.outbound.buffer)
           l == Len(c.input)
           s == p["tcp"].bytes
<1>1. /\ a \in Nat /\ b \in Nat /\ l \in Nat /\ s \in Seq(Nat) /\ k \in 0..a
      /\ w + a + b + l =< n /\ s = Excerpt(w, a)
      /\ c.outbound.buffer = Excerpt(w + a, b) /\ c.input = Excerpt(n - l, l)
      /\ (c.outbound.input_ended \/ w + a + b + l = n) /\ a = Len(s)
  <2>1. /\ c.input \in Seq(Nat) /\ c.outbound \in StreamSet /\ s \in Seq(Nat)
        /\ c.outbound.buffer \in Seq(Nat)
    BY DEF CopySet, PipeSet, StreamSet
  <2>2. a \in Nat /\ b \in Nat /\ l \in Nat
    BY <2>1
  <2> QED BY <2>1, <2>2 DEF Outward
<1> HIDE DEF a, b, l, s
<1>2. /\ SubSeq(s, 1, k) = Excerpt(w, k) /\ SubSeq(s, k + 1, a) = Excerpt(w + k, a - k)
      /\ Len(SubSeq(s, k + 1, a)) = a - k /\ z["tcp"].bytes = SubSeq(s, k + 1, a)
  <2>1. a = Len(s) /\ z["tcp"].bytes = SubSeq(s, k + 1, a)
    BY DEF a, s
  <2>2. k \in 0..Len(s) /\ s = Excerpt(w, Len(s)) /\ s \in Seq(Nat)
    BY <1>1, <2>1
  <2>3. /\ SubSeq(s, 1, k) = Excerpt(w, k)
        /\ SubSeq(s, k + 1, Len(s)) = Excerpt(w + k, Len(s) - k)
        /\ Len(SubSeq(s, k + 1, Len(s))) = Len(s) - k
    BY ONLY <2>2, w \in Nat, PartAt
  <2> QED BY <2>1, <2>3
<1>3. /\ w + k + (a - k) = w + a /\ w + k =< n
      /\ w + k + (a - k) + b + l = w + a + b + l
  BY <1>1
<1>4. Outward(w + k, c, z, n)
  BY <1>1, <1>2, <1>3 DEF Outward, b, l
<1> QED BY <1>2, <1>3, <1>4 DEF s

\* Rule 3.
LEMMA WriteOwnerKeeps ==
    ASSUME NEW c, NEW r, NEW n, NEW m, NEW st, SockOk(st, c, r, n, m)
    PROVE  SockOk(WriteOwner(st), c, r, n, m)
<1> DEFINE u == st.s.tcp
           o == inbound(u.receiver)
           data == peek_output(o, Len(o.buffer))
           k == WriteSize(st.pipe, "tcp", data)
           z == AfterWrite(st.pipe, "tcp", data)
           v == read_inbound(u, k)
           sent == [st EXCEPT !.pipe = z, !.s.tcp = v]
           ended == eof(inbound_stream(sent)) \/ inbound_stream(sent).error
           last == [sent EXCEPT !.pipe = ShutWrite(z, "tcp"), !.s.inbound_shutdown = TRUE]
<1>1. /\ st \in [s : SockSet, pipe : PipeSet] /\ st.s \in SockSet /\ st.pipe \in PipeSet
      /\ u \in ConnectionSet /\ Fine(u, r.tcp, n) /\ Fine(r.tcp, u, m) /\ Ordered(o)
      /\ o \in StreamSet /\ Wire(st.s, r, n, m) /\ c \in CopySet /\ r \in PeerSet
  BY SockParts
<1>2. data = o.buffer /\ o.buffer \in Seq(Nat)
  BY <1>1, SubSeqFull DEF peek_output, Lesser, StreamSet
<1>3. Other("tcp") = "owner"
  BY DEF Other
<1> HIDE DEF data
<1>4. /\ k \in 0..Len(o.buffer) /\ z \in PipeSet /\ z["tcp"] = st.pipe["tcp"]
      /\ z["owner"].bytes = st.pipe["owner"].bytes \o SubSeq(o.buffer, 1, k)
      /\ Len(z["owner"].bytes) =< PipeCapacity
  <2>1. Len(st.pipe["owner"].bytes) =< PipeCapacity
    BY DEF SockOk, Whole, Roomy
  <2>2. /\ data \in Seq(Nat) /\ "tcp" \in {"owner", "tcp"}
        /\ Len(st.pipe[Other("tcp")].bytes) =< PipeCapacity
    BY <1>2, <1>3, <2>1
  <2>3. /\ k \in 0..Len(data) /\ z \in PipeSet /\ z["tcp"] = st.pipe["tcp"]
        /\ z[Other("tcp")].bytes = st.pipe[Other("tcp")].bytes \o SubSeq(data, 1, k)
        /\ Len(z[Other("tcp")].bytes) =< PipeCapacity
    BY ONLY <1>1, <2>2, PipeWrite
  <2> QED BY <1>2, <1>3, <2>3
<1> HIDE DEF k, z
<1>5. /\ Fine(v, r.tcp, n) /\ Onward(u, v) /\ v.sender = u.sender
      /\ inbound(v.receiver).buffer = SubSeq(o.buffer, k + 1, Len(o.buffer))
      /\ inbound(v.receiver).bytes_written = o.bytes_written
  <2>1. r.tcp.sender.stream.bytes_read \in Nat
    BY <1>1, FineParts
  <2>2. k \in Nat /\ k =< Len(o.buffer)
    BY <1>2, <1>4
  <2> QED BY <1>1, <2>1, <2>2, ReadMoves
<1>6. /\ Ordered(inbound(v.receiver)) /\ Popped(inbound(v.receiver)) = Popped(o) + k
      /\ Popped(o) \in Nat /\ SubSeq(o.buffer, 1, k) = Excerpt(Popped(o), k)
  BY <1>1, <1>4, <1>5, ReadInOrder
<1>7. v \in ConnectionSet /\ k \in Nat
  BY <1>2, <1>4, <1>5, FineParts
<1> HIDE DEF v
<1>8. /\ sent \in [s : SockSet, pipe : PipeSet] /\ sent.pipe = z /\ sent.s.tcp = v
      /\ sent.s.in = st.s.in /\ sent.s.out = st.s.out /\ sent.s.at = st.s.at
  BY <1>1, <1>4, <1>7 DEF SockSet
<1> HIDE DEF sent
<1>9. SockOk(sent, c, r, n, m)
  <2>1. Wire(sent.s, r, n, m)
    BY <1>1, <1>5, <1>6, <1>8, SelfGoes
  <2>2. Roomy(c, z)
    BY <1>4 DEF SockOk, Whole, Roomy
  <2>3. sent.s.at = "failed" \/ Outward(v.sender.stream.bytes_written, c, z, n)
    BY <1>4, <1>5, <1>8 DEF SockOk, Whole, Outward
  <2>4. Inward(Popped(o) + k, c, z)
    <3>1. Inward(Popped(o), c, st.pipe)
      BY DEF SockOk, Whole
    <3> QED BY <1>1, <1>4, <1>6, <1>7, <3>1, InwardGrows
  <2> QED BY <1>1, <1>6, <1>8, <2>1, <2>2, <2>3, <2>4 DEF SockOk, Whole
<1>10. /\ last \in [s : SockSet, pipe : PipeSet] /\ last.s.tcp = sent.s.tcp
       /\ last.s.in = sent.s.in /\ last.s.out = sent.s.out /\ last.s.at = sent.s.at
       /\ \A e \in {"owner", "tcp"} : last.pipe[e].bytes = sent.pipe[e].bytes
  <2> DEFINE y == ShutWrite(z, "tcp")
  <2>1. y \in PipeSet /\ \A e \in {"owner", "tcp"} : y[e].bytes = z[e].bytes
    BY <1>4 DEF PipeSet, ShutWrite, Other
  <2> HIDE DEF y
  <2>2. last = [sent EXCEPT !.pipe = y, !.s.inbound_shutdown = TRUE]
    BY DEF y
  <2> HIDE DEF last
  <2> QED BY <1>8, <2>1, <2>2 DEF SockSet
<1> HIDE DEF last, ended
<1>11. ASSUME st.s.at # "failed" PROVE SockOk(last, c, r, n, m)
  BY <1>8, <1>9, <1>10, <1>11, SameTcpKeeps
<1>12. ASSUME st.s.at = "failed" PROVE SockOk(last, c, r, n, m)
  BY <1>8, <1>9, <1>10, <1>12, SameTcpKeeps
<1>13. WriteOwner(st) \in {Fail(st), last, sent}
  BY <1>1 DEF WriteOwner, inbound_stream, sent, last, v, z, k, data, ended, SockSet
<1> QED BY <1>9, <1>11, <1>12, <1>13, FailKeeps

\* Rule 2, of a socket that has not failed.
LEMMA ReadOwnerKeeps ==
    ASSUME NEW c, NEW r, NEW n, NEW m, NEW st, SockOk(st, c, r, n, m), st.s.at # "failed"
    PROVE  SockOk(ReadOwner(st), c, r, n, m)
<1> DEFINE u == st.s.tcp
           w == u.sender.stream.bytes_written
           limit == remaining_outbound_capacity(u)
           data == ReadData(st.pipe, "tcp", limit)
           k == Lesser(limit, Len(st.pipe["tcp"].bytes))
           z == AfterRead(st.pipe, "tcp", limit)
           ended == st.s.thread_eof \/ ReadsEof(st.pipe, "tcp", limit)
           v == connection_write(u, data)
           taken == v.sender.stream.bytes_written - w
           after == [st EXCEPT !.s.tcp = v, !.s.thread_eof = ended, !.pipe = z]
<1>1. /\ st \in [s : SockSet, pipe : PipeSet] /\ st.s \in SockSet /\ st.pipe \in PipeSet
      /\ u \in ConnectionSet /\ Fine(u, r.tcp, n) /\ Fine(r.tcp, u, m)
      /\ Ordered(inbound(u.receiver)) /\ Wire(st.s, r, n, m) /\ c \in CopySet /\ r \in PeerSet
      /\ n \in Nat /\ r.tcp.sender.isn \in 0..(Mod32 - 1)
  BY SockParts
<1>2. limit \in Nat /\ w \in Nat
  <2>1. /\ u.sender.stream \in StreamSet
        /\ Len(u.sender.stream.buffer) =< u.sender.stream.capacity
    BY <1>1, FineParts DEF FillInv, Buffers
  <2>2. /\ u.sender.stream.capacity \in Nat /\ Len(u.sender.stream.buffer) \in Nat /\ w \in Nat
    BY <2>1 DEF StreamSet
  <2>3. limit = u.sender.stream.capacity - Len(u.sender.stream.buffer)
    BY DEF remaining_outbound_capacity, remaining_capacity
  <2> HIDE DEF u, w, limit
  <2> QED BY ONLY <2>1, <2>2, <2>3
<1> HIDE DEF limit
<1>3. /\ k \in 0..Len(st.pipe["tcp"].bytes) /\ k \in Nat
      /\ data = SubSeq(st.pipe["tcp"].bytes, 1, k) /\ Len(data) = k
      /\ z \in PipeSet /\ z["owner"] = st.pipe["owner"]
      /\ z["tcp"].bytes = SubSeq(st.pipe["tcp"].bytes, k + 1, Len(st.pipe["tcp"].bytes))
      /\ Len(z["tcp"].bytes) =< Len(st.pipe["tcp"].bytes)
      /\ Len(st.pipe["tcp"].bytes) \in Nat /\ Len(z["tcp"].bytes) \in Nat
  <2>1. "tcp" \in {"owner", "tcp"} /\ "owner" \in {"owner", "tcp"} /\ "owner" # "tcp"
    OBVIOUS
  <2> DEFINE b == st.pipe["tcp"].bytes
  <2>2. /\ k \in 0..Len(b) /\ Len(b) \in Nat
        /\ data = SubSeq(b, 1, k) /\ Len(data) = k
        /\ z \in PipeSet /\ z["owner"] = st.pipe["owner"]
        /\ z["tcp"].bytes = SubSeq(b, k + 1, Len(b)) /\ Len(z["tcp"].bytes) = Len(b) - k
    BY ONLY <1>1, <1>2, <2>1, PipeRead
  <2> HIDE DEF b, k, z, data
  <2>3. Len(b) - k \in Nat /\ Len(b) - k =< Len(b) /\ k \in Nat
    BY <2>2
  <2> QED BY <2>2, <2>3 DEF b
<1> HIDE DEF k, z, data
<1>4. data = Excerpt(w, k) /\ w + k =< n /\ Outward(w + k, c, z, n)
  <2>1. Outward(w, c, st.pipe, n)
    BY DEF SockOk, Whole
  <2> HIDE DEF w
  <2> QED BY <1>1, <1>2, <1>3, <2>1, OutwardGiven
<1>5. /\ Fine(v, r.tcp, n) /\ Onward(u, v) /\ v.receiver = u.receiver
  <2>1. CASE u.active
    <3>1. v = connection_write(u, Excerpt(u.sender.stream.bytes_written, k))
      BY <1>4
    <3>2. u.sender.stream.bytes_written + k =< n /\ k \in Nat
      BY <1>3, <1>4
    <3> HIDE DEF v, u
    <3> QED BY ONLY <1>1, <2>1, <3>1, <3>2, WriteMoves
  <2>2. CASE ~u.active
    <3>1. v = u
      BY <2>2 DEF connection_write
    <3> HIDE DEF v
    <3> QED BY <1>1, <3>1, FlagMoves
  <2> QED BY <2>1, <2>2
<1>6. v \in ConnectionSet /\ v.sender.stream.bytes_written \in Nat /\ ended \in BOOLEAN
  <2>1. v \in ConnectionSet /\ v.sender.stream \in StreamSet
    BY <1>5, FineParts
  <2>2. st.s.thread_eof \in BOOLEAN
    BY <1>1 DEF SockSet
  <2> QED BY <2>1, <2>2 DEF StreamSet, ReadsEof
<1> HIDE DEF v, ended
<1>7. /\ after \in [s : SockSet, pipe : PipeSet] /\ after.pipe = z /\ after.s.tcp = v
      /\ after.s.in = st.s.in /\ after.s.out = st.s.out /\ after.s.at = st.s.at
  BY <1>1, <1>3, <1>6 DEF SockSet
<1> HIDE DEF after
<1>8. /\ Wire(after.s, r, n, m) /\ Roomy(c, z)
      /\ Inward(Popped(inbound(v.receiver)), c, z)
  <2>1. Wire(after.s, r, n, m)
    BY <1>1, <1>5, <1>7, SelfGoes
  <2>2. Roomy(c, z)
    <3>1. Roomy(c, st.pipe)
      BY DEF SockOk, Whole
    <3>2. Len(z["tcp"].bytes) =< PipeCapacity
      BY <1>3, <3>1, PipeAssumption DEF Roomy
    <3> QED BY <1>3, <3>1, <3>2 DEF Roomy
  <2>3. Inward(Popped(inbound(v.receiver)), c, z)
    BY <1>3, <1>5 DEF SockOk, Whole, Inward
  <2> QED BY <2>1, <2>2, <2>3
<1>9. CASE taken = Len(data)
  <2>1. v.sender.stream.bytes_written = w + k
    BY <1>2, <1>3, <1>6, <1>9, SMTT(30)
  <2>2. SockOk(after, c, r, n, m)
    BY <1>1, <1>4, <1>7, <1>8, <2>1 DEF SockOk, Whole
  <2>3. ReadOwner(st) \in {EndOutbound(after), after}
    BY <1>9 DEF ReadOwner, after, v, ended, z, data, limit
  <2> QED BY <2>2, <2>3, EndOutboundKeeps
<1>10. CASE taken # Len(data)
  <2> DEFINE t == Fail(after)
  <2>1. ReadOwner(st) = t
    BY <1>10 DEF ReadOwner, after, v, ended, z, data, limit
  <2>2. t = [after EXCEPT !.s.at = "failed"]
    BY DEF Fail
  <2> HIDE DEF t
  <2>3. /\ t \in [s : SockSet, pipe : PipeSet] /\ t.pipe = z /\ t.s.tcp = v
        /\ t.s.in = after.s.in /\ t.s.out = after.s.out /\ t.s.at = "failed"
    BY <1>7, <2>2 DEF SockSet
  <2>4. Wire(t.s, r, n, m)
    BY <1>7, <1>8, <2>3 DEF Wire
  <2>5. SockOk(t, c, r, n, m)
    BY <1>1, <1>8, <2>3, <2>4 DEF SockOk, Whole
  <2> QED BY <2>1, <2>5
<1> QED BY <1>9, <1>10

\* The four rules are asked one after the other.
LEMMA SocketEnlistsFour ==
    ASSUME NEW rules, NEW st
    PROVE  SocketLoop!SetUp(rules, st) =
             LET a1 == SocketLoop!Enlist([rules |-> rules, st |-> st, polled |-> {}], 1)
                 a2 == SocketLoop!Enlist(a1, 2)
                 a3 == SocketLoop!Enlist(a2, 3)
             IN  SocketLoop!Enlist(a3, 4)
<1> DEFINE S(acc, r) == SocketLoop!Enlist(acc, r)
           a0 == [rules |-> rules, st |-> st, polled |-> {}]
           a1 == S(a0, 1)
           a2 == S(a1, 2)
           a3 == S(a2, 3)
           a4 == S(a3, 4)
           R == << 1, 2, 3, 4 >>
           Steps(f) == f = [n \in 0..Len(R) |-> IF n = 0 THEN a0 ELSE S(f[n - 1], R[n])]
           g == [n \in 0..4 |-> IF n = 0 THEN a0 ELSE IF n = 1 THEN a1 ELSE IF n = 2 THEN a2
                                ELSE IF n = 3 THEN a3 ELSE a4]
           h == CHOOSE f : Steps(f)
<1>1. SocketLoop!SetUp(rules, st) = h[Len(R)]
  BY Zenon DEF SocketLoop!SetUp
<1>2. Len(R) = 4 /\ R[1] = 1 /\ R[2] = 2 /\ R[3] = 3 /\ R[4] = 4
  OBVIOUS
<1> HIDE DEF S, R, a0
<1>3. Steps(g)
  <2>1. g[0] = a0 /\ g[1] = a1 /\ g[2] = a2 /\ g[3] = a3 /\ g[4] = a4
    OBVIOUS
  <2> HIDE DEF g
  <2>2. \A n \in 0..4 : g[n] = IF n = 0 THEN a0 ELSE S(g[n - 1], R[n])
    <3> TAKE n \in 0..4
    <3>1. n = 0 \/ n = 1 \/ n = 2 \/ n = 3 \/ n = 4
      OBVIOUS
    <3> QED BY <1>2, <2>1, <3>1
  <2>3. g = [n \in 0..4 |-> g[n]]
    BY DEF g
  <2>4. [n \in 0..4 |-> g[n]] = [n \in 0..4 |-> IF n = 0 THEN a0 ELSE S(g[n - 1], R[n])]
    BY <2>2, Zenon
  <2> QED BY <1>2, <2>3, <2>4
<1> HIDE DEF g, Steps
<1>4. Steps(h)
  BY <1>3, Zenon
<1> HIDE DEF h
<1>5. h[0] = a0 /\ \A n \in 1..4 : h[n] = S(h[n - 1], R[n])
  BY <1>2, <1>4 DEF Steps
<1>6. h[4] = a4
  BY <1>2, <1>5
<1> QED BY <1>1, <1>2, <1>6 DEF S, a0

\* The four rules are called back one after the other.
LEMMA SocketServesFour ==
    ASSUME NEW now
    PROVE  SocketLoop!Dispatch(now) =
             LET a1 == SocketLoop!Serve(now, 1)
                 a2 == SocketLoop!Serve(a1, 2)
                 a3 == SocketLoop!Serve(a2, 3)
             IN  SocketLoop!Serve(a3, 4)
<1> DEFINE S(acc, r) == SocketLoop!Serve(acc, r)
           a0 == now
           a1 == S(a0, 1)
           a2 == S(a1, 2)
           a3 == S(a2, 3)
           a4 == S(a3, 4)
           R == << 1, 2, 3, 4 >>
           Steps(f) == f = [n \in 0..Len(R) |-> IF n = 0 THEN a0 ELSE S(f[n - 1], R[n])]
           g == [n \in 0..4 |-> IF n = 0 THEN a0 ELSE IF n = 1 THEN a1 ELSE IF n = 2 THEN a2
                                ELSE IF n = 3 THEN a3 ELSE a4]
           h == CHOOSE f : Steps(f)
<1>1. SocketLoop!Dispatch(now) = h[Len(R)]
  BY Zenon DEF SocketLoop!Dispatch
<1>2. Len(R) = 4 /\ R[1] = 1 /\ R[2] = 2 /\ R[3] = 3 /\ R[4] = 4
  OBVIOUS
<1> HIDE DEF S, R, a0
<1>3. Steps(g)
  <2>1. g[0] = a0 /\ g[1] = a1 /\ g[2] = a2 /\ g[3] = a3 /\ g[4] = a4
    OBVIOUS
  <2> HIDE DEF g
  <2>2. \A n \in 0..4 : g[n] = IF n = 0 THEN a0 ELSE S(g[n - 1], R[n])
    <3> TAKE n \in 0..4
    <3>1. n = 0 \/ n = 1 \/ n = 2 \/ n = 3 \/ n = 4
      OBVIOUS
    <3> QED BY <1>2, <2>1, <3>1
  <2>3. g = [n \in 0..4 |-> g[n]]
    BY DEF g
  <2>4. [n \in 0..4 |-> g[n]] = [n \in 0..4 |-> IF n = 0 THEN a0 ELSE S(g[n - 1], R[n])]
    BY <2>2, Zenon
  <2> QED BY <1>2, <2>3, <2>4
<1> HIDE DEF g, Steps
<1>4. Steps(h)
  BY <1>3, Zenon
<1> HIDE DEF h
<1>5. h[0] = a0 /\ \A n \in 1..4 : h[n] = S(h[n - 1], R[n])
  BY <1>2, <1>4 DEF Steps
<1>6. h[4] = a4
  BY <1>2, <1>5
<1> QED BY <1>1, <1>2, <1>6 DEF S, a0

\* What wait_next_event works on, before the poll and after it.
Asked(S) == [rules : SUBSET (1..4), st : S, polled : SUBSET (1..4)]
Called(S) ==
    [rules : SUBSET (1..4), st : S, polled : SUBSET (1..4),
     ready : SUBSET (1..4), hungup : SUBSET (1..4)]

\* A rule is asked, or cancelled because its descriptor is done.
LEMMA SocketEnlists ==
    ASSUME NEW c, NEW r, NEW n, NEW m, NEW acc \in Asked([s : SockSet, pipe : PipeSet]),
           SockOk(acc.st, c, r, n, m), NEW rule \in 1..4
    PROVE  LET new == SocketLoop!Enlist(acc, rule)
           IN  new \in Asked([s : SockSet, pipe : PipeSet]) /\ SockOk(new.st, c, r, n, m)
<1> DEFINE y == IF rule = 2 THEN EndOutbound(acc.st) ELSE acc.st
           new == SocketLoop!Enlist(acc, rule)
<1>1. SockOk(y, c, r, n, m) /\ y \in [s : SockSet, pipe : PipeSet]
  <2>1. SockOk(EndOutbound(acc.st), c, r, n, m)
    BY EndOutboundKeeps
  <2>2. SockOk(y, c, r, n, m)
    BY <2>1
  <2> QED BY <2>2 DEF SockOk
<1>2. new \in {acc, [acc EXCEPT !.rules = acc.rules \ {rule}, !.st = y],
               [acc EXCEPT !.polled = acc.polled \cup {rule}]}
  BY DEF SocketLoop!Enlist, Asked
<1> HIDE DEF y, new
<1>3. CASE new = acc
  BY <1>3 DEF new
<1>4. CASE new = [acc EXCEPT !.rules = acc.rules \ {rule}, !.st = y]
  <2>1. new \in Asked([s : SockSet, pipe : PipeSet]) /\ new.st = y
    BY <1>1, <1>4 DEF Asked
  <2> QED BY <1>1, <2>1 DEF new
<1>5. CASE new = [acc EXCEPT !.polled = acc.polled \cup {rule}]
  <2>1. new \in Asked([s : SockSet, pipe : PipeSet]) /\ new.st = acc.st
    BY <1>5 DEF Asked
  <2> QED BY <2>1 DEF new
<1> QED BY <1>2, <1>3, <1>4, <1>5

\* A rule is called back, or cancelled because its descriptor has hung up.
LEMMA SocketServes ==
    ASSUME NEW c, NEW r, NEW n, NEW m, NEW acc \in Called([s : SockSet, pipe : PipeSet]),
           SockOk(acc.st, c, r, n, m), NEW rule \in 1..4,
           rule = 1 /\ 1 \in acc.ready => acc.st.s.in # << >>
    PROVE  LET new == SocketLoop!Serve(acc, rule)
           IN  new \in Called([s : SockSet, pipe : PipeSet]) /\ SockOk(new.st, c, r, n, m)
<1> DEFINE y == SocketCallback(rule, acc.st)
           z == IF rule = 2 THEN EndOutbound(acc.st) ELSE acc.st
           new == SocketLoop!Serve(acc, rule)
<1>1. SockOk(z, c, r, n, m) /\ z \in [s : SockSet, pipe : PipeSet]
  <2>1. SockOk(EndOutbound(acc.st), c, r, n, m)
    BY EndOutboundKeeps
  <2>2. SockOk(z, c, r, n, m)
    BY <2>1
  <2> QED BY <2>2 DEF SockOk
<1>2. ASSUME acc.st.s.at # "failed", rule \in acc.ready
      PROVE  SockOk(y, c, r, n, m) /\ y \in [s : SockSet, pipe : PipeSet]
  <2>1. rule = 1 \/ rule = 2 \/ rule = 3 \/ rule = 4
    OBVIOUS
  <2>2. CASE rule = 1
    <3>1. y = ReadDatagram(acc.st) /\ acc.st.s.in # << >>
      BY <1>2, <2>2 DEF SocketCallback
    <3> QED BY <3>1, ReadDatagramKeeps DEF SockOk
  <2>3. CASE rule = 2
    <3>1. y = ReadOwner(acc.st)
      BY <2>3 DEF SocketCallback
    <3> QED BY <1>2, <3>1, ReadOwnerKeeps DEF SockOk
  <2>4. CASE rule = 3
    <3>1. y = WriteOwner(acc.st)
      BY <2>4 DEF SocketCallback
    <3> QED BY <3>1, WriteOwnerKeeps DEF SockOk
  <2>5. CASE rule = 4
    <3>1. y = WriteDatagrams(acc.st)
      BY <2>5 DEF SocketCallback
    <3> QED BY <3>1, WriteDatagramsKeeps DEF SockOk
  <2> QED BY <2>1, <2>2, <2>3, <2>4, <2>5
<1>3. \/ new = acc
      \/ new = [acc EXCEPT !.st = y] /\ acc.st.s.at # "failed" /\ rule \in acc.ready
      \/ new = [acc EXCEPT !.rules = acc.rules \ {rule}, !.st = z]
  BY DEF SocketLoop!Serve, Called
<1> HIDE DEF y, z, new
<1>4. CASE new = acc
  BY <1>4 DEF new
<1>5. CASE new = [acc EXCEPT !.st = y] /\ acc.st.s.at # "failed" /\ rule \in acc.ready
  <2>1. new \in Called([s : SockSet, pipe : PipeSet]) /\ new.st = y
    BY <1>2, <1>5 DEF Called
  <2> QED BY <1>2, <1>5, <2>1 DEF new
<1>6. CASE new = [acc EXCEPT !.rules = acc.rules \ {rule}, !.st = z]
  <2>1. new \in Called([s : SockSet, pipe : PipeSet]) /\ new.st = z
    BY <1>1, <1>6 DEF Called
  <2> QED BY <1>1, <2>1 DEF new
<1> QED BY <1>3, <1>4, <1>5, <1>6

\* A whole wait_next_event of the socket's loop.
LEMMA SocketWaits ==
    ASSUME NEW c, NEW r, NEW n, NEW m, NEW st, SockOk(st, c, r, n, m),
           NEW rules \in SUBSET (1..4)
    PROVE  LET turn == SocketLoop!wait_next_event(rules, st)
           IN  turn.rules \in SUBSET (1..4) /\ SockOk(turn.st, c, r, n, m)
<1> DEFINE S == [s : SockSet, pipe : PipeSet]
           Fit(a) == a \in Asked(S) /\ SockOk(a.st, c, r, n, m)
           Set(a) == a \in Called(S) /\ SockOk(a.st, c, r, n, m)
           a0 == [rules |-> rules, st |-> st, polled |-> {}]
           a1 == SocketLoop!Enlist(a0, 1)
           a2 == SocketLoop!Enlist(a1, 2)
           a3 == SocketLoop!Enlist(a2, 3)
           a4 == SocketLoop!Enlist(a3, 4)
           b0 == SocketLoop!Poll(a4)
           b1 == SocketLoop!Serve(b0, 1)
           b2 == SocketLoop!Serve(b1, 2)
           b3 == SocketLoop!Serve(b2, 3)
           b4 == SocketLoop!Serve(b3, 4)
           turn == SocketLoop!wait_next_event(rules, st)
<1>1. turn.rules = b4.rules /\ turn.st = b4.st
  BY SocketEnlistsFour, SocketServesFour DEF SocketLoop!wait_next_event, SocketLoop!Outcome
<1>2. Fit(a0)
  <2>1. st \in S
    BY DEF SockOk
  <2> HIDE DEF S
  <2> QED BY <2>1 DEF Asked
<1> HIDE DEF a0, turn
<1>3. \A a, k : Fit(a) /\ k \in 1..4 => Fit(SocketLoop!Enlist(a, k))
  BY SocketEnlists
<1>4. \A a, k : Set(a) /\ k \in 1..4 /\ (k = 1 /\ 1 \in a.ready => a.st.s.in # << >>) =>
                    Set(SocketLoop!Serve(a, k))
  BY SocketServes
<1>5. 1 \in 1..4 /\ 2 \in 1..4 /\ 3 \in 1..4 /\ 4 \in 1..4 /\ 2 # 1 /\ 3 # 1 /\ 4 # 1
  OBVIOUS
<1> HIDE DEF Fit, Set, S
<1>6. Fit(a1)
  BY <1>2, <1>3, <1>5
<1>7. Fit(a2)
  BY <1>3, <1>5, <1>6
<1>8. Fit(a3)
  BY <1>3, <1>5, <1>7
<1>9. Fit(a4)
  BY <1>3, <1>5, <1>8
<1> HIDE DEF a4
<1>10. Set(b0) /\ (1 \in b0.ready => b0.st.s.in # << >>)
  <2>1. a4 \in Asked(S) /\ SockOk(a4.st, c, r, n, m)
    BY <1>9 DEF Fit
  <2> DEFINE X == {k \in a4.polled : SocketReady(k, a4.st)}
             Y == {k \in a4.rules : k \in {2, 3} /\ HungUp(a4.st.pipe, "tcp")}
  <2>2. /\ X \subseteq a4.polled /\ Y \subseteq a4.rules
        /\ 1 \in X => a4.st.s.in # << >>
    <3>1. SocketReady(1, a4.st) <=> a4.st.s.in # << >>
      BY DEF SocketReady
    <3>2. 1 \in X => SocketReady(1, a4.st)
      OBVIOUS
    <3>3. X \subseteq a4.polled /\ Y \subseteq a4.rules
      OBVIOUS
    <3> QED BY <3>1, <3>2, <3>3
  <2>3. b0 = [rules |-> a4.rules, st |-> a4.st, polled |-> a4.polled, ready |-> X, hungup |-> Y]
    BY Zenon DEF SocketLoop!Poll
  <2> HIDE DEF X, Y
  <2> HIDE DEF b0
  <2>4. /\ b0.ready = X /\ b0.st = a4.st /\ b0 \in Called(S)
    BY <2>1, <2>2, <2>3 DEF Asked, Called
  <2> QED BY <2>1, <2>2, <2>4 DEF Set
<1> HIDE DEF b0
<1>11. Set(b1)
  BY <1>4, <1>5, <1>10
<1>12. Set(b2)
  BY <1>4, <1>5, <1>11
<1>13. Set(b3)
  BY <1>4, <1>5, <1>12
<1>14. Set(b4)
  BY <1>4, <1>5, <1>13
<1> HIDE DEF b4
<1> QED BY <1>1, <1>14 DEF Set, Called, turn

\* What follows the loop: only the phase changes, and the pipe is shut down.
LEMMA LeaveLoopKeeps ==
    ASSUME NEW c, NEW r, NEW n, NEW m, NEW st, SockOk(st, c, r, n, m), st.s.at # "failed"
    PROVE  SockOk(LeaveLoop(st), c, r, n, m)
<1> DEFINE y == ShutBoth(st.pipe)
           t == LeaveLoop(st)
<1>1. st \in [s : SockSet, pipe : PipeSet] /\ st.s \in SockSet /\ st.pipe \in PipeSet
  BY SockParts
<1>2. y \in PipeSet /\ \A e \in {"owner", "tcp"} : y[e].bytes = st.pipe[e].bytes
  BY <1>1 DEF PipeSet, ShutBoth
<1>3. \/ t = [st EXCEPT !.s.at = "running"]
      \/ t = [st EXCEPT !.s.at = "over", !.pipe = y]
  BY <1>1 DEF LeaveLoop
<1> HIDE DEF y, t
<1>4. /\ t \in [s : SockSet, pipe : PipeSet] /\ t.s.tcp = st.s.tcp
      /\ t.s.in = st.s.in /\ t.s.out = st.s.out
      /\ \A e \in {"owner", "tcp"} : t.pipe[e].bytes = st.pipe[e].bytes
  <2>1. CASE t = [st EXCEPT !.s.at = "running"]
    <3>1. /\ t \in [s : SockSet, pipe : PipeSet] /\ t.s.tcp = st.s.tcp
          /\ t.s.in = st.s.in /\ t.s.out = st.s.out /\ t.pipe = st.pipe
      BY <1>1, <2>1 DEF SockSet
    <3> QED BY <3>1
  <2>2. CASE t = [st EXCEPT !.s.at = "over", !.pipe = y]
    <3>1. /\ t \in [s : SockSet, pipe : PipeSet] /\ t.s.tcp = st.s.tcp
          /\ t.s.in = st.s.in /\ t.s.out = st.s.out /\ t.pipe = y
      BY <1>1, <1>2, <2>2 DEF SockSet
    <3> QED BY <1>2, <3>1
  <2> QED BY <1>3, <2>1, <2>2
<1>5. SockOk(t, c, r, n, m)
  BY <1>4, SameTcpKeeps
<1> QED BY <1>5 DEF t

\* Time passes for the connection.
LEMMA SockTickKeeps ==
    ASSUME NEW c, NEW r, NEW n, NEW m, NEW st, SockOk(st, c, r, n, m), st.s.at # "failed",
           NEW ms \in Nat
    PROVE  SockOk([st EXCEPT !.s.tcp = connection_tick(@, ms)], c, r, n, m)
<1> DEFINE v == connection_tick(st.s.tcp, ms)
           t == [st EXCEPT !.s.tcp = connection_tick(@, ms)]
<1>1. /\ st \in [s : SockSet, pipe : PipeSet] /\ st.s \in SockSet
      /\ Linked(st.s.tcp, r.tcp, n, m) /\ Ordered(inbound(st.s.tcp.receiver))
  BY SockParts
<1>2. Fine(v, r.tcp, n) /\ Onward(st.s.tcp, v) /\ Kept(st.s.tcp, v)
  BY <1>1, TickKeeps
<1>3. v \in ConnectionSet
  BY <1>2, FineParts
<1>4. t = [st EXCEPT !.s.tcp = v]
  BY <1>1 DEF SockSet
<1> HIDE DEF v, t
<1>5. /\ t \in [s : SockSet, pipe : PipeSet] /\ t.pipe = st.pipe /\ t.s.tcp = v
      /\ t.s.in = st.s.in /\ t.s.out = st.s.out /\ t.s.at = st.s.at
  BY <1>1, <1>3, <1>4 DEF SockSet
<1>6. SockOk(t, c, r, n, m)
  BY <1>2, <1>5, SockKeeps
<1> QED BY <1>6 DEF t

\* A turn of _tcp_loop after what its wait_next_event has done.
LEMMA LoopTurnKeeps ==
    ASSUME NEW c, NEW r, NEW n, NEW m, NEW st, NEW turn, turn.rules \in SUBSET (1..4),
           SockOk(turn.st, c, r, n, m), NEW ms \in Nat
    PROVE  SockOk(LoopTurn(st, turn, ms), c, r, n, m)
<1> DEFINE after == [turn.st EXCEPT !.s.rules = turn.rules]
<1>1. turn.st \in [s : SockSet, pipe : PipeSet]
  BY SockParts
<1>2. /\ after \in [s : SockSet, pipe : PipeSet] /\ after.pipe = turn.st.pipe
      /\ after.s.tcp = turn.st.s.tcp /\ after.s.in = turn.st.s.in
      /\ after.s.out = turn.st.s.out /\ after.s.at = turn.st.s.at
  BY <1>1 DEF SockSet
<1>3. LoopTurn(st, turn, ms) \in
          IF after.s.at = "failed" THEN {after}
          ELSE {LeaveLoop(after), [after EXCEPT !.s.tcp = connection_tick(@, ms)]}
  BY DEF LoopTurn
<1> HIDE DEF after
<1>4. SockOk(after, c, r, n, m)
  BY <1>2, SameTcpKeeps
<1>5. CASE after.s.at = "failed"
  BY <1>3, <1>4, <1>5
<1>6. CASE after.s.at # "failed"
  BY <1>3, <1>4, <1>6, LeaveLoopKeeps, SockTickKeeps
<1> QED BY <1>5, <1>6

\* The TCP thread's turn, in the owner's thread while it connects.
LEMMA TurnStep == EndpointInv /\ Turn => EndpointInv'
<1> SUFFICES ASSUME EndpointInv, Turn PROVE EndpointInv'
  OBVIOUS
<1> DEFINE n == Len(env.typed)
           m == Len(env.bytes)
           st == [s |-> sock, pipe |-> pipe]
           turn == SocketLoop!wait_next_event(sock.rules, st)
           result == Turned(st, turn)
<1>1. SockOk(st, copy, peer, n, m)
  BY DEF EndpointInv, SockOk, Whole
<1>2. sock.rules \in SUBSET (1..4) /\ sock.at \in {"opening", "running"}
  BY DEF EndpointInv, Whole, SockSet, Turn, TurnRuns
<1>3. turn.rules \in SUBSET (1..4) /\ SockOk(turn.st, copy, peer, n, m)
  BY <1>1, <1>2, SocketWaits
<1>4. sock' = result.st.s /\ pipe' = result.st.pipe /\ UNCHANGED <<env, copy, peer>>
  BY DEF Turn, Becomes, TurnResult
<1> HIDE DEF turn
<1>5. SockOk(result.st, copy, peer, n, m)
  <2>1. \E ms \in {0, 1} : result.st \in {LoopTurn(st, turn, ms), LeaveLoop(st)}
    BY DEF Turned
  <2>2. SockOk(LeaveLoop(st), copy, peer, n, m)
    <3>1. st.s.at # "failed"
      BY <1>2
    <3> HIDE DEF st, n, m
    <3> QED BY <1>1, <3>1, LeaveLoopKeeps
  <2>3. \A ms \in {0, 1} : SockOk(LoopTurn(st, turn, ms), copy, peer, n, m)
    <3> HIDE DEF st, n, m
    <3> QED BY <1>3, LoopTurnKeeps
  <2> QED BY <2>1, <2>2, <2>3
<1> HIDE DEF result
<1>6. Whole(sock', copy, pipe', peer, n, m)
  BY <1>4, <1>5 DEF SockOk
<1> QED BY <1>4, <1>6 DEF EndpointInv

-----------------------------------------------------------------------------
(* A turn of the owner's loop.                                              *)

\* The state of the copying loop, while the socket is s and the peer r.
CopyOk(st, s, r, n, m) ==
    /\ st \in [c : CopySet, pipe : PipeSet]
    /\ Whole(s, st.c, st.pipe, r, n, m)

\* A change of the copy and the pipe by which both streams stay whole.
LEMMA CopyKeeps ==
    ASSUME NEW s, NEW r, NEW n, NEW m, NEW st, CopyOk(st, s, r, n, m), s.at # "failed",
           NEW t \in [c : CopySet, pipe : PipeSet], Roomy(t.c, t.pipe),
           Outward(s.tcp.sender.stream.bytes_written, t.c, t.pipe, n),
           Inward(Popped(inbound(s.tcp.receiver)), t.c, t.pipe)
    PROVE  CopyOk(t, s, r, n, m)
BY DEF CopyOk, Whole

\* A change of the copy that leaves all bytes where they are, and ends its streams at most.
LEMMA SameBytesKeeps ==
    ASSUME NEW s, NEW r, NEW n, NEW m, NEW st, CopyOk(st, s, r, n, m),
           NEW t \in [c : CopySet, pipe : PipeSet],
           t.c.input = st.c.input, t.c.output = st.c.output,
           \A e \in {"owner", "tcp"} : t.pipe[e].bytes = st.pipe[e].bytes,
           t.c.outbound \in {st.c.outbound, end_input(st.c.outbound)},
           t.c.inbound \in {st.c.inbound, end_input(st.c.inbound)}
    PROVE  CopyOk(t, s, r, n, m)
<1>1. /\ st.c \in CopySet /\ t.c \in CopySet /\ t.pipe \in PipeSet
      /\ s \in SockSet /\ r \in PeerSet /\ Wire(s, r, n, m)
  BY DEF CopyOk, Whole
<1>2. \A o \in StreamSet : /\ end_input(o).buffer = o.buffer /\ end_input(o).error = o.error
                           /\ end_input(o).capacity = o.capacity /\ end_input(o).input_ended
  BY DEF StreamSet, end_input
<1>3. /\ t.c.outbound.buffer = st.c.outbound.buffer /\ t.c.inbound.buffer = st.c.inbound.buffer
      /\ t.c.outbound.error = st.c.outbound.error /\ t.c.inbound.error = st.c.inbound.error
      /\ t.c.outbound.capacity = st.c.outbound.capacity
      /\ t.c.inbound.capacity = st.c.inbound.capacity
      /\ st.c.outbound.input_ended => t.c.outbound.input_ended
      /\ st.c.inbound.input_ended => t.c.inbound.input_ended
  BY <1>1, <1>2 DEF CopySet
<1>4. Roomy(t.c, t.pipe)
  BY <1>3 DEF CopyOk, Whole, Roomy
<1>5. s.at = "failed" \/ Outward(s.tcp.sender.stream.bytes_written, t.c, t.pipe, n)
  BY <1>3 DEF CopyOk, Whole, Outward
<1>6. Inward(Popped(inbound(s.tcp.receiver)), t.c, t.pipe)
  BY <1>3 DEF CopyOk, Whole, Inward
<1> QED BY <1>1, <1>4, <1>5, <1>6 DEF CopyOk, Whole

\* What both directions of the copy hold: numbers and sequences.
LEMMA CopyParts ==
    ASSUME NEW c \in CopySet, NEW p \in PipeSet
    PROVE  /\ c.input \in Seq(Nat) /\ Len(c.input) \in Nat
           /\ c.output \in Seq(Nat) /\ Len(c.output) \in Nat
           /\ \A o \in {c.outbound, c.inbound} :
                 /\ o \in StreamSet /\ o.buffer \in Seq(Nat) /\ Len(o.buffer) \in Nat
                 /\ o.capacity \in Nat
           /\ \A e \in {"owner", "tcp"} : p[e].bytes \in Seq(Nat) /\ Len(p[e].bytes) \in Nat
<1>1. /\ c.input \in Seq(Nat) /\ c.output \in Seq(Nat)
      /\ \A o \in {c.outbound, c.inbound} : o \in StreamSet
      /\ \A e \in {"owner", "tcp"} : p[e].bytes \in Seq(Nat)
  BY DEF CopySet, PipeSet
<1>2. \A o \in StreamSet : o.buffer \in Seq(Nat) /\ o.capacity \in Nat
  BY DEF StreamSet
<1>3. \A q \in Seq(Nat) : Len(q) \in Nat
  OBVIOUS
<1>4. Len(c.input) \in Nat /\ Len(c.output) \in Nat
  BY <1>1, <1>3
<1>5. \A o \in {c.outbound, c.inbound} : Len(o.buffer) \in Nat
  BY <1>1, <1>2, <1>3
<1>6. \A e \in {"owner", "tcp"} : Len(p[e].bytes) \in Nat
  BY <1>1, <1>3
<1> QED BY ONLY <1>1, <1>2, <1>4, <1>5, <1>6

\* The first k bytes of stdin go to the outbound stream, which takes them unless it ended.
LEMMA InputTaken ==
    ASSUME NEW w \in Nat, NEW n \in Nat, NEW c \in CopySet, NEW p \in PipeSet,
           Outward(w, c, p, n), NEW k \in 0..Len(c.input), NEW x \in CopySet,
           x.input = SubSeq(c.input, k + 1, Len(c.input)),
           x.outbound.buffer = IF c.outbound.input_ended THEN c.outbound.buffer
                               ELSE c.outbound.buffer \o SubSeq(c.input, 1, k),
           c.outbound.input_ended => x.outbound.input_ended
    PROVE  Outward(w, x, p, n)
<1> DEFINE a == Len(p["tcp"].bytes)
           b == Len(c.outbound.buffer)
           l == Len(c.input)
           s == c.input
<1>1. /\ a \in Nat /\ b \in Nat /\ l \in Nat /\ s \in Seq(Nat) /\ k \in 0..l /\ l = Len(s)
      /\ c.outbound.buffer \in Seq(Nat)
      /\ w + a + b + l =< n /\ p["tcp"].bytes = Excerpt(w, a)
      /\ c.outbound.buffer = Excerpt(w + a, b) /\ s = Excerpt(n - l, l)
      /\ c.outbound.input_ended \/ w + a + b + l = n
  BY CopyParts DEF Outward
<1>2. n - l \in Nat /\ w + a \in Nat
  <2> HIDE DEF a, b, l
  <2> QED BY <1>1
<1>3. /\ SubSeq(s, 1, k) \in Seq(Nat) /\ SubSeq(s, 1, k) = Excerpt(n - l, k)
      /\ Len(SubSeq(s, 1, k)) = k
      /\ SubSeq(s, k + 1, l) = Excerpt(n - l + k, l - k) /\ Len(SubSeq(s, k + 1, l)) = l - k
  <2>1. s \in Seq(Nat) /\ k \in 0..Len(s) /\ s = Excerpt(n - l, Len(s)) /\ l = Len(s)
    BY <1>1
  <2> HIDE DEF s, l
  <2> QED BY ONLY <1>2, <2>1, PartAt
<1>4. /\ x.input = Excerpt(n - (l - k), l - k) /\ Len(x.input) = l - k
      /\ n - l + k = n - (l - k)
  <2>1. x.input = SubSeq(s, k + 1, l)
    BY DEF s, l
  <2> HIDE DEF s, l
  <2>2. n - l + k = n - (l - k)
    BY <1>1
  <2> QED BY <1>3, <2>1, <2>2
<1>5. CASE c.outbound.input_ended
  <2>1. w + a + b + (l - k) =< n
    <3> HIDE DEF a, b, l, s
    <3> QED BY <1>1
  <2>2. x.outbound.buffer = c.outbound.buffer /\ x.outbound.input_ended
    BY <1>5
  <2> HIDE DEF l, s
  <2> QED BY <1>1, <1>4, <2>1, <2>2 DEF Outward
<1>6. CASE ~c.outbound.input_ended
  <2> DEFINE y == c.outbound.buffer \o SubSeq(s, 1, k)
  <2>1. x.outbound.buffer = y
    BY <1>6
  <2>2. w + a + b + l = n /\ n - l = w + a + b
    <3> HIDE DEF a, b, l, s
    <3> QED BY <1>1, <1>6, SMTT(30)
  <2>3. y = Excerpt(w + a, b + k) /\ Len(y) = b + k
    <3> DEFINE o == c.outbound.buffer
               z == SubSeq(s, 1, k)
    <3>1. /\ o \in Seq(Nat) /\ z \in Seq(Nat) /\ Len(z) = k /\ o = Excerpt(w + a, Len(o))
          /\ z = Excerpt(w + a + Len(o), Len(z)) /\ b = Len(o)
      BY <1>1, <1>3, <2>2
    <3> HIDE DEF o, z, a, b
    <3>2. o \o z = Excerpt(w + a, b + k) /\ Len(o \o z) = b + k
      BY ONLY <1>2, <3>1, JoinAt
    <3> QED BY <3>2 DEF o, z
  <2> HIDE DEF y
  <2>4. w + a + (b + k) + (l - k) = n
    <3> HIDE DEF a, b, l, s
    <3>1. w \in Nat /\ a \in Nat /\ b \in Nat /\ l \in Nat /\ k \in Nat
      BY <1>1
    <3> QED BY ONLY <2>2, <3>1
  <2>5. /\ Len(p["tcp"].bytes) = a /\ p["tcp"].bytes = Excerpt(w, a)
        /\ Len(x.outbound.buffer) = b + k /\ x.outbound.buffer = Excerpt(w + a, b + k)
    BY <1>1, <2>1, <2>3
  <2>6. w + a + (b + k) + (l - k) =< n
    <3> HIDE DEF a, b, l, s
    <3> QED BY <1>1, <2>2
  <2> HIDE DEF l, s, b, a
  <2> QED BY <1>4, <2>4, <2>5, <2>6 DEF Outward
<1> QED BY <1>5, <1>6

\* The first k bytes of the outbound stream go into the pipe.
LEMMA OutboundWritten ==
    ASSUME NEW w \in Nat, NEW n \in Nat, NEW c \in CopySet, NEW p \in PipeSet,
           Outward(w, c, p, n), NEW k \in 0..Len(c.outbound.buffer),
           NEW x \in CopySet, NEW z \in PipeSet,
           z["tcp"].bytes = p["tcp"].bytes \o SubSeq(c.outbound.buffer, 1, k),
           x.outbound.buffer = SubSeq(c.outbound.buffer, k + 1, Len(c.outbound.buffer)),
           x.input = c.input, c.outbound.input_ended => x.outbound.input_ended
    PROVE  Outward(w, x, z, n)
<1> DEFINE a == Len(p["tcp"].bytes)
           b == Len(c.outbound.buffer)
           l == Len(c.input)
           s == c.outbound.buffer
           u == p["tcp"].bytes
<1>1. /\ a \in Nat /\ b \in Nat /\ l \in Nat /\ s \in Seq(Nat) /\ u \in Seq(Nat)
      /\ k \in 0..b /\ b = Len(s) /\ a = Len(u)
      /\ w + a + b + l =< n /\ u = Excerpt(w, a)
      /\ s = Excerpt(w + a, b) /\ c.input = Excerpt(n - l, l)
      /\ c.outbound.input_ended \/ w + a + b + l = n
  BY CopyParts DEF Outward
<1>2. w + a \in Nat
  <2> HIDE DEF a
  <2> QED BY <1>1
<1>3. /\ SubSeq(s, 1, k) \in Seq(Nat) /\ SubSeq(s, 1, k) = Excerpt(w + a, k)
      /\ Len(SubSeq(s, 1, k)) = k
      /\ SubSeq(s, k + 1, b) = Excerpt(w + a + k, b - k) /\ Len(SubSeq(s, k + 1, b)) = b - k
  <2>1. s \in Seq(Nat) /\ k \in 0..Len(s) /\ s = Excerpt(w + a, Len(s)) /\ b = Len(s)
    BY <1>1
  <2> HIDE DEF s, b, a
  <2> QED BY ONLY <1>2, <2>1, PartAt
<1>4. z["tcp"].bytes = Excerpt(w, a + k) /\ Len(z["tcp"].bytes) = a + k
  <2> DEFINE v == SubSeq(s, 1, k)
  <2>1. /\ u \in Seq(Nat) /\ v \in Seq(Nat) /\ Len(v) = k /\ u = Excerpt(w, Len(u))
        /\ v = Excerpt(w + Len(u), Len(v)) /\ a = Len(u)
    BY <1>1, <1>3
  <2>2. z["tcp"].bytes = u \o v
    OBVIOUS
  <2> HIDE DEF u, v, a
  <2>3. u \o v = Excerpt(w, a + k) /\ Len(u \o v) = a + k
    BY ONLY w \in Nat, <2>1, JoinAt
  <2> QED BY <2>2, <2>3
<1>5. x.outbound.buffer = Excerpt(w + (a + k), b - k) /\ Len(x.outbound.buffer) = b - k
  <2>1. x.outbound.buffer = SubSeq(s, k + 1, b)
    OBVIOUS
  <2>2. w + a + k = w + (a + k)
    <3> HIDE DEF a
    <3> QED BY <1>1
  <2> HIDE DEF s, b, a
  <2> QED BY <1>3, <2>1, <2>2
<1>6. w + (a + k) + (b - k) + l = w + a + b + l
  <2> HIDE DEF a, b, l, s, u
  <2> QED BY <1>1
<1> HIDE DEF a, b, s, u
<1> QED BY <1>1, <1>4, <1>5, <1>6 DEF Outward

\* The first k bytes of the pipe go to the inbound stream, which takes them unless it ended.
LEMMA InboundTaken ==
    ASSUME NEW q \in Nat, NEW c \in CopySet, NEW p \in PipeSet, Inward(q, c, p),
           NEW k \in 0..Len(p["owner"].bytes), NEW x \in CopySet, NEW z \in PipeSet,
           z["owner"].bytes = SubSeq(p["owner"].bytes, k + 1, Len(p["owner"].bytes)),
           x.inbound.buffer = IF c.inbound.input_ended THEN c.inbound.buffer
                              ELSE c.inbound.buffer \o SubSeq(p["owner"].bytes, 1, k),
           x.output = c.output, c.inbound.input_ended => x.inbound.input_ended
    PROVE  Inward(q, x, z)
<1> DEFINE a == Len(c.output)
           b == Len(c.inbound.buffer)
           s == p["owner"].bytes
           l == Len(p["owner"].bytes)
<1>1. /\ a \in Nat /\ b \in Nat /\ l \in Nat /\ s \in Seq(Nat) /\ k \in 0..l /\ l = Len(s)
      /\ c.inbound.buffer \in Seq(Nat)
      /\ a + b + l =< q /\ c.output = Excerpt(0, a)
      /\ c.inbound.buffer = Excerpt(a, b) /\ s = Excerpt(q - l, l)
      /\ c.inbound.input_ended \/ a + b + l = q
  BY CopyParts DEF Inward
<1>2. q - l \in Nat
  <2> HIDE DEF a, b, l, s
  <2> QED BY <1>1
<1>3. /\ SubSeq(s, 1, k) \in Seq(Nat) /\ SubSeq(s, 1, k) = Excerpt(q - l, k)
      /\ Len(SubSeq(s, 1, k)) = k
      /\ SubSeq(s, k + 1, l) = Excerpt(q - l + k, l - k) /\ Len(SubSeq(s, k + 1, l)) = l - k
  <2>1. s \in Seq(Nat) /\ k \in 0..Len(s) /\ s = Excerpt(q - l, Len(s)) /\ l = Len(s)
    BY <1>1
  <2> HIDE DEF s, l
  <2> QED BY ONLY <1>2, <2>1, PartAt
<1>4. z["owner"].bytes = Excerpt(q - (l - k), l - k) /\ Len(z["owner"].bytes) = l - k
  <2>1. z["owner"].bytes = SubSeq(s, k + 1, l)
    BY DEF s, l
  <2> HIDE DEF s, l
  <2>2. q - l + k = q - (l - k)
    BY <1>1
  <2> QED BY <1>3, <2>1, <2>2
<1>5. Len(x.output) = a /\ x.output = Excerpt(0, a)
  BY <1>1
<1>6. CASE c.inbound.input_ended
  <2>1. a + b + (l - k) =< q
    <3> HIDE DEF a, b, l, s
    <3> QED BY <1>1
  <2>2. /\ x.inbound.buffer = Excerpt(a, b) /\ Len(x.inbound.buffer) = b
        /\ x.inbound.input_ended
    BY <1>1, <1>6
  <2> HIDE DEF l, s, a, b
  <2> QED BY <1>4, <1>5, <2>1, <2>2 DEF Inward
<1>7. CASE ~c.inbound.input_ended
  <2> DEFINE o == c.inbound.buffer
             v == SubSeq(s, 1, k)
  <2>1. x.inbound.buffer = o \o v
    BY <1>7
  <2>2. a + b + l = q /\ q - l = a + b
    <3> HIDE DEF a, b, l, s
    <3>1. a + b + l = q /\ a \in Nat /\ b \in Nat /\ l \in Nat
      BY <1>1, <1>7
    <3> QED BY ONLY <3>1
  <2>3. /\ o \in Seq(Nat) /\ v \in Seq(Nat) /\ Len(v) = k /\ o = Excerpt(a, Len(o))
        /\ v = Excerpt(a + Len(o), Len(v)) /\ b = Len(o)
    <3>1. b = Len(o) /\ o = Excerpt(a, b) /\ o \in Seq(Nat)
      BY <1>1
    <3> HIDE DEF o, v, a, b, l, s
    <3>2. v \in Seq(Nat) /\ Len(v) = k /\ v = Excerpt(a + b, k)
      BY <1>3, <2>2 DEF v
    <3> QED BY <3>1, <3>2
  <2>4. a + b + k + (l - k) = q /\ a + b + k + (l - k) =< q
    <3> HIDE DEF a, b, l, s
    <3> QED BY <1>1, <2>2
  <2> HIDE DEF o, v, a, b, l, s
  <2>5. x.inbound.buffer = Excerpt(a, b + k) /\ Len(x.inbound.buffer) = b + k
    BY ONLY <1>1, <2>1, <2>3, JoinAt, ZenonT(60)
  <2>6. a + (b + k) + (l - k) = q /\ a + (b + k) + (l - k) =< q
    BY <1>1, <2>4
  <2> QED BY <1>4, <1>5, <2>5, <2>6 DEF Inward
<1> QED BY <1>6, <1>7

\* The inbound stream is printed.
LEMMA OutputPrinted ==
    ASSUME NEW q \in Nat, NEW c \in CopySet, NEW p \in PipeSet, Inward(q, c, p),
           NEW x \in CopySet, x.output = c.output \o c.inbound.buffer,
           x.inbound.buffer = << >>, c.inbound.input_ended => x.inbound.input_ended
    PROVE  Inward(q, x, p)
<1> DEFINE a == Len(c.output)
           b == Len(c.inbound.buffer)
           l == Len(p["owner"].bytes)
<1>1. /\ a \in Nat /\ b \in Nat /\ l \in Nat
      /\ c.output \in Seq(Nat) /\ c.inbound.buffer \in Seq(Nat)
      /\ a + b + l =< q /\ c.output = Excerpt(0, a)
      /\ c.inbound.buffer = Excerpt(a, b) /\ p["owner"].bytes = Excerpt(q - l, l)
      /\ c.inbound.input_ended \/ a + b + l = q
  BY CopyParts DEF Inward
<1>2. x.output = Excerpt(0, a + b) /\ Len(x.output) = a + b
  <2> DEFINE u == c.output
             v == c.inbound.buffer
  <2>1. /\ 0 \in Nat /\ u \in Seq(Nat) /\ v \in Seq(Nat) /\ u = Excerpt(0, Len(u))
        /\ v = Excerpt(0 + Len(u), Len(v)) /\ a = Len(u) /\ b = Len(v)
    BY <1>1
  <2>2. x.output = u \o v
    OBVIOUS
  <2> HIDE DEF u, v, a, b
  <2>3. u \o v = Excerpt(0, a + b) /\ Len(u \o v) = a + b
    BY ONLY <2>1, JoinAt
  <2> QED BY <2>2, <2>3
<1>3. Len(x.inbound.buffer) = 0 /\ x.inbound.buffer = Excerpt(a + b, 0)
  <2>1. Excerpt(a + b, 0) = << >>
    BY DEF Excerpt
  <2> QED BY <2>1
<1>4. /\ (a + b) + 0 + l =< q
      /\ a + b + l = q => (a + b) + 0 + l = q
  <2> HIDE DEF a, b, l
  <2> QED BY <1>1
<1>5. /\ Len(p["owner"].bytes) = l /\ p["owner"].bytes = Excerpt(q - l, l)
      /\ x.inbound.input_ended \/ (a + b) + 0 + l = q
  BY <1>1, <1>4
<1> HIDE DEF a, b, l
<1>6. Inward(q, x, p)
  BY <1>2, <1>3, <1>4, <1>5 DEF Inward
<1> QED BY <1>6

\* The parts of the invariant that the callbacks of the copy take.
LEMMA CopyOkParts ==
    ASSUME NEW s, NEW r, NEW n, NEW m, NEW st, CopyOk(st, s, r, n, m), s.at # "failed"
    PROVE  LET w == s.tcp.sender.stream.bytes_written
               q == Popped(inbound(s.tcp.receiver))
           IN  /\ st.c \in CopySet /\ st.pipe \in PipeSet
               /\ st \in [c : CopySet, pipe : PipeSet] /\ Roomy(st.c, st.pipe)
               /\ w \in Nat /\ n \in Nat /\ q \in Nat
               /\ Outward(w, st.c, st.pipe, n) /\ Inward(q, st.c, st.pipe)
<1> DEFINE w == s.tcp.sender.stream.bytes_written
           q == Popped(inbound(s.tcp.receiver))
<1>1. /\ st.c \in CopySet /\ st.pipe \in PipeSet /\ st \in [c : CopySet, pipe : PipeSet]
      /\ Roomy(st.c, st.pipe) /\ Outward(w, st.c, st.pipe, n) /\ Wire(s, r, n, m)
      /\ Inward(q, st.c, st.pipe)
  BY DEF CopyOk, Whole
<1>2. /\ Linked(s.tcp, r.tcp, n, m) /\ Ordered(inbound(s.tcp.receiver))
      /\ Fine(s.tcp, r.tcp, n) /\ n \in Nat
  BY <1>1 DEF Wire, Linked, Short
<1>3. s.tcp.sender.stream \in StreamSet /\ q \in Nat
  BY <1>2, FineParts, PoppedIsWritten
<1>4. w \in Nat
  BY <1>3 DEF StreamSet
<1> QED BY <1>1, <1>2, <1>3, <1>4

\* Rule 1: from stdin.
LEMMA ReadInputKeeps ==
    ASSUME NEW s, NEW r, NEW n, NEW m, NEW st, CopyOk(st, s, r, n, m), s.at # "failed"
    PROVE  CopyOk(ReadInput(st), s, r, n, m)
<1> DEFINE c == st.c
           o == c.outbound
           w == s.tcp.sender.stream.bytes_written
           limit == remaining_capacity(o)
           k == Lesser(limit, Len(c.input))
           data == SubSeq(c.input, 1, k)
           rest == SubSeq(c.input, Len(data) + 1, Len(c.input))
           taken == write(o, data)
           ended == c.input = << >>
           y == IF ended THEN end_input(taken) ELSE taken
           t == ReadInput(st)
<1>1. /\ c \in CopySet /\ st.pipe \in PipeSet /\ st \in [c : CopySet, pipe : PipeSet]
      /\ Roomy(c, st.pipe) /\ Outward(w, c, st.pipe, n) /\ w \in Nat /\ n \in Nat
      /\ Inward(Popped(inbound(s.tcp.receiver)), c, st.pipe)
  BY CopyOkParts
<1> HIDE DEF w
<1>2. /\ o \in StreamSet /\ ~o.error /\ limit \in Nat /\ c.input \in Seq(Nat)
      /\ Len(c.input) \in Nat /\ Len(o.buffer) \in Nat /\ o.capacity \in Nat
      /\ \A i \in 0..limit : Len(o.buffer) + i =< o.capacity
  <2>1. /\ o \in StreamSet /\ ~o.error /\ Len(o.buffer) =< o.capacity
        /\ Len(o.buffer) \in Nat /\ o.capacity \in Nat /\ c.input \in Seq(Nat)
        /\ Len(c.input) \in Nat
    BY <1>1, CopyParts DEF Roomy
  <2>2. limit = o.capacity - Len(o.buffer)
    BY DEF remaining_capacity
  <2> HIDE DEF limit, o
  <2>3. limit \in Nat /\ \A i \in 0..limit : Len(o.buffer) + i =< o.capacity
    BY <2>1, <2>2
  <2> QED BY <2>1, <2>3
<1> HIDE DEF limit
<1>3. k \in 0..Len(c.input) /\ k \in 0..limit
  BY <1>2, LesserIs
<1> HIDE DEF k
<1>4. /\ data \in Seq(Nat) /\ Len(data) = k
      /\ SubSeq(c.input, k + 1, Len(c.input)) \in Seq(Nat)
  BY <1>2, <1>3, PartAt
<1> HIDE DEF data
<1>5. /\ rest = SubSeq(c.input, k + 1, Len(c.input)) /\ rest \in Seq(Nat)
      /\ Len(o.buffer) + Len(data) =< o.capacity
  BY <1>2, <1>3, <1>4
<1> HIDE DEF rest, o
<1>6. /\ taken \in StreamSet /\ taken.input_ended = o.input_ended /\ ~taken.error
      /\ taken.buffer = IF o.input_ended THEN o.buffer ELSE o.buffer \o data
      /\ Len(taken.buffer) =< taken.capacity
  BY <1>2, <1>4, <1>5, WriteTakes
<1> HIDE DEF taken
<1>7. /\ y \in StreamSet /\ y.buffer = taken.buffer /\ y.capacity = taken.capacity
      /\ y.error = taken.error /\ (o.input_ended => y.input_ended)
  BY <1>6 DEF end_input, StreamSet
<1>8. t = [st EXCEPT !.c.input = rest, !.c.input_eof = ended, !.c.outbound = y]
  BY <1>1 DEF ReadInput, CopySet, rest, data, k, limit, taken, o
<1>9. ended \in BOOLEAN
  OBVIOUS
<1> HIDE DEF y, ended, t
<1>10. /\ t \in [c : CopySet, pipe : PipeSet] /\ t.pipe = st.pipe /\ t.c.input = rest
       /\ t.c.outbound = y /\ t.c.inbound = c.inbound /\ t.c.output = c.output
  BY <1>1, <1>5, <1>7, <1>8, <1>9 DEF CopySet
<1>11. Roomy(t.c, t.pipe)
  BY <1>1, <1>6, <1>7, <1>10 DEF Roomy
<1>12. Outward(w, t.c, t.pipe, n)
  <2>1. /\ t.c \in CopySet /\ t.c.input = SubSeq(c.input, k + 1, Len(c.input))
        /\ t.c.outbound.buffer = IF c.outbound.input_ended THEN c.outbound.buffer
                                 ELSE c.outbound.buffer \o SubSeq(c.input, 1, k)
        /\ c.outbound.input_ended => t.c.outbound.input_ended
    BY <1>5, <1>6, <1>7, <1>10 DEF o, data
  <2>2. Outward(w, t.c, st.pipe, n)
    BY <1>1, <1>3, <2>1, InputTaken
  <2> QED BY <1>10, <2>2
<1>13. Inward(Popped(inbound(s.tcp.receiver)), t.c, t.pipe)
  BY <1>1, <1>10 DEF Inward
<1>14. CopyOk(t, s, r, n, m)
  BY <1>10, <1>11, <1>12, <1>13, CopyKeeps DEF w
<1> QED BY <1>14 DEF t

\* Rule 2: into the socket.
LEMMA WriteSocketKeeps ==
    ASSUME NEW s, NEW r, NEW n, NEW m, NEW st, CopyOk(st, s, r, n, m), s.at # "failed"
    PROVE  CopyOk(WriteSocket(st), s, r, n, m)
<1> DEFINE c == st.c
           o == c.outbound
           w == s.tcp.sender.stream.bytes_written
           data == peek_output(o, Len(o.buffer))
           k == WriteSize(st.pipe, "owner", data)
           z == AfterWrite(st.pipe, "owner", data)
           v == pop_output(o, k)
           sent == [st EXCEPT !.pipe = z, !.c.outbound = v]
           y == ShutWrite(z, "owner")
           last == [sent EXCEPT !.pipe = y, !.c.outbound_shutdown = TRUE]
           broken == [st EXCEPT !.c.at = "failed"]
<1>1. /\ c \in CopySet /\ st.pipe \in PipeSet /\ st \in [c : CopySet, pipe : PipeSet]
      /\ Roomy(c, st.pipe) /\ Outward(w, c, st.pipe, n) /\ w \in Nat /\ n \in Nat
      /\ Inward(Popped(inbound(s.tcp.receiver)), c, st.pipe)
  BY CopyOkParts
<1> HIDE DEF w
<1>2. /\ o \in StreamSet /\ o.buffer \in Seq(Nat) /\ ~o.error /\ Len(o.buffer) =< o.capacity
      /\ Len(o.buffer) \in Nat /\ o.capacity \in Nat
  BY <1>1, CopyParts DEF Roomy
<1>3. data = o.buffer
  BY <1>2, SubSeqFull DEF peek_output, Lesser
<1> HIDE DEF data
<1>4. /\ k \in 0..Len(o.buffer) /\ z \in PipeSet /\ z["owner"] = st.pipe["owner"]
      /\ z["tcp"].bytes = st.pipe["tcp"].bytes \o SubSeq(o.buffer, 1, k)
      /\ Len(z["tcp"].bytes) =< PipeCapacity
  <2>1. Other("owner") = "tcp"
    BY DEF Other
  <2>2. /\ data \in Seq(Nat) /\ "owner" \in {"owner", "tcp"}
        /\ Len(st.pipe[Other("owner")].bytes) =< PipeCapacity
    BY <1>1, <1>2, <1>3, <2>1 DEF Roomy
  <2>3. /\ k \in 0..Len(data) /\ z \in PipeSet /\ z["owner"] = st.pipe["owner"]
        /\ z[Other("owner")].bytes = st.pipe[Other("owner")].bytes \o SubSeq(data, 1, k)
        /\ Len(z[Other("owner")].bytes) =< PipeCapacity
    BY ONLY <1>1, <2>2, PipeWrite
  <2> QED BY <1>3, <2>1, <2>3
<1> HIDE DEF k, z, o
<1>5. /\ v \in StreamSet /\ v.capacity = o.capacity /\ v.input_ended = o.input_ended
      /\ v.error = o.error /\ v.buffer = SubSeq(o.buffer, k + 1, Len(o.buffer))
      /\ Len(v.buffer) = Len(o.buffer) - k
  <2>1. k \in Nat /\ k =< Len(o.buffer)
    BY <1>2, <1>4
  <2> QED BY <1>2, <2>1, PopSome
<1>6. Len(v.buffer) =< v.capacity
  <2> HIDE DEF v
  <2> QED BY <1>2, <1>4, <1>5
<1> HIDE DEF v
<1>7. /\ sent \in [c : CopySet, pipe : PipeSet] /\ sent.pipe = z /\ sent.c.outbound = v
      /\ sent.c.inbound = c.inbound /\ sent.c.output = c.output /\ sent.c.input = c.input
  BY <1>1, <1>4, <1>5 DEF CopySet
<1> HIDE DEF sent
<1>8. CopyOk(sent, s, r, n, m)
  <2>1. Roomy(sent.c, sent.pipe)
    BY <1>1, <1>4, <1>5, <1>6, <1>7 DEF Roomy, o
  <2>2. Outward(w, sent.c, sent.pipe, n)
    <3>1. /\ k \in 0..Len(c.outbound.buffer) /\ sent.c \in CopySet
          /\ z["tcp"].bytes = st.pipe["tcp"].bytes \o SubSeq(c.outbound.buffer, 1, k)
          /\ sent.c.outbound.buffer =
                 SubSeq(c.outbound.buffer, k + 1, Len(c.outbound.buffer))
          /\ sent.c.input = c.input
          /\ c.outbound.input_ended => sent.c.outbound.input_ended
      BY <1>4, <1>5, <1>7 DEF o
    <3>2. Outward(w, sent.c, z, n)
      BY <1>1, <1>4, <3>1, OutboundWritten
    <3> QED BY <1>7, <3>2
  <2>3. Inward(Popped(inbound(s.tcp.receiver)), sent.c, sent.pipe)
    BY <1>1, <1>4, <1>7 DEF Inward
  <2> QED BY <1>7, <2>1, <2>2, <2>3, CopyKeeps DEF w
<1>9. y \in PipeSet /\ \A e \in {"owner", "tcp"} : y[e].bytes = z[e].bytes
  BY <1>4 DEF PipeSet, ShutWrite, Other
<1> HIDE DEF y
<1>10. /\ last \in [c : CopySet, pipe : PipeSet] /\ last.pipe = y
       /\ last.c.outbound = sent.c.outbound /\ last.c.inbound = sent.c.inbound
       /\ last.c.output = sent.c.output /\ last.c.input = sent.c.input
  BY <1>7, <1>9 DEF CopySet
<1>11. /\ broken \in [c : CopySet, pipe : PipeSet] /\ broken.pipe = st.pipe
       /\ broken.c.outbound = c.outbound /\ broken.c.inbound = c.inbound
       /\ broken.c.output = c.output /\ broken.c.input = c.input
  BY <1>1 DEF CopySet
<1>12. WriteSocket(st) \in {broken, last, sent}
  BY <1>1 DEF WriteSocket, sent, v, z, k, data, o, y, CopySet
<1> HIDE DEF last, broken
<1>13. CopyOk(last, s, r, n, m)
  BY <1>7, <1>8, <1>9, <1>10, SameBytesKeeps
<1>14. CopyOk(broken, s, r, n, m)
  BY <1>11, SameBytesKeeps
<1> QED BY <1>8, <1>12, <1>13, <1>14

\* Rule 3: out of the socket.
LEMMA ReadSocketKeeps ==
    ASSUME NEW s, NEW r, NEW n, NEW m, NEW st, CopyOk(st, s, r, n, m), s.at # "failed"
    PROVE  CopyOk(ReadSocket(st), s, r, n, m)
<1> DEFINE c == st.c
           o == c.inbound
           b == st.pipe["owner"].bytes
           q == Popped(inbound(s.tcp.receiver))
           limit == remaining_capacity(o)
           k == Lesser(limit, Len(b))
           data == ReadData(st.pipe, "owner", limit)
           z == AfterRead(st.pipe, "owner", limit)
           taken == write(o, data)
           ended == c.socket_eof \/ ReadsEof(st.pipe, "owner", limit)
           y == IF ended THEN end_input(taken) ELSE taken
           t == ReadSocket(st)
<1>1. /\ c \in CopySet /\ st.pipe \in PipeSet /\ st \in [c : CopySet, pipe : PipeSet]
      /\ Roomy(c, st.pipe) /\ Inward(q, c, st.pipe) /\ q \in Nat
      /\ Outward(s.tcp.sender.stream.bytes_written, c, st.pipe, n)
  BY CopyOkParts
<1> HIDE DEF q
<1>2. /\ o \in StreamSet /\ ~o.error /\ limit \in Nat
      /\ Len(o.buffer) \in Nat /\ o.capacity \in Nat
      /\ \A i \in 0..limit : Len(o.buffer) + i =< o.capacity
  <2>1. /\ o \in StreamSet /\ ~o.error /\ Len(o.buffer) =< o.capacity
        /\ Len(o.buffer) \in Nat /\ o.capacity \in Nat
    BY <1>1, CopyParts DEF Roomy
  <2>2. limit = o.capacity - Len(o.buffer)
    BY DEF remaining_capacity
  <2> HIDE DEF limit, o
  <2>3. limit \in Nat /\ \A i \in 0..limit : Len(o.buffer) + i =< o.capacity
    BY <2>1, <2>2
  <2> QED BY <2>1, <2>3
<1> HIDE DEF limit
<1>3. /\ k \in 0..Len(b) /\ k \in 0..limit /\ b \in Seq(Nat) /\ Len(b) \in Nat
      /\ data = SubSeq(b, 1, k) /\ data \in Seq(Nat) /\ Len(data) = k
      /\ z \in PipeSet /\ z["tcp"] = st.pipe["tcp"]
      /\ z["owner"].bytes = SubSeq(b, k + 1, Len(b)) /\ Len(z["owner"].bytes) = Len(b) - k
  <2>1. "tcp" \in {"owner", "tcp"} /\ "owner" \in {"owner", "tcp"} /\ "owner" # "tcp"
    OBVIOUS
  <2> QED BY ONLY <1>1, <1>2, <2>1, PipeRead
<1> HIDE DEF k, data, z
<1>4. Len(o.buffer) + Len(data) =< o.capacity
  BY <1>2, <1>3
<1> HIDE DEF o
<1>5. /\ taken \in StreamSet /\ taken.input_ended = o.input_ended /\ ~taken.error
      /\ taken.buffer = IF o.input_ended THEN o.buffer ELSE o.buffer \o data
      /\ Len(taken.buffer) =< taken.capacity
  BY <1>2, <1>3, <1>4, WriteTakes
<1> HIDE DEF taken
<1>6. /\ y \in StreamSet /\ y.buffer = taken.buffer /\ y.capacity = taken.capacity
      /\ y.error = taken.error /\ (o.input_ended => y.input_ended)
  BY <1>5 DEF end_input, StreamSet
<1>7. t = [st EXCEPT !.pipe = z, !.c.socket_eof = ended, !.c.inbound = y]
  BY <1>1 DEF ReadSocket, CopySet, z, data, limit, taken, o
<1>8. ended \in BOOLEAN
  BY <1>1 DEF CopySet, ReadsEof
<1> HIDE DEF y, ended, t
<1>9. /\ t \in [c : CopySet, pipe : PipeSet] /\ t.pipe = z /\ t.c.input = c.input
      /\ t.c.outbound = c.outbound /\ t.c.inbound = y /\ t.c.output = c.output
  BY <1>1, <1>3, <1>6, <1>7, <1>8 DEF CopySet
<1>10. Roomy(t.c, t.pipe)
  <2>1. Len(b) =< PipeCapacity /\ PipeCapacity \in Nat
    BY <1>1, PipeAssumption DEF Roomy
  <2>2. Len(z["owner"].bytes) =< PipeCapacity
    <3> HIDE DEF b
    <3> QED BY <1>3, <2>1
  <2> QED BY <1>1, <1>3, <1>5, <1>6, <1>9, <2>2 DEF Roomy
<1>11. Inward(q, t.c, t.pipe)
  <2>1. /\ t.c \in CopySet /\ t.c.output = c.output
        /\ t.c.inbound.buffer = IF c.inbound.input_ended THEN c.inbound.buffer
                                ELSE c.inbound.buffer \o SubSeq(b, 1, k)
        /\ c.inbound.input_ended => t.c.inbound.input_ended
    BY <1>3, <1>5, <1>6, <1>9 DEF o
  <2>2. Inward(q, t.c, z)
    BY <1>1, <1>3, <2>1, InboundTaken
  <2> QED BY <1>9, <2>2
<1>12. Outward(s.tcp.sender.stream.bytes_written, t.c, t.pipe, n)
  BY <1>1, <1>3, <1>9 DEF Outward
<1>13. CopyOk(t, s, r, n, m)
  BY <1>9, <1>10, <1>11, <1>12, CopyKeeps DEF q
<1> QED BY <1>13 DEF t

\* Rule 4: to stdout.
LEMMA WriteOutputKeeps ==
    ASSUME NEW s, NEW r, NEW n, NEW m, NEW st, CopyOk(st, s, r, n, m), s.at # "failed"
    PROVE  CopyOk(WriteOutput(st), s, r, n, m)
<1> DEFINE c == st.c
           o == c.inbound
           q == Popped(inbound(s.tcp.receiver))
           out == c.output \o o.buffer
           v == pop_output(o, Len(o.buffer))
           shut == c.inbound_shutdown \/ o.input_ended
           t == WriteOutput(st)
<1>1. /\ c \in CopySet /\ st.pipe \in PipeSet /\ st \in [c : CopySet, pipe : PipeSet]
      /\ Roomy(c, st.pipe) /\ Inward(q, c, st.pipe) /\ q \in Nat
      /\ Outward(s.tcp.sender.stream.bytes_written, c, st.pipe, n)
  BY CopyOkParts
<1> HIDE DEF q
<1>2. /\ o \in StreamSet /\ o.buffer \in Seq(Nat) /\ ~o.error /\ Len(o.buffer) \in Nat
      /\ o.capacity \in Nat /\ c.output \in Seq(Nat)
  BY <1>1, CopyParts DEF Roomy
<1>3. /\ v \in StreamSet /\ v.capacity = o.capacity /\ v.input_ended = o.input_ended
      /\ v.error = o.error /\ v.buffer = << >>
  <2>1. Len(o.buffer) =< Len(o.buffer)
    BY <1>2
  <2> QED BY <1>2, <2>1, PopFacts
<1>4. out \in Seq(Nat) /\ shut \in BOOLEAN
  <2>1. out \in Seq(Nat)
    BY <1>2
  <2> QED BY <2>1
<1>5. t = [st EXCEPT !.c.output = out, !.c.inbound = v, !.c.inbound_shutdown = shut]
  BY <1>1 DEF WriteOutput, CopySet
<1> HIDE DEF out, shut, v, t, o
<1>6. /\ t \in [c : CopySet, pipe : PipeSet] /\ t.pipe = st.pipe /\ t.c.input = c.input
      /\ t.c.outbound = c.outbound /\ t.c.inbound = v /\ t.c.output = out
  BY <1>1, <1>3, <1>4, <1>5 DEF CopySet
<1>7. Roomy(t.c, t.pipe)
  <2>1. Len(v.buffer) = 0 /\ 0 =< v.capacity
    BY <1>2, <1>3
  <2> QED BY <1>1, <1>2, <1>3, <1>6, <2>1 DEF Roomy
<1>8. Inward(q, t.c, t.pipe)
  <2>1. /\ t.c \in CopySet /\ t.c.output = c.output \o c.inbound.buffer
        /\ t.c.inbound.buffer = << >> /\ (c.inbound.input_ended => t.c.inbound.input_ended)
    BY <1>3, <1>6 DEF o, out
  <2>2. Inward(q, t.c, st.pipe)
    BY <1>1, <2>1, OutputPrinted
  <2> QED BY <1>6, <2>2
<1>9. Outward(s.tcp.sender.stream.bytes_written, t.c, t.pipe, n)
  BY <1>1, <1>6 DEF Outward
<1>10. CopyOk(t, s, r, n, m)
  BY <1>6, <1>7, <1>8, <1>9, CopyKeeps DEF q
<1> QED BY <1>10 DEF t

\* The four rules are asked one after the other.
LEMMA CopyEnlistsFour ==
    ASSUME NEW rules, NEW st
    PROVE  CopyLoop!SetUp(rules, st) =
             LET a1 == CopyLoop!Enlist([rules |-> rules, st |-> st, polled |-> {}], 1)
                 a2 == CopyLoop!Enlist(a1, 2)
                 a3 == CopyLoop!Enlist(a2, 3)
             IN  CopyLoop!Enlist(a3, 4)
<1> DEFINE S(acc, r) == CopyLoop!Enlist(acc, r)
           a0 == [rules |-> rules, st |-> st, polled |-> {}]
           a1 == S(a0, 1)
           a2 == S(a1, 2)
           a3 == S(a2, 3)
           a4 == S(a3, 4)
           R == << 1, 2, 3, 4 >>
           Steps(f) == f = [n \in 0..Len(R) |-> IF n = 0 THEN a0 ELSE S(f[n - 1], R[n])]
           g == [n \in 0..4 |-> IF n = 0 THEN a0 ELSE IF n = 1 THEN a1 ELSE IF n = 2 THEN a2
                                ELSE IF n = 3 THEN a3 ELSE a4]
           h == CHOOSE f : Steps(f)
<1>1. CopyLoop!SetUp(rules, st) = h[Len(R)]
  BY Zenon DEF CopyLoop!SetUp
<1>2. Len(R) = 4 /\ R[1] = 1 /\ R[2] = 2 /\ R[3] = 3 /\ R[4] = 4
  OBVIOUS
<1> HIDE DEF S, R, a0
<1>3. Steps(g)
  <2>1. g[0] = a0 /\ g[1] = a1 /\ g[2] = a2 /\ g[3] = a3 /\ g[4] = a4
    OBVIOUS
  <2> HIDE DEF g
  <2>2. \A n \in 0..4 : g[n] = IF n = 0 THEN a0 ELSE S(g[n - 1], R[n])
    <3> TAKE n \in 0..4
    <3>1. n = 0 \/ n = 1 \/ n = 2 \/ n = 3 \/ n = 4
      OBVIOUS
    <3> QED BY <1>2, <2>1, <3>1
  <2>3. g = [n \in 0..4 |-> g[n]]
    BY DEF g
  <2>4. [n \in 0..4 |-> g[n]] = [n \in 0..4 |-> IF n = 0 THEN a0 ELSE S(g[n - 1], R[n])]
    BY <2>2, Zenon
  <2> QED BY <1>2, <2>3, <2>4
<1> HIDE DEF g, Steps
<1>4. Steps(h)
  BY <1>3, Zenon
<1> HIDE DEF h
<1>5. h[0] = a0 /\ \A n \in 1..4 : h[n] = S(h[n - 1], R[n])
  BY <1>2, <1>4 DEF Steps
<1>6. h[4] = a4
  BY <1>2, <1>5
<1> QED BY <1>1, <1>2, <1>6 DEF S, a0

\* The four rules are called back one after the other.
LEMMA CopyServesFour ==
    ASSUME NEW now
    PROVE  CopyLoop!Dispatch(now) =
             LET a1 == CopyLoop!Serve(now, 1)
                 a2 == CopyLoop!Serve(a1, 2)
                 a3 == CopyLoop!Serve(a2, 3)
             IN  CopyLoop!Serve(a3, 4)
<1> DEFINE S(acc, r) == CopyLoop!Serve(acc, r)
           a0 == now
           a1 == S(a0, 1)
           a2 == S(a1, 2)
           a3 == S(a2, 3)
           a4 == S(a3, 4)
           R == << 1, 2, 3, 4 >>
           Steps(f) == f = [n \in 0..Len(R) |-> IF n = 0 THEN a0 ELSE S(f[n - 1], R[n])]
           g == [n \in 0..4 |-> IF n = 0 THEN a0 ELSE IF n = 1 THEN a1 ELSE IF n = 2 THEN a2
                                ELSE IF n = 3 THEN a3 ELSE a4]
           h == CHOOSE f : Steps(f)
<1>1. CopyLoop!Dispatch(now) = h[Len(R)]
  BY Zenon DEF CopyLoop!Dispatch
<1>2. Len(R) = 4 /\ R[1] = 1 /\ R[2] = 2 /\ R[3] = 3 /\ R[4] = 4
  OBVIOUS
<1> HIDE DEF S, R, a0
<1>3. Steps(g)
  <2>1. g[0] = a0 /\ g[1] = a1 /\ g[2] = a2 /\ g[3] = a3 /\ g[4] = a4
    OBVIOUS
  <2> HIDE DEF g
  <2>2. \A n \in 0..4 : g[n] = IF n = 0 THEN a0 ELSE S(g[n - 1], R[n])
    <3> TAKE n \in 0..4
    <3>1. n = 0 \/ n = 1 \/ n = 2 \/ n = 3 \/ n = 4
      OBVIOUS
    <3> QED BY <1>2, <2>1, <3>1
  <2>3. g = [n \in 0..4 |-> g[n]]
    BY DEF g
  <2>4. [n \in 0..4 |-> g[n]] = [n \in 0..4 |-> IF n = 0 THEN a0 ELSE S(g[n - 1], R[n])]
    BY <2>2, Zenon
  <2> QED BY <1>2, <2>3, <2>4
<1> HIDE DEF g, Steps
<1>4. Steps(h)
  BY <1>3, Zenon
<1> HIDE DEF h
<1>5. h[0] = a0 /\ \A n \in 1..4 : h[n] = S(h[n - 1], R[n])
  BY <1>2, <1>4 DEF Steps
<1>6. h[4] = a4
  BY <1>2, <1>5
<1> QED BY <1>1, <1>2, <1>6 DEF S, a0

\* A rule is cancelled: the stream it fed ends.
LEMMA CopyCancelKeeps ==
    ASSUME NEW s, NEW r, NEW n, NEW m, NEW st, CopyOk(st, s, r, n, m)
    PROVE  /\ CopyOk([st EXCEPT !.c.outbound = end_input(@)], s, r, n, m)
           /\ CopyOk([st EXCEPT !.c.inbound = end_input(@)], s, r, n, m)
<1> DEFINE o == end_input(st.c.outbound)
           i == end_input(st.c.inbound)
           x == [st EXCEPT !.c.outbound = end_input(@)]
           y == [st EXCEPT !.c.inbound = end_input(@)]
<1>1. st \in [c : CopySet, pipe : PipeSet] /\ st.c \in CopySet
  BY DEF CopyOk
<1>2. o \in StreamSet /\ i \in StreamSet
  BY <1>1 DEF CopySet, StreamSet, end_input
<1>3. x = [st EXCEPT !.c.outbound = o] /\ y = [st EXCEPT !.c.inbound = i]
  BY <1>1 DEF CopySet
<1> HIDE DEF x, y
<1>4. CopyOk(x, s, r, n, m)
  <2>1. /\ x \in [c : CopySet, pipe : PipeSet] /\ x.pipe = st.pipe /\ x.c.outbound = o
        /\ x.c.inbound = st.c.inbound /\ x.c.input = st.c.input /\ x.c.output = st.c.output
    <3> HIDE DEF o
    <3> QED BY <1>1, <1>2, <1>3 DEF CopySet
  <2> QED BY <2>1, SameBytesKeeps
<1>5. CopyOk(y, s, r, n, m)
  <2>1. /\ y \in [c : CopySet, pipe : PipeSet] /\ y.pipe = st.pipe /\ y.c.inbound = i
        /\ y.c.outbound = st.c.outbound /\ y.c.input = st.c.input /\ y.c.output = st.c.output
    <3> HIDE DEF i
    <3> QED BY <1>1, <1>2, <1>3 DEF CopySet
  <2> QED BY <2>1, SameBytesKeeps
<1> QED BY <1>4, <1>5 DEF x, y

\* A rule is asked, or cancelled because its descriptor is done.
LEMMA CopyEnlists ==
    ASSUME NEW s, NEW r, NEW n, NEW m, NEW acc \in Asked([c : CopySet, pipe : PipeSet]),
           CopyOk(acc.st, s, r, n, m), NEW rule \in 1..4
    PROVE  LET new == CopyLoop!Enlist(acc, rule)
           IN  new \in Asked([c : CopySet, pipe : PipeSet]) /\ CopyOk(new.st, s, r, n, m)
<1> DEFINE y == IF rule \in {1, 2} THEN [acc.st EXCEPT !.c.outbound = end_input(@)]
                ELSE [acc.st EXCEPT !.c.inbound = end_input(@)]
           new == CopyLoop!Enlist(acc, rule)
<1>1. CopyOk(y, s, r, n, m) /\ y \in [c : CopySet, pipe : PipeSet]
  <2>1. CopyOk(y, s, r, n, m)
    BY CopyCancelKeeps
  <2> QED BY <2>1 DEF CopyOk
<1>2. new \in {acc, [acc EXCEPT !.rules = acc.rules \ {rule}, !.st = y],
               [acc EXCEPT !.polled = acc.polled \cup {rule}]}
  BY DEF CopyLoop!Enlist, Asked
<1> HIDE DEF y, new
<1>3. CASE new = acc
  BY <1>3 DEF new
<1>4. CASE new = [acc EXCEPT !.rules = acc.rules \ {rule}, !.st = y]
  <2>1. new \in Asked([c : CopySet, pipe : PipeSet]) /\ new.st = y
    BY <1>1, <1>4 DEF Asked
  <2> QED BY <1>1, <2>1 DEF new
<1>5. CASE new = [acc EXCEPT !.polled = acc.polled \cup {rule}]
  <2>1. new \in Asked([c : CopySet, pipe : PipeSet]) /\ new.st = acc.st
    BY <1>5 DEF Asked
  <2> QED BY <2>1 DEF new
<1> QED BY <1>2, <1>3, <1>4, <1>5

\* A rule is called back, or cancelled because its descriptor has hung up.
LEMMA CopyServes ==
    ASSUME NEW s, NEW r, NEW n, NEW m, NEW acc \in Called([c : CopySet, pipe : PipeSet]),
           CopyOk(acc.st, s, r, n, m), s.at # "failed", NEW rule \in 1..4
    PROVE  LET new == CopyLoop!Serve(acc, rule)
           IN  new \in Called([c : CopySet, pipe : PipeSet]) /\ CopyOk(new.st, s, r, n, m)
<1> DEFINE y == CopyCallback(rule, acc.st)
           z == IF rule \in {1, 2} THEN [acc.st EXCEPT !.c.outbound = end_input(@)]
                ELSE [acc.st EXCEPT !.c.inbound = end_input(@)]
           new == CopyLoop!Serve(acc, rule)
<1>1. CopyOk(z, s, r, n, m) /\ z \in [c : CopySet, pipe : PipeSet]
  <2>1. CopyOk(z, s, r, n, m)
    BY CopyCancelKeeps
  <2> QED BY <2>1 DEF CopyOk
<1>2. CopyOk(y, s, r, n, m) /\ y \in [c : CopySet, pipe : PipeSet]
  <2>1. rule = 1 \/ rule = 2 \/ rule = 3 \/ rule = 4
    OBVIOUS
  <2>2. CASE rule = 1
    <3>1. y = ReadInput(acc.st)
      BY <2>2 DEF CopyCallback
    <3> QED BY <3>1, ReadInputKeeps DEF CopyOk
  <2>3. CASE rule = 2
    <3>1. y = WriteSocket(acc.st)
      BY <2>3 DEF CopyCallback
    <3> QED BY <3>1, WriteSocketKeeps DEF CopyOk
  <2>4. CASE rule = 3
    <3>1. y = ReadSocket(acc.st)
      BY <2>4 DEF CopyCallback
    <3> QED BY <3>1, ReadSocketKeeps DEF CopyOk
  <2>5. CASE rule = 4
    <3>1. y = WriteOutput(acc.st)
      BY <2>5 DEF CopyCallback
    <3> QED BY <3>1, WriteOutputKeeps DEF CopyOk
  <2> QED BY <2>1, <2>2, <2>3, <2>4, <2>5
<1>3. new \in {acc, [acc EXCEPT !.st = y], [acc EXCEPT !.rules = acc.rules \ {rule}, !.st = z]}
  BY DEF CopyLoop!Serve, Called
<1> HIDE DEF y, z, new
<1>4. CASE new = acc
  BY <1>4 DEF new
<1>5. CASE new = [acc EXCEPT !.st = y]
  <2>1. new \in Called([c : CopySet, pipe : PipeSet]) /\ new.st = y
    BY <1>2, <1>5 DEF Called
  <2> QED BY <1>2, <2>1 DEF new
<1>6. CASE new = [acc EXCEPT !.rules = acc.rules \ {rule}, !.st = z]
  <2>1. new \in Called([c : CopySet, pipe : PipeSet]) /\ new.st = z
    BY <1>1, <1>6 DEF Called
  <2> QED BY <1>1, <2>1 DEF new
<1> QED BY <1>3, <1>4, <1>5, <1>6

\* A whole wait_next_event of the copy's loop.
LEMMA CopyWaits ==
    ASSUME NEW s, NEW r, NEW n, NEW m, NEW st, CopyOk(st, s, r, n, m), s.at # "failed",
           NEW rules \in SUBSET (1..4)
    PROVE  LET turn == CopyLoop!wait_next_event(rules, st)
           IN  turn.rules \in SUBSET (1..4) /\ CopyOk(turn.st, s, r, n, m)
<1> DEFINE S == [c : CopySet, pipe : PipeSet]
           Fit(a) == a \in Asked(S) /\ CopyOk(a.st, s, r, n, m)
           Set(a) == a \in Called(S) /\ CopyOk(a.st, s, r, n, m)
           a0 == [rules |-> rules, st |-> st, polled |-> {}]
           a1 == CopyLoop!Enlist(a0, 1)
           a2 == CopyLoop!Enlist(a1, 2)
           a3 == CopyLoop!Enlist(a2, 3)
           a4 == CopyLoop!Enlist(a3, 4)
           b0 == CopyLoop!Poll(a4)
           b1 == CopyLoop!Serve(b0, 1)
           b2 == CopyLoop!Serve(b1, 2)
           b3 == CopyLoop!Serve(b2, 3)
           b4 == CopyLoop!Serve(b3, 4)
           turn == CopyLoop!wait_next_event(rules, st)
<1>1. turn.rules = b4.rules /\ turn.st = b4.st
  BY CopyEnlistsFour, CopyServesFour DEF CopyLoop!wait_next_event, CopyLoop!Outcome
<1>2. Fit(a0)
  <2>1. st \in S
    BY DEF CopyOk
  <2> HIDE DEF S
  <2> QED BY <2>1 DEF Asked
<1> HIDE DEF a0, turn
<1>3. \A a, k : Fit(a) /\ k \in 1..4 => Fit(CopyLoop!Enlist(a, k))
  BY CopyEnlists
<1>4. \A a, k : Set(a) /\ k \in 1..4 => Set(CopyLoop!Serve(a, k))
  BY CopyServes
<1>5. 1 \in 1..4 /\ 2 \in 1..4 /\ 3 \in 1..4 /\ 4 \in 1..4
  OBVIOUS
<1> HIDE DEF Fit, Set, S
<1>6. Fit(a1)
  BY <1>2, <1>3, <1>5
<1>7. Fit(a2)
  BY <1>3, <1>5, <1>6
<1>8. Fit(a3)
  BY <1>3, <1>5, <1>7
<1>9. Fit(a4)
  BY <1>3, <1>5, <1>8
<1> HIDE DEF a4
<1>10. Set(b0)
  <2>1. a4 \in Asked(S) /\ CopyOk(a4.st, s, r, n, m)
    BY <1>9 DEF Fit
  <2> DEFINE X == {k \in a4.polled : CopyReady(k, a4.st)}
             Y == {k \in a4.rules : k \in {2, 3} /\ HungUp(a4.st.pipe, "owner")}
  <2>2. X \subseteq a4.polled /\ Y \subseteq a4.rules
    OBVIOUS
  <2>3. b0 = [rules |-> a4.rules, st |-> a4.st, polled |-> a4.polled, ready |-> X, hungup |-> Y]
    BY Zenon DEF CopyLoop!Poll
  <2> HIDE DEF X, Y
  <2>4. b0.st = a4.st /\ b0 \in Called(S)
    BY <2>1, <2>2, <2>3 DEF Asked, Called
  <2> QED BY <2>1, <2>4 DEF Set
<1> HIDE DEF b0
<1>11. Set(b1)
  BY <1>4, <1>5, <1>10
<1>12. Set(b2)
  BY <1>4, <1>5, <1>11
<1>13. Set(b3)
  BY <1>4, <1>5, <1>12
<1>14. Set(b4)
  BY <1>4, <1>5, <1>13
<1> HIDE DEF b4
<1> QED BY <1>1, <1>14 DEF Set, Called, turn

\* The owner's turn.
LEMMA CopyStep == EndpointInv /\ Copy => EndpointInv'
<1> SUFFICES ASSUME EndpointInv, Copy PROVE EndpointInv'
  OBVIOUS
<1> DEFINE n == Len(env.typed)
           m == Len(env.bytes)
           st == [c |-> copy, pipe |-> pipe]
           turn == CopyLoop!wait_next_event(copy.rules, st)
           x == [turn.st EXCEPT !.c.rules = turn.rules]
           y == [x EXCEPT !.c.at = "done"]
           after == CopyTurn(turn)
<1>1. CopyOk(st, sock, peer, n, m)
  BY DEF EndpointInv, CopyOk, Whole
<1>2. copy.rules \in SUBSET (1..4) /\ sock.at # "failed"
  BY DEF EndpointInv, Whole, CopySet, Copy, CopyRuns
<1>3. turn.rules \in SUBSET (1..4) /\ CopyOk(turn.st, sock, peer, n, m)
  <2> HIDE DEF st, n, m
  <2> QED BY <1>1, <1>2, CopyWaits
<1>4. copy' = after.c /\ pipe' = after.pipe /\ UNCHANGED <<env, sock, peer>>
  BY DEF Copy, CopyResult
<1> HIDE DEF turn
<1>5. after \in {x, y}
  BY DEF CopyTurn
<1>6. turn.st \in [c : CopySet, pipe : PipeSet] /\ turn.st.c \in CopySet
  BY <1>3 DEF CopyOk
<1>7. /\ x \in [c : CopySet, pipe : PipeSet] /\ x.pipe = turn.st.pipe
      /\ x.c.input = turn.st.c.input /\ x.c.output = turn.st.c.output
      /\ x.c.outbound = turn.st.c.outbound /\ x.c.inbound = turn.st.c.inbound
  BY <1>3, <1>6 DEF CopySet
<1> HIDE DEF x
<1>8. /\ y \in [c : CopySet, pipe : PipeSet] /\ y.pipe = turn.st.pipe
      /\ y.c.input = turn.st.c.input /\ y.c.output = turn.st.c.output
      /\ y.c.outbound = turn.st.c.outbound /\ y.c.inbound = turn.st.c.inbound
  BY <1>7 DEF CopySet
<1> HIDE DEF y, after, n, m
<1>9. CopyOk(after, sock, peer, n, m)
  BY <1>3, <1>5, <1>7, <1>8, SameBytesKeeps
<1>10. Whole(sock, copy', pipe', peer, n, m)
  BY <1>4, <1>9 DEF CopyOk
<1> QED BY <1>4, <1>10 DEF EndpointInv, n, m

-----------------------------------------------------------------------------
(* The owner's other steps.                                                 *)

\* The pipe is shut down when the owner waits until the connection is closed.
LEMMA WaitStep == EndpointInv /\ WaitUntilClosed => EndpointInv'
<1> SUFFICES ASSUME EndpointInv, WaitUntilClosed PROVE EndpointInv'
  OBVIOUS
<1> DEFINE n == Len(env.typed)
           m == Len(env.bytes)
           c == [copy EXCEPT !.at = "closed"]
           p == ShutBoth(pipe)
           st == [c |-> copy, pipe |-> pipe]
           t == [c |-> c, pipe |-> p]
<1>1. CopyOk(st, sock, peer, n, m) /\ copy \in CopySet /\ pipe \in PipeSet
  BY DEF EndpointInv, CopyOk, Whole
<1>2. p \in PipeSet /\ \A e \in {"owner", "tcp"} : p[e].bytes = pipe[e].bytes
  BY <1>1 DEF PipeSet, ShutBoth
<1>3. /\ c \in CopySet /\ c.input = copy.input /\ c.output = copy.output
      /\ c.outbound = copy.outbound /\ c.inbound = copy.inbound
  BY <1>1 DEF CopySet
<1>4. copy' = c /\ pipe' = p /\ UNCHANGED <<env, sock, peer>>
  BY DEF WaitUntilClosed
<1> HIDE DEF c, p
<1>5. /\ t \in [c : CopySet, pipe : PipeSet]
      /\ t.c.input = st.c.input /\ t.c.output = st.c.output
      /\ t.c.outbound = st.c.outbound /\ t.c.inbound = st.c.inbound
      /\ \A e \in {"owner", "tcp"} : t.pipe[e].bytes = st.pipe[e].bytes
  BY <1>2, <1>3
<1>6. t.c = c /\ t.pipe = p
  OBVIOUS
<1> HIDE DEF t, st, n, m
<1>7. CopyOk(t, sock, peer, n, m)
  BY <1>1, <1>5, SameBytesKeeps
<1>8. Whole(sock, copy', pipe', peer, n, m)
  BY <1>4, <1>6, <1>7 DEF CopyOk
<1> QED BY <1>4, <1>8 DEF EndpointInv, n, m

\* The socket is destroyed: its thread is told to stop.
LEMMA DestroyStep == EndpointInv /\ Destroy => EndpointInv'
<1> SUFFICES ASSUME EndpointInv, Destroy PROVE EndpointInv'
  OBVIOUS
<1> DEFINE n == Len(env.typed)
           m == Len(env.bytes)
           s == [sock EXCEPT !.abort = TRUE]
           st == [s |-> sock, pipe |-> pipe]
           t == [s |-> s, pipe |-> pipe]
<1>1. SockOk(st, copy, peer, n, m) /\ sock \in SockSet /\ pipe \in PipeSet
  BY DEF EndpointInv, SockOk, Whole
<1>2. sock' = s /\ UNCHANGED <<env, copy, pipe, peer>> /\ sock.at = "running"
  BY DEF Destroy
<1>3. /\ s \in SockSet /\ s.tcp = sock.tcp /\ s.in = sock.in /\ s.out = sock.out
  BY <1>1 DEF SockSet
<1> HIDE DEF s
<1>4. /\ t \in [s : SockSet, pipe : PipeSet] /\ t.s.tcp = st.s.tcp /\ t.s.in = st.s.in
      /\ t.s.out = st.s.out /\ t.pipe = st.pipe /\ st.s.at # "failed" /\ t.s = s
  BY <1>1, <1>2, <1>3
<1>5. t.pipe = pipe
  OBVIOUS
<1> HIDE DEF t, st, n, m
<1>6. SockOk(t, copy, peer, n, m)
  BY <1>1, <1>4, SameTcpKeeps
<1>7. Whole(sock', copy, pipe, peer, n, m)
  BY <1>2, <1>4, <1>5, <1>6 DEF SockOk
<1> QED BY <1>2, <1>7 DEF EndpointInv, n, m

-----------------------------------------------------------------------------
(* The peer's steps.                                                        *)

\* What the peer's connection is in every state.
LEMMA PeerParts ==
    ASSUME EndpointInv
    PROVE  LET n == Len(env.typed)
               m == Len(env.bytes)
           IN  /\ sock \in SockSet /\ peer \in PeerSet /\ Wire(sock, peer, n, m)
               /\ Linked(peer.tcp, sock.tcp, m, n) /\ Fine(peer.tcp, sock.tcp, m)
               /\ n \in Nat /\ m \in Nat /\ sock.tcp.sender.isn \in 0..(Mod32 - 1)
               /\ Ordered(inbound(peer.tcp.receiver)) /\ peer.tcp \in ConnectionSet
               /\ peer.got = Excerpt(0, Popped(inbound(peer.tcp.receiver)))
<1> DEFINE n == Len(env.typed)
           m == Len(env.bytes)
<1>1. sock \in SockSet /\ peer \in PeerSet /\ Wire(sock, peer, n, m)
  BY DEF EndpointInv, Whole
<1> HIDE DEF n, m
<1>2. /\ Linked(peer.tcp, sock.tcp, m, n) /\ Fine(peer.tcp, sock.tcp, m)
      /\ Fine(sock.tcp, peer.tcp, n) /\ n \in Nat /\ m \in Nat
      /\ Ordered(inbound(peer.tcp.receiver))
      /\ peer.got = Excerpt(0, Popped(inbound(peer.tcp.receiver)))
  BY <1>1 DEF Wire, Linked, Short
<1>3. sock.tcp.sender.isn \in 0..(Mod32 - 1) /\ peer.tcp \in ConnectionSet
  BY <1>2, FineParts
<1> QED BY <1>1, <1>2, <1>3 DEF n, m

\* The peer's connection goes forward as v, and its application has read got; what it sends
\* reaches the adapter of the socket, from which it has taken at most a datagram.
LEMMA PeerKeeps ==
    ASSUME EndpointInv,
           NEW v, Fine(v, sock.tcp, Len(env.bytes)), Onward(peer.tcp, v),
           Ordered(inbound(v.receiver)),
           NEW got, got = Excerpt(0, Popped(inbound(v.receiver))), NEW dead \in BOOLEAN,
           peer' = [peer EXCEPT !.tcp = [v EXCEPT !.segments_out = << >>], !.got = got,
                                !.dead = dead],
           NEW out \in Seq(SegmentSet), Range(out) \subseteq Range(sock.out),
           sock' = [sock EXCEPT !.out = out, !.in = sock.in \o v.segments_out],
           UNCHANGED <<env, copy, pipe>>
    PROVE  EndpointInv'
<1> DEFINE n == Len(env.typed)
           m == Len(env.bytes)
           x == [v EXCEPT !.segments_out = << >>]
           in == sock.in \o v.segments_out
<1>1. /\ sock \in SockSet /\ peer \in PeerSet /\ Wire(sock, peer, n, m)
      /\ Linked(peer.tcp, sock.tcp, m, n) /\ copy \in CopySet /\ pipe \in PipeSet
  BY PeerParts DEF EndpointInv, Whole
<1> HIDE DEF n
<1>2. v \in ConnectionSet /\ v.segments_out \in Seq(SegmentSet)
  BY FineParts
<1>3. Linked(v, sock.tcp, m, n)
  BY <1>1, GoesOn
<1> HIDE DEF m
<1>4. got \in Seq(Nat)
  <2>1. Popped(inbound(v.receiver)) \in Nat
    BY <1>3, PoppedIsWritten
  <2> QED BY <2>1, ExcerptType DEF Bytes
<1>5. x \in ConnectionSet
  <2> DEFINE none == << >>
  <2>1. none \in Seq(SegmentSet)
    OBVIOUS
  <2> HIDE DEF none
  <2>2. [v EXCEPT !.segments_out = none] \in ConnectionSet
    BY <1>2, <2>1 DEF ConnectionSet
  <2> QED BY <2>2 DEF none
<1>6. in \in Seq(SegmentSet)
  BY <1>1, <1>2 DEF SockSet
<1>7. peer' = [peer EXCEPT !.tcp = x, !.got = got, !.dead = dead]
  OBVIOUS
<1>8. sock' = [sock EXCEPT !.out = out, !.in = in]
  OBVIOUS
<1> DEFINE q == peer'
           t == sock'
<1> HIDE DEF x, in
<1>9. q \in PeerSet /\ q.tcp = x /\ q.got = got
  BY <1>1, <1>4, <1>5, <1>7 DEF PeerSet
<1>10. t \in SockSet /\ t.tcp = sock.tcp /\ t.out = out /\ t.in = in /\ t.at = sock.at
  BY <1>1, <1>6, <1>8 DEF SockSet
<1> HIDE DEF q, t
<1>11. Wire(t, q, n, m)
  <2>1. /\ q.tcp = [v EXCEPT !.segments_out = << >>] /\ t.in = sock.in \o v.segments_out
        /\ q.got = Excerpt(0, Popped(inbound(v.receiver)))
        /\ Range(t.out) \subseteq Range(sock.out)
    BY <1>9, <1>10 DEF x, in
  <2>2. Fine(v, sock.tcp, m)
    BY DEF m
  <2> QED BY <1>1, <1>9, <1>10, <2>1, <2>2, PeerGoes
<1>12. Whole(t, copy, pipe, q, n, m)
  BY <1>9, <1>10, <1>11 DEF EndpointInv, Whole, n, m
<1>13. env' = env /\ copy' = copy /\ pipe' = pipe
  OBVIOUS
<1> QED BY <1>12, <1>13 DEF EndpointInv, n, m, q, t

\* The same, for the calls of the peer that take no datagram.
LEMMA PeerCallKeeps ==
    ASSUME EndpointInv,
           NEW v, Fine(v, sock.tcp, Len(env.bytes)), Onward(peer.tcp, v),
           Ordered(inbound(v.receiver)),
           NEW got, got = Excerpt(0, Popped(inbound(v.receiver))), Peer(v, got)
    PROVE  EndpointInv'
<1>1. sock \in SockSet /\ peer \in PeerSet
  BY PeerParts
<1>2. sock.out \in Seq(SegmentSet) /\ peer.dead \in BOOLEAN
  BY <1>1 DEF SockSet, PeerSet
<1>3. peer' = [peer EXCEPT !.tcp = [v EXCEPT !.segments_out = << >>], !.got = got,
                           !.dead = peer.dead]
  BY <1>1 DEF Peer, PeerSet
<1>4. /\ sock' = [sock EXCEPT !.out = sock.out, !.in = sock.in \o v.segments_out]
      /\ UNCHANGED <<env, copy, pipe>>
  BY <1>1 DEF Peer, SockSet
<1> QED BY ONLY EndpointInv, Fine(v, sock.tcp, Len(env.bytes)), Onward(peer.tcp, v),
                Ordered(inbound(v.receiver)), got = Excerpt(0, Popped(inbound(v.receiver))),
                <1>2, <1>3, <1>4, PeerKeeps

\* A step of the peer.
LEMMA PeerStepKeeps == EndpointInv /\ PeerStep => EndpointInv'
<1> SUFFICES ASSUME EndpointInv, PeerStep PROVE EndpointInv'
  OBVIOUS
<1> DEFINE n == Len(env.typed)
           m == Len(env.bytes)
           u == peer.tcp
           d == sock.tcp
           o == inbound(u.receiver)
<1>1. /\ sock \in SockSet /\ peer \in PeerSet /\ Wire(sock, peer, n, m)
      /\ Linked(u, d, m, n) /\ Fine(u, d, m)
      /\ n \in Nat /\ m \in Nat /\ d.sender.isn \in 0..(Mod32 - 1)
      /\ Ordered(o) /\ u \in ConnectionSet
      /\ peer.got = Excerpt(0, Popped(o))
  BY PeerParts
<1>2. ASSUME NEW v, Fine(v, d, m), Onward(u, v), Ordered(inbound(v.receiver)),
             NEW got, got = Excerpt(0, Popped(inbound(v.receiver))), Peer(v, got)
      PROVE  EndpointInv'
  BY <1>2, PeerCallKeeps
<1> HIDE DEF n, m
<1>3. ASSUME NEW v, Fine(v, d, m), Onward(u, v), Kept(u, v), Peer(v, peer.got)
      PROVE  EndpointInv'
  BY <1>1, <1>2, <1>3 DEF Kept
<1>4. CASE PeerConnect
  <2> DEFINE v == connect(u)
  <2>1. u.active /\ Peer(v, peer.got)
    BY <1>4 DEF PeerConnect, CanConnect, Alive
  <2>2. Fine(v, d, m) /\ Onward(u, v) /\ v.receiver = u.receiver
    BY <1>1, <2>1, ConnectMoves
  <2> HIDE DEF v
  <2> QED BY <1>1, <1>2, <2>1, <2>2
<1>5. CASE PeerWrite
  <2> DEFINE w == u.sender.stream.bytes_written
             k == m - w
             v == connection_write(u, Excerpt(w, k))
  <2>1. u.active /\ Peer(connection_write(u, Left), peer.got)
    BY <1>5 DEF PeerWrite, CanWrite, Alive
  <2>2. w \in Nat /\ w =< m
    <3>1. u.sender.stream \in StreamSet /\ w =< m
      BY <1>1, FineParts
    <3> QED BY <3>1 DEF StreamSet
  <2>3. Left = Excerpt(w, k)
    <3>1. env.bytes \in Seq(Nat) /\ env.bytes = Excerpt(0, m)
      BY EndpointAssumption DEF EndpointInv, Scenario, m
    <3>2. Left = SubSeq(env.bytes, w + 1, m)
      BY DEF Left, Stream, m
    <3> HIDE DEF w
    <3>3. SubSeq(env.bytes, w + 1, m) = Excerpt(0 + w, m - w)
      <4> DEFINE s == env.bytes
      <4>1. s \in Seq(Nat) /\ s = Excerpt(0, Len(s)) /\ m = Len(s) /\ w \in 0..Len(s) /\ 0 \in Nat
        BY <1>1, <2>2, <3>1 DEF m
      <4> HIDE DEF s
      <4>2. SubSeq(s, w + 1, Len(s)) = Excerpt(0 + w, Len(s) - w)
        BY ONLY <4>1, PartAt
      <4> QED BY <4>1, <4>2 DEF s
    <3>4. 0 + w = w
      BY <2>2
    <3> QED BY <3>2, <3>3, <3>4
  <2>4. k \in Nat /\ w + k =< m
    <3> HIDE DEF w
    <3> QED BY <1>1, <2>2
  <2> HIDE DEF k
  <2>5. Fine(v, d, m) /\ Onward(u, v) /\ v.receiver = u.receiver
    <3> HIDE DEF u, d
    <3> QED BY ONLY <1>1, <2>1, <2>4, WriteMoves
  <2>6. Peer(v, peer.got)
    BY <2>1, <2>3
  <2> HIDE DEF v
  <2> QED BY <1>1, <1>2, <2>5, <2>6
<1>6. CASE PeerEnd
  <2> DEFINE v == end_input_stream(u)
  <2>1. Peer(v, peer.got)
    BY <1>6 DEF PeerEnd
  <2>2. Fine(v, d, m) /\ Onward(u, v) /\ Kept(u, v)
    BY <1>1, EndKeeps
  <2> HIDE DEF v
  <2> QED BY <1>3, <2>1, <2>2
<1>7. CASE PeerRead
  <2> DEFINE k == Len(o.buffer)
             v == read_inbound(u, k)
             got == peer.got \o o.buffer
  <2>1. Peer(v, got)
    BY <1>7 DEF PeerRead, Arrivals
  <2>2. o \in StreamSet /\ d.sender.stream.bytes_read \in Nat
    <3>1. Fine(d, u, n)
      BY <1>1 DEF Linked
    <3> QED BY <1>1, <3>1, FineParts
  <2>3. o.buffer \in Seq(Nat) /\ k \in Nat /\ k =< Len(o.buffer) /\ k \in 0..Len(o.buffer)
    <3>1. o.buffer \in Seq(Nat)
      BY <2>2 DEF StreamSet
    <3> QED BY <3>1
  <2>4. /\ Fine(v, d, m) /\ Onward(u, v)
        /\ inbound(v.receiver).buffer = SubSeq(o.buffer, k + 1, Len(o.buffer))
        /\ inbound(v.receiver).bytes_written = o.bytes_written
    BY <1>1, <2>2, <2>3, ReadMoves
  <2> HIDE DEF v, o
  <2>5. /\ Ordered(inbound(v.receiver)) /\ Popped(inbound(v.receiver)) = Popped(o) + k
        /\ Popped(o) \in Nat /\ SubSeq(o.buffer, 1, k) = Excerpt(Popped(o), k)
    BY <1>1, <2>2, <2>3, <2>4, ReadInOrder
  <2>6. o.buffer = Excerpt(Popped(o), k)
    BY <2>3, <2>5, SubSeqFull
  <2>7. got = Excerpt(0, Popped(inbound(v.receiver)))
    <3>1. Excerpt(0, Popped(o)) \o Excerpt(0 + Popped(o), k) = Excerpt(0, Popped(o) + k)
      BY <2>3, <2>5, ExcerptJoin
    <3>2. 0 + Popped(o) = Popped(o)
      BY <2>5
    <3> QED BY <1>1, <2>5, <2>6, <3>1, <3>2
  <2> HIDE DEF got
  <2> QED BY <1>2, <2>1, <2>4, <2>5, <2>7
<1>8. CASE PeerReceive
  <2> DEFINE seg == Head(sock.out)
             v == IF peer.dead THEN u ELSE segment_received(u, seg)
             out == Tail(sock.out)
  <2>1. sock.out # << >> /\ sock.out \in Seq(SegmentSet) /\ peer.dead \in BOOLEAN
    BY <1>1, <1>8 DEF PeerReceive, SockSet, PeerSet
  <2>2. /\ seg \in Range(sock.out) /\ out \in Seq(SegmentSet)
        /\ Range(out) \subseteq Range(sock.out)
    <3>1. PICK x \in SegmentSet : TRUE
      <4>1. sock.out[1] \in SegmentSet
        BY <2>1
      <4> QED BY <4>1
    <3> QED BY <2>1, RangeEnds
  <2>3. Sound(seg, d, u.sender.isn)
    BY <1>1, <2>2 DEF Wire
  <2>4. Fine(v, d, m) /\ Onward(u, v) /\ Kept(u, v)
    <3>1. CASE peer.dead
      <4>1. v = u
        BY <3>1
      <4>2. Onward(u, u)
        BY <1>1, FlagMoves
      <4> HIDE DEF v
      <4> QED BY <1>1, <4>1, <4>2 DEF Kept
    <3>2. CASE ~peer.dead
      <4>1. v = segment_received(u, seg)
        BY <3>2
      <4> HIDE DEF v
      <4> QED BY <1>1, <2>3, <4>1, GetKeeps
    <3> QED BY <3>1, <3>2
  <2>5. /\ peer' = [peer EXCEPT !.tcp = [v EXCEPT !.segments_out = << >>],
                                !.got = peer.got, !.dead = peer.dead]
        /\ sock' = [sock EXCEPT !.out = out, !.in = sock.in \o v.segments_out]
        /\ UNCHANGED <<env, copy, pipe>>
    <3>1. /\ peer' = [peer EXCEPT !.tcp = [v EXCEPT !.segments_out = << >>]]
          /\ sock' = [sock EXCEPT !.out = Tail(@), !.in = @ \o v.segments_out]
          /\ UNCHANGED <<env, copy, pipe>>
      BY <1>8 DEF PeerReceive
    <3> HIDE DEF v
    <3> QED BY <1>1, <3>1 DEF PeerSet, SockSet
  <2> HIDE DEF v, out
  <2>6. peer.got = Excerpt(0, Popped(inbound(v.receiver))) /\ Ordered(inbound(v.receiver))
    BY <1>1, <2>4 DEF Kept
  <2>7. Fine(v, sock.tcp, Len(env.bytes)) /\ Onward(peer.tcp, v)
    BY <2>4 DEF m
  <2> QED BY ONLY EndpointInv, <2>1, <2>2, <2>5, <2>6, <2>7, PeerKeeps
<1>9. CASE PeerTick
  <2> DEFINE v == connection_tick(u, 1)
  <2>1. Peer(v, peer.got)
    BY <1>9 DEF PeerTick
  <2>2. Fine(v, d, m) /\ Onward(u, v) /\ Kept(u, v)
    BY <1>1, 1 \in Nat, TickKeeps
  <2> HIDE DEF v
  <2> QED BY <1>3, <2>1, <2>2
<1> QED BY <1>4, <1>5, <1>6, <1>7, <1>8, <1>9 DEF PeerStep

\* The peer dies and sends a reset.
LEMMA PeerResetKeeps == EndpointInv /\ PeerReset => EndpointInv'
<1> SUFFICES ASSUME EndpointInv, PeerReset PROVE EndpointInv'
  OBVIOUS
<1> DEFINE m == Len(env.bytes)
           u == peer.tcp
           d == sock.tcp
           v == unclean_shutdown(u, TRUE)
           got == peer.got
           dead == TRUE
           out == sock.out
<1>1. /\ sock \in SockSet /\ peer \in PeerSet /\ Fine(u, d, m) /\ m \in Nat
      /\ Ordered(inbound(u.receiver)) /\ got = Excerpt(0, Popped(inbound(u.receiver)))
  BY PeerParts
<1>2. out \in Seq(SegmentSet) /\ Range(out) \subseteq Range(sock.out) /\ dead \in BOOLEAN
  BY <1>1 DEF SockSet
<1>3. /\ peer' = [peer EXCEPT !.tcp = [v EXCEPT !.segments_out = << >>], !.got = got,
                              !.dead = dead]
      /\ sock' = [sock EXCEPT !.out = out, !.in = sock.in \o v.segments_out]
      /\ UNCHANGED <<env, copy, pipe>>
  <2>1. /\ peer' = [peer EXCEPT !.tcp = [v EXCEPT !.segments_out = << >>], !.dead = TRUE]
        /\ sock' = [sock EXCEPT !.in = @ \o v.segments_out]
        /\ UNCHANGED <<env, copy, pipe>>
    BY DEF PeerReset
  <2> HIDE DEF v
  <2> QED BY <1>1, <2>1 DEF PeerSet, SockSet
<1> HIDE DEF m
<1>4. Fine(v, d, m) /\ Onward(u, v) /\ Broken(u, v)
  BY <1>1, ResetMoves
<1> HIDE DEF v, got, dead, out
<1>5. /\ Ordered(inbound(v.receiver))
      /\ Popped(inbound(v.receiver)) = Popped(inbound(u.receiver))
  BY <1>1, <1>4 DEF Broken, Ordered, Popped
<1>6. got = Excerpt(0, Popped(inbound(v.receiver))) /\ Onward(peer.tcp, v)
  BY <1>1, <1>4, <1>5
<1>7. Fine(v, sock.tcp, Len(env.bytes))
  BY <1>4 DEF m
<1> QED BY ONLY EndpointInv, <1>2, <1>3, <1>5, <1>6, <1>7, PeerKeeps

-----------------------------------------------------------------------------
(* The invariant holds from the first state on.                             *)

\* A connection that is new.
LEMMA NewIs ==
    ASSUME NEW i \in 0..(Mod32 - 1), NEW C \in Nat
    PROVE  LET u == NewConnection(i, C, C)
           IN  /\ u \in ConnectionSet /\ u.segments_out = << >> /\ u.active
               /\ u.sender.isn = i /\ FillInv(u.sender)
               /\ (u.sender.timer_running <=> ~Settled(u.sender))
               /\ u.sender.segments_out = << >> /\ u.sender.ackno = 0
               /\ u.sender.stream = NewStream(C) /\ u.receiver = NewReceiver(C)
               /\ \A N \in Nat : /\ Good(u.receiver.reassembler, N)
                                 /\ Closed(u.receiver.reassembler, N)
               /\ u.receiver \in ReceiverSet
<1> DEFINE u == NewConnection(i, C, C)
           s == NewSender(i, C)
           x == NewReassembler(C)
           rcv == NewReceiver(C)
<1>1. i \in Int
  OBVIOUS
<1>2. FillInv(s) /\ s.isn = i /\ (s.timer_running <=> ~Settled(s))
  BY <1>1, NewSenderFacts
<1>3. s.segments_out = << >> /\ s.ackno = 0 /\ s.stream = NewStream(C) /\ s \in SenderSet
  BY <1>2 DEF NewSender, FillInv
<1>4. \A N \in Nat : Good(x, N) /\ Closed(x, N)
  BY NewReassemblerGood
<1>5. x \in [chunks : Stores, next : Nat, unassembled_bytes : Nat, eof_idx : Int,
             output : StreamSet]
  BY <1>4, GoodIsStored
<1>6. rcv \in ReceiverSet /\ rcv.reassembler = x
  BY <1>5 DEF NewReceiver, ReceiverSet, None
<1>7. u = [sender |-> s, receiver |-> rcv, segments_out |-> << >>,
           linger |-> TRUE, active |-> TRUE, time_since_last_segment_received |-> 0]
  BY DEF NewConnection
<1> HIDE DEF s, rcv, x, u
<1>8. << >> \in Seq(SegmentSet)
  OBVIOUS
<1>9. u \in ConnectionSet
  BY <1>3, <1>6, <1>7, <1>8 DEF ConnectionSet
<1>10. /\ u.segments_out = << >> /\ u.active /\ u.sender = s /\ u.receiver = rcv
  BY <1>7
<1> QED BY <1>2, <1>3, <1>4, <1>6, <1>9, <1>10 DEF u, rcv

\* One that is new is fine with another one that is.
LEMMA NewIsFine ==
    ASSUME NEW i \in 0..(Mod32 - 1), NEW j \in 0..(Mod32 - 1), NEW C \in Nat, NEW n \in Nat
    PROVE  LET u == NewConnection(i, C, C)
               d == NewConnection(j, C, C)
           IN  /\ Fine(u, d, n) /\ Ordered(inbound(u.receiver))
               /\ Popped(inbound(u.receiver)) = 0
               /\ u.sender.stream.bytes_written = 0
<1> DEFINE u == NewConnection(i, C, C)
           d == NewConnection(j, C, C)
           rcv == u.receiver
<1>1. /\ u \in ConnectionSet /\ u.segments_out = << >>
      /\ u.sender.isn = i /\ FillInv(u.sender)
      /\ (u.sender.timer_running <=> ~Settled(u.sender))
      /\ u.sender.segments_out = << >> /\ u.sender.ackno = 0
      /\ u.sender.stream = NewStream(C) /\ u.receiver = NewReceiver(C)
      /\ \A N \in Nat : Good(u.receiver.reassembler, N) /\ Closed(u.receiver.reassembler, N)
      /\ u.receiver \in ReceiverSet
  BY NewIs
<1>2. d.receiver \in ReceiverSet /\ d.sender.stream = NewStream(C)
  BY NewIs
<1> HIDE DEF u, d
<1>3. Range(u.sender.segments_out) = {} /\ Range(u.segments_out) = {}
  BY <1>1 DEF Range
<1>4. Sends(u, n) /\ u.sender.stream.bytes_written = 0
  <2>1. u.sender.stream.error = FALSE /\ u.sender.stream.bytes_written = 0
    BY <1>1 DEF NewStream
  <2> QED BY <1>1, <1>3, <2>1 DEF Sends
<1>5. /\ rcv.isn = None /\ inbound(rcv).bytes_written = 0 /\ inbound(rcv).input_ended = FALSE
      /\ inbound(rcv).buffer = << >> /\ inbound(rcv).capacity = C
      /\ rcv.reassembler.eof_idx = NoEof
  BY <1>1 DEF NewReceiver, NewReassembler, NewStream, inbound
<1>6. Len(<< >>) = 0 /\ Excerpt(0, 0) = << >>
  BY DEF Excerpt
<1>7. Hears(u, d.sender)
  <2>1. d.sender.stream.bytes_read = 0
    BY <1>2 DEF NewStream
  <2>2. rcv \in ReceiverSet /\ Good(rcv.reassembler, 0) /\ Closed(rcv.reassembler, 0)
    BY <1>1
  <2> HIDE DEF rcv
  <2> QED BY <1>5, <1>6, <2>1, <2>2 DEF Hears, rcv
<1>8. u.sender.ackno =< TakenBy(d.receiver)
  <2>1. TakenBy(d.receiver) \in Nat
    BY <1>2, TakenType
  <2> QED BY <1>1, <2>1
<1>9. Ordered(inbound(rcv)) /\ Popped(inbound(rcv)) = 0
  <2> DEFINE o == inbound(rcv)
  <2>1. o.bytes_written = 0 /\ o.buffer = << >>
    BY <1>5
  <2> HIDE DEF o
  <2>2. Popped(o) = 0 /\ Len(o.buffer) = 0
    <3>1. Len(o.buffer) = 0
      BY <1>6, <2>1
    <3> DEFINE l == Len(o.buffer)
    <3>2. Popped(o) = 0 - l /\ l = 0
      BY <2>1, <3>1 DEF Popped
    <3> HIDE DEF l
    <3>3. Popped(o) = 0
      BY <3>2
    <3> QED BY <3>1, <3>3
  <2>3. o.buffer = Excerpt(Popped(o), Len(o.buffer)) /\ Len(o.buffer) =< o.bytes_written
    BY <1>6, <2>1, <2>2
  <2> QED BY <2>2, <2>3 DEF Ordered, o
<1> QED BY <1>3, <1>4, <1>7, <1>8, <1>9 DEF Fine, u, d

\* What a scenario is.
LEMMA ScenarioIs ==
    ASSUME NEW scenario \in Scenarios
    PROVE  /\ scenario.listening \in BOOLEAN /\ scenario.capacity \in Nat
           /\ \A stream \in {scenario.typed, scenario.bytes} :
                 /\ stream \in Seq(Nat) /\ stream = Excerpt(0, Len(stream))
                 /\ Short(Len(stream))
           /\ ISN["self"] \in 0..(Mod32 - 1) /\ ISN["peer"] \in 0..(Mod32 - 1)
           /\ CopyBuffer \in Nat
<1>1. /\ scenario \in Scenario /\ ISN \in [{"self", "peer"} -> 0..(Mod32 - 1)]
      /\ CopyBuffer \in Nat
      /\ \A stream \in {scenario.typed, scenario.bytes} :
            /\ stream = Excerpt(0, Len(stream)) /\ Len(stream) + 2 < Half
            /\ Len(stream) + 2 + Mod32 < Mod64
  BY EndpointAssumption
<1>2. /\ scenario.listening \in BOOLEAN /\ scenario.capacity \in Nat
      /\ scenario.typed \in Seq(Nat) /\ scenario.bytes \in Seq(Nat)
  BY <1>1 DEF Scenario
<1>3. \A stream \in Seq(Nat) : Len(stream) \in Nat
  OBVIOUS
<1> QED BY <1>1, <1>2, <1>3 DEF Short

\* The first state.
LEMMA EndpointInit == Init => EndpointInv
<1> SUFFICES ASSUME Init PROVE EndpointInv
  OBVIOUS
<1> DEFINE n == Len(env.typed)
           m == Len(env.bytes)
           C == env.capacity
           u == NewConnection(ISN["self"], C, C)
           d == NewConnection(ISN["peer"], C, C)
           v == IF env.listening THEN u ELSE connect(u)
           none == << >>
<1>1. /\ env \in Scenarios /\ sock = [NewSocket(v) EXCEPT !.listening = env.listening]
      /\ copy = NewCopy(env.typed) /\ pipe = NewPair
      /\ peer = [tcp |-> d, got |-> none, dead |-> FALSE]
  BY DEF Init
<1>2. /\ env.listening \in BOOLEAN /\ C \in Nat /\ env.typed \in Seq(Nat)
      /\ env.typed = Excerpt(0, n) /\ Short(n) /\ Short(m) /\ n \in Nat /\ m \in Nat
      /\ ISN["self"] \in 0..(Mod32 - 1) /\ ISN["peer"] \in 0..(Mod32 - 1)
      /\ CopyBuffer \in Nat
  BY <1>1, ScenarioIs DEF Short
<1> HIDE DEF n, m, C
<1>3. /\ Fine(u, d, n) /\ Ordered(inbound(u.receiver)) /\ Popped(inbound(u.receiver)) = 0
      /\ u.sender.stream.bytes_written = 0 /\ u.active
  BY <1>2, NewIsFine, NewIs
<1>4. /\ Fine(d, u, m) /\ Ordered(inbound(d.receiver)) /\ Popped(inbound(d.receiver)) = 0
      /\ d \in ConnectionSet /\ d.segments_out = none /\ d.sender.isn \in 0..(Mod32 - 1)
  BY <1>2, NewIsFine, NewIs
<1> HIDE DEF u, d
<1>5. /\ Fine(v, d, n) /\ Onward(u, v) /\ v.receiver = u.receiver
      /\ v.sender.stream.bytes_written = 0
  <2>1. CASE env.listening
    <3>1. v = u /\ u \in ConnectionSet
      BY <1>3, <2>1, FineParts
    <3> HIDE DEF v
    <3> QED BY <1>3, <3>1, FlagMoves
  <2>2. CASE ~env.listening
    <3>1. v = connect(u)
      BY <2>2
    <3> HIDE DEF v
    <3>2. Fine(v, d, n) /\ Onward(u, v) /\ SameSource(u, v) /\ v.receiver = u.receiver
      BY <1>2, <1>3, <1>4, <3>1, ConnectMoves
    <3> QED BY <1>3, <3>2 DEF SameSource
  <2> QED BY <2>1, <2>2
<1>6. Linked(v, d, n, m) /\ v \in ConnectionSet
  <2>1. Linked(u, d, n, m)
    BY <1>2, <1>3, <1>4 DEF Linked
  <2> HIDE DEF v
  <2> QED BY <1>5, <2>1, GoesOn, FineParts
<1> HIDE DEF v
<1>7. /\ none \in Seq(SegmentSet) /\ none \in Seq(Nat) /\ Range(none) = {} /\ Len(none) = 0
      /\ \A a : none = Excerpt(a, 0)
  BY DEF Range, Excerpt
<1>8. sock = [tcp |-> v, rules |-> 1..4, at |-> "opening", listening |-> env.listening,
              abort |-> FALSE, in |-> none, out |-> none, thread_eof |-> FALSE,
              outbound_shutdown |-> FALSE, inbound_shutdown |-> FALSE]
  BY <1>1 DEF NewSocket
<1>9. /\ copy = [input |-> env.typed, input_eof |-> FALSE, socket_eof |-> FALSE,
                 outbound |-> NewStream(CopyBuffer), inbound |-> NewStream(CopyBuffer),
                 outbound_shutdown |-> FALSE, inbound_shutdown |-> FALSE,
                 output |-> none, rules |-> 1..4, at |-> "copying"]
      /\ pipe = [e \in {"owner", "tcp"} |-> [bytes |-> none, shut |-> FALSE]]
  BY <1>1 DEF NewCopy, NewPair
<1>10. /\ NewStream(CopyBuffer) \in StreamSet /\ NewStream(CopyBuffer).buffer = none
       /\ NewStream(CopyBuffer).error = FALSE /\ NewStream(CopyBuffer).capacity = CopyBuffer
  BY <1>2, <1>7 DEF NewStream, StreamSet
<1> DEFINE o == NewStream(CopyBuffer)
<1> HIDE DEF none, o
<1>11. sock \in SockSet /\ sock.tcp = v /\ sock.in = none /\ sock.out = none
  BY <1>2, <1>6, <1>7, <1>8 DEF SockSet
<1>12. copy \in CopySet /\ copy.input = env.typed /\ copy.output = none
       /\ copy.outbound = o /\ copy.inbound = o
  BY <1>2, <1>7, <1>9, <1>10 DEF CopySet, o
<1>13. pipe \in PipeSet /\ \A e \in {"owner", "tcp"} : pipe[e].bytes = none
  BY <1>7, <1>9 DEF PipeSet
<1>14. peer \in PeerSet /\ peer.tcp = d /\ peer.got = none
  BY <1>1, <1>4, <1>7 DEF PeerSet
<1>15. Roomy(copy, pipe)
  BY <1>2, <1>7, <1>10, <1>12, <1>13, PipeAssumption DEF Roomy, o
<1>16. Wire(sock, peer, n, m)
  BY <1>3, <1>4, <1>5, <1>6, <1>7, <1>11, <1>14 DEF Wire
<1>17. Outward(0, copy, pipe, n)
  <2>1. /\ Len(pipe["tcp"].bytes) = 0 /\ Len(copy.outbound.buffer) = 0 /\ Len(copy.input) = n
        /\ pipe["tcp"].bytes = none /\ copy.outbound.buffer = none
        /\ copy.input = Excerpt(0, n)
    BY <1>2, <1>7, <1>10, <1>12, <1>13 DEF o, n
  <2>2. 0 + 0 + 0 + n =< n /\ 0 + 0 + 0 + n = n /\ n - n = 0
    BY <1>2
  <2> QED BY <1>7, <2>1, <2>2 DEF Outward
<1>18. Inward(0, copy, pipe)
  <2>1. /\ Len(copy.output) = 0 /\ Len(copy.inbound.buffer) = 0
        /\ Len(pipe["owner"].bytes) = 0
        /\ copy.output = none /\ copy.inbound.buffer = none /\ pipe["owner"].bytes = none
    BY <1>7, <1>10, <1>12, <1>13 DEF o
  <2>2. 0 + 0 + 0 =< 0 /\ 0 + 0 + 0 = 0
    OBVIOUS
  <2> QED BY <1>7, <2>1, <2>2 DEF Inward
<1>19. Whole(sock, copy, pipe, peer, n, m)
  <2>1. /\ sock.tcp.sender.stream.bytes_written = 0
        /\ Popped(inbound(sock.tcp.receiver)) = 0
    BY <1>3, <1>5, <1>11
  <2> QED BY <1>11, <1>12, <1>13, <1>14, <1>15, <1>16, <1>17, <1>18, <2>1 DEF Whole
<1> QED BY <1>1, <1>19 DEF EndpointInv, n, m

\* Every step keeps the invariant.
LEMMA EndpointNext == EndpointInv /\ [Next]_vars => EndpointInv'
<1>1. EndpointInv /\ UNCHANGED vars => EndpointInv'
  BY DEF vars, EndpointInv
<1> QED BY <1>1, TurnStep, CopyStep, WaitStep, DestroyStep, PeerStepKeeps, PeerResetKeeps DEF Next

\* The connections of the socket and of its peer are fine in every state, no buffer
\* between them and the two applications holds too much, and every byte of either
\* direction is where it belongs (tcp_sponge_socket.cc:94-151,
\* bidirectional_stream_copy.cc:33-83).
THEOREM EndpointInvariant == Spec => []EndpointInv
<1>1. Init => EndpointInv
  BY EndpointInit
<1>2. EndpointInv /\ [Next]_vars => EndpointInv'
  BY EndpointNext
<1> QED BY <1>1, <1>2, PTL DEF Spec

\* What is printed is what the peer wrote, and what the peer reads is what was typed, byte
\* for byte and in order, whatever the partial writes and the two threads' interleaving
\* (tcp_sponge_socket.cc:126-134, bidirectional_stream_copy.cc:44-52).
THEOREM BytesInOrderHolds == Spec => []BytesInOrder
<1>1. EndpointInv => BytesInOrder
  <2> SUFFICES ASSUME EndpointInv PROVE BytesInOrder
    OBVIOUS
  <2>1. ASSUME NEW part, NEW whole, whole \in Seq(Nat), whole = Excerpt(0, Len(whole)),
               NEW k \in 0..Len(whole), part = Excerpt(0, k)
        PROVE  IsSent(part, whole)
    <3>1. SubSeq(whole, 1, k) = Excerpt(0, k)
      BY <2>1, 0 \in Nat, PartAt
    <3>2. Len(part) = k
      BY <2>1, ExcerptType
    <3> QED BY <2>1, <3>1, <3>2 DEF IsSent
  <2> DEFINE n == Len(env.typed)
             m == Len(env.bytes)
  <2>2. /\ env.typed \in Seq(Nat) /\ env.typed = Excerpt(0, n)
        /\ env.bytes \in Seq(Nat) /\ env.bytes = Excerpt(0, m) /\ n \in Nat /\ m \in Nat
    BY ScenarioIs DEF EndpointInv
  <2>3. IsSent(copy.output, env.bytes)
    <3> DEFINE q == Popped(inbound(sock.tcp.receiver))
               a == Len(copy.output)
    <3>1. /\ Wire(sock, peer, n, m) /\ Inward(q, copy, pipe) /\ copy \in CopySet
          /\ pipe \in PipeSet
      BY DEF EndpointInv, Whole
    <3>2. q \in Nat /\ q =< m
      <4>1. /\ Linked(sock.tcp, peer.tcp, n, m)
            /\ Ordered(inbound(sock.tcp.receiver))
        BY <3>1 DEF Wire
      <4> HIDE DEF n, m
      <4> QED BY <4>1, PoppedIsWritten
    <3>3. /\ a \in Nat /\ Len(copy.inbound.buffer) \in Nat
          /\ Len(pipe["owner"].bytes) \in Nat
      BY <3>1, CopyParts
    <3> HIDE DEF q
    <3>4. a + Len(copy.inbound.buffer) + Len(pipe["owner"].bytes) =< q /\ copy.output = Excerpt(0, a)
      BY <3>1 DEF Inward
    <3>5. a \in 0..m
      <4> DEFINE b == Len(copy.inbound.buffer)
                 k == Len(pipe["owner"].bytes)
      <4>1. a + b + k =< q /\ a \in Nat /\ b \in Nat /\ k \in Nat /\ m \in Nat
        BY <2>2, <3>3, <3>4
      <4> HIDE DEF a, b, k, m
      <4> QED BY <3>2, <4>1
    <3> HIDE DEF a
    <3> QED BY <2>1, <2>2, <3>4, <3>5
  <2>4. IsSent(peer.got, env.typed)
    <3> DEFINE q == Popped(inbound(peer.tcp.receiver))
    <3>1. Linked(peer.tcp, sock.tcp, m, n) /\ Ordered(inbound(peer.tcp.receiver))
      BY PeerParts
    <3>2. q \in 0..n
      <4>1. q \in Nat /\ q =< n /\ n \in Nat
        <5> HIDE DEF n, m
        <5> QED BY <3>1, PoppedIsWritten
      <4> QED BY <4>1
    <3>3. peer.got = Excerpt(0, q)
      BY PeerParts
    <3> HIDE DEF q
    <3> QED BY <2>1, <2>2, <3>2, <3>3
  <2> QED BY <2>3, <2>4 DEF BytesInOrder
<1> QED BY <1>1, EndpointInvariant, PTL
=============================================================================
