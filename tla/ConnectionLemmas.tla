-------------------------- MODULE ConnectionLemmas --------------------------
(***************************************************************************)
(* What the methods of a TCPConnection and of its parts keep, for every      *)
(* record, width, capacity and payload size: wrap and unwrap, with the facts *)
(* about remainders that they take; the sender; the reassembler; and a       *)
(* connection with regard to its peer.                                       *)
(***************************************************************************)
EXTENDS TCPConnection, SequenceTheorems, FiniteSetTheorems, TLAPS

-----------------------------------------------------------------------------
(* Sequence numbers and the sender.                                         *)

\* Quotient and remainder.
LEMMA DivMod ==
    ASSUME NEW x \in Int, NEW m \in Nat, m > 0
    PROVE  /\ x = m * (x \div m) + (x % m)
           /\ 0 =< x % m /\ x % m < m /\ x % m \in Int /\ x \div m \in Int
OBVIOUS

\* The remainder is the only number of 0..m-1 that is a multiple of m away.
LEMMA UniqueRemainder ==
    ASSUME NEW m \in Nat, m > 0, NEW k \in Int, NEW a \in Int, 0 =< a, a < m
    PROVE  (m * k + a) % m = a
<1> DEFINE x == m * k + a
<1>1. x \in Int /\ x = m * (x \div m) + (x % m) /\ 0 =< x % m /\ x % m < m /\ x \div m \in Int
  OBVIOUS
<1>2. m * (k - (x \div m)) = (x % m) - a
  BY <1>1
<1>3. CASE k = x \div m
  BY <1>2, <1>3, <1>1
<1>4. CASE k > x \div m
  BY <1>2, <1>4, <1>1
<1>5. CASE k < x \div m
  BY <1>2, <1>5, <1>1
<1> QED BY <1>3, <1>4, <1>5, <1>1

\* Numbers with the same remainder are a multiple of m apart.
LEMMA SameRemainder ==
    ASSUME NEW x \in Int, NEW y \in Int, NEW m \in Nat, m > 0, x % m = y % m
    PROVE  \E k \in Int : y = x + m * k
<1>1. x = m * (x \div m) + (x % m) /\ y = m * (y \div m) + (y % m)
      /\ x \div m \in Int /\ y \div m \in Int /\ x % m \in Int
  BY DivMod
<1> DEFINE k == (y \div m) - (x \div m)
<1>2. k \in Int /\ y = x + m * k
  BY <1>1
<1> HIDE DEF k
<1> QED BY <1>2

\* The multiple of m at or below x.
LEMMA Floor ==
    ASSUME NEW x \in Nat, NEW m \in Nat, m > 0
    PROVE  LET f == x - (x % m)
           IN  f \in Nat /\ f =< x /\ x < f + m /\ f % m = 0
<1> DEFINE k == x \div m
<1>1. x = m * k + (x % m) /\ 0 =< x % m /\ x % m < m /\ x % m \in Int /\ k \in Int
  BY DivMod
<1>2. k >= 0 /\ m * k \in Nat
  BY <1>1
<1>3. (m * k + 0) % m = 0
  BY <1>1, UniqueRemainder
<1> QED BY <1>1, <1>2, <1>3

\* A multiple of m is m times its quotient.
LEMMA Quotient ==
    ASSUME NEW x \in Nat, NEW m \in Nat, m > 0, x % m = 0
    PROVE  x \div m \in Nat /\ x = m * (x \div m)
BY DivMod

\* Different multiples of m are m apart.
LEMMA Apart ==
    ASSUME NEW x \in Nat, NEW y \in Nat, NEW m \in Nat, m > 0,
           x % m = 0, y % m = 0, x < y
    PROVE  x + m =< y
<1> DEFINE i == x \div m
           j == y \div m
<1>1. i \in Nat /\ j \in Nat /\ x = m * i /\ y = m * j
  BY Quotient
<1> HIDE DEF i, j
<1>2. i < j
  BY <1>1
<1>3. m * (i + 1) =< m * j
  BY <1>1, <1>2
<1> QED BY <1>1, <1>3

\* The numbers below base + n that are a multiple of m away from base.
Multiples(base, n, m) == {p \in base..(base + n - 1) : (p - base) % m = 0}

\* Counted from 1, the k-th of them is base + (k - 1) * m.
LEMMA CountedMultiples ==
    ASSUME NEW base \in Nat, NEW n \in Nat, NEW m \in Nat, m > 0
    PROVE  LET S == Multiples(base, n, m)
           IN  /\ IsFiniteSet(S)
               /\ Cardinality(S) \in Nat
               /\ \A k \in 1..Cardinality(S) : base + (k - 1) * m \in S
<1> DEFINE S == Multiples(base, n, m)
<1> USE DEF Multiples
<1> DEFINE c == (n + m - 1) \div m
           f == [k \in 1..c |-> base + (k - 1) * m]
<1>1. c \in Nat /\ m * c < n + m /\ n =< m * c
  <2>1. n + m - 1 \in Nat
    OBVIOUS
  <2>2. n + m - 1 = m * c + ((n + m - 1) % m) /\ 0 =< (n + m - 1) % m
        /\ (n + m - 1) % m < m /\ (n + m - 1) % m \in Int /\ c \in Int
    BY <2>1, DivMod
  <2> HIDE DEF c
  <2>3. m * c \in Int
    BY <2>2
  <2>4. n =< m * c /\ m * c < n + m
    BY <2>2, <2>3
  <2>5. c >= 0
    BY <2>2, <2>4
  <2> QED BY <2>2, <2>4, <2>5
<1> HIDE DEF c
<1>2. ASSUME NEW k \in 1..c
      PROVE  (k - 1) * m \in Nat /\ base + (k - 1) * m \in S
  <2>1. (k - 1) * m = m * (k - 1) /\ m * (k - 1) \in Nat /\ m * (k - 1) + m =< m * c
    BY <1>1
  <2>2. (m * (k - 1) + 0) % m = 0
    BY <1>1, UniqueRemainder
  <2> DEFINE x == (k - 1) * m
  <2>3. x \in Nat /\ x < n /\ x % m = 0
    BY <1>1, <2>1, <2>2
  <2> HIDE DEF x
  <2>4. base + x \in base..(base + n - 1) /\ (base + x) - base = x
    BY <2>3
  <2> QED BY <2>3, <2>4 DEF x
<1>3. ASSUME NEW p \in S
      PROVE  \E k \in 1..c : base + (k - 1) * m = p
  <2> DEFINE x == p - base
             i == x \div m
  <2>1. x \in Nat /\ x < n /\ x % m = 0 /\ p = base + x
    OBVIOUS
  <2> HIDE DEF x
  <2>2. i \in Nat /\ x = m * i
    BY <2>1, Quotient
  <2> HIDE DEF i
  <2>3. i < c
    BY <1>1, <2>1, <2>2
  <2>4. i + 1 \in 1..c /\ ((i + 1) - 1) * m = m * i
    BY <1>1, <2>2, <2>3
  <2> QED BY <2>1, <2>2, <2>4
<1>4. ASSUME NEW k \in 1..c, NEW l \in 1..c, base + (k - 1) * m = base + (l - 1) * m
      PROVE  k = l
  <2>1. (k - 1) * m = (l - 1) * m
    BY <1>4, <1>2
  <2>2. m * (k - l) = 0
    BY <2>1
  <2> QED BY <2>2
<1>5. f \in [1..c -> S] /\ \A k \in 1..c : f[k] = base + (k - 1) * m
  BY <1>2
<1> HIDE DEF f, S
<1>6. f \in Bijection(1..c, S)
  <2>1. \A k, l \in 1..c : f[k] = f[l] => k = l
    BY <1>4, <1>5
  <2>2. \A p \in S : \E k \in 1..c : f[k] = p
    BY <1>3, <1>5
  <2>3. f \in Injection(1..c, S)
    BY <1>5, <2>1 DEF Injection, IsInjective
  <2>4. f \in Surjection(1..c, S)
    BY <1>5, <2>2 DEF Surjection
  <2> QED BY <2>3, <2>4 DEF Bijection
<1>7. Cardinality(S) = c
  BY <1>1, <1>6, FS_CountingElements DEF ExistsBijection
<1>8. IsFiniteSet(S)
  BY <1>1, <1>6, FS_NatBijection DEF ExistsBijection
<1> QED BY <1>1, <1>2, <1>7, <1>8 DEF S

-----------------------------------------------------------------------------
\* The period is even.
LEMMA HalfIsHalf == Half \in Nat /\ Mod32 = 2 * Half /\ Half > 0
BY WidthAssumption DEF Half

\* Equal wrapped numbers are equal modulo the period.
LEMMA WrapInjective ==
    ASSUME NEW x \in Int, NEW y \in Int, NEW i \in Int, wrap(x, i) = wrap(y, i)
    PROVE  \E k \in Int : y = x + Mod32 * k
<1> DEFINE a == x + i
           b == y + i
<1>1. a \in Int /\ b \in Int /\ a % Mod32 = b % Mod32 /\ Mod32 \in Nat /\ Mod32 > 0
  BY WidthAssumption DEF wrap
<1> HIDE DEF a, b
<1>2. PICK k \in Int : b = a + Mod32 * k
  BY <1>1, SameRemainder
<1>3. Mod32 * k \in Int
  BY <1>1
<1>4. y = x + Mod32 * k
  BY <1>2, <1>3 DEF a, b
<1> QED BY <1>4

\* The first guess lies in the checkpoint's period and wraps to n.
LEMMA SpliceFacts ==
    ASSUME NEW i \in 0..(Mod32 - 1), NEW n \in 0..(Mod32 - 1), NEW c \in Nat
    PROVE  /\ Splice(n, i, c) \in Nat
           /\ wrap(Splice(n, i, c), i) = n
           /\ Splice(n, i, c) - c < Mod32 /\ c - Splice(n, i, c) < Mod32
           /\ Splice(n, i, c) < Mod32 => c < Mod32
           /\ c < Mod32 => Splice(n, i, c) < Mod32
<1> USE WidthAssumption
<1> DEFINE o == (n - i) % Mod32
           q == (n - i) \div Mod32
           C == c \div Mod32
           t == Splice(n, i, c)
<1>1. n - i = Mod32 * q + o /\ 0 =< o /\ o < Mod32 /\ o \in Int /\ q \in Int
  BY DivMod
<1>2. c = Mod32 * C + (c % Mod32) /\ 0 =< c % Mod32 /\ c % Mod32 < Mod32
      /\ c % Mod32 \in Int /\ C \in Int
  BY DivMod
<1>3. t = Mod32 * C + o
  BY <1>1, <1>2 DEF Splice
<1>4. Mod32 * C \in Nat /\ C >= 0
  <2>1. Mod32 * C > - Mod32
    BY <1>2
  <2>2. C >= 0
    BY <2>1, <1>2
  <2> QED BY <2>2, <1>2
<1>5. wrap(t, i) = n
  <2> DEFINE d == C - q
  <2>1. d \in Int /\ Mod32 * d = Mod32 * C - Mod32 * q
    BY <1>1, <1>2
  <2>2. t + i = Mod32 * d + n
    BY <2>1, <1>1, <1>2, <1>3
  <2>3. 0 =< n /\ n < Mod32 /\ n \in Int
    OBVIOUS
  <2> HIDE DEF d
  <2>4. (Mod32 * d + n) % Mod32 = n
    BY <2>1, <2>3, UniqueRemainder
  <2> QED BY <2>2, <2>4 DEF wrap
<1>6. t - c < Mod32 /\ c - t < Mod32
  BY <1>1, <1>2, <1>3, <1>4
<1>7. (t < Mod32 => C = 0) /\ (c < Mod32 => C = 0)
  BY <1>1, <1>2, <1>3, <1>4
<1> QED BY <1>1, <1>2, <1>3, <1>4, <1>5, <1>6, <1>7

\* Where unwrap moves, by how much, and how far from the checkpoint it ends.
LEMMA UnwrapFacts ==
    ASSUME NEW i \in 0..(Mod32 - 1), NEW n \in 0..(Mod32 - 1), NEW c \in Nat,
           c + Mod32 < Mod64
    PROVE  LET x == unwrap(n, i, c)
           IN  /\ x \in 0..(Mod64 - 1)
               /\ wrap(x, i) = n
               /\ Distance(x, c) =< Half \/ (x < Mod32 /\ c < x)
<1> DEFINE t == Splice(n, i, c)
           x == unwrap(n, i, c)
<1>1. /\ t \in Nat /\ wrap(t, i) = n /\ t - c < Mod32 /\ c - t < Mod32
      /\ t < Mod32 => c < Mod32
  BY SpliceFacts
<1>2. Mod32 \in Nat /\ Mod64 \in Nat /\ Half \in Nat /\ Mod32 = 2 * Half /\ Half > 0
  BY WidthAssumption, HalfIsHalf
<1>3. x = CASE t - c > Half /\ t >= Mod32 -> t - Mod32
            [] c - t > Half               -> (t + Mod32) % Mod64
            [] OTHER                      -> t
  BY DEF unwrap
<1> SUFFICES /\ x \in 0..(Mod64 - 1) /\ wrap(x, i) = n
             /\ Distance(x, c) =< Half \/ (x < Mod32 /\ c < x)
  OBVIOUS
<1> HIDE DEF t, x
<1>4. CASE t - c > Half /\ t >= Mod32
  <2>1. x = t - Mod32
    BY <1>3, <1>4, <1>1, <1>2
  <2>2. wrap(x, i) = wrap(t, i)
    <3> DEFINE a == t + i
    <3>1. a \in Int
      BY <1>1, <1>2
    <3>2. x + i = a - Mod32
      BY <2>1, <1>1, <1>2
    <3> HIDE DEF a
    <3>3. (a - Mod32) % Mod32 = a % Mod32
      <4> DEFINE k == a \div Mod32 - 1
                 r == a % Mod32
      <4>1. k \in Int /\ r \in Int /\ 0 =< r /\ r < Mod32 /\ a - Mod32 = Mod32 * k + r
        BY <3>1, <1>2, DivMod
      <4> HIDE DEF k
      <4>2. (Mod32 * k + r) % Mod32 = r
        BY <4>1, <1>2, UniqueRemainder, SMTT(30)
      <4> QED BY <4>1, <4>2
    <3> QED BY <3>2, <3>3 DEF wrap, a
  <2> QED BY <2>1, <2>2, <1>1, <1>2, <1>4 DEF Distance
<1>5. CASE c - t > Half
  <2>1. t + Mod32 \in 0..(Mod64 - 1)
    BY <1>1, <1>2, <1>5
  <2>2. x = t + Mod32
    <3>1. Mod64 > 0 /\ (Mod64 * 0 + (t + Mod32)) % Mod64 = t + Mod32
      BY <2>1, <1>1, <1>2, UniqueRemainder
    <3>2. x = (t + Mod32) % Mod64
      BY <1>3, <1>5, <1>1, <1>2
    <3> QED BY <3>1, <3>2, <1>1, <1>2
  <2>3. wrap(x, i) = wrap(t, i)
    <3> DEFINE a == t + i
               k == a \div Mod32 + 1
               r == a % Mod32
    <3>1. k \in Int /\ r \in Int /\ 0 =< r /\ r < Mod32 /\ a + Mod32 = Mod32 * k + r
      BY <1>1, <1>2, DivMod
    <3> HIDE DEF k
    <3>2. (Mod32 * k + r) % Mod32 = r
      BY <3>1, <1>2, UniqueRemainder
    <3>3. x + i = a + Mod32
      BY <2>2, <1>1, <1>2
    <3> QED BY <3>1, <3>2, <3>3 DEF wrap
  <2> QED BY <2>1, <2>2, <2>3, <1>1, <1>2, <1>5 DEF Distance
<1>6. CASE ~(t - c > Half /\ t >= Mod32) /\ ~(c - t > Half)
  <2>1. x = t
    BY <1>3, <1>6
  <2> QED BY <2>1, <1>1, <1>2, <1>6 DEF Distance
<1> QED BY <1>4, <1>5, <1>6

\* unwrap returns a number of uint64_t that wraps to n, and none is closer to the
\* checkpoint.
LEMMA UnwrapIsClosest ==
    ASSUME NEW i \in 0..(Mod32 - 1), NEW n \in 0..(Mod32 - 1), NEW c \in Nat,
           c + Mod32 < Mod64,
           NEW y \in 0..(Mod64 - 1), wrap(y, i) = n
    PROVE  Distance(unwrap(n, i, c), c) =< Distance(y, c)
<1> DEFINE x == unwrap(n, i, c)
<1>1. /\ x \in 0..(Mod64 - 1) /\ wrap(x, i) = n
      /\ Distance(x, c) =< Half \/ (x < Mod32 /\ c < x)
  BY UnwrapFacts
<1> SUFFICES Distance(x, c) =< Distance(y, c)
  OBVIOUS
<1> HIDE DEF x
<1>2. Mod32 \in Nat /\ Mod64 \in Nat /\ Half \in Nat /\ Mod32 = 2 * Half /\ Half > 0
  BY WidthAssumption, HalfIsHalf
<1>3. PICK k \in Int : y = x + Mod32 * k
  BY <1>1, <1>2, WrapInjective
<1>4. /\ k > 0 => Mod32 * k >= Mod32
      /\ k < 0 => Mod32 * k =< -Mod32
      /\ k = 0 => Mod32 * k = 0
      /\ Mod32 * k \in Int
  BY <1>2
<1>5. CASE Distance(x, c) =< Half
  BY <1>1, <1>2, <1>3, <1>4, <1>5 DEF Distance
<1>6. CASE x < Mod32 /\ c < x
  BY <1>1, <1>2, <1>3, <1>4, <1>6 DEF Distance
<1> QED BY <1>1, <1>5, <1>6

\* A number less than half a period away from the checkpoint survives the trip over
\* the wire.
LEMMA UnwrapInvertsWrap ==
    ASSUME NEW i \in 0..(Mod32 - 1), NEW p \in 0..(Mod64 - 1), NEW c \in Nat,
           c + Mod32 < Mod64, Distance(p, c) < Half
    PROVE  unwrap(wrap(p, i), i, c) = p
<1> DEFINE n == wrap(p, i)
           x == unwrap(n, i, c)
<1>1. Mod32 \in Nat /\ Mod64 \in Nat /\ Half \in Nat /\ Mod32 = 2 * Half /\ Half > 0
  BY WidthAssumption, HalfIsHalf
<1>2. n \in 0..(Mod32 - 1)
  BY <1>1, DivMod DEF wrap
<1>3. x \in 0..(Mod64 - 1) /\ wrap(x, i) = n
  BY <1>2, UnwrapFacts
<1>4. Distance(x, c) =< Distance(p, c)
  BY <1>2, UnwrapIsClosest
<1> HIDE DEF x
<1>5. PICK k \in Int : p = x + Mod32 * k
  BY <1>1, <1>3, WrapInjective
<1>6. /\ k > 0 => Mod32 * k >= Mod32
      /\ k < 0 => Mod32 * k =< -Mod32
      /\ k = 0 => Mod32 * k = 0
      /\ Mod32 * k \in Int
  BY <1>1
<1>7. x = p
  BY <1>1, <1>3, <1>4, <1>5, <1>6 DEF Distance
<1> QED BY <1>7 DEF x

-----------------------------------------------------------------------------
SegmentSet ==
    [seqno : Nat, ackno : Nat, win : Nat,
     syn : BOOLEAN, ack : BOOLEAN, fin : BOOLEAN, rst : BOOLEAN,
     payload : Seq(Nat)]

StreamSet ==
    [buffer : Seq(Nat), capacity : Nat, input_ended : BOOLEAN, error : BOOLEAN,
     bytes_written : Nat, bytes_read : Nat]

\* The tracked segments: a function from their absolute starts.
Tracked == UNION {[D -> SegmentSet] : D \in SUBSET Nat}

SenderSet ==
    [isn : Int, stream : StreamSet, ackno : Nat, window_size : Nat, next_seqno : Nat,
     outstanding : Tracked,
     segments_out : Seq(SegmentSet),
     rto : Nat, timer : Nat, timer_running : BOOLEAN,
     consecutive_retransmissions : Nat, syn_sent : BOOLEAN, fin_sent : BOOLEAN]

\* A default-constructed segment has the type of a segment.
LEMMA SegmentType ==
    ASSUME NEW p \in Int, NEW i \in Int
    PROVE  Segment(wrap(p, i)) \in SegmentSet
<1>1. wrap(p, i) \in Nat
  BY WidthAssumption DEF wrap
<1>2. << >> \in Seq(Nat)
  OBVIOUS
<1> QED BY <1>1, <1>2 DEF Segment, SegmentSet

\* A segment takes a natural number of sequence numbers.
LEMMA LengthType ==
    ASSUME NEW seg \in SegmentSet
    PROVE  length_in_sequence_space(seg) \in Nat
<1>1. seg.payload \in Seq(Nat) /\ Len(seg.payload) \in Nat
  BY DEF SegmentSet
<1> DEFINE n == Len(seg.payload)
           syn == IF seg.syn THEN 1 ELSE 0
           fin == IF seg.fin THEN 1 ELSE 0
<1>2. n \in Nat /\ syn \in Nat /\ fin \in Nat
  BY <1>1
<1>3. length_in_sequence_space(seg) = n + syn + fin
  BY DEF length_in_sequence_space
<1> HIDE DEF n, syn, fin
<1> QED BY <1>2, <1>3

\* unwrap returns a natural number, whatever the distance of its arguments.
LEMMA UnwrapType ==
    ASSUME NEW n \in Int, NEW i \in Int, NEW c \in Nat
    PROVE  unwrap(n, i, c) \in Nat
<1> USE WidthAssumption
<1>1. Splice(n, i, c) \in Nat
  <2>1. c = Mod32 * (c \div Mod32) + (c % Mod32) /\ 0 =< c % Mod32 /\ c % Mod32 \in Int
        /\ c % Mod32 < Mod32 /\ c \div Mod32 \in Int
    OBVIOUS
  <2>2. c \div Mod32 >= 0
    BY <2>1
  <2>3. Mod32 * (c \div Mod32) \in Nat
    BY <2>2, <2>1
  <2>4. (n - i) % Mod32 \in Nat
    OBVIOUS
  <2> QED BY <2>1, <2>3, <2>4 DEF Splice
<1>2. (Splice(n, i, c) + Mod32) % Mod64 \in Nat
  BY <1>1
<1> QED BY <1>1, <1>2 DEF unwrap

\* The functions that can be tracked: segments that fill the numbers from the next
\* one to `end' in pieces, at multiples of the payload size.
Tiling(t, new, end) ==
    /\ new \in Tracked
    /\ end \in Nat /\ t.next_seqno =< end
    /\ \A k \in 1..Cardinality(DOMAIN new) :
           t.next_seqno + (k - 1) * MAX_PAYLOAD_SIZE \in DOMAIN new
    /\ Cardinality(DOMAIN new) \in Nat
    /\ \A q \in t.next_seqno..(end - 1) :
           \E p \in DOMAIN new : p =< q /\ q < p + length_in_sequence_space(new[p])
    /\ \A p \in DOMAIN new :
           LET e == p + length_in_sequence_space(new[p])
           IN  /\ t.next_seqno =< p /\ p < e /\ e =< end
               /\ \A q \in DOMAIN new : p < q => e =< q

\* UnackedIsOutstanding of a record, and that every outstanding segment takes room.
Covers(t) ==
    /\ t.ackno =< t.next_seqno
    /\ \A q \in t.ackno..(t.next_seqno - 1) :
           \E p \in DOMAIN t.outstanding : p =< q /\ q < SegEnd(t, p)
    /\ \A p \in DOMAIN t.outstanding :
           /\ p < SegEnd(t, p)
           /\ t.ackno < SegEnd(t, p) /\ SegEnd(t, p) =< t.next_seqno
           /\ \A q \in DOMAIN t.outstanding : p < q => SegEnd(t, p) =< q

\* SeqnoAccounting of a record; before the SYN nothing was sent.
Accounts(t) ==
    /\ t.next_seqno = (IF t.syn_sent THEN 1 ELSE 0) + t.stream.bytes_read
                      + (IF t.fin_sent THEN 1 ELSE 0)
    /\ t.fin_sent => t.syn_sent /\ t.stream.input_ended /\ t.stream.buffer = << >>
    /\ ~t.syn_sent => t.next_seqno = 0

\* The buffer holds the bytes after those that were read, within its capacity.
Buffers(t) ==
    /\ Len(t.stream.buffer) =< t.stream.capacity
    /\ t.stream.bytes_written = t.stream.bytes_read + Len(t.stream.buffer)
    /\ \A k \in 1..Len(t.stream.buffer) : t.stream.buffer[k] = t.stream.bytes_read + k - 1

\* SegmentsCarryTheStream of a record, the payload number by number; the SYN goes out
\* alone, and an acknowledgment is stamped on a segment only when it leaves.
Carries(t) ==
    \A p \in DOMAIN t.outstanding :
        LET seg == t.outstanding[p]
        IN  /\ seg.seqno = wrap(p, t.isn)
            /\ seg.syn <=> p = 0
            /\ seg.fin <=> (t.fin_sent /\ SegEnd(t, p) = t.next_seqno)
            /\ Len(seg.payload) =< MAX_PAYLOAD_SIZE
            /\ \A k \in 1..Len(seg.payload) : seg.payload[k] = p + k - 2
            /\ seg.syn => Len(seg.payload) = 0 /\ ~seg.fin
            /\ ~seg.ack

TimerRuns(t) == ~Settled(t) => t.timer_running

\* What fill_window keeps.
FillInv(t) ==
    /\ t \in SenderSet
    /\ Covers(t) /\ Accounts(t) /\ Buffers(t) /\ Carries(t) /\ TimerRuns(t)

\* What a call of the sender that sends leaves as it was or lets grow: nothing is queued
\* that was not queued before or is outstanding after it.
Grown(t, u) ==
    /\ u.isn = t.isn
    /\ u.stream.bytes_read >= t.stream.bytes_read
    /\ u.stream.bytes_written = t.stream.bytes_written
    /\ u.stream.input_ended = t.stream.input_ended
    /\ u.stream.error = t.stream.error
    /\ u.stream.capacity = t.stream.capacity
    /\ t.syn_sent => u.syn_sent
    /\ t.fin_sent => u.fin_sent
    /\ Range(u.segments_out) \subseteq Range(t.segments_out) \cup Range(u.outstanding)

\* A call that acknowledges nothing keeps what is outstanding and the window, too.
Filled(t, u) ==
    /\ Grown(t, u)
    /\ Range(t.outstanding) \subseteq Range(u.outstanding)
    /\ u.ackno = t.ackno /\ u.window_size = t.window_size

\* The window is used up, or there is nothing left to send.
FilledUp(t) ==
    \/ t.next_seqno >= WindowRight(t)
    \/ t.stream.buffer = << >> /\ (t.stream.input_ended => t.fin_sent)

\* A call that only changes the stream.
OnlyStream(t, u) ==
    /\ u.isn = t.isn /\ u.ackno = t.ackno /\ u.window_size = t.window_size
    /\ u.next_seqno = t.next_seqno /\ u.outstanding = t.outstanding
    /\ u.segments_out = t.segments_out /\ u.timer_running = t.timer_running
    /\ u.consecutive_retransmissions = t.consecutive_retransmissions
    /\ u.syn_sent = t.syn_sent /\ u.fin_sent = t.fin_sent

\* The new segments are added to the outstanding ones.
LEMMA TrackOutstanding ==
    ASSUME NEW t \in SenderSet, NEW new, NEW end
    PROVE  Track(t, new, end).outstanding =
               [p \in DOMAIN t.outstanding \cup DOMAIN new |->
                   IF p \in DOMAIN new THEN new[p] ELSE t.outstanding[p]]
BY DEF Track, SenderSet

\* Track keeps the type, moves the next number to `end' and changes no other counter.
LEMMA TrackType ==
    ASSUME NEW t \in SenderSet, NEW new, NEW end, Tiling(t, new, end)
    PROVE  /\ Track(t, new, end) \in SenderSet
           /\ Track(t, new, end).next_seqno = end
           /\ Track(t, new, end).isn = t.isn
           /\ Track(t, new, end).stream = t.stream
           /\ Track(t, new, end).ackno = t.ackno
           /\ Track(t, new, end).window_size = t.window_size
           /\ Track(t, new, end).rto = t.rto
           /\ Track(t, new, end).consecutive_retransmissions = t.consecutive_retransmissions
           /\ Track(t, new, end).syn_sent = t.syn_sent
           /\ Track(t, new, end).fin_sent = t.fin_sent
<1> DEFINE starts == DOMAIN new
           m == Cardinality(starts)
           sent == [k \in 1..m |-> new[t.next_seqno + (k - 1) * MAX_PAYLOAD_SIZE]]
           tracked == [p \in DOMAIN t.outstanding \cup starts |->
                          IF p \in starts THEN new[p] ELSE t.outstanding[p]]
<1>1. PICK D \in SUBSET Nat : new \in [D -> SegmentSet]
  BY DEF Tiling, Tracked
<1>2. PICK E \in SUBSET Nat : t.outstanding \in [E -> SegmentSet]
  BY DEF SenderSet, Tracked
<1>3. tracked \in Tracked
  <2>1. tracked \in [E \cup D -> SegmentSet] /\ E \cup D \in SUBSET Nat
    BY <1>1, <1>2
  <2> QED BY <2>1 DEF Tracked
<1>4. t.segments_out \o sent \in Seq(SegmentSet)
  <2>1. sent \in [1..m -> SegmentSet] /\ m \in Nat
    BY <1>1 DEF Tiling
  <2>2. sent \in Seq(SegmentSet)
    BY <2>1
  <2> QED BY <2>2 DEF SenderSet
<1>5. end \in Nat
  BY DEF Tiling
<1> DEFINE timer == IF Settled(t) /\ starts # {} THEN 0 ELSE t.timer
           queue == t.segments_out \o sent
           running == t.timer_running \/ (Settled(t) /\ starts # {})
<1>6. Track(t, new, end) =
        [t EXCEPT !.outstanding = tracked, !.segments_out = queue, !.next_seqno = end,
                  !.timer = timer, !.timer_running = running]
  BY DEF Track
<1>7. queue \in Seq(SegmentSet) /\ timer \in Nat /\ running \in BOOLEAN
  BY <1>4 DEF SenderSet
<1> HIDE DEF starts, m, sent, queue, tracked, timer, running
<1>8. Track(t, new, end) \in SenderSet
  BY <1>3, <1>5, <1>6, <1>7, ZenonT(60) DEF SenderSet
<1> QED
  BY <1>6, <1>8 DEF SenderSet, starts, tracked

\* What the window lets out is buffered.
LEMMA SendableType ==
    ASSUME NEW t \in SenderSet
    PROVE  /\ Sendable(t) \in 0..Len(t.stream.buffer)
           /\ FinFits(t) \in BOOLEAN
           /\ Len(t.stream.buffer) \in Nat /\ t.stream.buffer \in Seq(Nat)
<1>1. /\ t.stream.buffer \in Seq(Nat) /\ t.next_seqno \in Nat
      /\ t.ackno \in Nat /\ t.window_size \in Nat
  BY DEF SenderSet, StreamSet
<1>2. Len(t.stream.buffer) \in Nat
  BY <1>1
<1>3. WindowRight(t) \in Nat
  BY <1>1 DEF WindowRight
<1>4. Sendable(t) \in 0..Len(t.stream.buffer)
  BY <1>1, <1>2, <1>3 DEF Sendable, Lesser
<1>5. FinFits(t) \in BOOLEAN
  BY DEF FinFits
<1> QED BY <1>1, <1>2, <1>4, <1>5

\* One piece: its bytes and its length.
LEMMA PieceFacts ==
    ASSUME NEW t \in SenderSet, NEW p \in DOMAIN Pieces(t)
    PROVE  LET n    == Sendable(t)
               from == p - t.next_seqno
               size == Lesser(MAX_PAYLOAD_SIZE, n - from)
               seg  == Pieces(t)[p]
           IN  /\ p \in Nat /\ from \in Nat /\ from % MAX_PAYLOAD_SIZE = 0
               /\ from < n \/ (from = 0 /\ n = 0 /\ FinFits(t))
               /\ size \in Nat
               /\ seg \in SegmentSet
               /\ seg.seqno = wrap(p, t.isn)
               /\ seg.syn = FALSE /\ seg.ack = FALSE
               /\ seg.fin = (FinFits(t) /\ from + MAX_PAYLOAD_SIZE >= n)
               /\ Len(seg.payload) = size
               /\ \A k \in 1..size : seg.payload[k] = t.stream.buffer[from + k]
               /\ length_in_sequence_space(seg) =
                     size + (IF FinFits(t) /\ from + MAX_PAYLOAD_SIZE >= n THEN 1 ELSE 0)
<1> DEFINE n    == Sendable(t)
           M    == MAX_PAYLOAD_SIZE
           next == t.next_seqno
           from == p - next
           size == Lesser(M, n - from)
           buf  == t.stream.buffer
           bytes == SubSeq(buf, from + 1, Lesser(from + M, n))
           fin  == FinFits(t) /\ from + M >= n
           blank == Segment(wrap(p, t.isn))
           seg  == Pieces(t)[p]
<1>1. /\ n \in Nat /\ n =< Len(buf) /\ Len(buf) \in Nat /\ buf \in Seq(Nat)
      /\ FinFits(t) \in BOOLEAN /\ M \in Nat /\ M > 0 /\ next \in Nat /\ t.isn \in Int
  BY SendableType, SenderAssumption DEF SenderSet
<1>2. /\ p \in next..(next + (IF FinFits(t) THEN Greater(n, 1) ELSE n) - 1)
      /\ from % M = 0
      /\ seg = [blank EXCEPT !.payload = bytes, !.fin = fin]
  BY DEF Pieces
<1> HIDE DEF n, M, next, buf, seg
<1>3. /\ p \in Nat /\ from \in Nat
      /\ from < n \/ (from = 0 /\ n = 0 /\ FinFits(t))
  BY <1>1, <1>2 DEF Greater
<1>4. size \in Nat /\ Lesser(from + M, n) = from + size
  BY <1>1, <1>3 DEF Lesser
<1> HIDE DEF from, size
<1>5. /\ bytes \in Seq(Nat) /\ Len(bytes) = size
      /\ \A k \in 1..size : bytes[k] = buf[from + k]
  <2>1. from + size =< Len(buf)
    BY <1>1, <1>3, <1>4 DEF Lesser, size
  <2>2. \A i \in (from + 1)..(from + size) : buf[i] \in Nat
    BY <1>1, <1>3, <1>4, <2>1
  <2>3. /\ SubSeq(buf, from + 1, from + size) \in Seq(Nat)
        /\ Len(SubSeq(buf, from + 1, from + size)) =
              IF from + 1 =< from + size THEN (from + size) - (from + 1) + 1 ELSE 0
        /\ \A i \in 1..((from + size) - (from + 1) + 1) :
              SubSeq(buf, from + 1, from + size)[i] = buf[(from + 1) + i - 1]
    BY <1>3, <1>4, <2>2, SubSeqProperties
  <2>4. bytes = SubSeq(buf, from + 1, from + size)
    BY <1>4
  <2> HIDE DEF bytes
  <2>5. /\ (from + size) - (from + 1) + 1 = size
        /\ from + 1 =< from + size <=> size > 0
        /\ \A k \in 1..size : (from + 1) + k - 1 = from + k
    BY <1>3, <1>4
  <2>6. Len(bytes) = size
    BY <1>4, <2>3, <2>4, <2>5
  <2> QED BY <2>3, <2>4, <2>5, <2>6
<1>6. /\ blank \in SegmentSet /\ blank.syn = FALSE /\ blank.ack = FALSE
      /\ blank.seqno = wrap(p, t.isn)
  BY <1>1, <1>3, SegmentType DEF Segment
<1> HIDE DEF bytes, fin, blank
<1>7. fin \in BOOLEAN
  BY DEF fin
<1>8. /\ seg \in SegmentSet /\ seg.seqno = wrap(p, t.isn) /\ seg.syn = FALSE /\ seg.fin = fin
      /\ seg.ack = FALSE
      /\ seg.payload = bytes
  BY <1>2, <1>5, <1>6, <1>7 DEF SegmentSet
<1>9. length_in_sequence_space(seg) = size + (IF fin THEN 1 ELSE 0)
  <2> DEFINE one == IF fin THEN 1 ELSE 0
  <2>1. length_in_sequence_space(seg) = Len(seg.payload) + 0 + one /\ one \in Nat
    BY <1>8 DEF length_in_sequence_space
  <2> HIDE DEF one
  <2>2. length_in_sequence_space(seg) = size + one
    BY <2>1, <1>4, <1>5, <1>8
  <2> QED BY <2>2 DEF one
<1> QED
  BY <1>2, <1>3, <1>4, <1>5, <1>8, <1>9 DEF n, M, next, from, size, buf, fin, seg

\* The segments of one call fill the numbers from the next one to the new next one.
LEMMA PiecesTile ==
    ASSUME NEW t \in SenderSet
    PROVE  Tiling(t, Pieces(t),
                  t.next_seqno + Sendable(t) + (IF FinFits(t) THEN 1 ELSE 0))
<1> DEFINE n    == Sendable(t)
           M    == MAX_PAYLOAD_SIZE
           next == t.next_seqno
           L    == IF FinFits(t) THEN Greater(n, 1) ELSE n
           one  == IF FinFits(t) THEN 1 ELSE 0
           end  == next + n + one
           new  == Pieces(t)
           starts == DOMAIN new
           len(p) == length_in_sequence_space(new[p])
<1>1. /\ n \in Nat /\ M \in Nat /\ M > 0 /\ next \in Nat
      /\ L = IF FinFits(t) THEN Greater(n, 1) ELSE n
      /\ end = next + n + (IF FinFits(t) THEN 1 ELSE 0)
  BY SendableType, SenderAssumption DEF SenderSet
<1>2. starts = Multiples(next, L, M)
  BY DEF Pieces, Multiples
<1>3. ASSUME NEW p \in starts
      PROVE  /\ p \in Nat /\ p - next \in Nat /\ (p - next) % M = 0
             /\ p - next < n \/ (p - next = 0 /\ n = 0 /\ FinFits(t))
             /\ new[p] \in SegmentSet
             /\ len(p) = Lesser(M, n - (p - next))
                         + (IF FinFits(t) /\ (p - next) + M >= n THEN 1 ELSE 0)
  BY PieceFacts
<1> HIDE DEF n, M, next, L, one, end, starts
<1>10. /\ L \in Nat /\ end \in Nat /\ next =< end /\ n =< L
       /\ (n > 0 /\ L = n) \/ (n = 0 /\ L = 1 /\ FinFits(t)) \/ (n = 0 /\ L = 0 /\ ~FinFits(t))
       /\ (FinFits(t) /\ end = next + n + 1) \/ (~FinFits(t) /\ end = next + n)
  <2>1. CASE FinFits(t)
    BY <1>1, <2>1 DEF Greater
  <2>2. CASE ~FinFits(t)
    BY <1>1, <2>2
  <2> QED BY <2>1, <2>2
<1>11. \A p \in starts : p \in next..(next + L - 1)
  BY <1>2 DEF Multiples
<1>4. new \in Tracked
  <2>1. starts \in SUBSET Nat
    BY <1>3
  <2>2. new = [p \in starts |-> new[p]]
    BY DEF Pieces, starts
  <2>3. new \in [starts -> SegmentSet]
    BY <1>3, <2>2
  <2> QED BY <2>1, <2>3 DEF Tracked
<1>5. /\ Cardinality(starts) \in Nat
      /\ \A k \in 1..Cardinality(starts) : next + (k - 1) * M \in starts
  BY <1>1, <1>10, <1>2, CountedMultiples
<1> HIDE DEF new
<1>6. ASSUME NEW q \in next..(end - 1)
      PROVE  \E p \in starts : p =< q /\ q < p + len(p)
  <2> DEFINE r == Lesser(q - next, L - 1)
             from == r - (r % M)
             p == next + from
  <2>1. /\ r \in Nat /\ r < L /\ r =< q - next
        /\ q - next = r \/ (q - next = n /\ FinFits(t) /\ r = n - 1)
    <3>1. q \in Int /\ next =< q /\ q < end
      BY <1>10, <1>1
    <3> QED BY <1>1, <1>10, <3>1 DEF Lesser
  <2> HIDE DEF r
  <2>2. from \in Nat /\ from =< r /\ r < from + M /\ from % M = 0
    BY <1>1, <1>10, <2>1, Floor
  <2> HIDE DEF from
  <2>3. p \in starts /\ p - next = from
    BY <1>1, <1>10, <1>2, <2>1, <2>2 DEF Multiples
  <2>4. len(p) = Lesser(M, n - from) + (IF FinFits(t) /\ from + M >= n THEN 1 ELSE 0)
        /\ (from < n \/ (from = 0 /\ n = 0 /\ FinFits(t)))
    BY <1>3, <2>3
  <2>5. q < p + len(p)
    <3> HIDE DEF len
    <3>1. CASE n = 0
      BY <3>1, <1>1, <1>10, <2>1, <2>2, <2>4 DEF Lesser
    <3>2. CASE n > 0 /\ q - next = r
      BY <3>2, <1>1, <1>10, <2>1, <2>2, <2>4 DEF Lesser
    <3>3. CASE n > 0 /\ q - next = n /\ FinFits(t) /\ r = n - 1
      BY <3>3, <1>1, <1>10, <2>1, <2>2, <2>4 DEF Lesser
    <3> QED BY <3>1, <3>2, <3>3, <1>1, <1>10, <2>1
  <2>6. p =< q
    BY <1>1, <1>10, <2>1, <2>2
  <2> QED BY <2>3, <2>5, <2>6
<1>7. ASSUME NEW p \in starts
      PROVE  next =< p /\ p < p + len(p) /\ p + len(p) =< end
  <2> DEFINE from == p - next
  <2>1. /\ p = next + from /\ from \in Nat /\ p \in Nat
        /\ len(p) = Lesser(M, n - from) + (IF FinFits(t) /\ from + M >= n THEN 1 ELSE 0)
        /\ (from < n \/ (from = 0 /\ n = 0 /\ FinFits(t)))
    BY <1>1, <1>10, <1>3
  <2> HIDE DEF from, len
  <2> QED BY <1>1, <1>10, <2>1 DEF Lesser, end, one
<1>8. ASSUME NEW p \in starts, NEW q \in starts, p < q
      PROVE  p + len(p) =< q
  <2> DEFINE from == p - next
             to   == q - next
  <2>1. /\ p = next + from /\ from \in Nat /\ p \in Nat
        /\ len(p) = Lesser(M, n - from) + (IF FinFits(t) /\ from + M >= n THEN 1 ELSE 0)
        /\ (from < n \/ (from = 0 /\ n = 0 /\ FinFits(t)))
    BY <1>1, <1>10, <1>3
  <2>2. q = next + to /\ to \in Nat /\ (to < n \/ (to = 0 /\ n = 0))
    <3>1. q \in Nat /\ q - next \in Nat /\ (q - next < n \/ (q - next = 0 /\ n = 0))
      BY <1>3
    <3> QED BY <1>1, <3>1
  <2>3. from + M =< to
    <3>1. from < to /\ from % M = 0 /\ to % M = 0
      BY <1>1, <1>10, <1>3, <1>8
    <3> HIDE DEF from, to
    <3> QED BY <1>1, <1>10, <2>1, <2>2, <3>1, Apart
  <2> HIDE DEF from, to, len
  <2> QED BY <1>1, <1>10, <2>1, <2>2, <2>3 DEF Lesser
<1>9. end = t.next_seqno + Sendable(t) + (IF FinFits(t) THEN 1 ELSE 0) /\ next = t.next_seqno
      /\ M = MAX_PAYLOAD_SIZE /\ starts = DOMAIN new /\ new = Pieces(t)
  BY DEF end, one, next, n, M, starts, new
<1> QED
  BY <1>1, <1>10, <1>4, <1>5, <1>6, <1>7, <1>8, <1>9 DEF Tiling

\* What tracking adds and what it keeps: the old segments all lie before the new.
LEMMA TrackSegments ==
    ASSUME NEW t \in SenderSet, Covers(t), NEW new, NEW end, Tiling(t, new, end)
    PROVE  LET u == Track(t, new, end)
           IN  /\ DOMAIN u.outstanding = DOMAIN t.outstanding \cup DOMAIN new
               /\ \A p \in DOMAIN new :
                     /\ u.outstanding[p] = new[p]
                     /\ SegEnd(u, p) = p + length_in_sequence_space(new[p])
               /\ \A p \in DOMAIN t.outstanding :
                     /\ p \notin DOMAIN new /\ u.outstanding[p] = t.outstanding[p]
                     /\ SegEnd(u, p) = SegEnd(t, p)
               /\ DOMAIN t.outstanding \subseteq Nat /\ DOMAIN new \subseteq Nat
               /\ \A p \in DOMAIN t.outstanding : t.outstanding[p] \in SegmentSet
                                                /\ SegEnd(t, p) \in Nat
               /\ \A p \in DOMAIN new : new[p] \in SegmentSet
                                       /\ length_in_sequence_space(new[p]) \in Nat
<1> DEFINE u == Track(t, new, end)
<1>1. /\ \A p \in DOMAIN t.outstanding : t.outstanding[p] \in SegmentSet
      /\ \A p \in DOMAIN new : new[p] \in SegmentSet
      /\ DOMAIN t.outstanding \subseteq Nat /\ DOMAIN new \subseteq Nat
  <2>1. PICK D \in SUBSET Nat : new \in [D -> SegmentSet]
    BY DEF Tiling, Tracked
  <2>2. PICK E \in SUBSET Nat : t.outstanding \in [E -> SegmentSet]
    BY DEF SenderSet, Tracked
  <2> QED BY <2>1, <2>2
<1>2. u.outstanding = [p \in DOMAIN t.outstanding \cup DOMAIN new |->
                          IF p \in DOMAIN new THEN new[p] ELSE t.outstanding[p]]
  BY TrackOutstanding
<1> HIDE DEF u
<1>3. \A p \in DOMAIN t.outstanding : length_in_sequence_space(t.outstanding[p]) \in Nat
  BY <1>1, LengthType
<1>4. \A p \in DOMAIN new : length_in_sequence_space(new[p]) \in Nat
  BY <1>1, LengthType
<1>5. ASSUME NEW p \in DOMAIN t.outstanding
      PROVE  p \notin DOMAIN new /\ SegEnd(t, p) \in Nat
  <2>1. p \in Nat /\ SegEnd(t, p) \in Nat
    BY <1>1, <1>3 DEF SegEnd
  <2>2. p < SegEnd(t, p) /\ SegEnd(t, p) =< t.next_seqno
    BY DEF Covers
  <2>3. t.next_seqno \in Nat
    BY DEF SenderSet
  <2> QED BY <2>1, <2>2, <2>3 DEF Tiling
<1>6. ASSUME NEW p \in DOMAIN new
      PROVE  u.outstanding[p] = new[p] /\ SegEnd(u, p) = p + length_in_sequence_space(new[p])
  BY <1>2 DEF SegEnd
<1>7. ASSUME NEW p \in DOMAIN t.outstanding
      PROVE  u.outstanding[p] = t.outstanding[p] /\ SegEnd(u, p) = SegEnd(t, p)
  BY <1>2, <1>5 DEF SegEnd
<1> QED BY <1>1, <1>2, <1>3, <1>4, <1>5, <1>6, <1>7 DEF u

\* Track queues what it tracks and forgets nothing.
LEMMA TrackQueue ==
    ASSUME NEW t \in SenderSet, Covers(t), NEW new, NEW end, Tiling(t, new, end)
    PROVE  LET u == Track(t, new, end)
           IN  /\ Range(u.segments_out) \subseteq Range(t.segments_out) \cup Range(u.outstanding)
               /\ Range(t.outstanding) \subseteq Range(u.outstanding)
<1> DEFINE u == Track(t, new, end)
           m == Cardinality(DOMAIN new)
           q == t.segments_out
           sent == [k \in 1..m |-> new[t.next_seqno + (k - 1) * MAX_PAYLOAD_SIZE]]
<1>1. /\ DOMAIN u.outstanding = DOMAIN t.outstanding \cup DOMAIN new
      /\ \A p \in DOMAIN new : u.outstanding[p] = new[p]
      /\ \A p \in DOMAIN t.outstanding : u.outstanding[p] = t.outstanding[p]
  BY TrackSegments
<1>2. u.segments_out = q \o sent
  BY DEF Track, SenderSet
<1>3. /\ m \in Nat /\ q \in Seq(SegmentSet)
      /\ \A k \in 1..m : t.next_seqno + (k - 1) * MAX_PAYLOAD_SIZE \in DOMAIN new
  BY DEF Tiling, SenderSet
<1>4. \A p \in DOMAIN new : new[p] \in SegmentSet
  BY TrackSegments
<1> HIDE DEF u, q, m
<1>5. /\ sent \in Seq(SegmentSet) /\ Len(sent) = m
      /\ \A k \in 1..m : sent[k] \in Range(u.outstanding)
  <2>1. \A k \in 1..m : sent[k] \in SegmentSet /\ sent[k] \in Range(u.outstanding)
    BY <1>1, <1>3, <1>4 DEF Range
  <2>2. sent \in [1..m -> SegmentSet]
    BY <2>1
  <2> QED BY <1>3, <2>1, <2>2
<1> HIDE DEF sent
<1>9. /\ q \o sent \in Seq(SegmentSet) /\ Len(q \o sent) = Len(q) + m /\ Len(q) \in Nat
      /\ \A k \in 1..(Len(q) + m) :
            (q \o sent)[k] = IF k =< Len(q) THEN q[k] ELSE sent[k - Len(q)]
  <2>1. /\ q \o sent \in Seq(SegmentSet) /\ Len(q \o sent) = Len(q) + Len(sent)
        /\ \A k \in 1..(Len(q) + Len(sent)) :
              (q \o sent)[k] = IF k =< Len(q) THEN q[k] ELSE sent[k - Len(q)]
    BY <1>3, <1>5, ConcatProperties
  <2> QED BY <1>3, <1>5, <2>1
<1>6. ASSUME NEW k \in DOMAIN (q \o sent)
      PROVE  (q \o sent)[k] \in Range(q) \cup Range(u.outstanding)
  <2>1. /\ Len(q) \in Nat /\ DOMAIN q = 1..Len(q) /\ k \in 1..(Len(q) + m)
        /\ (q \o sent)[k] = IF k =< Len(q) THEN q[k] ELSE sent[k - Len(q)]
    <3>1. DOMAIN (q \o sent) = 1..(Len(q) + m) /\ DOMAIN q = 1..Len(q)
      BY <1>3, <1>9
    <3> QED BY <1>9, <3>1
  <2>2. CASE k =< Len(q)
    BY <2>1, <2>2 DEF Range
  <2>3. CASE ~(k =< Len(q))
    <3>1. k - Len(q) \in 1..m
      BY <1>3, <2>1, <2>3
    <3> QED BY <1>5, <2>1, <2>3, <3>1
  <2> QED BY <2>2, <2>3
<1>7. Range(u.segments_out) \subseteq Range(q) \cup Range(u.outstanding)
  BY <1>2, <1>6 DEF Range
<1>8. Range(t.outstanding) \subseteq Range(u.outstanding)
  BY <1>1 DEF Range
<1> QED BY <1>7, <1>8 DEF u, q

\* Adding segments that fill the numbers after the last one leaves no gap and no overlap.
LEMMA TrackCovers ==
    ASSUME NEW t \in SenderSet, Covers(t), NEW new, NEW end, Tiling(t, new, end)
    PROVE  Covers(Track(t, new, end))
<1> DEFINE u == Track(t, new, end)
           D == DOMAIN t.outstanding
           E == DOMAIN new
           len(p) == length_in_sequence_space(new[p])
<1>1. /\ DOMAIN u.outstanding = D \cup E
      /\ \A p \in E : SegEnd(u, p) = p + len(p) /\ len(p) \in Nat /\ p \in Nat
      /\ \A p \in D : SegEnd(u, p) = SegEnd(t, p) /\ SegEnd(t, p) \in Nat /\ p \in Nat
  BY TrackSegments
<1>2. u.next_seqno = end /\ u.ackno = t.ackno /\ t.next_seqno \in Nat /\ t.ackno \in Nat
  <2>1. u.next_seqno = end /\ u.ackno = t.ackno
    BY TrackType
  <2>2. t.next_seqno \in Nat /\ t.ackno \in Nat
    BY DEF SenderSet
  <2> QED BY <2>1, <2>2
<1>3. /\ end \in Nat /\ t.next_seqno =< end
      /\ \A q \in t.next_seqno..(end - 1) : \E p \in E : p =< q /\ q < p + len(p)
      /\ \A p \in E : /\ t.next_seqno =< p /\ p < p + len(p) /\ p + len(p) =< end
                      /\ \A q \in E : p < q => p + len(p) =< q
  BY DEF Tiling
<1>4. /\ t.ackno =< t.next_seqno
      /\ \A q \in t.ackno..(t.next_seqno - 1) : \E p \in D : p =< q /\ q < SegEnd(t, p)
      /\ \A p \in D : /\ p < SegEnd(t, p) /\ t.ackno < SegEnd(t, p)
                      /\ SegEnd(t, p) =< t.next_seqno
                      /\ \A q \in D : p < q => SegEnd(t, p) =< q
  BY DEF Covers
<1> HIDE DEF u, D, E, len
<1>5. \A q \in u.ackno..(u.next_seqno - 1) :
          \E p \in D \cup E : p =< q /\ q < SegEnd(u, p)
  <2> TAKE q \in u.ackno..(u.next_seqno - 1)
  <2>1. CASE q < t.next_seqno
    BY <1>1, <1>2, <1>4, <2>1
  <2>2. CASE q >= t.next_seqno
    BY <1>1, <1>2, <1>3, <2>2
  <2> QED BY <2>1, <2>2, <1>2
<1>6. ASSUME NEW p \in D \cup E
      PROVE  /\ p < SegEnd(u, p)
             /\ u.ackno < SegEnd(u, p) /\ SegEnd(u, p) =< u.next_seqno
             /\ \A q \in D \cup E : p < q => SegEnd(u, p) =< q
  <2>1. CASE p \in D
    BY <1>1, <1>2, <1>3, <1>4, <2>1
  <2>2. CASE p \in E
    BY <1>1, <1>2, <1>3, <1>4, <2>2
  <2> QED BY <2>1, <2>2
<1> QED BY <1>1, <1>2, <1>3, <1>4, <1>5, <1>6 DEF Covers, u

\* A timer that runs while something is outstanding is started by Track and not
\* stopped; one that runs exactly then still does.
LEMMA TrackTimer ==
    ASSUME NEW t \in SenderSet, NEW new, NEW end, Tiling(t, new, end)
    PROVE  /\ TimerRuns(t) => TimerRuns(Track(t, new, end))
           /\ (t.timer_running <=> ~Settled(t)) =>
                 (Track(t, new, end).timer_running <=> ~Settled(Track(t, new, end)))
<1> DEFINE u == Track(t, new, end)
           idle == Settled(t) /\ DOMAIN new # {}
<1>1. u.timer_running = (t.timer_running \/ idle)
  BY DEF Track, SenderSet
<1>2. Settled(u) <=> Settled(t) /\ DOMAIN new = {}
  <2>1. u.outstanding = [p \in DOMAIN t.outstanding \cup DOMAIN new |->
                            IF p \in DOMAIN new THEN new[p] ELSE t.outstanding[p]]
    BY TrackOutstanding
  <2> QED BY <2>1 DEF Settled
<1> HIDE DEF u
<1> QED BY <1>1, <1>2 DEF TimerRuns, u

\* Covers only looks at the numbers and the outstanding segments.
LEMMA SameCover ==
    ASSUME NEW t, NEW u, Covers(t), u.ackno = t.ackno, u.next_seqno = t.next_seqno,
           u.outstanding = t.outstanding
    PROVE  Covers(u) /\ (Settled(u) <=> Settled(t)) /\ \A p : SegEnd(u, p) = SegEnd(t, p)
BY DEF Covers, SegEnd, Settled

\* The SYN is sent alone, with the number 0.
LEMMA SynStep ==
    ASSUME NEW t, FillInv(t), ~t.syn_sent
    PROVE  LET u == SendSyn(t)
           IN  /\ FillInv(u) /\ u.syn_sent /\ Filled(t, u) /\ u.stream = t.stream
               /\ u.ackno = t.ackno /\ u.rto = t.rto
               /\ u.consecutive_retransmissions = t.consecutive_retransmissions
               /\ (t.timer_running <=> ~Settled(t)) => (u.timer_running <=> ~Settled(u))
<1> DEFINE b    == [t EXCEPT !.syn_sent = TRUE]
           seg  == [Segment(wrap(t.next_seqno, t.isn)) EXCEPT !.syn = TRUE]
           new  == [p \in {t.next_seqno} |->
                       [Segment(wrap(p, t.isn)) EXCEPT !.syn = TRUE]]
           u    == SendSyn(t)
<1>1. /\ t \in SenderSet /\ t.isn \in Int /\ t.next_seqno = 0
      /\ t.stream.bytes_read = 0 /\ t.fin_sent = FALSE
  BY DEF FillInv, SenderSet, StreamSet, Accounts
<1>2. /\ b \in SenderSet /\ b.isn = t.isn /\ b.stream = t.stream /\ b.ackno = t.ackno
      /\ b.next_seqno = 0 /\ b.outstanding = t.outstanding /\ b.rto = t.rto
      /\ b.timer_running = t.timer_running /\ b.syn_sent = TRUE /\ b.fin_sent = FALSE
      /\ b.segments_out = t.segments_out /\ b.window_size = t.window_size
      /\ b.consecutive_retransmissions = t.consecutive_retransmissions
  BY <1>1 DEF SenderSet
<1>3. u = Track(b, new, 1)
  <2>1. u = Track(b, new, t.next_seqno + 1)
    BY DEF SendSyn
  <2> QED BY <1>1, <2>1
<1>4. seg \in SegmentSet /\ seg.syn = TRUE /\ seg.fin = FALSE /\ seg.payload = << >>
      /\ seg.ack = FALSE /\ seg.seqno = wrap(0, t.isn)
  <2> DEFINE blank == Segment(wrap(t.next_seqno, t.isn))
  <2>1. /\ blank \in SegmentSet /\ blank.fin = FALSE /\ blank.payload = << >>
        /\ blank.ack = FALSE
        /\ blank.seqno = wrap(0, t.isn)
    BY <1>1, SegmentType DEF Segment
  <2>2. seg = [blank EXCEPT !.syn = TRUE]
    OBVIOUS
  <2> HIDE DEF blank, seg
  <2> QED BY <2>1, <2>2 DEF SegmentSet
<1>5. length_in_sequence_space(seg) = 1
  <2> HIDE DEF seg
  <2>1. Len(seg.payload) = 0
    BY <1>4
  <2> QED BY <1>4, <2>1 DEF length_in_sequence_space
<1>6. DOMAIN new = {0} /\ new[0] = seg /\ new \in Tracked
  <2>1. DOMAIN new = {0} /\ new[t.next_seqno] = seg
    BY <1>1
  <2>2. new = [p \in {0} |-> new[p]]
    BY <1>1
  <2> HIDE DEF new, seg
  <2>3. new \in [{0} -> SegmentSet]
    BY <1>1, <1>4, <2>1, <2>2
  <2> QED BY <1>1, <2>1, <2>3 DEF Tracked
<1> HIDE DEF b, seg, new, u
<1>7. Tiling(b, new, 1)
  <2>1. Cardinality(DOMAIN new) = 1
    BY <1>6, FS_Singleton
  <2>2. 0 + (1 - 1) * MAX_PAYLOAD_SIZE = 0
    BY SenderAssumption
  <2>3. \A k \in 1..1 : 0 + (k - 1) * MAX_PAYLOAD_SIZE \in DOMAIN new
    BY <2>2, <1>6
  <2>4. \A q \in 0..(1 - 1) : \E p \in DOMAIN new :
             p =< q /\ q < p + length_in_sequence_space(new[p])
    BY <1>5, <1>6
  <2>5. \A p \in DOMAIN new :
           LET e == p + length_in_sequence_space(new[p])
           IN  /\ 0 =< p /\ p < e /\ e =< 1
               /\ \A q \in DOMAIN new : p < q => e =< q
    BY <1>5, <1>6
  <2> QED BY <1>2, <1>6, <2>1, <2>3, <2>4, <2>5 DEF Tiling
<1>8. /\ Covers(t) /\ Covers(b) /\ (Settled(b) <=> Settled(t))
  BY <1>1, <1>2, SameCover DEF FillInv
<1>9. /\ u \in SenderSet /\ u.next_seqno = 1 /\ u.isn = t.isn /\ u.stream = t.stream
      /\ u.ackno = t.ackno /\ u.rto = t.rto /\ u.syn_sent = TRUE /\ u.fin_sent = FALSE
      /\ u.consecutive_retransmissions = t.consecutive_retransmissions
      /\ u.window_size = t.window_size
  BY <1>1, <1>2, <1>3, <1>7, TrackType
<1>10. Covers(u)
  BY <1>2, <1>3, <1>7, <1>8, TrackCovers
<1>11. Accounts(u)
  BY <1>1, <1>9 DEF Accounts
<1>12. Buffers(u)
  BY <1>9 DEF Buffers, FillInv
<1>13. Carries(u)
  <2>1. DOMAIN t.outstanding = {}
    <3> SUFFICES ASSUME NEW p \in DOMAIN t.outstanding PROVE FALSE
      OBVIOUS
    <3>1. p < SegEnd(t, p) /\ SegEnd(t, p) =< 0
      BY <1>1, <1>8 DEF Covers
    <3>2. SegEnd(b, p) = SegEnd(t, p)
      BY <1>2 DEF SegEnd
    <3>3. p \in Nat /\ SegEnd(b, p) \in Nat
      BY <1>2, <1>7, <1>8, TrackSegments
    <3> QED BY <3>1, <3>2, <3>3
  <2>2. DOMAIN u.outstanding = {0} /\ u.outstanding[0] = seg
    BY <1>2, <1>3, <1>6, <1>7, <1>8, <2>1, TrackSegments
  <2>3. Len(seg.payload) = 0
    BY <1>4
  <2>4. 0 =< MAX_PAYLOAD_SIZE /\ 1..0 = {}
    BY SenderAssumption
  <2> QED BY <1>4, <1>9, <2>2, <2>3, <2>4 DEF Carries
<1>14. TimerRuns(b)
  BY <1>1, <1>2, <1>8 DEF FillInv, TimerRuns
<1>15. /\ TimerRuns(u)
       /\ (t.timer_running <=> ~Settled(t)) => (u.timer_running <=> ~Settled(u))
  BY <1>2, <1>3, <1>7, <1>8, <1>14, TrackTimer
<1>16. /\ Range(u.segments_out) \subseteq Range(t.segments_out) \cup Range(u.outstanding)
       /\ Range(t.outstanding) \subseteq Range(u.outstanding)
  BY <1>2, <1>3, <1>7, <1>8, TrackQueue
<1>17. Filled(t, u)
  <2>1. t.stream.bytes_read \in Nat
    BY <1>1 DEF SenderSet, StreamSet
  <2> QED BY <1>1, <1>9, <1>16, <2>1 DEF Filled, Grown
<1> QED BY <1>9, <1>10, <1>11, <1>12, <1>13, <1>15, <1>17 DEF FillInv, u

\* Taking n bytes off the buffer.
LEMMA PopFacts ==
    ASSUME NEW st \in StreamSet, NEW n \in Nat, n =< Len(st.buffer)
    PROVE  LET u == pop_output(st, n)
           IN  /\ u \in StreamSet
               /\ u.capacity = st.capacity /\ u.input_ended = st.input_ended
               /\ u.error = st.error
               /\ u.bytes_written = st.bytes_written /\ u.bytes_read = st.bytes_read + n
               /\ Len(u.buffer) = Len(st.buffer) - n
               /\ \A k \in 1..Len(u.buffer) : u.buffer[k] = st.buffer[n + k]
               /\ n = Len(st.buffer) => u.buffer = << >>
<1> DEFINE u == pop_output(st, n)
           L == Len(st.buffer)
           rest == SubSeq(st.buffer, n + 1, L)
           read == st.bytes_read + n
<1>1. L \in Nat /\ st.buffer \in Seq(Nat) /\ st.bytes_read \in Nat
  BY DEF StreamSet
<1>2. Lesser(n, L) = n
  BY <1>1 DEF Lesser
<1>3. u = [st EXCEPT !.buffer = rest, !.bytes_read = read]
  BY <1>2 DEF pop_output
<1> HIDE DEF L
<1>4. /\ rest \in Seq(Nat) /\ Len(rest) = L - n
      /\ \A k \in 1..(L - n) : rest[k] = st.buffer[n + k]
  <2> DEFINE from == n + 1
             buf  == st.buffer
  <2>1. from \in Int /\ L \in Int /\ \A i \in from..L : buf[i] \in Nat
    BY <1>1 DEF L
  <2>2. rest = SubSeq(buf, from, L) /\ from = n + 1
    OBVIOUS
  <2> HIDE DEF from, buf, rest
  <2>3. /\ rest \in Seq(Nat)
        /\ Len(rest) = IF from =< L THEN L - from + 1 ELSE 0
        /\ \A i \in 1..(L - from + 1) : rest[i] = buf[from + i - 1]
    BY <2>1, <2>2, SubSeqProperties
  <2>4. L - from + 1 = L - n /\ \A k \in 1..(L - n) : from + k - 1 = n + k
    BY <1>1, <2>2
  <2>5. Len(rest) = L - n
    BY <1>1, <2>2, <2>3, n =< Len(st.buffer) DEF L
  <2>6. \A k \in 1..(L - n) : rest[k] = buf[n + k]
    BY <2>3, <2>4
  <2> QED BY <2>3, <2>5, <2>6 DEF buf
<1>5. n = L => rest = << >>
  BY <1>1, SubSeqEmpty
<1>6. read \in Nat
  BY <1>1
<1> HIDE DEF rest, read
<1>7. u \in StreamSet
  BY <1>3, <1>4, <1>6 DEF StreamSet
<1> QED BY <1>3, <1>4, <1>5, <1>7 DEF StreamSet, L, read

\* Data and the FIN: every byte goes out with its own number.
LEMMA DataStep ==
    ASSUME NEW t, FillInv(t), t.syn_sent
    PROVE  LET v == SendData(t)
           IN  /\ FillInv(v) /\ Filled(t, v) /\ FilledUp(v)
               /\ v.ackno = t.ackno /\ v.rto = t.rto
               /\ v.consecutive_retransmissions = t.consecutive_retransmissions
               /\ (t.timer_running <=> ~Settled(t)) => (v.timer_running <=> ~Settled(v))
<1> DEFINE n    == Sendable(t)
           one  == IF FinFits(t) THEN 1 ELSE 0
           next == t.next_seqno
           end  == next + n + one
           new  == Pieces(t)
           u    == Track(t, new, end)
           v    == SendData(t)
           st   == t.stream
           fin  == t.fin_sent \/ FinFits(t)
<1>1. /\ t \in SenderSet /\ st \in StreamSet /\ next \in Nat
      /\ Covers(t) /\ Accounts(t) /\ Buffers(t) /\ Carries(t) /\ TimerRuns(t)
      /\ t.fin_sent \in BOOLEAN /\ t.syn_sent = TRUE
  BY DEF FillInv, SenderSet
<1>2. n \in Nat /\ n =< Len(st.buffer) /\ FinFits(t) \in BOOLEAN /\ Len(st.buffer) \in Nat
  BY <1>1, SendableType
<1>3. Tiling(t, new, end)
  BY <1>1, PiecesTile
<1>4. FinFits(t) => ~t.fin_sent /\ st.input_ended /\ n = Len(st.buffer)
  <2>1. WindowRight(t) \in Nat
    BY <1>1 DEF SenderSet, WindowRight
  <2> QED BY <1>1, <1>2, <2>1 DEF FinFits, Sendable, Lesser
<1>5. t.fin_sent => n = 0 /\ ~FinFits(t) /\ st.buffer = << >>
  BY <1>1, <1>2, <1>4 DEF Accounts
<1>6. /\ u \in SenderSet /\ u.next_seqno = end /\ u.isn = t.isn /\ u.stream = st
      /\ u.ackno = t.ackno /\ u.rto = t.rto /\ u.syn_sent = TRUE /\ u.fin_sent = t.fin_sent
      /\ u.consecutive_retransmissions = t.consecutive_retransmissions
      /\ u.window_size = t.window_size
  BY <1>1, <1>3, TrackType
<1>7. Covers(u)
  BY <1>1, <1>3, TrackCovers
<1> DEFINE popped == pop_output(st, n)
<1>8. /\ popped \in StreamSet
      /\ popped.capacity = st.capacity /\ popped.input_ended = st.input_ended
      /\ popped.error = st.error
      /\ popped.bytes_written = st.bytes_written /\ popped.bytes_read = st.bytes_read + n
      /\ Len(popped.buffer) = Len(st.buffer) - n
      /\ \A k \in 1..Len(popped.buffer) : popped.buffer[k] = st.buffer[n + k]
      /\ n = Len(st.buffer) => popped.buffer = << >>
  BY <1>1, <1>2, PopFacts
<1>9. v = [u EXCEPT !.stream = popped, !.fin_sent = fin]
  BY <1>6 DEF SendData
<1>10. fin \in BOOLEAN
  OBVIOUS
<1>17. /\ end \in Nat
       /\ FinFits(t) => end = next + n + 1
       /\ ~FinFits(t) => end = next + n
  BY <1>1, <1>2
<1>18. /\ st.bytes_read \in Nat
       /\ t.fin_sent => next = 2 + st.bytes_read
       /\ ~t.fin_sent => next = 1 + st.bytes_read
  <2>1. st.bytes_read \in Nat
    BY <1>1 DEF StreamSet
  <2>2. CASE t.fin_sent
    BY <1>1, <2>1, <2>2 DEF Accounts
  <2>3. CASE ~t.fin_sent
    BY <1>1, <2>1, <2>3 DEF Accounts
  <2> QED BY <2>1, <2>2, <2>3
<1> HIDE DEF u, v, popped, fin, new, end, one
<1>11. /\ v \in SenderSet /\ v.isn = t.isn /\ v.next_seqno = end /\ v.stream = popped
       /\ v.ackno = t.ackno /\ v.rto = t.rto /\ v.syn_sent = TRUE /\ v.fin_sent = fin
       /\ v.consecutive_retransmissions = t.consecutive_retransmissions
       /\ v.outstanding = u.outstanding /\ v.timer_running = u.timer_running
       /\ u.ackno = v.ackno /\ u.next_seqno = v.next_seqno
       /\ v.segments_out = u.segments_out /\ v.window_size = t.window_size
  BY <1>1, <1>6, <1>8, <1>9, <1>10 DEF SenderSet
<1>12. Covers(v) /\ (Settled(v) <=> Settled(u)) /\ \A p : SegEnd(v, p) = SegEnd(u, p)
  BY <1>7, <1>11, SameCover
<1>13. Accounts(v)
  <2>1. v.next_seqno = 1 + v.stream.bytes_read + (IF v.fin_sent THEN 1 ELSE 0)
    <3>1. v.stream.bytes_read = st.bytes_read + n /\ v.next_seqno = end /\ v.fin_sent = fin
      BY <1>8, <1>11
    <3>2. CASE fin
      <4>1. end = 2 + st.bytes_read + n
        BY <1>1, <1>2, <1>5, <1>17, <1>18, <3>2, SMTT(30) DEF fin
      <4> QED BY <1>2, <1>18, <3>1, <3>2, <4>1
    <3>3. CASE ~fin
      <4>1. end = 1 + st.bytes_read + n
        BY <1>1, <1>2, <1>17, <1>18, <3>3 DEF fin
      <4> QED BY <1>2, <1>18, <3>1, <3>3, <4>1
    <3> QED BY <3>2, <3>3
  <2>2. v.fin_sent => v.stream.input_ended /\ v.stream.buffer = << >>
    <3>1. CASE t.fin_sent
      BY <1>1, <1>5, <1>8, <1>11, <3>1 DEF Accounts
    <3>2. CASE FinFits(t)
      BY <1>4, <1>8, <1>11, <3>2
    <3> QED BY <1>11, <3>1, <3>2 DEF fin
  <2> QED BY <1>11, <2>1, <2>2 DEF Accounts
<1>14. Buffers(v)
  <2>1. st.bytes_read \in Nat /\ st.bytes_written \in Nat /\ st.capacity \in Nat
    BY <1>1 DEF StreamSet
  <2>2. /\ Len(st.buffer) =< st.capacity
        /\ st.bytes_written = st.bytes_read + Len(st.buffer)
        /\ \A k \in 1..Len(st.buffer) : st.buffer[k] = st.bytes_read + k - 1
    BY <1>1 DEF Buffers
  <2>3. \A k \in 1..Len(popped.buffer) :
           n + k \in 1..Len(st.buffer) /\ st.buffer[n + k] = st.bytes_read + (n + k) - 1
    BY SMTT(30), <1>2, <1>8, <2>2
  <2>4. \A k \in 1..Len(popped.buffer) : popped.buffer[k] = popped.bytes_read + k - 1
    BY <1>2, <1>8, <2>1, <2>3
  <2>5. Len(popped.buffer) =< popped.capacity
    BY <1>2, <1>8, <2>1, <2>2
  <2>6. popped.bytes_written = popped.bytes_read + Len(popped.buffer)
    BY <1>2, <1>8, <2>1, <2>2
  <2> QED BY <1>11, <2>4, <2>5, <2>6 DEF Buffers
<1>15. Carries(v)
  <2>1. SUFFICES ASSUME NEW p \in DOMAIN v.outstanding
                 PROVE  LET seg == v.outstanding[p]
                        IN  /\ seg.seqno = wrap(p, t.isn)
                            /\ seg.syn <=> p = 0
                            /\ seg.fin <=> (v.fin_sent /\ SegEnd(v, p) = v.next_seqno)
                            /\ Len(seg.payload) =< MAX_PAYLOAD_SIZE
                            /\ \A k \in 1..Len(seg.payload) : seg.payload[k] = p + k - 2
                            /\ seg.syn => Len(seg.payload) = 0 /\ ~seg.fin
                            /\ ~seg.ack
    BY <1>11 DEF Carries
  <2> DEFINE seg == v.outstanding[p]
  <2>2. DOMAIN v.outstanding = DOMAIN t.outstanding \cup DOMAIN new
    BY <1>1, <1>3, <1>11, TrackSegments DEF u
  <2>3. CASE p \in DOMAIN t.outstanding
    <3>1. /\ seg = t.outstanding[p] /\ SegEnd(v, p) = SegEnd(t, p)
          /\ SegEnd(t, p) \in Nat /\ SegEnd(t, p) =< next
      BY <1>1, <1>3, <1>11, <1>12, <2>3, TrackSegments DEF u, Covers
    <3>2. /\ seg.seqno = wrap(p, t.isn) /\ (seg.syn <=> p = 0)
          /\ Len(seg.payload) =< MAX_PAYLOAD_SIZE
          /\ \A k \in 1..Len(seg.payload) : seg.payload[k] = p + k - 2
          /\ (seg.syn => Len(seg.payload) = 0 /\ ~seg.fin) /\ ~seg.ack
          /\ seg.fin <=> (t.fin_sent /\ SegEnd(t, p) = next)
      BY <1>1, <2>3, <3>1 DEF Carries
    <3>3. (t.fin_sent /\ SegEnd(t, p) = next) <=> (v.fin_sent /\ SegEnd(v, p) = v.next_seqno)
      <4>1. CASE t.fin_sent
        <5>1. end = next /\ fin
          BY <1>1, <1>2, <1>5, <1>17, <4>1 DEF fin
        <5> QED BY <1>11, <3>1, <4>1, <5>1
      <4>2. CASE ~t.fin_sent /\ FinFits(t)
        <5>1. SegEnd(t, p) # end
          BY <1>1, <1>2, <1>17, <3>1, <4>2
        <5> QED BY <1>11, <3>1, <4>2, <5>1
      <4>3. CASE ~t.fin_sent /\ ~FinFits(t)
        BY <1>11, <4>3 DEF fin
      <4> QED BY <4>1, <4>2, <4>3
    <3> QED BY <3>2, <3>3
  <2>4. CASE p \in DOMAIN new
    <3> DEFINE from == p - next
               size == Lesser(MAX_PAYLOAD_SIZE, n - from)
               ends == FinFits(t) /\ from + MAX_PAYLOAD_SIZE >= n
    <3>1. seg = new[p] /\ SegEnd(v, p) = p + length_in_sequence_space(new[p])
      BY <1>1, <1>3, <1>11, <1>12, <2>4, TrackSegments DEF u
    <3>2. /\ p \in Nat /\ from \in Nat /\ p = next + from
          /\ from < n \/ (from = 0 /\ n = 0 /\ FinFits(t))
          /\ size \in Nat
          /\ seg.seqno = wrap(p, t.isn) /\ seg.syn = FALSE /\ seg.fin = ends /\ seg.ack = FALSE
          /\ Len(seg.payload) = size
          /\ \A k \in 1..size : seg.payload[k] = st.buffer[from + k]
          /\ SegEnd(v, p) = p + (size + (IF ends THEN 1 ELSE 0))
      <4>1. /\ p \in Nat /\ from \in Nat
            /\ from < n \/ (from = 0 /\ n = 0 /\ FinFits(t))
            /\ size \in Nat
            /\ new[p].seqno = wrap(p, t.isn) /\ new[p].syn = FALSE /\ new[p].fin = ends
            /\ new[p].ack = FALSE
            /\ Len(new[p].payload) = size
            /\ \A k \in 1..size : new[p].payload[k] = st.buffer[from + k]
            /\ length_in_sequence_space(new[p]) = size + (IF ends THEN 1 ELSE 0)
        BY <1>1, <2>4, PieceFacts DEF new
      <4>2. p = next + from
        BY <1>1, <4>1
      <4> HIDE DEF from, size, ends
      <4> QED BY <1>1, <3>1, <4>1, <4>2
    <3>3. /\ MAX_PAYLOAD_SIZE \in Nat /\ MAX_PAYLOAD_SIZE > 0
          /\ ~t.fin_sent /\ next = 1 + st.bytes_read
      <4>1. from < n \/ FinFits(t)
        BY <3>2
      <4>2. ~t.fin_sent
        BY <1>2, <1>4, <1>5, <3>2, <4>1
      <4> QED BY <1>18, <4>2, SenderAssumption
    <3> HIDE DEF seg, from
    <3>4. p # 0 /\ size =< MAX_PAYLOAD_SIZE
      BY <1>1, <1>2, <1>18, <3>2, <3>3 DEF Lesser
    <3>5. ends <=> (v.fin_sent /\ SegEnd(v, p) = v.next_seqno)
      <4>1. CASE ends
        <5>1. size = n - from /\ FinFits(t)
          BY <1>2, <3>2, <3>3, <4>1 DEF Lesser
        <5>2. SegEnd(v, p) = p + (size + 1)
          BY <3>2, <4>1
        <5>3. SegEnd(v, p) = end /\ fin
          BY <1>1, <1>2, <1>17, <3>2, <5>1, <5>2 DEF fin
        <5> QED BY <1>11, <4>1, <5>3
      <4>2. CASE ~ends /\ FinFits(t)
        <5>1. size = MAX_PAYLOAD_SIZE /\ from + size < n
          BY <1>2, <3>2, <3>3, <4>2 DEF Lesser
        <5>2. SegEnd(v, p) = p + size
          BY <3>2, <4>2
        <5>3. SegEnd(v, p) # end
          BY <1>1, <1>2, <1>17, <3>2, <4>2, <5>1, <5>2, SMTT(30)
        <5> QED BY <1>11, <4>2, <5>3
      <4>3. CASE ~ends /\ ~FinFits(t)
        BY <1>11, <3>3, <4>3 DEF fin
      <4> QED BY <4>1, <4>2, <4>3
    <3>6. \A k \in 1..size : seg.payload[k] = p + k - 2
      <4>1. \A k \in 1..size : from + k \in 1..Len(st.buffer)
        <5>1. size =< n - from \/ size = 0
          BY <1>2, <3>2, <3>3 DEF Lesser
        <5> HIDE DEF size
        <5> QED BY <1>2, <3>2, <5>1
      <4>2. \A k \in 1..size : st.buffer[from + k] = st.bytes_read + (from + k) - 1
        BY <1>1, <4>1 DEF Buffers
      <4> HIDE DEF size
      <4>3. \A k \in 1..size : st.buffer[from + k] = p + k - 2
        <5>1. /\ size \in Nat /\ from \in Nat /\ p = 1 + st.bytes_read + from
              /\ st.bytes_read \in Nat
          BY <1>18, <3>2, <3>3
        <5>2. \A k \in 1..size : st.bytes_read + (from + k) - 1 = p + k - 2
          BY <5>1
        <5> QED BY <4>2, <5>2
      <4> QED BY <3>2, <4>3
    <3> HIDE DEF size, ends
    <3>7. /\ seg.seqno = wrap(p, t.isn) /\ (seg.syn <=> p = 0)
          /\ (seg.fin <=> (v.fin_sent /\ SegEnd(v, p) = v.next_seqno))
          /\ Len(seg.payload) =< MAX_PAYLOAD_SIZE
          /\ \A k \in 1..Len(seg.payload) : seg.payload[k] = p + k - 2
          /\ (seg.syn => Len(seg.payload) = 0 /\ ~seg.fin) /\ ~seg.ack
      BY <3>2, <3>4, <3>5, <3>6
    <3> QED BY <3>7 DEF seg
  <2> QED BY <2>2, <2>3, <2>4
<1>16. /\ TimerRuns(v)
       /\ (t.timer_running <=> ~Settled(t)) => (v.timer_running <=> ~Settled(v))
  BY <1>1, <1>3, <1>11, <1>12, TrackTimer DEF u, TimerRuns
<1>19. Filled(t, v)
  <2>1. /\ Range(v.segments_out) \subseteq Range(t.segments_out) \cup Range(v.outstanding)
        /\ Range(t.outstanding) \subseteq Range(v.outstanding)
    BY <1>1, <1>3, <1>11, TrackQueue DEF u
  <2>2. t.fin_sent => fin
    BY DEF fin
  <2>3. popped.bytes_read >= st.bytes_read
    BY <1>2, <1>8, <1>18
  <2> QED BY <1>1, <1>8, <1>11, <2>1, <2>2, <2>3 DEF Filled, Grown
<1>20. FilledUp(v)
  <2>1. WindowRight(v) = WindowRight(t) /\ WindowRight(t) \in Nat
    BY SMTT(30), <1>1, <1>11 DEF WindowRight, SenderSet
  <2>2. CASE n = Len(st.buffer) /\ (st.input_ended => fin)
    BY <1>8, <1>11, <2>2 DEF FilledUp
  <2>3. CASE n = Len(st.buffer) /\ st.input_ended /\ ~fin
    <3>1. ~(next + n < WindowRight(t)) /\ ~FinFits(t)
      BY <2>3 DEF fin, FinFits
    <3>2. v.next_seqno >= WindowRight(v)
      BY <1>1, <1>2, <1>11, <1>17, <2>1, <3>1
    <3> QED BY <3>2 DEF FilledUp
  <2>4. CASE n # Len(st.buffer)
    <3>1. next + n >= WindowRight(t)
      BY <1>1, <1>2, <2>1, <2>4 DEF Sendable, Lesser
    <3>2. v.next_seqno >= WindowRight(v)
      BY <1>1, <1>2, <1>11, <1>17, <2>1, <3>1
    <3> QED BY <3>2 DEF FilledUp
  <2> QED BY <2>2, <2>3, <2>4
<1> QED BY <1>11, <1>12, <1>13, <1>14, <1>15, <1>16, <1>19, <1>20 DEF FillInv, v

\* A step that fill_window takes keeps its invariant, the back-off and the timer.
LEMMA FillStep ==
    ASSUME NEW t, FillInv(t)
    PROVE  LET u == fill_window(t)
           IN  /\ FillInv(u) /\ Filled(t, u) /\ FilledUp(u)
               /\ u.ackno = t.ackno /\ u.rto = t.rto
               /\ u.consecutive_retransmissions = t.consecutive_retransmissions
               /\ (t.timer_running <=> ~Settled(t)) => (u.timer_running <=> ~Settled(u))
<1> DEFINE u == fill_window(t)
<1>1. CASE t.next_seqno >= WindowRight(t)
  <2>1. u = t
    BY <1>1 DEF fill_window
  <2> HIDE DEF u
  <2>2. Filled(t, t) /\ FilledUp(t)
    BY <1>1 DEF Filled, Grown, FilledUp, FillInv, SenderSet, StreamSet
  <2> QED BY <2>1, <2>2 DEF u
<1>2. CASE ~(t.next_seqno >= WindowRight(t)) /\ ~t.syn_sent
  <2>1. u = SendData(SendSyn(t))
    BY <1>2 DEF fill_window
  <2> HIDE DEF u
  <2> DEFINE b == SendSyn(t)
  <2>2. /\ FillInv(b) /\ b.syn_sent /\ Filled(t, b) /\ b.ackno = t.ackno /\ b.rto = t.rto
        /\ b.consecutive_retransmissions = t.consecutive_retransmissions
        /\ (t.timer_running <=> ~Settled(t)) => (b.timer_running <=> ~Settled(b))
    BY <1>2, SynStep
  <2>3. u = SendData(b)
    BY <2>1
  <2> HIDE DEF b
  <2>4. /\ FillInv(u) /\ Filled(b, u) /\ FilledUp(u) /\ u.ackno = b.ackno /\ u.rto = b.rto
        /\ u.consecutive_retransmissions = b.consecutive_retransmissions
        /\ (b.timer_running <=> ~Settled(b)) => (u.timer_running <=> ~Settled(u))
    BY <2>2, <2>3, DataStep
  <2>5. Filled(t, u)
    <3>1. /\ t.stream.bytes_read \in Nat /\ b.stream.bytes_read \in Nat
          /\ u.stream.bytes_read \in Nat
      BY <2>2, <2>4 DEF FillInv, SenderSet, StreamSet
    <3> QED BY <2>2, <2>4, <3>1 DEF Filled, Grown
  <2> QED BY <2>2, <2>4, <2>5 DEF u
<1>3. CASE ~(t.next_seqno >= WindowRight(t)) /\ t.syn_sent
  <2>1. u = SendData(t)
    BY <1>3 DEF fill_window
  <2> HIDE DEF u
  <2> QED BY <1>3, <2>1, DataStep DEF u
<1> QED BY <1>1, <1>2, <1>3

\* A change of the other fields, or of the stream if the books still balance.
LEMMA FrameStep ==
    ASSUME NEW t, NEW u \in SenderSet, FillInv(t),
           u.isn = t.isn, u.ackno = t.ackno, u.next_seqno = t.next_seqno,
           u.outstanding = t.outstanding, u.fin_sent = t.fin_sent,
           u.timer_running = t.timer_running, Accounts(u), Buffers(u)
    PROVE  FillInv(u) /\ (Settled(u) <=> Settled(t))
<1>1. /\ Covers(t) /\ Carries(t) /\ TimerRuns(t)
  BY DEF FillInv
<1>2. Covers(u) /\ (Settled(u) <=> Settled(t)) /\ \A p : SegEnd(u, p) = SegEnd(t, p)
  BY <1>1, SameCover
<1>3. Carries(u)
  BY <1>1, <1>2 DEF Carries
<1>4. TimerRuns(u)
  BY <1>1, <1>2 DEF TimerRuns
<1> QED BY <1>1, <1>2, <1>3, <1>4 DEF FillInv

\* An acknowledgment of something sent; the back-off moves only if the window does.
LEMMA AcknowledgeStep ==
    ASSUME NEW t, FillInv(t), NEW a \in Nat, a =< t.next_seqno
    PROVE  LET u == Acknowledge(t, a)
           IN  /\ FillInv(u) /\ Grown(t, u) /\ u.ackno \in {t.ackno, a} /\ u.ackno >= a
               /\ \/ u.ackno > t.ackno
                  \/ /\ u.ackno = t.ackno /\ u.rto = t.rto
                     /\ u.consecutive_retransmissions = t.consecutive_retransmissions
               /\ u.consecutive_retransmissions =< t.consecutive_retransmissions
<1> DEFINE D    == DOMAIN t.outstanding
           left == {p \in D : SegEnd(t, p) > a}
           some == left # D
           kept == Restrict(t.outstanding, left)
           timer == IF some THEN 0 ELSE t.timer
           rto   == IF some THEN InitialRto ELSE t.rto
           count == IF some THEN 0 ELSE t.consecutive_retransmissions
           top   == Greater(t.ackno, a)
           u     == Acknowledge(t, a)
<1>1. /\ t \in SenderSet /\ t.ackno \in Nat /\ t.next_seqno \in Nat
      /\ t.timer \in Nat /\ t.rto \in Nat /\ t.consecutive_retransmissions \in Nat
      /\ Covers(t) /\ Accounts(t) /\ Buffers(t) /\ Carries(t) /\ TimerRuns(t)
  BY DEF FillInv, SenderSet
<1>2. PICK E \in SUBSET Nat : t.outstanding \in [E -> SegmentSet]
  BY <1>1 DEF SenderSet, Tracked
<1>3. \A p \in D : p \in Nat /\ t.outstanding[p] \in SegmentSet /\ SegEnd(t, p) \in Nat
  <2>1. \A p \in D : p \in Nat /\ t.outstanding[p] \in SegmentSet
    BY <1>2
  <2>2. \A p \in D : length_in_sequence_space(t.outstanding[p]) \in Nat
    BY <2>1, LengthType
  <2> QED BY <2>1, <2>2 DEF SegEnd
<1>4. /\ kept \in Tracked /\ DOMAIN kept = left /\ \A p \in left : kept[p] = t.outstanding[p]
  <2>1. kept \in [left -> SegmentSet] /\ left \in SUBSET Nat
    BY <1>2 DEF Restrict
  <2> QED BY <2>1 DEF Tracked, Restrict
<1>5. timer \in Nat /\ rto \in Nat /\ count \in Nat /\ top \in Nat
  BY <1>1, SenderAssumption DEF Greater
<1>6. u = [t EXCEPT !.outstanding = kept, !.timer = timer, !.rto = rto,
                    !.consecutive_retransmissions = count, !.ackno = top]
  BY DEF Acknowledge
<1>7. top >= t.ackno /\ top >= a /\ top =< t.next_seqno /\ (top = t.ackno \/ top = a)
  <2>1. t.ackno =< t.next_seqno
    BY <1>1 DEF Covers
  <2> QED BY <1>1, <2>1 DEF Greater
<1>8. some => top > t.ackno
  <2> SUFFICES ASSUME NEW p \in D, SegEnd(t, p) =< a PROVE top > t.ackno
    BY <1>3
  <2>1. t.ackno < SegEnd(t, p)
    BY <1>1 DEF Covers
  <2> QED BY <1>1, <1>3, <1>7, <2>1
<1>9. /\ (rto = t.rto /\ count = t.consecutive_retransmissions) \/ some
      /\ count =< t.consecutive_retransmissions
  BY <1>1
<1> HIDE DEF kept, timer, rto, count, top, u, some
<1>10. /\ u \in SenderSet /\ u.isn = t.isn /\ u.stream = t.stream /\ u.ackno = top
       /\ u.next_seqno = t.next_seqno /\ u.outstanding = kept /\ u.rto = rto
       /\ u.consecutive_retransmissions = count /\ u.timer_running = t.timer_running
       /\ u.syn_sent = t.syn_sent /\ u.fin_sent = t.fin_sent
       /\ u.segments_out = t.segments_out
  BY <1>1, <1>4, <1>5, <1>6 DEF SenderSet
<1>11. \A p \in left : SegEnd(u, p) = SegEnd(t, p)
  BY <1>4, <1>10 DEF SegEnd
<1>12. Covers(u)
  <2>1. \A q \in top..(t.next_seqno - 1) : \E p \in left : p =< q /\ q < SegEnd(t, p)
    <3> TAKE q \in top..(t.next_seqno - 1)
    <3>1. q \in t.ackno..(t.next_seqno - 1) /\ a =< q
      BY <1>1, <1>5, <1>7
    <3>2. PICK p \in D : p =< q /\ q < SegEnd(t, p)
      BY <1>1, <3>1 DEF Covers
    <3>3. p \in left
      BY <1>3, <3>1, <3>2
    <3> QED BY <3>2, <3>3
  <2>2. \A p \in left : /\ p < SegEnd(t, p) /\ top < SegEnd(t, p)
                       /\ SegEnd(t, p) =< t.next_seqno
                       /\ \A q \in left : p < q => SegEnd(t, p) =< q
    BY <1>1, <1>3, <1>7 DEF Covers
  <2>3. DOMAIN u.outstanding = left
    BY <1>4, <1>10
  <2> HIDE DEF left
  <2> QED BY <1>7, <1>10, <1>11, <2>1, <2>2, <2>3 DEF Covers
<1>13. Carries(u)
  <2>1. DOMAIN u.outstanding = left /\ \A p \in left : u.outstanding[p] = t.outstanding[p]
    BY <1>4, <1>10
  <2>2. left \subseteq D
    OBVIOUS
  <2> HIDE DEF left
  <2> QED BY <1>1, <1>10, <1>11, <2>1, <2>2 DEF Carries
<1>14. Accounts(u) /\ Buffers(u)
  BY <1>1, <1>10 DEF Accounts, Buffers
<1>15. TimerRuns(u)
  <2>1. Settled(t) => Settled(u)
    BY <1>4, <1>10 DEF Settled
  <2> QED BY <1>1, <1>10, <2>1 DEF TimerRuns
<1>16. Grown(t, u)
  <2>1. t.stream.bytes_read \in Nat
    BY <1>1 DEF SenderSet, StreamSet
  <2> QED BY <1>1, <1>10, <2>1 DEF Grown
<1> QED
  BY <1>7, <1>8, <1>9, <1>10, <1>12, <1>13, <1>14, <1>15, <1>16, <1>1, <1>5 DEF FillInv, u

\* ack_received keeps the invariant; the back-off is reset only if the window moves.
LEMMA AckReceivedStep ==
    ASSUME NEW t, FillInv(t), t.timer_running <=> ~Settled(t),
           NEW seqno \in Int, NEW window \in Nat
    PROVE  LET u == ack_received(t, seqno, window)
               a == unwrap(seqno, t.isn, t.ackno)
           IN  /\ FillInv(u) /\ (u.timer_running <=> ~Settled(u))
               /\ Grown(t, u) /\ (FilledUp(t) => FilledUp(u))
               /\ u.ackno = t.ackno \/ (u.ackno = a /\ a =< t.next_seqno)
               /\ a =< t.next_seqno => u.ackno >= a
               /\ \/ u.ackno > t.ackno
                  \/ /\ u.ackno = t.ackno /\ u.rto = t.rto
                     /\ u.consecutive_retransmissions = t.consecutive_retransmissions
               /\ u.consecutive_retransmissions =< t.consecutive_retransmissions
<1> DEFINE a == unwrap(seqno, t.isn, t.ackno)
           b == [t EXCEPT !.window_size = window]
           c == Acknowledge(b, a)
           f == fill_window(c)
           run == f.timer_running /\ ~Settled(f)
           u == ack_received(t, seqno, window)
<1>1. /\ t \in SenderSet /\ t.ackno \in Nat /\ t.isn \in Int /\ t.next_seqno \in Nat
      /\ t.consecutive_retransmissions \in Nat /\ Accounts(t) /\ Buffers(t)
  BY DEF FillInv, SenderSet
<1>2. a \in Nat
  BY <1>1, UnwrapType
<1>3. u = IF a > t.next_seqno THEN t ELSE [f EXCEPT !.timer_running = run]
  BY DEF ack_received
<1> HIDE DEF a
<1>4. CASE a > t.next_seqno
  <2>1. u = t
    BY <1>3, <1>4
  <2> HIDE DEF u
  <2>2. Grown(t, t)
    BY <1>1 DEF Grown, SenderSet, StreamSet
  <2> QED BY <1>1, <1>2, <1>4, <2>1, <2>2 DEF u, a
<1>5. CASE ~(a > t.next_seqno)
  <2>1. u = [f EXCEPT !.timer_running = run]
    BY <1>3, <1>5
  <2>2. /\ b \in SenderSet /\ b.isn = t.isn /\ b.ackno = t.ackno
        /\ b.next_seqno = t.next_seqno /\ b.outstanding = t.outstanding
        /\ b.fin_sent = t.fin_sent /\ b.syn_sent = t.syn_sent /\ b.stream = t.stream
        /\ b.timer_running = t.timer_running /\ b.rto = t.rto
        /\ b.consecutive_retransmissions = t.consecutive_retransmissions
        /\ b.segments_out = t.segments_out
    BY <1>1 DEF SenderSet
  <2> HIDE DEF b
  <2>3. FillInv(b)
    <3>1. Accounts(b) /\ Buffers(b)
      BY <1>1, <2>2 DEF Accounts, Buffers
    <3> QED BY <2>2, <3>1, FrameStep
  <2>4. a =< b.next_seqno
    BY <1>1, <1>2, <1>5, <2>2
  <2>5. /\ FillInv(c) /\ Grown(b, c) /\ c.ackno \in {b.ackno, a} /\ c.ackno >= a
        /\ \/ c.ackno > b.ackno
           \/ /\ c.ackno = b.ackno /\ c.rto = b.rto
              /\ c.consecutive_retransmissions = b.consecutive_retransmissions
        /\ c.consecutive_retransmissions =< b.consecutive_retransmissions
    BY <1>2, <2>3, <2>4, AcknowledgeStep
  <2> HIDE DEF c
  <2>6. /\ FillInv(f) /\ Filled(c, f) /\ FilledUp(f) /\ f.ackno = c.ackno /\ f.rto = c.rto
        /\ f.consecutive_retransmissions = c.consecutive_retransmissions
    BY <2>5, FillStep
  <2> HIDE DEF f, u
  <2>7. run \in BOOLEAN
    OBVIOUS
  <2>8. ~Settled(f) => f.timer_running
    BY <2>6 DEF FillInv, TimerRuns
  <2>9. run <=> ~Settled(f)
    BY <2>8
  <2> HIDE DEF run
  <2>10. /\ f \in SenderSet /\ Covers(f) /\ Accounts(f) /\ Buffers(f) /\ Carries(f)
    BY <2>6 DEF FillInv
  <2>11. /\ u \in SenderSet /\ u.isn = f.isn /\ u.ackno = f.ackno
         /\ u.next_seqno = f.next_seqno /\ u.outstanding = f.outstanding
         /\ u.fin_sent = f.fin_sent /\ u.syn_sent = f.syn_sent /\ u.stream = f.stream
         /\ u.timer_running = run /\ u.rto = f.rto
         /\ u.segments_out = f.segments_out /\ u.window_size = f.window_size
         /\ u.consecutive_retransmissions = f.consecutive_retransmissions
    BY <2>1, <2>7, <2>10 DEF SenderSet
  <2>12. Covers(u) /\ (Settled(u) <=> Settled(f)) /\ \A p : SegEnd(u, p) = SegEnd(f, p)
    BY <2>10, <2>11, SameCover
  <2>13. Carries(u) /\ Accounts(u) /\ Buffers(u)
    BY <2>10, <2>11, <2>12 DEF Carries, Accounts, Buffers
  <2>14. u.timer_running <=> ~Settled(u)
    BY <2>9, <2>11, <2>12
  <2>15. FillInv(u)
    BY <2>10, <2>11, <2>12, <2>13, <2>14 DEF FillInv, TimerRuns
  <2>16. Grown(t, u)
    <3>1. /\ t.stream.bytes_read \in Nat /\ c.stream.bytes_read \in Nat
          /\ f.stream.bytes_read \in Nat
      BY <1>1, <2>5, <2>6 DEF FillInv, SenderSet, StreamSet
    <3>2. Range(c.segments_out) \subseteq Range(t.segments_out) \cup Range(c.outstanding)
      BY <2>2, <2>5 DEF Grown
    <3> QED BY <2>2, <2>5, <2>6, <2>11, <3>1, <3>2 DEF Filled, Grown
  <2>17. FilledUp(u)
    BY <2>6, <2>11 DEF FilledUp, WindowRight
  <2>18. (u.ackno = t.ackno \/ u.ackno = a) /\ u.ackno >= a
    BY <2>2, <2>5, <2>6, <2>11
  <2> QED BY <1>1, <1>2, <1>5, <2>2, <2>5, <2>6, <2>11, <2>14, <2>15, <2>16, <2>17, <2>18 DEF u, a
<1> QED BY <1>4, <1>5

\* The oldest outstanding segment is the one that holds the first unacknowledged
\* number.
LEMMA Oldest ==
    ASSUME NEW t, FillInv(t), ~Settled(t)
    PROVE  LET p == Min(DOMAIN t.outstanding)
           IN  /\ p \in DOMAIN t.outstanding /\ t.outstanding[p] \in SegmentSet
               /\ p =< t.ackno /\ t.ackno < SegEnd(t, p)
<1> DEFINE D == DOMAIN t.outstanding
<1>1. t.ackno \in Nat /\ t.next_seqno \in Nat /\ Covers(t)
  BY DEF FillInv, SenderSet
<1>2. \A p \in D : p \in Nat /\ t.outstanding[p] \in SegmentSet /\ SegEnd(t, p) \in Nat
  <2>1. PICK E \in SUBSET Nat : t.outstanding \in [E -> SegmentSet]
    BY DEF FillInv, SenderSet, Tracked
  <2> QED BY <2>1, LengthType DEF SegEnd
<1>3. \A p \in D : /\ t.ackno < SegEnd(t, p) /\ SegEnd(t, p) =< t.next_seqno
                  /\ p < SegEnd(t, p)
                  /\ \A q \in D : p < q => SegEnd(t, p) =< q
  BY <1>1 DEF Covers
<1>4. t.ackno < t.next_seqno
  BY <1>1, <1>2, <1>3 DEF Settled
<1>5. PICK p \in D : p =< t.ackno /\ t.ackno < SegEnd(t, p)
  <2>1. t.ackno \in t.ackno..(t.next_seqno - 1)
    BY <1>1, <1>4
  <2> QED BY <1>1, <2>1 DEF Covers
<1>6. \A q \in D : p =< q
  BY <1>1, <1>2, <1>3, <1>5
<1>7. \A q \in D : (\A r \in D : q =< r) => q = p
  BY <1>2, <1>5, <1>6
<1> HIDE DEF D
<1>8. Min(D) = p
  BY <1>5, <1>6, <1>7 DEF Min
<1> QED BY <1>2, <1>5, <1>8 DEF D

\* A tick keeps the invariant; only a timeout counts, and it sends the oldest segment.
LEMMA TickStep ==
    ASSUME NEW t, FillInv(t), t.timer_running <=> ~Settled(t), NEW ms \in Nat
    PROVE  LET u == sender_tick(t, ms)
           IN  /\ FillInv(u) /\ (u.timer_running <=> ~Settled(u))
               /\ Filled(t, u) /\ u.next_seqno = t.next_seqno /\ u.stream = t.stream
               /\ u.fin_sent = t.fin_sent
               /\ u.rto >= t.rto
               /\ u.consecutive_retransmissions >= t.consecutive_retransmissions
               /\ u.consecutive_retransmissions > t.consecutive_retransmissions =>
                     \E p \in DOMAIN t.outstanding :
                         /\ p =< t.ackno /\ t.ackno < SegEnd(t, p)
                         /\ u.segments_out = Append(t.segments_out, t.outstanding[p])
<1> DEFINE u == sender_tick(t, ms)
           timer == t.timer + ms
           expired == timer >= t.rto /\ ~Settled(t)
<1>1. /\ t \in SenderSet /\ t.timer \in Nat /\ timer \in Nat /\ t.rto \in Nat
      /\ t.consecutive_retransmissions \in Nat /\ t.segments_out \in Seq(SegmentSet)
      /\ Accounts(t) /\ Buffers(t)
  BY DEF FillInv, SenderSet
<1>5. t.stream.bytes_read \in Nat
  BY <1>1 DEF SenderSet, StreamSet
<1>2. CASE ~t.timer_running
  <2>1. u = t
    BY <1>2 DEF sender_tick
  <2> HIDE DEF u
  <2>2. Filled(t, t)
    BY <1>5 DEF Filled, Grown
  <2> QED BY <1>1, <2>1, <2>2 DEF u
<1>3. CASE t.timer_running /\ ~expired
  <2>1. u = [t EXCEPT !.timer = timer]
    BY <1>3 DEF sender_tick
  <2> HIDE DEF u, timer
  <2>2. /\ u \in SenderSet /\ u.isn = t.isn /\ u.ackno = t.ackno
        /\ u.next_seqno = t.next_seqno /\ u.outstanding = t.outstanding
        /\ u.fin_sent = t.fin_sent /\ u.syn_sent = t.syn_sent /\ u.stream = t.stream
        /\ u.timer_running = t.timer_running /\ u.rto = t.rto
        /\ u.segments_out = t.segments_out /\ u.window_size = t.window_size
        /\ u.consecutive_retransmissions = t.consecutive_retransmissions
    BY <1>1, <2>1 DEF SenderSet
  <2>3. Accounts(u) /\ Buffers(u)
    BY <1>1, <2>2 DEF Accounts, Buffers
  <2>4. FillInv(u) /\ (Settled(u) <=> Settled(t))
    BY <2>2, <2>3, FrameStep
  <2>5. Filled(t, u)
    BY <1>5, <2>2 DEF Filled, Grown
  <2> QED BY <1>1, <2>2, <2>4, <2>5 DEF u
<1>4. CASE t.timer_running /\ expired
  <2> DEFINE p == Min(DOMAIN t.outstanding)
             queue == Append(t.segments_out, t.outstanding[p])
             rto == IF t.window_size > 0 THEN 2 * t.rto ELSE t.rto
             count == t.consecutive_retransmissions + 1
  <2>1. u = [t EXCEPT !.timer = 0, !.segments_out = queue, !.rto = rto,
                      !.consecutive_retransmissions = count]
    BY <1>4 DEF sender_tick
  <2>2. /\ p \in DOMAIN t.outstanding /\ t.outstanding[p] \in SegmentSet
        /\ p =< t.ackno /\ t.ackno < SegEnd(t, p)
    BY <1>4, Oldest
  <2>3. queue \in Seq(SegmentSet)
    BY <1>1, <2>2
  <2>4. rto \in Nat /\ rto >= t.rto /\ count \in Nat /\ count > t.consecutive_retransmissions
    BY <1>1
  <2> HIDE DEF u, p, queue, rto, count
  <2>5. /\ u \in SenderSet /\ u.isn = t.isn /\ u.ackno = t.ackno
        /\ u.next_seqno = t.next_seqno /\ u.outstanding = t.outstanding
        /\ u.fin_sent = t.fin_sent /\ u.syn_sent = t.syn_sent /\ u.stream = t.stream
        /\ u.timer_running = t.timer_running /\ u.rto = rto
        /\ u.consecutive_retransmissions = count /\ u.segments_out = queue
        /\ u.window_size = t.window_size
    BY <1>1, <2>1, <2>3, <2>4 DEF SenderSet
  <2>6. Accounts(u) /\ Buffers(u)
    BY <1>1, <2>5 DEF Accounts, Buffers
  <2>7. FillInv(u) /\ (Settled(u) <=> Settled(t))
    BY <2>5, <2>6, FrameStep
  <2>8. u.segments_out = Append(t.segments_out, t.outstanding[p])
    BY <2>5 DEF queue
  <2>9. Range(u.segments_out) \subseteq Range(t.segments_out) \cup Range(u.outstanding)
    <3> DEFINE q == t.segments_out
               seg == t.outstanding[p]
    <3>1. u.segments_out = Append(q, seg) /\ q \in Seq(SegmentSet) /\ seg \in SegmentSet
      BY <1>1, <2>2, <2>8
    <3>2. seg \in Range(u.outstanding)
      BY <2>2, <2>5 DEF Range
    <3> HIDE DEF q, seg
    <3>3. /\ DOMAIN Append(q, seg) = 1..(Len(q) + 1) /\ Len(q) \in Nat /\ DOMAIN q = 1..Len(q)
          /\ \A k \in 1..Len(q) : Append(q, seg)[k] = q[k]
          /\ Append(q, seg)[Len(q) + 1] = seg
      BY <3>1, AppendProperties
    <3>4. \A k \in 1..(Len(q) + 1) : k \in 1..Len(q) \/ k = Len(q) + 1
      BY <3>3
    <3>5. Range(Append(q, seg)) \subseteq Range(q) \cup {seg}
      BY <3>3, <3>4 DEF Range
    <3> QED BY <3>1, <3>2, <3>5 DEF q
  <2>10. Filled(t, u)
    BY <1>5, <2>5, <2>9 DEF Filled, Grown
  <2> QED BY <1>1, <2>2, <2>4, <2>5, <2>7, <2>8, <2>10, SMTT(30) DEF u
<1> QED BY <1>2, <1>3, <1>4

\* The application writes the next n numbers; the stream takes what fits, and nothing
\* after its end.
LEMMA WriteStep ==
    ASSUME NEW t, FillInv(t), NEW n \in Nat, NEW data,
           data = Excerpt(t.stream.bytes_written, n)
    PROVE  LET u == [t EXCEPT !.stream = write(@, data)]
           IN  /\ FillInv(u) /\ (Settled(u) <=> Settled(t)) /\ OnlyStream(t, u)
               /\ u.stream.bytes_written = t.stream.bytes_written + Accepted(t.stream, n)
               /\ u.stream.bytes_read = t.stream.bytes_read
               /\ u.stream.capacity = t.stream.capacity
               /\ u.stream.input_ended = t.stream.input_ended
               /\ u.stream.error = t.stream.error
<1> DEFINE st  == t.stream
           L   == Len(st.buffer)
           m   == Accepted(st, n)
           new == SubSeq(data, 1, m)
           buffer  == st.buffer \o new
           written == st.bytes_written + m
           out == write(st, data)
           u   == [t EXCEPT !.stream = out]
<1>1. /\ t \in SenderSet /\ st \in StreamSet /\ st.buffer \in Seq(Nat) /\ L \in Nat
      /\ st.capacity \in Nat /\ st.bytes_written \in Nat /\ st.bytes_read \in Nat
      /\ Accounts(t) /\ Buffers(t)
  BY DEF FillInv, SenderSet, StreamSet
<1>2. /\ L =< st.capacity /\ st.bytes_written = st.bytes_read + L
      /\ \A k \in 1..L : st.buffer[k] = st.bytes_read + k - 1
  BY <1>1 DEF Buffers
<1>3. m \in Nat /\ m =< n /\ L + m =< st.capacity /\ (st.input_ended => m = 0)
  BY <1>1, <1>2, SMTT(30) DEF Accepted, Lesser, remaining_capacity
<1>4. data = [k \in 1..n |-> st.bytes_written + k - 1] /\ Len(data) = n
  BY DEF Excerpt
<1>5. out = [st EXCEPT !.buffer = buffer, !.bytes_written = written]
  BY <1>4 DEF write
<1> HIDE DEF m
<1>6. /\ new \in Seq(Nat) /\ Len(new) = m
      /\ \A k \in 1..m : new[k] = st.bytes_written + k - 1
  <2>1. \A k \in 1..m : data[k] = st.bytes_written + k - 1 /\ data[k] \in Nat
    BY <1>1, <1>3, <1>4
  <2>2. /\ new \in Seq(Nat) /\ Len(new) = IF 1 =< m THEN m - 1 + 1 ELSE 0
        /\ \A k \in 1..(m - 1 + 1) : new[k] = data[1 + k - 1]
    BY <1>3, <2>1, SubSeqProperties
  <2> HIDE DEF new
  <2>3. Len(new) = m /\ m - 1 + 1 = m
    BY <1>3, <2>2
  <2>4. ASSUME NEW k \in 1..m PROVE new[k] = st.bytes_written + k - 1
    <3>1. k \in Int /\ 1 + k - 1 = k
      BY <1>3
    <3>2. new[k] = data[k]
      BY <2>2, <2>3, <3>1
    <3> QED BY <2>1, <3>2
  <2> QED BY <2>2, <2>3, <2>4
<1> HIDE DEF new
<1>7. /\ buffer \in Seq(Nat) /\ Len(buffer) = L + m
      /\ \A k \in 1..(L + m) : buffer[k] = IF k =< L THEN st.buffer[k] ELSE new[k - L]
  BY <1>1, <1>6, ConcatProperties
<1> HIDE DEF buffer, L, written
<1>8. \A k \in 1..Len(buffer) : buffer[k] = st.bytes_read + k - 1
  <2> TAKE k \in 1..Len(buffer)
  <2>1. CASE k =< L
    <3>1. k \in 1..L /\ k \in 1..(L + m)
      BY <1>1, <1>3, <1>7, <2>1
    <3> QED BY <1>2, <1>7, <2>1, <3>1
  <2>2. CASE ~(k =< L)
    <3>1. k \in Int /\ k - L \in 1..m /\ k \in 1..(L + m)
      BY <1>1, <1>3, <1>7, <2>2
    <3>2. buffer[k] = st.bytes_written + (k - L) - 1
      BY <1>6, <1>7, <2>2, <3>1
    <3> QED BY <1>1, <1>2, <3>1, <3>2, SMTT(30)
  <2> QED BY <2>1, <2>2
<1>9. st.input_ended /\ st.buffer = << >> => buffer = << >>
  <2> SUFFICES ASSUME st.input_ended, st.buffer = << >> PROVE buffer = << >>
    OBVIOUS
  <2>1. L = 0 /\ m = 0
    BY <1>3 DEF L
  <2>2. Len(buffer) = 0
    BY <1>7, <2>1
  <2> QED BY <1>7, <2>2, EmptySeq
<1>10. written \in Nat /\ written = st.bytes_read + Len(buffer)
  <2>1. Len(buffer) = L + m /\ L \in Nat /\ m \in Nat
    BY <1>1, <1>3, <1>7
  <2>2. st.bytes_written = st.bytes_read + L /\ st.bytes_read \in Nat
    BY <1>1, <1>2
  <2> QED BY <2>1, <2>2 DEF written
<1>11. Len(buffer) =< st.capacity
  BY <1>3, <1>7
<1> HIDE DEF out
<1>12. /\ out \in StreamSet /\ out.buffer = buffer /\ out.bytes_written = written
       /\ out.bytes_read = st.bytes_read /\ out.capacity = st.capacity
       /\ out.input_ended = st.input_ended /\ out.error = st.error
  BY <1>1, <1>5, <1>7, <1>10 DEF StreamSet
<1> HIDE DEF u
<1>13. u = [t EXCEPT !.stream = out]
  BY DEF u
<1>14. /\ u \in SenderSet /\ u.isn = t.isn /\ u.ackno = t.ackno
       /\ u.next_seqno = t.next_seqno /\ u.outstanding = t.outstanding
       /\ u.fin_sent = t.fin_sent /\ u.syn_sent = t.syn_sent /\ u.stream = out
       /\ u.timer_running = t.timer_running /\ u.window_size = t.window_size
       /\ u.segments_out = t.segments_out
       /\ u.consecutive_retransmissions = t.consecutive_retransmissions
  BY <1>1, <1>12, <1>13 DEF SenderSet
<1>15. Accounts(u)
  BY <1>1, <1>9, <1>12, <1>14 DEF Accounts
<1>16. Buffers(u)
  BY <1>8, <1>10, <1>11, <1>12, <1>14 DEF Buffers
<1>17. FillInv(u) /\ (Settled(u) <=> Settled(t))
  BY <1>14, <1>15, <1>16, FrameStep
<1>18. [t EXCEPT !.stream = write(@, data)] = u
  BY DEF u, out
<1>19. OnlyStream(t, u)
  BY <1>14 DEF OnlyStream
<1> QED BY <1>12, <1>14, <1>17, <1>18, <1>19 DEF written, m

\* The end of the input keeps the invariant.
LEMMA EndStep ==
    ASSUME NEW t, FillInv(t)
    PROVE  LET u == [t EXCEPT !.stream = end_input(@)]
           IN  /\ FillInv(u) /\ (Settled(u) <=> Settled(t)) /\ OnlyStream(t, u)
               /\ u.stream.bytes_written = t.stream.bytes_written
               /\ u.stream.bytes_read = t.stream.bytes_read
               /\ u.stream.capacity = t.stream.capacity
               /\ u.stream.input_ended = TRUE
               /\ u.stream.error = t.stream.error
<1> DEFINE st  == t.stream
           out == end_input(st)
           u   == [t EXCEPT !.stream = out]
<1>1. t \in SenderSet /\ st \in StreamSet /\ Accounts(t) /\ Buffers(t)
  BY DEF FillInv, SenderSet
<1>2. /\ out \in StreamSet /\ out.buffer = st.buffer /\ out.bytes_written = st.bytes_written
      /\ out.bytes_read = st.bytes_read /\ out.capacity = st.capacity
      /\ out.input_ended = TRUE /\ out.error = st.error
  BY <1>1 DEF end_input, StreamSet
<1>3. u = [t EXCEPT !.stream = out]
  OBVIOUS
<1>4. [t EXCEPT !.stream = end_input(@)] = u
  OBVIOUS
<1> HIDE DEF out, u
<1>5. /\ u \in SenderSet /\ u.isn = t.isn /\ u.ackno = t.ackno
      /\ u.next_seqno = t.next_seqno /\ u.outstanding = t.outstanding
      /\ u.fin_sent = t.fin_sent /\ u.syn_sent = t.syn_sent /\ u.stream = out
      /\ u.timer_running = t.timer_running /\ u.window_size = t.window_size
      /\ u.segments_out = t.segments_out
      /\ u.consecutive_retransmissions = t.consecutive_retransmissions
  BY <1>1, <1>2, <1>3 DEF SenderSet
<1>6. Accounts(u) /\ Buffers(u)
  BY <1>1, <1>2, <1>5 DEF Accounts, Buffers
<1>7. FillInv(u) /\ (Settled(u) <=> Settled(t))
  BY <1>5, <1>6, FrameStep
<1>8. OnlyStream(t, u)
  BY <1>5 DEF OnlyStream
<1> QED BY <1>2, <1>4, <1>5, <1>7, <1>8


\* A new sender has sent nothing.
LEMMA NewSenderFacts ==
    ASSUME NEW i \in Int, NEW c \in Nat
    PROVE  LET t == NewSender(i, c)
           IN  /\ FillInv(t) /\ t.isn = i /\ (t.timer_running <=> ~Settled(t)) /\ FilledUp(t)
<1> DEFINE st == NewStream(c)
           t  == NewSender(i, c)
<1>2. /\ st \in StreamSet /\ st.buffer = << >> /\ st.capacity \in Nat
      /\ st.bytes_written = 0 /\ st.bytes_read = 0 /\ st.input_ended = FALSE
  BY DEF NewStream, StreamSet
<1>3. << >> \in Tracked /\ DOMAIN << >> = {} /\ << >> \in Seq(SegmentSet)
  <2>1. << >> = [p \in {} |-> Segment(0)]
    OBVIOUS
  <2>2. [p \in {} |-> Segment(0)] \in [{} -> SegmentSet]
    OBVIOUS
  <2> QED BY <2>1, <2>2 DEF Tracked
<1> HIDE DEF st
<1>4. /\ t \in SenderSet /\ t.isn = i /\ t.stream = st /\ t.ackno = 0 /\ t.next_seqno = 0
      /\ t.outstanding = << >> /\ t.timer_running = FALSE
      /\ t.syn_sent = FALSE /\ t.fin_sent = FALSE
  BY <1>2, <1>3, SenderAssumption DEF NewSender, SenderSet, st
<1> HIDE DEF t
<1>5. DOMAIN t.outstanding = {} /\ Settled(t)
  BY <1>3, <1>4 DEF Settled
<1>6. Covers(t) /\ Carries(t)
  BY <1>4, <1>5 DEF Covers, Carries
<1>7. Accounts(t)
  BY <1>2, <1>4 DEF Accounts
<1>8. Buffers(t)
  BY <1>2, <1>4 DEF Buffers
<1>9. FilledUp(t)
  BY <1>2, <1>4 DEF FilledUp
<1> QED BY <1>4, <1>5, <1>6, <1>7, <1>8, <1>9 DEF FillInv, TimerRuns, t

\* The outstanding segments take every number that was sent until the SYN is
\* acknowledged, not every one afterwards, and none when they are gone.
LEMMA InFlight ==
    ASSUME NEW t, FillInv(t)
    PROVE  /\ bytes_in_flight(t) \in Nat
           /\ bytes_in_flight(t) = 0 <=> Settled(t)
           /\ t.ackno = 0 => bytes_in_flight(t) = t.next_seqno
           /\ t.ackno > 0 => bytes_in_flight(t) < t.next_seqno
<1> DEFINE D == DOMAIN t.outstanding
           len(p) == length_in_sequence_space(t.outstanding[p])
           P == UNION {{p} \X (1..len(p)) : p \in D}
           In(p, q) == p =< q /\ q < p + len(p)
           H == {q \in 0..(t.next_seqno - 1) : \E p \in D : In(p, q)}
           own == [q \in H |-> CHOOSE p \in D : In(p, q)]
           f == [q \in H |-> <<own[q], q - own[q] + 1>>]
<1>1. t.ackno \in Nat /\ t.next_seqno \in Nat /\ t.ackno =< t.next_seqno /\ Covers(t) /\ Carries(t)
  BY DEF FillInv, SenderSet, Covers
<1>2. \A p \in D : p \in Nat /\ len(p) \in Nat /\ SegEnd(t, p) = p + len(p)
  <2>1. PICK E \in SUBSET Nat : t.outstanding \in [E -> SegmentSet]
    BY DEF FillInv, SenderSet, Tracked
  <2> QED BY <2>1, LengthType DEF SegEnd
<1>3. \A p \in D : /\ p < p + len(p) /\ t.ackno < p + len(p) /\ p + len(p) =< t.next_seqno
                  /\ \A q \in D : p < q => p + len(p) =< q
  BY <1>1, <1>2 DEF Covers
<1>4. \A q \in t.ackno..(t.next_seqno - 1) : \E p \in D : In(p, q)
  BY <1>1, <1>2 DEF Covers
<1>5. 0 \in D => len(0) = 1
  <2> SUFFICES ASSUME 0 \in D PROVE len(0) = 1
    OBVIOUS
  <2> DEFINE seg == t.outstanding[0]
  <2>1. seg.syn /\ Len(seg.payload) = 0 /\ ~seg.fin
    BY <1>1 DEF Carries
  <2>2. length_in_sequence_space(seg) = 0 + 1 + 0
    BY <2>1 DEF length_in_sequence_space
  <2> QED BY <2>2
<1>6. \A p \in D : \A k \in 1..len(p) : <<p, k>> \in P
  OBVIOUS
<1>7. \A x \in P : \E p \in D : \E k \in 1..len(p) : x = <<p, k>>
  OBVIOUS
<1>8. bytes_in_flight(t) = Cardinality(P)
  BY DEF bytes_in_flight
<1> HIDE DEF D, len, P
<1>9. \A q \in H : q \in 0..(t.next_seqno - 1) /\ own[q] \in D /\ In(own[q], q)
  OBVIOUS
<1> HIDE DEF own
<1>10. f \in [H -> P]
  <2>1. ASSUME NEW q \in H PROVE <<own[q], q - own[q] + 1>> \in P
    <3>1. q - own[q] + 1 \in 1..len(own[q])
      BY <1>2, <1>9
    <3> QED BY <1>6, <1>9, <3>1
  <2> QED BY <2>1
<1>11. \A q, r \in H : f[q] = f[r] => q = r
  <2> SUFFICES ASSUME NEW q \in H, NEW r \in H, f[q] = f[r] PROVE q = r
    OBVIOUS
  <2>1. own[q] = own[r] /\ q - own[q] + 1 = r - own[r] + 1
    OBVIOUS
  <2> QED BY <1>2, <1>9, <2>1
<1>12. \A x \in P : \E q \in H : f[q] = x
  <2> TAKE x \in P
  <2>1. PICK p \in D : \E k \in 1..len(p) : x = <<p, k>>
    BY <1>7
  <2> PICK k \in 1..len(p) : x = <<p, k>>
    BY <2>1
  <2> DEFINE q == p + k - 1
  <2>2. q \in Nat /\ In(p, q) /\ q - p + 1 = k
    BY <1>2
  <2>3. q \in 0..(t.next_seqno - 1)
    BY <1>1, <1>2, <1>3, <2>2
  <2> HIDE DEF q
  <2>4. q \in H
    BY <2>2, <2>3
  <2>5. own[q] = p
    BY <1>2, <1>3, <1>9, <2>2, <2>4
  <2>6. f[q] = <<own[q], q - own[q] + 1>>
    BY <2>4
  <2> QED BY <2>2, <2>4, <2>5, <2>6
<1>13. IsFiniteSet(0..(t.next_seqno - 1)) /\ Cardinality(0..(t.next_seqno - 1)) = t.next_seqno
  <2> DEFINE b == t.next_seqno - 1
  <2>1. b \in Int /\ 0 \in Int /\ b - 0 + 1 = t.next_seqno /\ (0 > b => t.next_seqno = 0)
    BY <1>1
  <2> HIDE DEF b
  <2>2. IsFiniteSet(0..b) /\ Cardinality(0..b) = IF 0 > b THEN 0 ELSE b - 0 + 1
    BY <2>1, FS_Interval
  <2> QED BY <2>1, <2>2 DEF b
<1>14. H \in SUBSET (0..(t.next_seqno - 1))
  OBVIOUS
<1>15. IsFiniteSet(H)
  BY <1>13, <1>14, FS_Subset
<1> HIDE DEF f
<1>16. f \in Bijection(H, P)
  <2> HIDE DEF H
  <2> QED BY <1>10, <1>11, <1>12 DEF Bijection, Injection, Surjection, IsInjective
<1>17. bytes_in_flight(t) = Cardinality(H) /\ bytes_in_flight(t) \in Nat
  BY <1>8, <1>15, <1>16, FS_Bijection, FS_CardinalityType DEF ExistsBijection
<1>18. bytes_in_flight(t) = 0 <=> Settled(t)
  <2>1. bytes_in_flight(t) = 0 <=> H = {}
    BY <1>15, <1>17, FS_EmptySet
  <2>2. ASSUME NEW p \in D PROVE H # {}
    <3>1. p \in 0..(t.next_seqno - 1) /\ In(p, p)
      BY <1>1, <1>2, <1>3
    <3> QED BY <3>1
  <2>3. D = {} => H = {}
    OBVIOUS
  <2> QED BY <2>1, <2>2, <2>3 DEF Settled, D
<1>19. t.ackno = 0 => bytes_in_flight(t) = t.next_seqno
  <2>1. t.ackno = 0 => H = 0..(t.next_seqno - 1)
    BY <1>4
  <2> QED BY <1>13, <1>17, <2>1
<1>20. ASSUME t.ackno > 0 PROVE bytes_in_flight(t) < t.next_seqno
  <2>1. H \in SUBSET (1..(t.next_seqno - 1))
    <3> SUFFICES ASSUME NEW q \in H PROVE q # 0
      BY <1>14
    <3>1. PICK p \in D : In(p, q)
      OBVIOUS
    <3> SUFFICES ASSUME q = 0 PROVE FALSE
      OBVIOUS
    <3>2. p = 0
      BY <1>2, <3>1
    <3>3. 0 \in D /\ len(0) = 1
      BY <1>5, <3>2
    <3>4. t.ackno < 0 + len(0)
      BY <1>3, <3>3
    <3> QED BY <1>1, <1>20, <3>3, <3>4
  <2>2. IsFiniteSet(1..(t.next_seqno - 1)) /\ Cardinality(1..(t.next_seqno - 1)) = t.next_seqno - 1
    <3> DEFINE b == t.next_seqno - 1
    <3>1. b \in Int /\ 1 \in Int /\ (1 > b => b = 0) /\ b - 1 + 1 = b
      BY <1>1, <1>20
    <3> HIDE DEF b
    <3>2. IsFiniteSet(1..b) /\ Cardinality(1..b) = IF 1 > b THEN 0 ELSE b - 1 + 1
      BY <3>1, FS_Interval
    <3> QED BY <3>1, <3>2 DEF b
  <2>3. Cardinality(H) =< t.next_seqno - 1
    <3> HIDE DEF H
    <3> QED BY <2>1, <2>2, FS_Subset
  <2> QED BY <1>1, <1>17, <2>3
<1> QED BY <1>17, <1>18, <1>19, <1>20
-----------------------------------------------------------------------------
(* The reassembler: each part of push_substring, the whole of it and a read, *)
(* for excerpts of a stream of which N bytes exist.                          *)

Bytes == Seq(Nat)

OutputSet ==
    [buffer : Bytes, capacity : Nat, input_ended : BOOLEAN, error : {FALSE},
     bytes_written : Nat, bytes_read : Nat]

ChunkMaps(N) == UNION {[cs -> Bytes] : cs \in SUBSET (0..N)}

ReassemblerSet(N) ==
    [chunks : ChunkMaps(N), next : 0..N, unassembled_bytes : Nat,
     eof_idx : {NoEof, N}, output : OutputSet]

\* The indices held in the chunks cs, and in all.
HeldIn(chunks, cs, N) == {i \in 0..N : \E c \in cs : Holds(chunks, c, i)}

Held(chunks, N) == HeldIn(chunks, DOMAIN chunks, N)

\* Nonempty pieces of the stream that do not overlap.
Chunked(chunks, N) ==
    \A c \in DOMAIN chunks :
        /\ chunks[c] = Excerpt(c, Len(chunks[c]))
        /\ chunks[c] # << >>
        /\ ChunkEnd(chunks, c) =< N
        /\ \A d \in DOMAIN chunks : c < d => ChunkEnd(chunks, c) =< d

\* The output o holds the stream up to index n, from the first unread byte.
Delivered(o, n) ==
    /\ o.bytes_written = n
    /\ o.bytes_read =< n
    /\ o.buffer = Excerpt(o.bytes_read, n - o.bytes_read)
    /\ Len(o.buffer) =< o.capacity

\* From the output o to u nothing was read.
Unread(o, u) == u.bytes_read = o.bytes_read /\ u.capacity = o.capacity

\* What each part of push_substring keeps.
Good(x, N) ==
    /\ x \in ReassemblerSet(N)
    /\ Chunked(x.chunks, N)
    /\ \A c \in DOMAIN x.chunks : x.next =< c
    /\ \A c \in DOMAIN x.chunks : c < first_unacceptable_idx(x) \/ c = x.next
    /\ Delivered(x.output, x.next)
    /\ x.output.input_ended => x.next = N /\ x.eof_idx # NoEof
    /\ Cardinality(Held(x.chunks, N)) =< x.unassembled_bytes

\* The output of x is closed exactly when all is written and the end is known.
Closed(x, N) == x.output.input_ended <=> (x.eof_idx # NoEof /\ x.next = N)

-----------------------------------------------------------------------------
(* Excerpts of the stream.                                                  *)

\* An excerpt is a sequence of as many bytes as it says.
LEMMA ExcerptType ==
    ASSUME NEW a \in Nat, NEW n \in Nat
    PROVE  /\ Excerpt(a, n) \in Bytes
           /\ Len(Excerpt(a, n)) = n
           /\ DOMAIN Excerpt(a, n) = 1..n
           /\ \A k \in 1..n : Excerpt(a, n)[k] = a + k - 1
<1>1. \A k \in 1..n : a + k - 1 \in Nat
  OBVIOUS
<1>2. Excerpt(a, n) \in [1..n -> Nat]
  BY <1>1 DEF Excerpt
<1>3. Excerpt(a, n) \in Bytes
  BY <1>2, SeqDef DEF Bytes
<1>4. DOMAIN Excerpt(a, n) = 1..n
  BY DEF Excerpt
<1>5. Len(Excerpt(a, n)) = n
  BY <1>3, <1>4, LenProperties DEF Bytes
<1> QED BY <1>3, <1>4, <1>5 DEF Excerpt

\* A part of an excerpt is an excerpt.
LEMMA ExcerptPart ==
    ASSUME NEW a \in Nat, NEW n \in Nat, NEW i \in 1..(n + 1), NEW j \in (i - 1)..n
    PROVE  SubSeq(Excerpt(a, n), i, j) = Excerpt(a + i - 1, j - i + 1)
<1> DEFINE s == Excerpt(a, n)
           t == SubSeq(s, i, j)
           u == Excerpt(a + i - 1, j - i + 1)
<1>1. \A k \in i..j : s[k] = a + k - 1 /\ s[k] \in Nat
  <2>1. \A k \in 1..n : s[k] = a + k - 1
    BY ExcerptType
  <2> HIDE DEF s
  <2>2. \A k \in i..j : k \in 1..n /\ a + k - 1 \in Nat
    OBVIOUS
  <2> QED BY <2>1, <2>2
<1>2. /\ u \in Bytes
      /\ Len(u) = j - i + 1
      /\ \A k \in 1..(j - i + 1) : u[k] = a + i - 1 + k - 1
  <2>1. a + i - 1 \in Nat /\ j - i + 1 \in Nat
    OBVIOUS
  <2> QED BY <2>1, ExcerptType
<1> HIDE DEF s, u
<1>3. /\ t \in Bytes
      /\ Len(t) = j - i + 1
      /\ \A k \in 1..(j - i + 1) : t[k] = s[i + k - 1]
  <2>1. \A k \in i..j : s[k] \in Nat
    BY <1>1
  <2>2. /\ SubSeq(s, i, j) \in Seq(Nat)
        /\ Len(SubSeq(s, i, j)) = IF i =< j THEN j - i + 1 ELSE 0
        /\ \A k \in 1..(j - i + 1) : SubSeq(s, i, j)[k] = s[i + k - 1]
    BY <2>1, SubSeqProperties
  <2> QED BY <2>2 DEF Bytes
<1> HIDE DEF t
<1>4. \A k \in 1..Len(t) : t[k] = u[k]
  BY <1>1, <1>2, <1>3
<1>5. t = u
  BY <1>2, <1>3, <1>4, SeqEqual DEF Bytes
<1> QED BY <1>5 DEF s, t, u

\* Excerpts that follow one another.
LEMMA ExcerptJoin ==
    ASSUME NEW a \in Nat, NEW n \in Nat, NEW m \in Nat
    PROVE  Excerpt(a, n) \o Excerpt(a + n, m) = Excerpt(a, n + m)
<1> DEFINE s == Excerpt(a, n)
           t == Excerpt(a + n, m)
           u == Excerpt(a, n + m)
<1>1. s \in Bytes /\ Len(s) = n /\ \A k \in 1..n : s[k] = a + k - 1
  BY ExcerptType
<1>2. t \in Bytes /\ Len(t) = m /\ \A k \in 1..m : t[k] = a + n + k - 1
  BY ExcerptType
<1>3. u \in Bytes /\ Len(u) = n + m /\ \A k \in 1..(n + m) : u[k] = a + k - 1
  BY ExcerptType
<1> HIDE DEF s, t, u
<1>4. /\ s \o t \in Bytes
      /\ Len(s \o t) = n + m
      /\ \A k \in 1..(n + m) : (s \o t)[k] = IF k <= n THEN s[k] ELSE t[k - n]
  BY <1>1, <1>2, ConcatProperties DEF Bytes
<1>5. \A k \in 1..Len(u) : (s \o t)[k] = u[k]
  <2> TAKE k \in 1..Len(u)
  <2>1. CASE k =< n
    BY <1>1, <1>3, <1>4, <2>1
  <2>2. CASE ~(k =< n)
    <3>1. k - n \in 1..m
      BY <1>3, <2>2
    <3> QED BY <1>2, <1>3, <1>4, <2>2, <3>1, SMTT(30)
  <2> QED BY <2>1, <2>2
<1>6. s \o t = u
  BY <1>3, <1>4, <1>5, SeqEqual DEF Bytes
<1> QED BY <1>6 DEF s, t, u

-----------------------------------------------------------------------------
(* The greatest of some indices.                                            *)

\* A bounded set of indices has a greatest element, and Max is it.
LEMMA MaxIs ==
    ASSUME NEW n \in Nat, NEW S \in SUBSET (0..n), S # {}
    PROVE  Max(S) \in S /\ \A x \in S : x =< Max(S)
<1> DEFINE R == {ss \in Nat \X Nat : ss[1] < ss[2]}
           below == {m \in 0..n : n - m \in S}
<1>1. below \subseteq Nat /\ below # {}
  <2>1. PICK x \in S : TRUE
    OBVIOUS
  <2>2. n - x \in 0..n /\ n - (n - x) = x
    OBVIOUS
  <2>3. n - x \in below
    BY <2>2
  <2>4. below \subseteq Nat
    OBVIOUS
  <2> HIDE DEF below
  <2> QED BY <2>3, <2>4
<1>2. IsWellFoundedOn(R, Nat)
  BY NatLessThanWellFounded, Zenon DEF OpToRel
<1> HIDE DEF R, below
<1>3. PICK d \in below : \A e \in below : <<e, d>> \notin R
  BY <1>1, <1>2, WFMin
<1> USE DEF below
<1>4. \A y \in S : n - d >= y
  <2> TAKE y \in S
  <2>1. n - y \in below
    OBVIOUS
  <2>2. ~(n - y < d)
    <3>1. \A a, b \in Nat : a < b => <<a, b>> \in R
      BY DEF R
    <3>2. n - y \in Nat /\ d \in Nat
      OBVIOUS
    <3>3. <<n - y, d>> \notin R
      BY <1>3, <2>1
    <3> QED BY <3>1, <3>2, <3>3
  <2> QED BY <2>2
<1>5. Max(S) \in S /\ \A y \in S : Max(S) >= y
  BY <1>4, Zenon DEF Max
<1> QED BY <1>5

-----------------------------------------------------------------------------
(* The stored chunks.                                                       *)

\* What membership in ChunkMaps says.
LEMMA ChunkMap ==
    ASSUME NEW ch, NEW N \in Nat
    PROVE  ch \in ChunkMaps(N) <=>
               /\ ch = [c \in DOMAIN ch |-> ch[c]]
               /\ DOMAIN ch \subseteq 0..N
               /\ \A c \in DOMAIN ch : ch[c] \in Bytes
<1>1. ASSUME ch \in ChunkMaps(N)
      PROVE  /\ ch = [c \in DOMAIN ch |-> ch[c]]
             /\ DOMAIN ch \subseteq 0..N
             /\ \A c \in DOMAIN ch : ch[c] \in Bytes
  <2>1. PICK cs \in SUBSET (0..N) : ch \in [cs -> Bytes]
    BY <1>1 DEF ChunkMaps
  <2> QED BY <2>1
<1>2. ASSUME ch = [c \in DOMAIN ch |-> ch[c]],
             DOMAIN ch \subseteq 0..N,
             \A c \in DOMAIN ch : ch[c] \in Bytes
      PROVE  ch \in ChunkMaps(N)
  <2>1. ch \in [DOMAIN ch -> Bytes]
    BY <1>2
  <2> QED BY <1>2, <2>1 DEF ChunkMaps
<1> QED BY <1>1, <1>2

\* A piece is a nonempty interval of the stream, and no two overlap.
LEMMA PieceEnds ==
    ASSUME NEW ch, NEW N \in Nat, ch \in ChunkMaps(N), Chunked(ch, N)
    PROVE  /\ DOMAIN ch \subseteq 0..N
           /\ \A c \in DOMAIN ch :
                  /\ c \in Nat /\ Len(ch[c]) \in Nat /\ ChunkEnd(ch, c) \in Nat
                  /\ c < ChunkEnd(ch, c) /\ ChunkEnd(ch, c) =< N
                  /\ ChunkEnd(ch, c) = c + Len(ch[c])
                  /\ \A d \in DOMAIN ch : c < d => ChunkEnd(ch, c) =< d
<1>1. DOMAIN ch \subseteq 0..N /\ \A c \in DOMAIN ch : ch[c] \in Bytes
  BY ChunkMap
<1>2. ASSUME NEW c \in DOMAIN ch
      PROVE  Len(ch[c]) \in Nat \ {0}
  BY <1>1, EmptySeq DEF Chunked, Bytes
<1> QED BY <1>1, <1>2 DEF Chunked, ChunkEnd

\* The indices held are finitely many.
LEMMA HeldFinite ==
    ASSUME NEW ch, NEW cs, NEW N \in Nat
    PROVE  IsFiniteSet(HeldIn(ch, cs, N)) /\ Cardinality(HeldIn(ch, cs, N)) \in Nat
<1>1. IsFiniteSet(0..N)
  BY FS_Interval
<1>2. HeldIn(ch, cs, N) \in SUBSET (0..N)
  BY DEF HeldIn
<1>3. IsFiniteSet(HeldIn(ch, cs, N))
  BY <1>1, <1>2, FS_Subset
<1> QED BY <1>3, FS_CardinalityType

\* The lengths add up to the number of indices held.
LEMMA SumIs ==
    ASSUME NEW ch, NEW N \in Nat, ch \in ChunkMaps(N), Chunked(ch, N), NEW cs \in SUBSET DOMAIN ch
    PROVE  SumOfLengths(ch, cs) = Cardinality(HeldIn(ch, cs, N))
<1> DEFINE H == HeldIn(ch, cs, N)
           P == UNION {{c} \X (1..Len(ch[c])) : c \in cs}
           own == [i \in H |-> CHOOSE c \in cs : Holds(ch, c, i)]
           f == [i \in H |-> <<own[i], i - own[i] + 1>>]
<1>1. \A c \in DOMAIN ch :
          /\ c \in Nat /\ Len(ch[c]) \in Nat /\ ChunkEnd(ch, c) \in Nat
          /\ ChunkEnd(ch, c) =< N
          /\ ChunkEnd(ch, c) = c + Len(ch[c])
          /\ \A d \in DOMAIN ch : c < d => ChunkEnd(ch, c) =< d
  BY PieceEnds
<1>2. \A i \in H : i \in Nat /\ own[i] \in cs /\ Holds(ch, own[i], i)
  <2> TAKE i \in H
  <2>1. \E c \in cs : Holds(ch, c, i)
    BY DEF HeldIn
  <2> QED BY <2>1 DEF HeldIn
<1> HIDE DEF own
<1>3. \A c \in cs : \A k \in 1..Len(ch[c]) : <<c, k>> \in P
  OBVIOUS
<1>4. \A p \in P : \E c \in cs : \E k \in 1..Len(ch[c]) : p = <<c, k>>
  OBVIOUS
<1> HIDE DEF P
<1>5. f \in [H -> P]
  <2>1. ASSUME NEW i \in H
        PROVE  <<own[i], i - own[i] + 1>> \in P
    BY <1>1, <1>2, <1>3 DEF Holds
  <2> QED BY <2>1
<1>6. \A i, j \in H : f[i] = f[j] => i = j
  <2> SUFFICES ASSUME NEW i \in H, NEW j \in H, f[i] = f[j]
               PROVE  i = j
    OBVIOUS
  <2>1. own[i] = own[j] /\ i - own[i] + 1 = j - own[j] + 1
    OBVIOUS
  <2> QED BY <1>1, <1>2, <2>1
<1>7. \A p \in P : \E i \in H : f[i] = p
  <2> TAKE p \in P
  <2>1. PICK c \in cs : \E k \in 1..Len(ch[c]) : p = <<c, k>>
    BY <1>4
  <2> PICK k \in 1..Len(ch[c]) : p = <<c, k>>
    BY <2>1
  <2>2. c + k - 1 \in H /\ Holds(ch, c, c + k - 1)
    BY <1>1 DEF HeldIn, Holds
  <2>3. PICK i \in H : i = c + k - 1
    BY <2>2
  <2>4. own[i] = c /\ i - c + 1 = k
    <3>1. /\ own[i] \in cs /\ own[i] \in DOMAIN ch /\ c \in DOMAIN ch
          /\ Holds(ch, own[i], i) /\ Holds(ch, c, i) /\ i \in Nat /\ c \in Nat /\ k \in Nat
      BY <1>1, <1>2, <2>2, <2>3
    <3>2. own[i] = c
      BY <1>1, <3>1, SMTT(30) DEF Holds
    <3>3. i - c + 1 = k
      BY <2>3, <3>1
    <3> QED BY <3>2, <3>3
  <2>5. f[i] = <<own[i], i - own[i] + 1>>
    OBVIOUS
  <2> QED BY <2>4, <2>5
<1> HIDE DEF f
<1>8. f \in Bijection(H, P)
  BY <1>5, <1>6, <1>7 DEF Bijection, Injection, Surjection, IsInjective
<1>9. Cardinality(P) = Cardinality(H)
  BY <1>8, HeldFinite, FS_Bijection DEF ExistsBijection
<1> QED BY <1>9 DEF P, SumOfLengths

-----------------------------------------------------------------------------
(* The parts of push_substring.                                             *)

\* What a state in Good has; the other lemmas use it opened up like this.
LEMMA GoodParts ==
    ASSUME NEW x, NEW N \in Nat, Good(x, N)
    PROVE  /\ x.chunks \in ChunkMaps(N) /\ Chunked(x.chunks, N)
           /\ x.next \in Nat /\ x.next =< N
           /\ x.unassembled_bytes \in Nat
           /\ x.output.capacity \in Nat /\ Len(x.output.buffer) \in Nat
           /\ Len(x.output.buffer) = x.next - x.output.bytes_read
           /\ remaining_capacity(x.output) \in Nat
           /\ remaining_capacity(x.output) = x.output.capacity - Len(x.output.buffer)
           /\ first_unacceptable_idx(x) = x.next + remaining_capacity(x.output)
           /\ first_unacceptable_idx(x) \in Nat
<1>1. /\ x.chunks \in ChunkMaps(N) /\ x.next \in 0..N /\ x.unassembled_bytes \in Nat
      /\ x.output \in OutputSet
  BY DEF Good, ReassemblerSet
<1>2. x.output.buffer \in Bytes /\ x.output.capacity \in Nat /\ x.output.bytes_read \in Nat
  BY <1>1 DEF OutputSet
<1>3. x.output.bytes_read =< x.next /\ Len(x.output.buffer) =< x.output.capacity
      /\ x.output.buffer = Excerpt(x.output.bytes_read, x.next - x.output.bytes_read)
  BY DEF Good, Delivered
<1>4. x.next - x.output.bytes_read \in Nat
  BY <1>1, <1>2, <1>3
<1>5. Len(x.output.buffer) = x.next - x.output.bytes_read
  BY <1>2, <1>3, <1>4, ExcerptType
<1>6. Chunked(x.chunks, N)
  BY DEF Good
<1> QED
  BY <1>1, <1>2, <1>3, <1>4, <1>5, <1>6
  DEF remaining_capacity, first_unacceptable_idx

\* Every chunk ends where the new bytes begin, or before, or begins there or later.
LEMMA NewIdxSplits ==
    ASSUME NEW x, NEW N \in Nat, Good(x, N), NEW index \in Nat
    PROVE  LET new == NewIdx(x, index)
           IN  /\ new \in Nat /\ index =< new /\ x.next =< new
               /\ \A c \in DOMAIN x.chunks : ChunkEnd(x.chunks, c) =< new \/ new =< c
<1> DEFINE D == DOMAIN x.chunks
           up == {c \in D : c =< index}
           new == NewIdx(x, index)
<1>1. x.chunks \in ChunkMaps(N) /\ Chunked(x.chunks, N) /\ x.next \in Nat
  BY GoodParts
<1>2. /\ D \subseteq 0..N
      /\ \A c \in D : /\ c \in Nat /\ ChunkEnd(x.chunks, c) \in Nat
                      /\ c < ChunkEnd(x.chunks, c) /\ x.next =< c
                      /\ \A d \in D : c < d => ChunkEnd(x.chunks, c) =< d
  BY <1>1, PieceEnds DEF Good
<1>3. CASE up = {}
  <2>1. new = Greater(index, x.next)
    BY <1>3 DEF NewIdx
  <2> QED BY <1>1, <1>2, <1>3, <2>1 DEF Greater
<1>4. CASE up # {}
  <2> DEFINE m == Max(up)
  <2>1. new = Greater(index, ChunkEnd(x.chunks, m))
    BY <1>4 DEF NewIdx
  <2>2. m \in up /\ \A c \in up : c =< m
    BY <1>2, <1>4, MaxIs
  <2> HIDE DEF m, new
  <2>3. m \in D /\ m =< index /\ m \in Nat /\ ChunkEnd(x.chunks, m) \in Nat /\ x.next =< m
    BY <1>2, <2>2
  <2>4. new \in Nat /\ index =< new /\ ChunkEnd(x.chunks, m) =< new
        /\ (new = index \/ new = ChunkEnd(x.chunks, m))
    BY <2>1, <2>3 DEF Greater
  <2>5. ASSUME NEW c \in D
        PROVE  ChunkEnd(x.chunks, c) =< new \/ new =< c
    <3>1. CASE c =< index
      <4>1. c =< m
        BY <2>2, <3>1
      <4> QED BY <1>2, <2>3, <2>4, <4>1
    <3>2. CASE ~(c =< index)
      BY <1>2, <2>3, <2>4, <3>2
    <3> QED BY <3>1, <3>2
  <2> QED BY <1>1, <2>3, <2>4, <2>5 DEF new
<1> QED BY <1>3, <1>4

\* After the covered chunks are gone, none overlaps the range up to where it is
\* cut, and all they held lies in that range.
LEMMA CutClears ==
    ASSUME NEW x, NEW N \in Nat, Good(x, N), NEW new \in Nat, NEW end \in 0..N,
           \A c \in DOMAIN x.chunks : ChunkEnd(x.chunks, c) =< new \/ new =< c
    PROVE  LET to == CutEnd(x, new, end)
               cs == Covered(x, new, end)
           IN  /\ to \in Nat /\ to =< end
               /\ \A c \in DOMAIN x.chunks \ cs :
                      ChunkEnd(x.chunks, c) =< new \/ (new =< c /\ to =< c)
               /\ \A c \in cs : new =< c /\ ChunkEnd(x.chunks, c) =< to
<1> DEFINE D == DOMAIN x.chunks
           partial == {c \in D : new =< c /\ c < end /\ end < ChunkEnd(x.chunks, c)}
           to == CutEnd(x, new, end)
<1>1. \A c \in D : /\ c \in Nat /\ ChunkEnd(x.chunks, c) \in Nat
                   /\ c < ChunkEnd(x.chunks, c)
                   /\ \A d \in D : c < d => ChunkEnd(x.chunks, c) =< d
  BY GoodParts, PieceEnds
<1>2. CASE partial = {}
  <2>1. to = end
    BY <1>2 DEF CutEnd
  <2> QED BY <1>1, <1>2, <2>1 DEF Covered
<1>3. CASE partial # {}
  <2>1. to = Min(partial)
    BY <1>3 DEF CutEnd
  <2>2. PICK p \in partial : TRUE
    BY <1>3
  <2>3. \A c \in partial : c = p
    BY <1>1
  <2>4. partial = {p}
    BY <2>3
  <2> HIDE DEF partial
  <2>5. Min({p}) = p
    BY <1>1 DEF partial, Min
  <2>6. to = p
    BY <2>1, <2>4, <2>5
  <2> USE DEF partial
  <2> HIDE DEF to
  <2>7. /\ p \in D /\ p \in Nat /\ new =< p /\ p < end /\ end < ChunkEnd(x.chunks, p)
    BY <1>1
  <2>8. ASSUME NEW c \in D \ Covered(x, new, end)
        PROVE  ChunkEnd(x.chunks, c) =< new \/ (new =< c /\ p =< c)
    BY <1>1, <2>3, <2>7 DEF Covered
  <2>9. ASSUME NEW c \in Covered(x, new, end)
        PROVE  new =< c /\ ChunkEnd(x.chunks, c) =< p
    BY <1>1, <2>7 DEF Covered
  <2> QED BY <2>6, <2>7, <2>8, <2>9 DEF to
<1> QED BY <1>2, <1>3

\* What remains when some chunks are dropped.
LEMMA DropKeeps ==
    ASSUME NEW ch, NEW N \in Nat, ch \in ChunkMaps(N), Chunked(ch, N), NEW cs \in SUBSET DOMAIN ch
    PROVE  LET left == Drop(ch, cs)
           IN  /\ left \in ChunkMaps(N) /\ Chunked(left, N)
               /\ DOMAIN left = DOMAIN ch \ cs
               /\ \A c \in DOMAIN left : ChunkEnd(left, c) = ChunkEnd(ch, c)
               /\ Held(left, N) \subseteq Held(ch, N)
               /\ Held(ch, N) \ Held(left, N) \subseteq HeldIn(ch, cs, N)
               /\ Cardinality(Held(left, N)) + SumOfLengths(ch, cs) = Cardinality(Held(ch, N))
<1> DEFINE left == Drop(ch, cs)
<1>1. /\ ch = [c \in DOMAIN ch |-> ch[c]]
      /\ DOMAIN ch \subseteq 0..N
      /\ \A c \in DOMAIN ch : ch[c] \in Bytes
  BY ChunkMap
<1>2. /\ DOMAIN left = DOMAIN ch \ cs
      /\ \A c \in DOMAIN left : left[c] = ch[c]
      /\ left = [c \in DOMAIN left |-> left[c]]
  BY DEF Drop, Restrict
<1> HIDE DEF left
<1>3. left \in ChunkMaps(N)
  <2>1. DOMAIN left \subseteq 0..N /\ \A c \in DOMAIN left : left[c] \in Bytes
    BY <1>1, <1>2
  <2> QED BY <1>2, <2>1, ChunkMap
<1>4. \A c \in DOMAIN left : ChunkEnd(left, c) = ChunkEnd(ch, c)
  BY <1>2 DEF ChunkEnd
<1>5. Chunked(left, N)
  BY <1>2, <1>4 DEF Chunked
<1>6. /\ Held(ch, N) = Held(left, N) \cup HeldIn(ch, cs, N)
      /\ Held(left, N) \cap HeldIn(ch, cs, N) = {}
  <2>1. \A c \in DOMAIN left : \A i \in Nat : Holds(left, c, i) <=> Holds(ch, c, i)
    BY <1>4 DEF Holds
  <2>2. 0..N \subseteq Nat
    OBVIOUS
  <2>3. Held(ch, N) = Held(left, N) \cup HeldIn(ch, cs, N)
    BY <1>2, <2>1, <2>2 DEF Held, HeldIn
  <2>4. ASSUME NEW i \in Held(left, N), i \in HeldIn(ch, cs, N)
        PROVE  FALSE
    <3>1. i \in Nat
      BY <2>2 DEF Held, HeldIn
    <3>2. PICK c \in DOMAIN left : Holds(ch, c, i)
      BY <2>1, <3>1 DEF Held, HeldIn
    <3>3. PICK d \in cs : Holds(ch, d, i)
      BY <2>4 DEF HeldIn
    <3>4. c \in DOMAIN ch /\ d \in DOMAIN ch /\ c # d
      BY <1>2
    <3> QED BY <3>1, <3>2, <3>3, <3>4, PieceEnds DEF Holds
  <2> QED BY <2>3, <2>4
<1>7. Cardinality(Held(ch, N)) = Cardinality(Held(left, N)) + Cardinality(HeldIn(ch, cs, N))
  <2>1. IsFiniteSet(Held(left, N)) /\ IsFiniteSet(HeldIn(ch, cs, N))
    BY HeldFinite DEF Held
  <2>2. Cardinality(Held(left, N) \cap HeldIn(ch, cs, N)) = 0
    BY <1>6, FS_EmptySet
  <2>3. /\ Cardinality(Held(left, N) \cup HeldIn(ch, cs, N))
             = Cardinality(Held(left, N)) + Cardinality(HeldIn(ch, cs, N))
                 - Cardinality(Held(left, N) \cap HeldIn(ch, cs, N))
    BY <2>1, FS_Union
  <2>4. Cardinality(Held(left, N)) \in Nat /\ Cardinality(HeldIn(ch, cs, N)) \in Nat
    BY HeldFinite DEF Held
  <2> QED BY <1>6, <2>2, <2>3, <2>4
<1> QED BY <1>2, <1>3, <1>4, <1>5, <1>6, <1>7, SumIs DEF left

\* What is held after a piece is stored where nothing is.
LEMMA AddKeeps ==
    ASSUME NEW ch, NEW more, NEW N \in Nat, NEW start \in Nat, NEW n \in Nat \ {0},
           ch \in ChunkMaps(N), Chunked(ch, N), start + n =< N,
           \A c \in DOMAIN ch : ChunkEnd(ch, c) =< start \/ start + n =< c,
           DOMAIN more = DOMAIN ch \cup {start}, more = [c \in DOMAIN more |-> more[c]],
           more[start] = Excerpt(start, n), \A c \in DOMAIN ch : more[c] = ch[c]
    PROVE  /\ start \notin DOMAIN ch
           /\ more \in ChunkMaps(N) /\ Chunked(more, N)
           /\ Held(more, N) = Held(ch, N) \cup start..(start + n - 1)
           /\ Cardinality(Held(more, N)) =< Cardinality(Held(ch, N)) + n
<1>1. DOMAIN ch \subseteq 0..N /\ \A c \in DOMAIN ch : ch[c] \in Bytes
  BY ChunkMap
<1>2. \A c \in DOMAIN ch : /\ c \in Nat /\ ChunkEnd(ch, c) \in Nat
                           /\ c < ChunkEnd(ch, c) /\ ChunkEnd(ch, c) =< N
                           /\ \A d \in DOMAIN ch : c < d => ChunkEnd(ch, c) =< d
  BY PieceEnds
<1>3. start \notin DOMAIN ch
  BY <1>2
<1>4. DOMAIN more = DOMAIN ch \cup {start}
  OBVIOUS
<1>5. Excerpt(start, n) \in Bytes /\ Len(Excerpt(start, n)) = n
  BY ExcerptType
<1>6. more \in ChunkMaps(N)
  <2>1. /\ DOMAIN more \subseteq 0..N
        /\ \A c \in DOMAIN more : more[c] \in Bytes
    BY <1>1, <1>4, <1>5
  <2> QED BY <1>4, <2>1, ChunkMap
<1>7. /\ ChunkEnd(more, start) = start + n
      /\ \A c \in DOMAIN ch : ChunkEnd(more, c) = ChunkEnd(ch, c)
  BY <1>4, <1>5 DEF ChunkEnd
<1>8. Chunked(more, N)
  <2>1. Excerpt(start, n) # << >>
    BY <1>5, EmptySeq DEF Bytes
  <2>2. \A c \in DOMAIN more : /\ more[c] = Excerpt(c, Len(more[c])) /\ more[c] # << >>
    BY <1>4, <1>5, <2>1 DEF Chunked
  <2>3. \A c \in DOMAIN more :
            /\ ChunkEnd(more, c) =< N
            /\ \A d \in DOMAIN more : c < d => ChunkEnd(more, c) =< d
    BY <1>2, <1>4, <1>7
  <2> QED BY <2>2, <2>3 DEF Chunked
<1>9. Held(more, N) = Held(ch, N) \cup start..(start + n - 1)
  <2>1. \A i \in 0..N : Holds(more, start, i) <=> i \in start..(start + n - 1)
    BY <1>7 DEF Holds
  <2>2. \A c \in DOMAIN ch : \A i \in 0..N : Holds(more, c, i) <=> Holds(ch, c, i)
    BY <1>7 DEF Holds
  <2>3. start..(start + n - 1) \subseteq 0..N
    OBVIOUS
  <2> DEFINE I == start..(start + n - 1)
  <2>4. \A i \in 0..N : (\E c \in DOMAIN more : Holds(more, c, i))
                            <=> (\E c \in DOMAIN ch : Holds(ch, c, i)) \/ i \in I
    BY <1>4, <2>1, <2>2
  <2>5. I \subseteq 0..N
    BY <2>3
  <2> HIDE DEF I
  <2>6. ASSUME NEW A, NEW B, \A i \in 0..N : i \in A <=> i \in B \/ i \in I,
               A \subseteq 0..N, B \subseteq 0..N
        PROVE  A = B \cup I
    BY <2>5, <2>6, ZenonT(30)
  <2>7. Held(more, N) \subseteq 0..N /\ Held(ch, N) \subseteq 0..N
    BY DEF Held, HeldIn
  <2>8. \A i \in 0..N : i \in Held(more, N) <=> i \in Held(ch, N) \/ i \in I
    BY <2>4 DEF Held, HeldIn
  <2>9. Held(more, N) = Held(ch, N) \cup I
    <3> DEFINE A == Held(more, N)
               B == Held(ch, N)
    <3>1. A \subseteq 0..N /\ B \subseteq 0..N /\ \A i \in 0..N : i \in A <=> i \in B \/ i \in I
      BY <2>7, <2>8
    <3> HIDE DEF A, B
    <3>2. A = B \cup I
      BY <2>6, <3>1
    <3> QED BY <3>2 DEF A, B
  <2> QED BY <2>9 DEF I
<1>10. Cardinality(Held(more, N)) =< Cardinality(Held(ch, N)) + n
  <2> DEFINE I == start..(start + n - 1)
  <2>1. IsFiniteSet(I) /\ Cardinality(I) = n
    <3>1. \A a, b \in Int : /\ IsFiniteSet(a..b)
                              /\ Cardinality(a..b) = IF a > b THEN 0 ELSE b - a + 1
      BY FS_Interval
    <3>2. start \in Int /\ start + n - 1 \in Int /\ ~(start > start + n - 1)
          /\ (start + n - 1) - start + 1 = n
      OBVIOUS
    <3> QED BY <3>1, <3>2
  <2>2. IsFiniteSet(Held(ch, N)) /\ Cardinality(Held(ch, N)) \in Nat
    BY HeldFinite DEF Held
  <2> HIDE DEF I
  <2>3. Cardinality(Held(ch, N) \cup I) = Cardinality(Held(ch, N)) + Cardinality(I)
                                         - Cardinality(Held(ch, N) \cap I)
    BY <2>1, <2>2, FS_Union
  <2>4. IsFiniteSet(Held(ch, N) \cap I)
    BY <2>2, FS_Subset
  <2>5. Cardinality(Held(ch, N) \cap I) \in Nat
    BY <2>4, FS_CardinalityType
  <2> QED BY <1>9, <2>1, <2>2, <2>3, <2>5 DEF I
<1> QED BY <1>3, <1>4, <1>6, <1>8, <1>9, <1>10

\* Dropping chunks and the bytes they count keeps a good state good.
LEMMA DiscardKeeps ==
    ASSUME NEW x, NEW N \in Nat, Good(x, N), NEW cs \in SUBSET DOMAIN x.chunks
    PROVE  LET y == Discard(x, cs)
           IN  /\ Good(y, N)
               /\ y.output = x.output /\ y.next = x.next /\ y.eof_idx = x.eof_idx
               /\ y.chunks = Drop(x.chunks, cs)
<1> DEFINE y == Discard(x, cs)
           left == Drop(x.chunks, cs)
           n == x.unassembled_bytes - SumOfLengths(x.chunks, cs)
<1>1. /\ left \in ChunkMaps(N) /\ Chunked(left, N)
      /\ DOMAIN left = DOMAIN x.chunks \ cs
      /\ Cardinality(Held(left, N)) + SumOfLengths(x.chunks, cs) = Cardinality(Held(x.chunks, N))
  BY ZenonT(40), GoodParts, DropKeeps
<1>2. n \in Nat /\ Cardinality(Held(left, N)) =< n
  <2>1. SumOfLengths(x.chunks, cs) \in Nat /\ Cardinality(Held(left, N)) \in Nat
    BY GoodParts, SumIs, HeldFinite DEF Held
  <2>2. Cardinality(Held(x.chunks, N)) =< x.unassembled_bytes /\ x.unassembled_bytes \in Nat
    BY GoodParts DEF Good
  <2> QED BY <1>1, <2>1, <2>2
<1> HIDE DEF left, n
<1>3. y = [x EXCEPT !.chunks = left, !.unassembled_bytes = n]
  BY DEF Discard, left, n
<1>4. x \in ReassemblerSet(N)
  BY DEF Good
<1>5. /\ y \in ReassemblerSet(N)
      /\ y.chunks = left /\ y.unassembled_bytes = n
      /\ y.output = x.output /\ y.next = x.next /\ y.eof_idx = x.eof_idx
  BY <1>1, <1>2, <1>3, <1>4 DEF ReassemblerSet
<1> HIDE DEF y
<1>6. Good(y, N)
  BY <1>1, <1>2, <1>5 DEF Good, first_unacceptable_idx
<1> QED BY <1>5, <1>6 DEF y, left

\* Storing an excerpt where nothing is stored, inside the window.
LEMMA StoreKeeps ==
    ASSUME NEW x, NEW N \in Nat, Good(x, N), NEW start \in Nat, NEW n \in Nat \ {0},
           start + n =< N,
           \A c \in DOMAIN x.chunks : ChunkEnd(x.chunks, c) =< start \/ start + n =< c,
           x.next =< start, start < first_unacceptable_idx(x) \/ start = x.next
    PROVE  LET y == Store(x, start, Excerpt(start, n))
           IN  /\ Good(y, N)
               /\ y.output = x.output /\ y.next = x.next /\ y.eof_idx = x.eof_idx
               /\ Held(y.chunks, N) = Held(x.chunks, N) \cup start..(start + n - 1)
<1> DEFINE y == Store(x, start, Excerpt(start, n))
           more == [c \in DOMAIN x.chunks \cup {start} |->
                        IF c = start THEN Excerpt(start, n) ELSE x.chunks[c]]
<1>1. /\ start \notin DOMAIN x.chunks
      /\ more \in ChunkMaps(N) /\ Chunked(more, N)
      /\ DOMAIN more = DOMAIN x.chunks \cup {start}
      /\ Held(more, N) = Held(x.chunks, N) \cup start..(start + n - 1)
      /\ Cardinality(Held(more, N)) =< Cardinality(Held(x.chunks, N)) + n
  <2>1. x.chunks \in ChunkMaps(N) /\ Chunked(x.chunks, N)
    BY GoodParts
  <2>2. start \notin DOMAIN x.chunks
    BY <2>1, PieceEnds
  <2>3. /\ DOMAIN more = DOMAIN x.chunks \cup {start} /\ more = [c \in DOMAIN more |-> more[c]]
        /\ more[start] = Excerpt(start, n) /\ \A c \in DOMAIN x.chunks : more[c] = x.chunks[c]
    BY <2>2
  <2> HIDE DEF more
  <2> QED BY <2>1, <2>3, AddKeeps
<1>2. Len(Excerpt(start, n)) = n
  BY ExcerptType
<1>3. Cardinality(Held(more, N)) =< x.unassembled_bytes + n /\ x.unassembled_bytes + n \in Nat
  <2>1. Cardinality(Held(x.chunks, N)) \in Nat /\ Cardinality(Held(more, N)) \in Nat
    BY HeldFinite DEF Held
  <2>2. Cardinality(Held(x.chunks, N)) =< x.unassembled_bytes /\ x.unassembled_bytes \in Nat
    BY GoodParts DEF Good
  <2> QED BY <1>1, <2>1, <2>2
<1>4. y = [x EXCEPT !.chunks = more, !.unassembled_bytes = x.unassembled_bytes + n]
  BY <1>1, <1>2 DEF Store
<1> HIDE DEF more
<1>5. x \in ReassemblerSet(N)
  BY DEF Good
<1>6. /\ y \in ReassemblerSet(N)
      /\ y.chunks = more /\ y.unassembled_bytes = x.unassembled_bytes + n
      /\ y.output = x.output /\ y.next = x.next /\ y.eof_idx = x.eof_idx
  BY <1>1, <1>3, <1>4, <1>5 DEF ReassemblerSet
<1> HIDE DEF y
<1>7. Good(y, N)
  BY <1>1, <1>3, <1>6 DEF Good, first_unacceptable_idx
<1> QED BY <1>1, <1>6, <1>7 DEF y

\* Writing what follows in the stream: the output takes what fits and still holds
\* the stream; what it takes, it loses in room.
LEMMA WriteKeeps ==
    ASSUME NEW o \in OutputSet, NEW n \in Nat, Delivered(o, n), NEW m \in Nat
    PROVE  LET k == Accepted(o, m)
               u == write(o, Excerpt(n, m))
           IN  /\ k \in 0..m
               /\ k = IF o.input_ended THEN 0 ELSE Lesser(m, remaining_capacity(o))
               /\ remaining_capacity(o) \in Nat
               /\ u \in OutputSet /\ Delivered(u, n + k)
               /\ u.input_ended = o.input_ended /\ Unread(o, u)
               /\ remaining_capacity(u) = remaining_capacity(o) - k
<1> DEFINE k == Accepted(o, m)
           e == Excerpt(n, m)
           u == write(o, e)
           b == o.bytes_read
           C == o.capacity
<1>1. /\ o.buffer \in Bytes /\ C \in Nat /\ o.input_ended \in BOOLEAN
      /\ o.error = FALSE /\ o.bytes_written = n /\ b \in Nat /\ b =< n
      /\ o.buffer = Excerpt(b, n - b) /\ Len(o.buffer) =< C
  <2>1. /\ o.buffer \in Bytes /\ o.capacity \in Nat /\ o.input_ended \in BOOLEAN
        /\ o.error = FALSE /\ b \in Nat
    BY DEF OutputSet
  <2> QED BY <2>1 DEF Delivered
<1>2. n - b \in Nat /\ Len(o.buffer) = n - b
  <2>1. n - b \in Nat
    BY <1>1
  <2>2. Len(Excerpt(b, n - b)) = n - b
    BY <1>1, <2>1, ExcerptType
  <2> QED BY <1>1, <2>1, <2>2
<1>3. remaining_capacity(o) \in Nat /\ remaining_capacity(o) = C - (n - b)
  BY <1>1, <1>2 DEF remaining_capacity, C
<1>4. /\ k \in 0..m /\ k =< remaining_capacity(o)
      /\ k = IF o.input_ended THEN 0 ELSE Lesser(m, remaining_capacity(o))
  BY <1>1, <1>3 DEF Accepted, Lesser
<1>5. Len(e) = m
  BY ExcerptType
<1> HIDE DEF k, b, C
<1>6. SubSeq(e, 1, k) = Excerpt(n, k)
  <2>1. SubSeq(e, 1, k) = Excerpt(n + 1 - 1, k - 1 + 1)
    <3>1. 1 \in 1..(m + 1) /\ k \in (1 - 1)..m
      BY <1>4
    <3> HIDE DEF e
    <3> QED BY <3>1, ExcerptPart DEF e
  <2> QED BY <1>4, <2>1
<1>7. u = [o EXCEPT !.buffer = o.buffer \o Excerpt(n, k), !.bytes_written = n + k]
  BY <1>1, <1>5, <1>6 DEF write, k
<1>8. o.buffer \o Excerpt(n, k) = Excerpt(b, n + k - b)
  <2>1. Excerpt(b, n - b) \o Excerpt(b + (n - b), k) = Excerpt(b, (n - b) + k)
    <3>1. k \in Nat /\ n - b \in Nat /\ b \in Nat
      BY <1>1, <1>2, <1>4
    <3> QED BY <3>1, ExcerptJoin
  <2>2. b + (n - b) = n /\ (n - b) + k = n + k - b
    BY <1>1, <1>4
  <2> QED BY <1>1, <2>1, <2>2
<1>9. /\ n + k - b \in Nat
      /\ Excerpt(b, n + k - b) \in Bytes /\ Len(Excerpt(b, n + k - b)) = n + k - b
  <2>1. n + k - b \in Nat
    BY <1>1, <1>4
  <2> QED BY <1>1, <2>1, ExcerptType
<1> HIDE DEF e, u
<1>10. u = [o EXCEPT !.buffer = Excerpt(b, n + k - b), !.bytes_written = n + k]
  BY <1>7, <1>8
<1>11. /\ u \in OutputSet
       /\ u.buffer = Excerpt(b, n + k - b) /\ u.bytes_written = n + k
       /\ u.bytes_read = b /\ u.input_ended = o.input_ended /\ u.capacity = o.capacity
  <2>1. n + k \in Nat
    BY <1>4
  <2>2. o.bytes_read = b
    BY DEF b
  <2> QED BY <1>1, <1>9, <1>10, <2>1, <2>2 DEF OutputSet
<1>12. Delivered(u, n + k)
  BY <1>1, <1>3, <1>4, <1>9, <1>11, SMTT(30) DEF Delivered, C
<1>13. remaining_capacity(u) = remaining_capacity(o) - k
  <2>1. k \in Nat
    BY <1>4
  <2>2. remaining_capacity(u) = C - (n + k - b)
    BY <1>9, <1>11 DEF remaining_capacity, C
  <2> QED BY <1>1, <1>3, <2>1, <2>2
<1> QED BY <1>3, <1>4, <1>11, <1>12, <1>13 DEF k, e, u, b, Unread

\* Writing an excerpt that begins at the next index and reaches no stored chunk.
LEMMA AdvanceKeeps ==
    ASSUME NEW x, NEW N \in Nat, Good(x, N), NEW m \in Nat, x.next + m =< N,
           \A c \in DOMAIN x.chunks : x.next + m =< c
    PROVE  LET k == Accepted(x.output, m)
               y == [x EXCEPT !.output = write(@, Excerpt(x.next, m)), !.next = @ + k]
           IN  /\ k \in 0..m /\ Good(y, N)
               /\ k = IF x.output.input_ended THEN 0
                      ELSE Lesser(m, remaining_capacity(x.output))
               /\ y.next = x.next + k
               /\ y.chunks = x.chunks /\ y.eof_idx = x.eof_idx
               /\ y.output.input_ended = x.output.input_ended /\ Unread(x.output, y.output)
               /\ first_unacceptable_idx(y) = first_unacceptable_idx(x)
<1> DEFINE k == Accepted(x.output, m)
           u == write(x.output, Excerpt(x.next, m))
           y == [x EXCEPT !.output = write(@, Excerpt(x.next, m)), !.next = @ + k]
<1>1. /\ x \in ReassemblerSet(N) /\ x.output \in OutputSet /\ Delivered(x.output, x.next)
      /\ x.next \in Nat /\ x.next =< N
  BY GoodParts DEF Good, ReassemblerSet
<1>2. /\ k \in 0..m
      /\ k = IF x.output.input_ended THEN 0 ELSE Lesser(m, remaining_capacity(x.output))
      /\ remaining_capacity(x.output) \in Nat
      /\ u \in OutputSet /\ Delivered(u, x.next + k)
      /\ u.input_ended = x.output.input_ended /\ Unread(x.output, u)
      /\ remaining_capacity(u) = remaining_capacity(x.output) - k
  BY <1>1, WriteKeeps
<1>3. y = [x EXCEPT !.output = u, !.next = x.next + k]
  OBVIOUS
<1> HIDE DEF k, u
<1>4. k \in Nat /\ k =< m /\ x.next + k \in 0..N
  BY <1>1, <1>2
<1>5. /\ y \in ReassemblerSet(N)
      /\ y.output = u /\ y.next = x.next + k
      /\ y.chunks = x.chunks /\ y.eof_idx = x.eof_idx
      /\ y.unassembled_bytes = x.unassembled_bytes
  BY <1>1, <1>2, <1>3, <1>4 DEF ReassemblerSet
<1> HIDE DEF y
<1>6. first_unacceptable_idx(y) = first_unacceptable_idx(x)
  BY <1>1, <1>2, <1>4, <1>5 DEF first_unacceptable_idx
<1>7. /\ Chunked(x.chunks, N)
      /\ \A c \in DOMAIN x.chunks : c < first_unacceptable_idx(x) \/ c = x.next
      /\ x.output.input_ended => x.next = N /\ x.eof_idx # NoEof
      /\ Cardinality(Held(x.chunks, N)) =< x.unassembled_bytes
  BY DEF Good
<1>8. \A c \in DOMAIN x.chunks : c \in Nat
  BY <1>7, GoodParts, PieceEnds
<1>9. /\ \A c \in DOMAIN y.chunks : y.next =< c
      /\ \A c \in DOMAIN y.chunks : c < first_unacceptable_idx(y) \/ c = y.next
  BY <1>1, <1>4, <1>5, <1>6, <1>7, <1>8
<1>10. y.output.input_ended => y.next = N /\ y.eof_idx # NoEof
  BY <1>1, <1>2, <1>4, <1>5, <1>7
<1>11. Good(y, N)
  BY <1>2, <1>5, <1>7, <1>9, <1>10 DEF Good
<1> QED BY <1>2, <1>5, <1>6, <1>11 DEF k, y, u

\* Inserting the new bytes: they and all that was stored are stored or written now.
LEMMA InsertKeeps ==
    ASSUME NEW x, NEW N \in Nat, Good(x, N), NEW new \in Nat, NEW to \in 0..N,
           x.next =< new, new < first_unacceptable_idx(x),
           \A c \in DOMAIN x.chunks :
               ChunkEnd(x.chunks, c) =< new \/ (new =< c /\ to =< c)
    PROVE  LET y == Insert(x, new, IF new < to THEN Excerpt(new, to - new) ELSE << >>)
           IN  /\ Good(y, N)
               /\ y.eof_idx = x.eof_idx /\ x.next =< y.next
               /\ y.output.input_ended = x.output.input_ended /\ Unread(x.output, y.output)
               /\ first_unacceptable_idx(y) = first_unacceptable_idx(x)
               /\ Held(x.chunks, N) \cup new..(to - 1)
                      \subseteq Held(y.chunks, N) \cup 0..(y.next - 1)
               /\ Held(y.chunks, N) \subseteq Held(x.chunks, N) \cup new..(to - 1)
<1> DEFINE data == IF new < to THEN Excerpt(new, to - new) ELSE << >>
           y == Insert(x, new, data)
<1>1. x.next \in Nat /\ x.next =< N
  BY GoodParts
<1>2. CASE ~(new < to)
  <2>1. y = x /\ new..(to - 1) = {}
    BY <1>2 DEF Insert
  <2> QED BY <1>1, <2>1 DEF Unread
<1>3. CASE new < to
  <2> DEFINE m == to - new
  <2>1. m \in Nat \ {0} /\ new + m = to /\ data = Excerpt(new, m) /\ to =< N
    BY <1>3
  <2>2. data # << >> /\ Len(data) = m
    BY <2>1, ExcerptType, EmptySeq DEF Bytes
  <2>3. \A c \in DOMAIN x.chunks : /\ c \in Nat /\ ChunkEnd(x.chunks, c) \in Nat
                                   /\ c < ChunkEnd(x.chunks, c)
    BY GoodParts, PieceEnds
  <2> HIDE DEF m, data
  <2>4. CASE new # x.next
    <3>1. y = Store(x, new, Excerpt(new, m))
      BY <2>1, <2>2, <2>4 DEF Insert
    <3>2. \A c \in DOMAIN x.chunks : ChunkEnd(x.chunks, c) =< new \/ new + m =< c
      BY <2>1
    <3> HIDE DEF y
    <3>3. /\ Good(y, N)
          /\ y.output = x.output /\ y.next = x.next /\ y.eof_idx = x.eof_idx
          /\ Held(y.chunks, N) = Held(x.chunks, N) \cup new..(new + m - 1)
      <4>1. ASSUME NEW f, Good(f, N), NEW j \in Nat, NEW k \in Nat \ {0}, j + k =< N,
                   \A c \in DOMAIN f.chunks : ChunkEnd(f.chunks, c) =< j \/ j + k =< c,
                   f.next =< j, j < first_unacceptable_idx(f) \/ j = f.next
            PROVE  LET w == Store(f, j, Excerpt(j, k))
                   IN  /\ Good(w, N)
                       /\ w.output = f.output /\ w.next = f.next /\ w.eof_idx = f.eof_idx
                       /\ Held(w.chunks, N) = Held(f.chunks, N) \cup j..(j + k - 1)
        BY <4>1, StoreKeeps, SMTT(30)
      <4> QED BY <2>1, <3>1, <3>2, <4>1
    <3> QED BY <1>1, <2>1, <3>3 DEF y, data, first_unacceptable_idx, Unread
  <2>5. CASE new = x.next
    <3> DEFINE k == Accepted(x.output, m)
               z == [x EXCEPT !.output = write(@, Excerpt(x.next, m)), !.next = @ + k]
    <3>1. \A c \in DOMAIN x.chunks : x.next + m =< c
      BY <1>1, <2>1, <2>3, <2>5 DEF Good
    <3>2. /\ k \in 0..m /\ Good(z, N) /\ z.next = x.next + k
          /\ z.chunks = x.chunks /\ z.eof_idx = x.eof_idx
          /\ z.output.input_ended = x.output.input_ended /\ Unread(x.output, z.output)
          /\ first_unacceptable_idx(z) = first_unacceptable_idx(x)
      <4>1. ASSUME NEW f, Good(f, N), NEW j \in Nat, f.next + j =< N,
                   \A c \in DOMAIN f.chunks : f.next + j =< c
            PROVE  LET q == Accepted(f.output, j)
                       w == [f EXCEPT !.output = write(@, Excerpt(f.next, j)), !.next = @ + q]
                   IN  /\ q \in 0..j /\ Good(w, N)
                       /\ w.next = f.next + q
                       /\ w.chunks = f.chunks /\ w.eof_idx = f.eof_idx
                       /\ w.output.input_ended = f.output.input_ended
                       /\ Unread(f.output, w.output)
                       /\ first_unacceptable_idx(w) = first_unacceptable_idx(f)
        BY ZenonT(40), <4>1, AdvanceKeeps
      <4> QED BY <2>1, <2>5, <3>1, <4>1
    <3>3. y = IF k < m THEN Store(z, x.next + k, SubSeq(data, k + 1, m)) ELSE z
      BY <2>1, <2>2, <2>5 DEF Insert, WriteDirect
    <3> HIDE DEF k, z, y
    <3>4. CASE k < m
      <4>1. /\ k + 1 \in 1..(m + 1) /\ m \in ((k + 1) - 1)..m
            /\ new + (k + 1) - 1 = x.next + k /\ m - (k + 1) + 1 = m - k
            /\ m - k \in Nat \ {0} /\ x.next + k \in Nat /\ k \in Nat
            /\ (x.next + k) + (m - k) = to
        BY <1>1, <2>1, <2>5, <3>2, <3>4
      <4>2. SubSeq(Excerpt(new, m), k + 1, m) = Excerpt(new + (k + 1) - 1, m - (k + 1) + 1)
        BY ZenonT(40), <2>1, <4>1, ExcerptPart
      <4>3. y = Store(z, z.next, Excerpt(z.next, m - k))
        BY <2>1, <3>2, <3>3, <3>4, <4>1, <4>2
      <4>4. \A c \in DOMAIN z.chunks : z.next + (m - k) =< c
        BY <2>1, <2>5, <3>1, <3>2, <4>1
      <4>5. /\ Good(y, N)
            /\ y.output = z.output /\ y.next = z.next /\ y.eof_idx = z.eof_idx
            /\ Held(y.chunks, N) = Held(z.chunks, N) \cup z.next..(z.next + (m - k) - 1)
        <5> DEFINE n == m - k
                   start == z.next
        <5>1. /\ start \in Nat /\ n \in Nat \ {0} /\ start + n =< N
              /\ start =< start
          BY <2>1, <3>2, <4>1
        <5>2. y = Store(z, start, Excerpt(start, n))
          BY <4>3
        <5>3. \A c \in DOMAIN z.chunks : ChunkEnd(z.chunks, c) =< start \/ start + n =< c
          BY <4>4
        <5> HIDE DEF n
        <5>4. LET w == Store(z, start, Excerpt(start, n))
              IN  /\ Good(w, N)
                  /\ w.output = z.output /\ w.next = z.next /\ w.eof_idx = z.eof_idx
                  /\ Held(w.chunks, N) = Held(z.chunks, N) \cup start..(start + n - 1)
          <6>1. ASSUME NEW f, Good(f, N), NEW i \in Nat, NEW j \in Nat \ {0}, i + j =< N,
                       \A d \in DOMAIN f.chunks : ChunkEnd(f.chunks, d) =< i \/ i + j =< d,
                       f.next =< i, i < first_unacceptable_idx(f) \/ i = f.next
                PROVE  LET w == Store(f, i, Excerpt(i, j))
                       IN  /\ Good(w, N)
                           /\ w.output = f.output /\ w.next = f.next /\ w.eof_idx = f.eof_idx
                           /\ Held(w.chunks, N) = Held(f.chunks, N) \cup i..(i + j - 1)
            BY <6>1, StoreKeeps, SMTT(30)
          <6> QED BY ZenonT(40), <3>2, <5>1, <5>3, <6>1
        <5> QED BY <5>2, <5>4 DEF n
      <4>6. new..(to - 1) \subseteq Held(y.chunks, N) \cup 0..(y.next - 1)
        BY <1>1, <2>1, <2>5, <3>2, <4>1, <4>5
      <4>7. first_unacceptable_idx(y) = first_unacceptable_idx(x)
        BY <3>2, <4>5 DEF first_unacceptable_idx
      <4>8. Held(y.chunks, N) \subseteq Held(x.chunks, N) \cup new..(to - 1)
        BY <1>1, <2>1, <2>5, <3>2, <4>1, <4>5
      <4>9. /\ Held(x.chunks, N) \subseteq Held(y.chunks, N) /\ x.next =< y.next
            /\ y.eof_idx = x.eof_idx /\ y.output.input_ended = x.output.input_ended
            /\ Unread(x.output, y.output)
        BY <1>1, <3>2, <4>1, <4>5
      <4> QED BY <4>5, <4>6, <4>7, <4>8, <4>9 DEF y, data
    <3>5. CASE ~(k < m)
      <4>1. k = m /\ y = z
        BY <2>1, <3>2, <3>3, <3>5
      <4>2. new..(to - 1) \subseteq 0..(y.next - 1)
        BY <1>1, <2>1, <2>5, <3>2, <4>1
      <4> QED BY <1>1, <2>1, <3>2, <4>1, <4>2 DEF y, data
    <3> QED BY <3>4, <3>5
  <2> QED BY <2>4, <2>5
<1> QED BY <1>2, <1>3

\* The index the chain reaches.
ChainEnd(x) ==
    LET ends == {ChunkEnd(x.chunks, c) : c \in Chain(x)}
    IN  IF ends = {} THEN x.next ELSE Max(ends)

\* The chain holds every index up to its end and not the end itself, and is made of
\* the chunks that start before its end.
LEMMA ChainIs ==
    ASSUME NEW x, NEW N \in Nat, Good(x, N)
    PROVE  LET e == ChainEnd(x)
           IN  /\ e \in Nat /\ x.next =< e /\ e =< N
               /\ \A i \in x.next..(e - 1) : \E c \in DOMAIN x.chunks : Holds(x.chunks, c, i)
               /\ \A c \in DOMAIN x.chunks : ~Holds(x.chunks, c, e)
               /\ Chain(x) = {c \in DOMAIN x.chunks : c < e}
<1> DEFINE D == DOMAIN x.chunks
           E(c) == ChunkEnd(x.chunks, c)
           ends == {E(c) : c \in Chain(x)}
           e == ChainEnd(x)
           held(i) == \E c \in D : Holds(x.chunks, c, i)
<1>1. /\ x.next \in Nat /\ x.next =< N
      /\ \A c \in D : /\ c \in Nat /\ E(c) \in Nat /\ c < E(c) /\ E(c) =< N
                      /\ x.next =< c
  BY GoodParts, PieceEnds DEF Good
<1>2. \A c \in D : \A i \in Int : Holds(x.chunks, c, i) <=> c =< i /\ i < E(c)
  BY DEF Holds
<1>3. \A c \in D : c \in Chain(x) <=> \A i \in x.next..c : held(i)
  BY <1>1 DEF Chain
<1>4. Chain(x) \subseteq D
  BY DEF Chain
<1>5. /\ e \in Nat /\ x.next =< e /\ e =< N
      /\ \A c \in Chain(x) : E(c) =< e
      /\ Chain(x) # {} => \E c \in Chain(x) : e = E(c)
      /\ Chain(x) = {} => e = x.next
  <2>1. CASE Chain(x) = {}
    BY <1>1, <2>1 DEF ChainEnd
  <2>2. CASE Chain(x) # {}
    <3>1. ends # {} /\ ends \subseteq 0..N
      BY <1>1, <1>4, <2>2
    <3>2. e = Max(ends)
      BY <2>2 DEF ChainEnd
    <3> HIDE DEF ends
    <3>3. Max(ends) \in ends /\ \A a \in ends : a =< Max(ends)
      BY <3>1, MaxIs
    <3>4. \A c \in Chain(x) : E(c) \in ends
      BY DEF ends
    <3>5. PICK c \in Chain(x) : Max(ends) = E(c)
      BY <3>3 DEF ends
    <3> HIDE DEF e, E
    <3>6. \A d \in Chain(x) : E(d) =< e
      BY <3>2, <3>3, <3>4
    <3>7. e \in Nat /\ x.next =< e /\ e =< N
      <4>1. /\ c \in D /\ c \in Nat /\ E(c) \in Nat /\ c < E(c) /\ E(c) =< N
            /\ x.next =< c
        BY <1>1, <1>4
      <4> QED BY <1>1, <3>2, <3>5, <4>1
    <3> QED BY <2>2, <3>2, <3>5, <3>6, <3>7
  <2> QED BY <2>1, <2>2
<1> HIDE DEF e
<1>6. ASSUME NEW i \in x.next..(e - 1)
      PROVE  held(i)
  <2>1. Chain(x) # {}
    BY <1>1, <1>5
  <2>2. PICK c \in Chain(x) : e = E(c)
    BY <1>5, <2>1
  <2>3. c \in D
    BY <1>4
  <2>4. CASE i =< c
    BY <1>1, <1>3, <2>3, <2>4
  <2>5. CASE ~(i =< c)
    BY <1>1, <1>2, <1>5, <2>2, <2>3, <2>5
  <2> QED BY <2>4, <2>5
<1>7. ASSUME NEW c \in D, Holds(x.chunks, c, e)
      PROVE  FALSE
  <2>1. c =< e /\ e < E(c)
    BY <1>2, <1>5, <1>7
  <2>2. ASSUME NEW i \in x.next..c
        PROVE  held(i)
    BY <1>1, <1>5, <1>6, <1>7, <2>1
  <2>3. c \in Chain(x)
    BY <1>3, <2>2
  <2> QED BY <1>1, <1>5, <2>1, <2>3
<1>8. ASSUME NEW c \in D
      PROVE  c \in Chain(x) <=> c < e
  <2>1. ASSUME c \in Chain(x)
        PROVE  c < e
    BY <1>1, <1>5, <2>1
  <2>2. ASSUME c < e
        PROVE  c \in Chain(x)
    BY <1>1, <1>3, <1>5, <1>6, <2>2
  <2> QED BY <2>1, <2>2
<1>9. Chain(x) = {c \in D : c < e}
  BY <1>4, <1>8
<1> QED BY <1>5, <1>6, <1>7, <1>9 DEF e

\* The byte held at an index is the number of the index.
LEMMA ByteIs ==
    ASSUME NEW ch, NEW N \in Nat, ch \in ChunkMaps(N), Chunked(ch, N), NEW i \in Nat,
           \E c \in DOMAIN ch : Holds(ch, c, i)
    PROVE  ByteAt(ch, i) = i
<1> DEFINE c == CHOOSE c \in DOMAIN ch : Holds(ch, c, i)
<1>1. c \in DOMAIN ch /\ Holds(ch, c, i)
  OBVIOUS
<1>2. ByteAt(ch, i) = ch[c][i - c + 1]
  BY DEF ByteAt
<1> HIDE DEF c
<1>3. /\ c \in Nat /\ Len(ch[c]) \in Nat /\ c =< i /\ i - c + 1 \in 1..Len(ch[c])
  BY <1>1, PieceEnds DEF Holds
<1>4. ch[c] = Excerpt(c, Len(ch[c]))
  BY <1>1 DEF Chunked
<1>5. Excerpt(c, Len(ch[c]))[i - c + 1] = c + (i - c + 1) - 1
  BY <1>3, ExcerptType
<1> QED BY <1>2, <1>3, <1>4, <1>5

\* The chunks after everything before to is written: what begins after to, and the
\* rest of the chunk to lies inside of.
After(chunks, to) ==
    LET kept == {c \in DOMAIN chunks : to < c}
        cut  == {c \in DOMAIN chunks : c < to /\ to < ChunkEnd(chunks, c)}
        rest == [c \in {to : d \in cut} |->
                    LET d == Max(cut)
                    IN  SubSeq(chunks[d], to - d + 1, Len(chunks[d]))]
    IN  [c \in kept \cup DOMAIN rest |-> IF c \in kept THEN chunks[c] ELSE rest[c]]

\* Nothing is held before to any more; from to on everything still is, unless a
\* chunk starts right there.
LEMMA AfterKeeps ==
    ASSUME NEW ch, NEW N \in Nat, ch \in ChunkMaps(N), Chunked(ch, N), NEW to \in Nat, to =< N
    PROVE  LET more == After(ch, to)
           IN  /\ more \in ChunkMaps(N) /\ Chunked(more, N)
               /\ \A c \in DOMAIN more : c = to \/ (to < c /\ c \in DOMAIN ch)
               /\ Held(more, N) \subseteq Held(ch, N) \ 0..(to - 1)
               /\ to \notin DOMAIN ch => Held(ch, N) \subseteq Held(more, N) \cup 0..(to - 1)
<1> DEFINE D == DOMAIN ch
           kept == {c \in D : to < c}
           cut == {c \in D : c < to /\ to < ChunkEnd(ch, c)}
           rest == [c \in {to : d \in cut} |->
                       LET d == Max(cut) IN SubSeq(ch[d], to - d + 1, Len(ch[d]))]
           left == Drop(ch, D \ kept)
           more == After(ch, to)
<1>1. \A c \in D : /\ c \in Nat /\ Len(ch[c]) \in Nat /\ ChunkEnd(ch, c) \in Nat
                   /\ c < ChunkEnd(ch, c) /\ ChunkEnd(ch, c) =< N
                   /\ ChunkEnd(ch, c) = c + Len(ch[c])
                   /\ \A d \in D : c < d => ChunkEnd(ch, c) =< d
  BY PieceEnds
<1>2. /\ left \in ChunkMaps(N) /\ Chunked(left, N)
      /\ DOMAIN left = kept
      /\ \A c \in kept : ChunkEnd(left, c) = ChunkEnd(ch, c)
      /\ Held(left, N) \subseteq Held(ch, N)
      /\ Held(ch, N) \ Held(left, N) \subseteq HeldIn(ch, D \ kept, N)
  <2>1. D \ kept \in SUBSET D /\ D \ (D \ kept) = kept
    OBVIOUS
  <2> HIDE DEF kept
  <2> QED BY <2>1, DropKeeps
<1>3. \A i \in Held(left, N) : to =< i
  BY <1>1, <1>2 DEF Held, HeldIn, Holds
<1>4. 0..N \subseteq Nat
  OBVIOUS
<1>5. CASE cut = {}
  <2>1. DOMAIN rest = {}
    BY <1>5
  <2>2. more = [c \in kept |-> ch[c]]
    BY <2>1 DEF After
  <2>3. left = [c \in kept |-> ch[c]]
    BY DEF Drop, Restrict
  <2>4. more = left
    BY <2>2, <2>3
  <2> HIDE DEF more, left, rest
  <2>5. ASSUME to \notin D, NEW i \in HeldIn(ch, D \ kept, N)
        PROVE  i \in 0..(to - 1)
    BY <1>1, <1>4, <1>5, <2>5 DEF HeldIn, Holds
  <2>6. Held(more, N) \subseteq Held(ch, N) \ 0..(to - 1)
    BY <1>2, <1>3, <1>4, <2>4 DEF Held, HeldIn
  <2>7. to \notin D => Held(ch, N) \subseteq Held(more, N) \cup 0..(to - 1)
    BY <1>2, <2>4, <2>5
  <2> QED BY <1>2, <2>4, <2>6, <2>7 DEF more
<1>6. CASE cut # {}
  <2>1. PICK d \in cut : TRUE
    BY <1>6
  <2>2. /\ d \in D /\ d \in Nat /\ d < to /\ to < ChunkEnd(ch, d)
        /\ cut = {d}
    BY <1>1, <2>1
  <2> DEFINE n == ChunkEnd(ch, d) - to
  <2>3. /\ n \in Nat \ {0} /\ to + n = ChunkEnd(ch, d) /\ to + n =< N
    BY <1>1, <2>2
  <2>4. Max(cut) = d
    <3>1. Max({d}) = d
      BY <2>2 DEF Max
    <3> HIDE DEF cut
    <3> QED BY <2>2, <3>1
  <2>5. SubSeq(ch[d], to - d + 1, Len(ch[d])) = Excerpt(to, n)
    <3>1. /\ to - d + 1 \in 1..(Len(ch[d]) + 1)
          /\ Len(ch[d]) \in ((to - d + 1) - 1)..Len(ch[d])
          /\ d + (to - d + 1) - 1 = to
          /\ Len(ch[d]) - (to - d + 1) + 1 = n
          /\ Len(ch[d]) \in Nat
      BY <1>1, <2>2, SMTT(30)
    <3>2. ch[d] = Excerpt(d, Len(ch[d]))
      BY <2>2 DEF Chunked
    <3> HIDE DEF n
    <3>3. SubSeq(Excerpt(d, Len(ch[d])), to - d + 1, Len(ch[d]))
            = Excerpt(d + (to - d + 1) - 1, Len(ch[d]) - (to - d + 1) + 1)
      BY <2>2, <3>1, ExcerptPart
    <3> QED BY <3>1, <3>2, <3>3
  <2>6. DOMAIN rest = {to} /\ rest[to] = Excerpt(to, n)
    <3> HIDE DEF cut, n
    <3> QED BY <1>6, <2>4, <2>5
  <2>7. more = [c \in kept \cup {to} |-> IF c \in kept THEN ch[c] ELSE rest[c]]
    BY <2>6 DEF After
  <2>8. \A c \in kept : left[c] = ch[c] /\ c # to
    BY DEF Drop, Restrict
  <2> HIDE DEF more, left, rest, cut, kept, n
  <2>9. more = [c \in DOMAIN left \cup {to} |-> IF c = to THEN Excerpt(to, n) ELSE left[c]]
    <3>1. \A c \in kept \cup {to} :
              (IF c \in kept THEN ch[c] ELSE rest[c])
                = (IF c = to THEN Excerpt(to, n) ELSE left[c])
      BY <2>6, <2>8
    <3> QED BY <1>2, <2>7, <3>1
  <2>10. \A c \in DOMAIN left : ChunkEnd(left, c) =< to \/ to + n =< c
    BY <1>1, <1>2, <2>2, <2>3 DEF kept
  <2>11. /\ more \in ChunkMaps(N) /\ Chunked(more, N)
         /\ DOMAIN more = kept \cup {to}
         /\ Held(more, N) = Held(left, N) \cup to..(to + n - 1)
    <3>1. /\ DOMAIN more = DOMAIN left \cup {to} /\ more = [c \in DOMAIN more |-> more[c]]
          /\ more[to] = Excerpt(to, n) /\ \A c \in DOMAIN left : more[c] = left[c]
      BY <1>2, <2>8, <2>9
    <3>2. /\ left \in ChunkMaps(N) /\ Chunked(left, N) /\ DOMAIN left = kept
          /\ to \in Nat /\ n \in Nat \ {0} /\ to + n =< N
      BY <1>2, <2>3
    <3>3. more \in ChunkMaps(N) /\ Chunked(more, N)
      BY <2>10, <3>1, <3>2, AddKeeps
    <3>4. Held(more, N) = Held(left, N) \cup to..(to + n - 1)
      BY <2>10, <3>1, <3>2, AddKeeps
    <3> QED BY <3>1, <3>2, <3>3, <3>4
  <2>12. to..(to + n - 1) \subseteq Held(ch, N) \ 0..(to - 1)
    BY <1>1, <1>4, <2>2, <2>3 DEF Held, HeldIn, Holds
  <2>13. Held(left, N) \subseteq Held(ch, N) \ 0..(to - 1)
    BY <1>2, <1>3, <1>4 DEF Held, HeldIn
  <2>14. ASSUME to \notin D, NEW i \in HeldIn(ch, D \ kept, N)
         PROVE  i \in 0..(to - 1) \cup to..(to + n - 1)
    <3>1. PICK c \in D \ kept : Holds(ch, c, i)
      BY DEF HeldIn
    <3>2. i \in Nat /\ c \in Nat /\ c < to
      BY <1>1, <1>4, <2>14 DEF HeldIn, kept
    <3>3. CASE i < to
      BY <3>2, <3>3
    <3>4. CASE ~(i < to)
      <4>1. c = d
        BY <2>2, <3>1, <3>2, <3>4, <1>1 DEF cut, Holds
      <4> QED BY <1>1, <2>2, <2>3, <3>1, <3>2, <3>4, <4>1 DEF Holds
    <3> QED BY <3>3, <3>4
  <2>15. to \notin D => Held(ch, N) \subseteq Held(more, N) \cup 0..(to - 1)
    BY <1>2, <2>11, <2>14
  <2>16. \A c \in DOMAIN more : c = to \/ (to < c /\ c \in D)
    BY <2>11 DEF kept
  <2> QED BY <2>11, <2>12, <2>13, <2>15, <2>16 DEF more
<1> QED BY <1>5, <1>6

\* Assembling keeps a good state good and the window where it is; what it drops is
\* written, or the output is full.
LEMMA AssembleKeeps ==
    ASSUME NEW x, NEW N \in Nat, Good(x, N)
    PROVE  LET y == Assemble(x)
           IN  /\ Good(y, N)
               /\ y.eof_idx = x.eof_idx /\ x.next =< y.next
               /\ y.output.input_ended = x.output.input_ended /\ Unread(x.output, y.output)
               /\ Held(y.chunks, N) \subseteq Held(x.chunks, N)
               /\ \/ Held(x.chunks, N) \subseteq Held(y.chunks, N) \cup 0..(y.next - 1)
                  \/ remaining_capacity(y.output) = 0
<1> DEFINE D == DOMAIN x.chunks
           e == ChainEnd(x)
           n == x.next
           to == AssembledTo(x)
           k == Accepted(x.output, e - n)
           bytes == [j \in 1..(to - n) |-> ByteAt(x.chunks, n + j - 1)]
           more == After(x.chunks, to)
           y == Assemble(x)
<1>1. /\ x \in ReassemblerSet(N) /\ x.output \in OutputSet /\ Delivered(x.output, n)
      /\ n \in Nat /\ n =< N
      /\ x.chunks \in ChunkMaps(N) /\ Chunked(x.chunks, N)
      /\ x.unassembled_bytes \in Nat /\ Cardinality(Held(x.chunks, N)) =< x.unassembled_bytes
      /\ \A c \in D : c < first_unacceptable_idx(x) \/ c = n
      /\ \A c \in D : c \in Nat /\ n =< c /\ c < ChunkEnd(x.chunks, c)
                      /\ ChunkEnd(x.chunks, c) \in Nat
                      /\ ChunkEnd(x.chunks, c) =< N
      /\ x.output.input_ended => n = N /\ x.eof_idx # NoEof
  BY GoodParts, PieceEnds DEF Good, ReassemblerSet
<1>2. /\ e \in Nat /\ n =< e /\ e =< N /\ e - n \in Nat
      /\ \A i \in n..(e - 1) : \E c \in D : Holds(x.chunks, c, i)
      /\ \A c \in D : ~Holds(x.chunks, c, e)
      /\ Chain(x) = {c \in D : c < e}
  <2>1. /\ e \in Nat /\ n =< e /\ e =< N
        /\ \A i \in n..(e - 1) : \E c \in D : Holds(x.chunks, c, i)
        /\ \A c \in D : ~Holds(x.chunks, c, e)
        /\ Chain(x) = {c \in D : c < e}
    BY ChainIs
  <2> HIDE DEF e
  <2>2. e - n \in Nat
    BY <1>1, <2>1
  <2> QED BY <2>1, <2>2
<1>3. to = n + k
  <2> DEFINE ends == {ChunkEnd(x.chunks, c) : c \in Chain(x)}
  <2>1. to = n + Accepted(x.output, IF ends = {} THEN 0 ELSE Max(ends) - n)
    BY DEF AssembledTo
  <2>2. e = IF ends = {} THEN n ELSE Max(ends)
    BY DEF ChainEnd
  <2> HIDE DEF e, to, ends
  <2>3. e - n = IF ends = {} THEN 0 ELSE Max(ends) - n
    BY <1>1, <2>2
  <2> QED BY <2>1, <2>3
<1> HIDE DEF e
<1>4. /\ k \in 0..(e - n)
      /\ k = IF x.output.input_ended THEN 0
             ELSE Lesser(e - n, remaining_capacity(x.output))
      /\ remaining_capacity(x.output) \in Nat
  BY <1>1, <1>2, WriteKeeps
<1> HIDE DEF k
<1>5. k \in Nat /\ to \in Nat /\ n =< to /\ to =< e /\ to =< N /\ to - n = k
  <2>1. k \in 0..(e - n)
    BY <1>4
  <2>2. n \in Nat /\ e \in Nat /\ n =< e /\ e =< N /\ e - n \in Nat
    BY <1>1, <1>2
  <2> HIDE DEF n
  <2> QED BY <1>3, <2>1, <2>2
<1> HIDE DEF to
<1>6. bytes = Excerpt(n, k)
  <2>1. ASSUME NEW j \in 1..k
        PROVE  ByteAt(x.chunks, n + j - 1) = n + j - 1
    <3>1. n + j - 1 \in n..(e - 1) /\ n + j - 1 \in Nat
      BY <1>1, <1>2, <1>5
    <3> QED BY <1>1, <1>2, <3>1, ByteIs
  <2> QED BY <1>5, <2>1 DEF Excerpt
<1>7. Accepted(x.output, k) = k
  <2>1. x.output.error = FALSE
    BY <1>1 DEF OutputSet
  <2> QED BY <1>2, <1>4, <1>5, <2>1 DEF Accepted, Lesser
<1> DEFINE u == write(x.output, Excerpt(n, k))
<1>8. /\ u \in OutputSet /\ Delivered(u, to)
      /\ u.input_ended = x.output.input_ended /\ Unread(x.output, u)
      /\ remaining_capacity(u) = remaining_capacity(x.output) - k
  <2>1. /\ u \in OutputSet /\ Delivered(u, n + Accepted(x.output, k))
        /\ u.input_ended = x.output.input_ended /\ Unread(x.output, u)
        /\ remaining_capacity(u) = remaining_capacity(x.output) - Accepted(x.output, k)
    BY <1>1, <1>5, WriteKeeps, ZenonT(60)
  <2> QED BY <1>3, <1>7, <2>1
<1> HIDE DEF u
<1>9. \A c \in D : c =< to => c < e
  <2> TAKE c \in D
  <2>1. c \in Nat /\ c < ChunkEnd(x.chunks, c) /\ ~Holds(x.chunks, c, e)
    BY <1>1, <1>2
  <2>2. e \in Nat /\ to \in Nat /\ to =< e
    BY <1>2, <1>5
  <2>3. c # e
    <3> DEFINE end == ChunkEnd(x.chunks, c)
    <3>1. c < end /\ ~(c =< e /\ e < end)
      BY <2>1 DEF Holds
    <3> HIDE DEF end
    <3> QED BY <2>1, <3>1
  <2> HIDE DEF D
  <2> QED BY <2>1, <2>2, <2>3
<1>10. y = [x EXCEPT !.output = u, !.next = to, !.chunks = more,
                     !.unassembled_bytes = x.unassembled_bytes - k]
  <2>1. D \ {c \in Chain(x) : c =< to} = {c \in D : to < c}
    BY <1>1, <1>2, <1>5, <1>9
  <2>2. {c \in Chain(x) : c < to /\ to < ChunkEnd(x.chunks, c)}
          = {c \in D : c < to /\ to < ChunkEnd(x.chunks, c)}
    BY <1>1, <1>2, <1>5, <1>9
  <2> HIDE DEF bytes
  <2> QED BY <1>5, <1>6, <2>1, <2>2, Zenon DEF Assemble, After, to, bytes, u
<1>11. /\ more \in ChunkMaps(N) /\ Chunked(more, N)
       /\ \A c \in DOMAIN more : c = to \/ (to < c /\ c \in D)
       /\ Held(more, N) \subseteq Held(x.chunks, N) \ 0..(to - 1)
       /\ to \notin D => Held(x.chunks, N) \subseteq Held(more, N) \cup 0..(to - 1)
  BY <1>1, <1>5, AfterKeeps
<1> HIDE DEF more
<1>12. Cardinality(Held(more, N)) + k =< Cardinality(Held(x.chunks, N))
  <2> DEFINE I == n..(to - 1)
  <2>1. IsFiniteSet(I) /\ Cardinality(I) = k
    <3>1. n \in Int /\ to - 1 \in Int
      BY <1>1, <1>5
    <3>2. IsFiniteSet(I) /\ Cardinality(I) = IF n > to - 1 THEN 0 ELSE (to - 1) - n + 1
      BY <3>1, FS_Interval
    <3> QED BY <1>1, <1>5, <3>2
  <2>2. I \subseteq Held(x.chunks, N)
    BY <1>1, <1>2, <1>5 DEF Held, HeldIn
  <2>3. Held(more, N) \cap I = {}
    BY <1>1, <1>5, <1>11
  <2>4. /\ IsFiniteSet(Held(more, N)) /\ Cardinality(Held(more, N)) \in Nat
        /\ IsFiniteSet(Held(x.chunks, N)) /\ Cardinality(Held(x.chunks, N)) \in Nat
    BY HeldFinite DEF Held
  <2> HIDE DEF I
  <2>5. Cardinality(Held(more, N) \cup I)
          = Cardinality(Held(more, N)) + Cardinality(I) - Cardinality(Held(more, N) \cap I)
    BY <2>1, <2>4, FS_Union
  <2>6. Held(more, N) \cup I \in SUBSET Held(x.chunks, N)
    BY <1>11, <2>2
  <2>7. Cardinality(Held(more, N) \cup I) =< Cardinality(Held(x.chunks, N))
    BY <2>4, <2>6, FS_Subset
  <2>8. Cardinality(Held(more, N) \cap I) = 0
    BY <2>3, FS_EmptySet
  <2> QED BY <1>5, <2>1, <2>4, <2>5, <2>7, <2>8
<1>13. /\ x.unassembled_bytes - k \in Nat
       /\ Cardinality(Held(more, N)) =< x.unassembled_bytes - k
  <2>1. Cardinality(Held(more, N)) \in Nat /\ Cardinality(Held(x.chunks, N)) \in Nat
    BY HeldFinite DEF Held
  <2> QED BY <1>1, <1>5, <1>12, <2>1
<1>14. /\ y \in ReassemblerSet(N)
       /\ y.output = u /\ y.next = to /\ y.chunks = more /\ y.eof_idx = x.eof_idx
       /\ y.unassembled_bytes = x.unassembled_bytes - k
  <2>1. to \in 0..N
    BY <1>5
  <2> QED BY <1>1, <1>8, <1>10, <1>11, <1>13, <2>1 DEF ReassemblerSet
<1> HIDE DEF y
<1>15. first_unacceptable_idx(y) = first_unacceptable_idx(x)
  BY <1>1, <1>3, <1>4, <1>5, <1>8, <1>14 DEF first_unacceptable_idx
<1>16. /\ \A c \in DOMAIN y.chunks : y.next =< c
       /\ \A c \in DOMAIN y.chunks : c < first_unacceptable_idx(y) \/ c = y.next
  BY <1>1, <1>5, <1>11, <1>14, <1>15
<1>17. u.input_ended => to = N /\ x.eof_idx # NoEof
  BY <1>1, <1>3, <1>4, <1>8
<1>18. Good(y, N)
  BY <1>8, <1>11, <1>13, <1>14, <1>16, <1>17 DEF Good
<1>19. to \in D => remaining_capacity(u) = 0
  <2> SUFFICES ASSUME to \in D
               PROVE  remaining_capacity(u) = 0
    OBVIOUS
  <2>1. to < e /\ ~x.output.input_ended
    BY <1>1, <1>5, <1>9
  <2> QED BY <1>1, <1>2, <1>3, <1>4, <1>5, <1>8, <2>1 DEF Lesser
<1> QED BY <1>5, <1>8, <1>11, <1>14, <1>18, <1>19 DEF y

\* Noting the end of the stream.
LEMMA NoteEofKeeps ==
    ASSUME NEW x, NEW N \in Nat, Good(x, N), x.output.input_ended => x.next = N /\ x.eof_idx # NoEof,
           NEW end \in Nat, NEW is_last \in BOOLEAN, is_last => end = N
    PROVE  LET y == NoteEof(x, end, is_last)
           IN  /\ Good(y, N) /\ Closed(y, N)
               /\ y.chunks = x.chunks /\ y.next = x.next
               /\ remaining_capacity(y.output) = remaining_capacity(x.output)
               /\ Unread(x.output, y.output) /\ y.eof_idx = IF is_last THEN end ELSE x.eof_idx
<1> DEFINE eof_idx == IF is_last THEN end ELSE x.eof_idx
           known == eof_idx # NoEof /\ eof_idx =< x.next
           o == IF known THEN [x.output EXCEPT !.input_ended = TRUE] ELSE x.output
           y == NoteEof(x, end, is_last)
<1>1. /\ x \in ReassemblerSet(N) /\ x.output \in OutputSet /\ Delivered(x.output, x.next)
      /\ x.next \in Nat /\ x.next =< N /\ x.eof_idx \in {NoEof, N}
  BY GoodParts DEF Good, ReassemblerSet
<1>2. y = [x EXCEPT !.eof_idx = eof_idx, !.output = o]
  BY DEF NoteEof, end_input
<1>3. eof_idx \in {NoEof, N} /\ (x.eof_idx # NoEof => eof_idx # NoEof)
  BY <1>1 DEF NoEof
<1>4. known <=> (eof_idx # NoEof /\ x.next = N)
  BY <1>1, <1>3
<1> HIDE DEF eof_idx, known
<1>5. /\ o \in OutputSet /\ o.buffer = x.output.buffer /\ o.capacity = x.output.capacity
      /\ o.bytes_read = x.output.bytes_read /\ o.bytes_written = x.output.bytes_written
      /\ o.input_ended = IF known THEN TRUE ELSE x.output.input_ended
  BY <1>1 DEF OutputSet
<1> HIDE DEF o
<1>6. o.input_ended <=> (eof_idx # NoEof /\ x.next = N)
  BY <1>3, <1>4, <1>5
<1>7. /\ y \in ReassemblerSet(N)
      /\ y.chunks = x.chunks /\ y.next = x.next /\ y.output = o /\ y.eof_idx = eof_idx
      /\ y.unassembled_bytes = x.unassembled_bytes
  BY <1>1, <1>2, <1>3, <1>5 DEF ReassemblerSet
<1> HIDE DEF y
<1>8. remaining_capacity(y.output) = remaining_capacity(x.output)
  BY <1>5, <1>7 DEF remaining_capacity
<1>9. first_unacceptable_idx(y) = first_unacceptable_idx(x)
  BY <1>7, <1>8 DEF first_unacceptable_idx
<1>10. Good(y, N)
  BY <1>1, <1>5, <1>6, <1>7, <1>9 DEF Good, Delivered
<1>11. Unread(x.output, y.output)
  BY <1>5, <1>7 DEF Unread
<1> QED BY <1>6, <1>7, <1>8, <1>10, <1>11 DEF y, Closed, eof_idx

\* The whole of push_substring, on an excerpt of the stream.
LEMMA PushKeeps ==
    ASSUME NEW x, NEW N \in Nat, Good(x, N), Closed(x, N),
           NEW index \in 0..N, NEW len \in Nat, index + len =< N,
           NEW is_last \in BOOLEAN, is_last => index + len = N
    PROVE  LET y == push_substring(x, Excerpt(index, len), index, is_last)
           IN  /\ Good(y, N) /\ Closed(y, N)
               /\ x.next =< y.next /\ Unread(x.output, y.output)
               /\ y.eof_idx \in {x.eof_idx, IF is_last THEN N ELSE x.eof_idx}
               /\ \/ Held(x.chunks, N) \subseteq Held(y.chunks, N) \cup 0..(y.next - 1)
                  \/ remaining_capacity(y.output) = 0
               /\ \A i \in Held(y.chunks, N) \ Held(x.chunks, N) :
                      i + 1 < first_unacceptable_idx(x) + len
<1> DEFINE D == DOMAIN x.chunks
           data == Excerpt(index, len)
           end == index + len
           new == NewIdx(x, index)
           to == CutEnd(x, new, end)
           cs == Covered(x, new, end)
           a == Discard(x, cs)
           fresh == SubSeq(data, new - index + 1, to - index)
           b == Insert(a, new, fresh)
           c == Assemble(b)
           y == push_substring(x, data, index, is_last)
<1>1. index \in Nat /\ end \in Nat /\ end \in 0..N /\ Len(data) = len
  BY ExcerptType
<1>2. y = IF first_unacceptable_idx(x) =< new THEN a ELSE NoteEof(c, end, is_last)
  BY <1>1 DEF push_substring
<1> HIDE DEF y, data, end
<1>3. /\ new \in Nat /\ index =< new /\ x.next =< new
      /\ \A d \in D : ChunkEnd(x.chunks, d) =< new \/ new =< d
  BY <1>1, NewIdxSplits
<1> HIDE DEF new
<1>4. /\ to \in Nat /\ to =< end
      /\ \A d \in D \ cs : ChunkEnd(x.chunks, d) =< new \/ (new =< d /\ to =< d)
      /\ \A d \in cs : new =< d /\ ChunkEnd(x.chunks, d) =< to
  BY <1>1, <1>3, CutClears
<1>5. cs \in SUBSET D
  BY DEF Covered
<1> HIDE DEF to, cs
<1>6. /\ Good(a, N)
      /\ a.output = x.output /\ a.next = x.next /\ a.eof_idx = x.eof_idx
      /\ a.chunks = Drop(x.chunks, cs)
  BY <1>5, DiscardKeeps
<1> HIDE DEF a
<1>7. /\ DOMAIN a.chunks = D \ cs
      /\ \A d \in DOMAIN a.chunks : ChunkEnd(a.chunks, d) = ChunkEnd(x.chunks, d)
      /\ Held(x.chunks, N) \ Held(a.chunks, N) \subseteq HeldIn(x.chunks, cs, N)
      /\ Held(a.chunks, N) \subseteq Held(x.chunks, N)
  <2>1. x.chunks \in ChunkMaps(N) /\ Chunked(x.chunks, N)
    BY GoodParts
  <2>2. LET left == Drop(x.chunks, cs)
        IN  /\ DOMAIN left = DOMAIN x.chunks \ cs
            /\ \A d \in DOMAIN left : ChunkEnd(left, d) = ChunkEnd(x.chunks, d)
            /\ Held(x.chunks, N) \ Held(left, N) \subseteq HeldIn(x.chunks, cs, N)
            /\ Held(left, N) \subseteq Held(x.chunks, N)
    BY <1>5, <2>1, DropKeeps
  <2> QED BY <1>6, <2>2
<1>8. 0..N \subseteq Nat
  OBVIOUS
<1>9. \A d \in D : d \in Nat /\ ChunkEnd(x.chunks, d) \in Nat
  BY GoodParts, PieceEnds
<1>10. HeldIn(x.chunks, cs, N) \subseteq new..(to - 1)
  BY <1>3, <1>4, <1>5, <1>8, <1>9 DEF HeldIn, Holds
<1>11. /\ first_unacceptable_idx(x) \in Nat /\ first_unacceptable_idx(a) = first_unacceptable_idx(x)
       /\ first_unacceptable_idx(x) = x.next + remaining_capacity(x.output)
       /\ x.next \in Nat /\ remaining_capacity(x.output) \in Nat
       /\ \A d \in D : d < first_unacceptable_idx(x) \/ d = x.next
  BY <1>6, GoodParts DEF first_unacceptable_idx, Good
<1>12. CASE first_unacceptable_idx(x) =< new
  <2>1. y = a
    BY <1>2, <1>12
  <2>2. CASE cs = {}
    <3>1. HeldIn(x.chunks, cs, N) = {}
      BY <2>2 DEF HeldIn
    <3>2. Held(x.chunks, N) \subseteq Held(y.chunks, N)
      BY <1>7, <2>1, <3>1
    <3> QED BY <1>6, <1>7, <1>11, <2>1, <3>2 DEF Closed, Unread, data, y
  <2>3. CASE cs # {}
    <3>1. PICK d \in cs : TRUE
      BY <2>3
    <3>2. d \in D /\ new =< d /\ d \in Nat
      BY <1>4, <1>5, <1>9
    <3>3. remaining_capacity(x.output) = 0
      BY <1>3, <1>11, <1>12, <3>2
    <3> QED BY <1>6, <1>7, <1>11, <2>1, <3>3 DEF Closed, Unread, data, y
  <2> QED BY <2>2, <2>3
<1>13. CASE ~(first_unacceptable_idx(x) =< new)
  <2>1. new < first_unacceptable_idx(a) /\ a.next =< new
    BY <1>3, <1>6, <1>11, <1>13
  <2>2. fresh = IF new < to THEN Excerpt(new, to - new) ELSE << >>
    <3>1. CASE new < to
      <4>1. /\ new - index + 1 \in 1..(len + 1)
            /\ to - index \in ((new - index + 1) - 1)..len
            /\ index + (new - index + 1) - 1 = new
            /\ (to - index) - (new - index + 1) + 1 = to - new
        BY <1>1, <1>3, <1>4, <3>1 DEF end
      <4>2. SubSeq(Excerpt(index, len), new - index + 1, to - index)
              = Excerpt(index + (new - index + 1) - 1, (to - index) - (new - index + 1) + 1)
        BY <1>1, <4>1, ExcerptPart
      <4> QED BY <3>1, <4>1, <4>2 DEF data
    <3>2. CASE ~(new < to)
      <4>1. /\ new - index + 1 \in Int /\ to - index \in Int /\ to - index < new - index + 1
        BY <1>1, <1>3, <1>4, <3>2
      <4> QED BY <3>2, <4>1, SubSeqEmpty
    <3> QED BY <3>1, <3>2
  <2> HIDE DEF fresh
  <2>3. to \in 0..N
    BY <1>1, <1>4
  <2>4. \A d \in DOMAIN a.chunks :
            ChunkEnd(a.chunks, d) =< new \/ (new =< d /\ to =< d)
    BY <1>4, <1>7
  <2>5. /\ Good(b, N)
        /\ b.eof_idx = a.eof_idx /\ a.next =< b.next
        /\ b.output.input_ended = a.output.input_ended /\ Unread(a.output, b.output)
        /\ Held(a.chunks, N) \cup new..(to - 1) \subseteq Held(b.chunks, N) \cup 0..(b.next - 1)
        /\ Held(b.chunks, N) \subseteq Held(a.chunks, N) \cup new..(to - 1)
    BY <1>3, <1>6, <2>1, <2>2, <2>3, <2>4, InsertKeeps
  <2> HIDE DEF b
  <2>6. /\ Good(c, N)
        /\ c.eof_idx = b.eof_idx /\ b.next =< c.next
        /\ c.output.input_ended = b.output.input_ended /\ Unread(b.output, c.output)
        /\ Held(c.chunks, N) \subseteq Held(b.chunks, N)
        /\ \/ Held(b.chunks, N) \subseteq Held(c.chunks, N) \cup 0..(c.next - 1)
           \/ remaining_capacity(c.output) = 0
    BY <2>5, AssembleKeeps
  <2> HIDE DEF c
  <2>7. c.output.input_ended => c.next = N /\ c.eof_idx # NoEof
    BY <2>6 DEF Good
  <2>8. y = NoteEof(c, end, is_last)
    BY <1>2, <1>13
  <2>9. is_last => end = N
    BY DEF end
  <2>10. /\ Good(y, N) /\ Closed(y, N)
         /\ y.chunks = c.chunks /\ y.next = c.next
         /\ remaining_capacity(y.output) = remaining_capacity(c.output)
         /\ Unread(c.output, y.output) /\ y.eof_idx = IF is_last THEN end ELSE c.eof_idx
    BY <1>1, <2>6, <2>7, <2>8, <2>9, NoteEofKeeps
  <2>11. b.next \in Nat /\ c.next \in Nat
    BY <2>5, <2>6, GoodParts
  <2>12. 0..(b.next - 1) \subseteq 0..(c.next - 1)
    BY <2>6, <2>11
  <2>13. Held(x.chunks, N) \subseteq Held(b.chunks, N) \cup 0..(b.next - 1)
    BY <1>7, <1>10, <2>5
  <2>14. \/ Held(x.chunks, N) \subseteq Held(y.chunks, N) \cup 0..(y.next - 1)
         \/ remaining_capacity(y.output) = 0
    BY <2>6, <2>10, <2>12, <2>13
  <2>15. /\ x.next =< y.next /\ Unread(x.output, y.output)
         /\ y.eof_idx \in {x.eof_idx, IF is_last THEN N ELSE x.eof_idx}
    <3>1. x.next =< b.next /\ b.next =< c.next /\ c.next = y.next
      BY <1>6, <2>5, <2>6, <2>10
    <3>2. x.next =< y.next
      BY <1>11, <2>11, <3>1
    <3>3. y.eof_idx = IF is_last THEN end ELSE x.eof_idx
      BY <1>6, <2>5, <2>6, <2>10
    <3>4. Unread(a.output, b.output) /\ Unread(b.output, c.output) /\ Unread(c.output, y.output)
      BY <2>5, <2>6, <2>10
    <3>5. Unread(x.output, y.output)
      BY <1>6, <3>4 DEF Unread
    <3> QED BY <2>9, <3>2, <3>3, <3>5
  <2>16. ASSUME NEW i \in Held(y.chunks, N) \ Held(x.chunks, N)
         PROVE  i + 1 < first_unacceptable_idx(x) + len
    <3>1. i \in new..(to - 1)
      BY <1>7, <2>5, <2>6, <2>10
    <3> QED BY <1>1, <1>3, <1>4, <1>11, <1>13, <3>1 DEF end
  <2> QED BY <2>10, <2>14, <2>15, <2>16 DEF y, data
<1> QED BY <1>12, <1>13

-----------------------------------------------------------------------------
(* Pushes and reads.                                                        *)

\* Reading takes the first bytes of the output and leaves the chunks alone.
LEMMA ReadKeeps ==
    ASSUME NEW x, NEW N \in Nat, Good(x, N), Closed(x, N), NEW len \in Nat, len =< Len(x.output.buffer)
    PROVE  LET y == [x EXCEPT !.output = pop_output(@, len)]
           IN  /\ Good(y, N) /\ Closed(y, N) /\ y.chunks = x.chunks
               /\ y.output.capacity = x.output.capacity /\ y.next = x.next
               /\ y.eof_idx = x.eof_idx /\ y.output.input_ended = x.output.input_ended
<1> DEFINE o == x.output
           n == x.next
           b == o.bytes_read
           C == o.capacity
           u == pop_output(o, len)
           y == [x EXCEPT !.output = pop_output(@, len)]
<1>1. /\ x \in ReassemblerSet(N) /\ o \in OutputSet /\ n \in Nat /\ n =< N
      /\ b \in Nat /\ b =< n /\ o.bytes_written = n
      /\ o.buffer = Excerpt(b, n - b) /\ o.buffer \in Bytes /\ Len(o.buffer) =< C
      /\ C \in Nat
      /\ first_unacceptable_idx(x) = n + remaining_capacity(o)
      /\ remaining_capacity(o) = C - Len(o.buffer)
      /\ \A c \in DOMAIN x.chunks : c < first_unacceptable_idx(x) \/ c = n
  <2>1. /\ x.next \in Nat /\ x.next =< N
        /\ first_unacceptable_idx(x) = x.next + remaining_capacity(x.output)
        /\ remaining_capacity(x.output) = x.output.capacity - Len(x.output.buffer)
    BY GoodParts
  <2>2. x \in ReassemblerSet(N) /\ x.output \in OutputSet /\ Delivered(x.output, x.next)
        /\ \A c \in DOMAIN x.chunks : c < first_unacceptable_idx(x) \/ c = x.next
    BY DEF Good, ReassemblerSet
  <2>3. /\ x.output.bytes_read \in Nat /\ x.output.buffer \in Bytes
        /\ x.output.capacity \in Nat
    BY <2>2 DEF OutputSet
  <2> QED BY <2>1, <2>2, <2>3 DEF Delivered
<1>2. n - b \in Nat /\ Len(o.buffer) = n - b /\ len =< n - b
  <2>1. n - b \in Nat
    BY <1>1
  <2>2. Len(Excerpt(b, n - b)) = n - b
    BY <1>1, <2>1, ExcerptType
  <2> QED BY <1>1, <2>1, <2>2
<1>3. SubSeq(o.buffer, len + 1, Len(o.buffer)) = Excerpt(b + len, n - (b + len))
  <2>1. /\ len + 1 \in 1..((n - b) + 1) /\ n - b \in ((len + 1) - 1)..(n - b)
        /\ b + (len + 1) - 1 = b + len /\ (n - b) - (len + 1) + 1 = n - (b + len)
    <3>1. n \in Nat /\ b \in Nat /\ b =< n /\ len =< n - b
      BY <1>1, <1>2
    <3> HIDE DEF b, n
    <3> QED BY <3>1
  <2> HIDE DEF b, n
  <2>2. SubSeq(Excerpt(b, n - b), len + 1, n - b)
          = Excerpt(b + (len + 1) - 1, (n - b) - (len + 1) + 1)
    BY <1>1, <1>2, <2>1, ExcerptPart
  <2> QED BY <1>1, <1>2, <2>1, <2>2
<1>4. b + len \in Nat /\ n - (b + len) \in Nat /\ n - (b + len) =< n - b
  <2> HIDE DEF b, n
  <2> QED BY <1>1, <1>2
<1>5. /\ Excerpt(b + len, n - (b + len)) \in Bytes
      /\ Len(Excerpt(b + len, n - (b + len))) = n - (b + len)
  BY <1>4, ExcerptType
<1>6. Lesser(len, Len(o.buffer)) = len
  BY <1>2 DEF Lesser
<1>7. u = [o EXCEPT !.buffer = Excerpt(b + len, n - (b + len)), !.bytes_read = b + len]
  BY <1>3, <1>6 DEF pop_output
<1> HIDE DEF u
<1>8. /\ u \in OutputSet /\ u.buffer = Excerpt(b + len, n - (b + len))
      /\ u.bytes_read = b + len /\ u.bytes_written = n /\ u.capacity = o.capacity
      /\ u.input_ended = o.input_ended
  BY <1>1, <1>4, <1>5, <1>7 DEF OutputSet
<1>9. Delivered(u, n) /\ remaining_capacity(u) = C - (n - (b + len))
  <2> DEFINE left == n - (b + len)
  <2>1. left \in Nat /\ left =< C /\ b + len =< n /\ C \in Nat
    <3>1. n \in Nat /\ b \in Nat /\ b =< n /\ n - b =< C /\ C \in Nat
      BY <1>1, <1>2
    <3> HIDE DEF b, n
    <3> QED BY <1>2, <1>4, <3>1
  <2>2. u.buffer = Excerpt(b + len, left) /\ Len(u.buffer) = left
    BY <1>5, <1>8
  <2> HIDE DEF b, n
  <2>3. Delivered(u, n)
    BY <1>8, <2>1, <2>2 DEF Delivered
  <2>4. remaining_capacity(u) = C - left
    BY <1>8, <2>1, <2>2 DEF remaining_capacity
  <2> QED BY <2>3, <2>4
<1>10. y = [x EXCEPT !.output = u]
  BY DEF u
<1> HIDE DEF y
<1>11. /\ y \in ReassemblerSet(N)
       /\ y.output = u /\ y.chunks = x.chunks /\ y.next = n /\ y.eof_idx = x.eof_idx
       /\ y.unassembled_bytes = x.unassembled_bytes
  BY <1>1, <1>8, <1>10 DEF ReassemblerSet
<1>12. first_unacceptable_idx(y) \in Nat /\ first_unacceptable_idx(x) \in Nat
       /\ first_unacceptable_idx(x) =< first_unacceptable_idx(y)
  <2>1. first_unacceptable_idx(y) = n + (C - (n - (b + len)))
    BY <1>9, <1>11 DEF first_unacceptable_idx
  <2>2. first_unacceptable_idx(x) = n + (C - (n - b)) /\ n - b =< C
    BY <1>1, <1>2
  <2>3. n \in Nat /\ b \in Nat /\ len \in Nat /\ C \in Nat
    BY <1>1
  <2> HIDE DEF b, n
  <2> QED BY SMTT(30), <1>2, <1>4, <2>1, <2>2, <2>3
<1>13. \A c \in DOMAIN x.chunks : c \in Nat
  BY GoodParts, PieceEnds
<1>14. \A c \in DOMAIN y.chunks : c < first_unacceptable_idx(y) \/ c = y.next
  BY <1>1, <1>11, <1>12, <1>13
<1>15. Good(y, N)
  BY <1>8, <1>9, <1>11, <1>14 DEF Good
<1> QED BY <1>8, <1>11, <1>15 DEF y, Closed

\* A new reassembler is empty, whatever stream it will be fed with.
LEMMA NewReassemblerGood ==
    ASSUME NEW C \in Nat, NEW N \in Nat
    PROVE  LET x == NewReassembler(C)
           IN  Good(x, N) /\ Closed(x, N)
<1> DEFINE x == NewReassembler(C)
<1>1. /\ x.chunks = << >> /\ x.next = 0 /\ x.unassembled_bytes = 0 /\ x.eof_idx = NoEof
      /\ x.output = NewStream(C)
  BY DEF NewReassembler
<1>2. DOMAIN x.chunks = {} /\ x.chunks \in ChunkMaps(N)
  <2>1. DOMAIN << >> = {} /\ << >> = [c \in {} |-> << >>[c]]
    OBVIOUS
  <2>2. x.chunks = [c \in DOMAIN x.chunks |-> x.chunks[c]]
    BY <1>1, <2>1
  <2> QED BY <1>1, <2>1, <2>2, ChunkMap
<1>3. << >> = Excerpt(0, 0) /\ << >> \in Bytes /\ Len(<< >>) = 0
  <2>1. Excerpt(0, 0) \in Bytes /\ Len(Excerpt(0, 0)) = 0
    BY ExcerptType
  <2> QED BY <2>1, EmptySeq DEF Bytes
<1>4. /\ x.output \in OutputSet /\ x.output.buffer = << >> /\ x.output.bytes_read = 0
      /\ x.output.bytes_written = 0 /\ x.output.input_ended = FALSE
  BY <1>1, <1>3 DEF NewStream, OutputSet
<1>5. Delivered(x.output, x.next)
  BY <1>1, <1>3, <1>4 DEF Delivered, OutputSet
<1>6. x \in ReassemblerSet(N)
  <2>1. x = [chunks |-> x.chunks, next |-> 0, unassembled_bytes |-> 0, eof_idx |-> NoEof,
             output |-> x.output]
    BY <1>1 DEF NewReassembler
  <2>2. 0 \in 0..N
    OBVIOUS
  <2> HIDE DEF x
  <2> QED BY <1>2, <1>4, <2>1, <2>2 DEF ReassemblerSet
<1>7. Cardinality(Held(x.chunks, N)) = 0
  <2>1. Held(x.chunks, N) = {}
    BY <1>2 DEF Held, HeldIn
  <2> QED BY <2>1, FS_EmptySet
<1> HIDE DEF x
<1>8. Chunked(x.chunks, N)
  BY <1>2 DEF Chunked
<1> QED BY <1>1, <1>2, <1>4, <1>5, <1>6, <1>7, <1>8 DEF Good, Closed, x

\* An empty substring without the flag, whatever index it comes with.
LEMMA EmptyPush ==
    ASSUME NEW x, NEW N \in Nat, Good(x, N), Closed(x, N), NEW index \in Nat
    PROVE  LET y == push_substring(x, << >>, index, FALSE)
           IN  /\ Good(y, N) /\ Closed(y, N)
               /\ x.next =< y.next /\ Unread(x.output, y.output)
               /\ y.eof_idx = x.eof_idx
<1> DEFINE data == << >>
           end == index + Len(data)
           new == NewIdx(x, index)
           to == CutEnd(x, new, end)
           cs == Covered(x, new, end)
           a == Discard(x, cs)
           fresh == SubSeq(data, new - index + 1, to - index)
           b == Insert(a, new, fresh)
           c == Assemble(b)
           y == push_substring(x, data, index, FALSE)
<1>1. end = index /\ end \in Nat
  BY EmptySeq
<1>2. y = IF first_unacceptable_idx(x) =< new THEN a ELSE NoteEof(c, end, FALSE)
  BY DEF push_substring
<1> HIDE DEF y, end
<1>3. new \in Nat /\ index =< new
  BY NewIdxSplits
<1> HIDE DEF new
<1>4. \A d \in DOMAIN x.chunks : d \in Nat
  BY GoodParts, PieceEnds
<1>5. cs = {} /\ to = index
  <2>1. \A d \in DOMAIN x.chunks : ~(new =< d /\ d < end)
    BY <1>1, <1>3, <1>4
  <2> QED BY <1>1, <2>1 DEF Covered, CutEnd
<1>6. fresh = << >>
  <2>1. new - index + 1 \in Int /\ to - index \in Int /\ to - index < new - index + 1
    BY <1>3, <1>5
  <2> QED BY <2>1, SubSeqEmpty
<1> HIDE DEF to, fresh, data
<1>7. Good(a, N) /\ a.output = x.output /\ a.next = x.next /\ a.eof_idx = x.eof_idx
  <2>1. cs \in SUBSET DOMAIN x.chunks
    BY <1>5
  <2> HIDE DEF cs
  <2> QED BY <2>1, DiscardKeeps
<1> HIDE DEF a
<1>8. b = a
  BY <1>6 DEF Insert
<1>9. x.next \in Nat
  BY GoodParts
<1>10. CASE first_unacceptable_idx(x) =< new
  <2>1. y = a
    BY <1>2, <1>10
  <2>2. Closed(a, N)
    BY <1>7 DEF Closed
  <2>3. x.next =< a.next /\ Unread(x.output, a.output)
    BY <1>7, <1>9 DEF Unread
  <2> QED BY <1>7, <2>1, <2>2, <2>3 DEF y, data
<1>11. CASE ~(first_unacceptable_idx(x) =< new)
  <2>1. /\ Good(c, N) /\ c.eof_idx = a.eof_idx /\ a.next =< c.next
        /\ Unread(a.output, c.output)
    BY <1>7, <1>8, AssembleKeeps
  <2> HIDE DEF c
  <2>2. c.output.input_ended => c.next = N /\ c.eof_idx # NoEof
    BY <2>1 DEF Good
  <2>3. /\ Good(y, N) /\ Closed(y, N) /\ y.next = c.next
        /\ Unread(c.output, y.output) /\ y.eof_idx = c.eof_idx
    BY <1>1, <1>2, <1>11, <2>1, <2>2, NoteEofKeeps
  <2>4. Unread(x.output, y.output)
    BY <1>7, <2>1, <2>3 DEF Unread
  <2> QED BY <1>7, <2>1, <2>3, <2>4 DEF y, data
<1> QED BY <1>10, <1>11

\* The peer's application writes on: until its end is known the stream may grow.
LEMMA GoodGrows ==
    ASSUME NEW x, NEW N \in Nat, Good(x, N), x.eof_idx = NoEof, NEW M \in Nat, N =< M
    PROVE  Good(x, M) /\ Closed(x, M)
<1>1. /\ x \in ReassemblerSet(N) /\ x.chunks \in ChunkMaps(N) /\ Chunked(x.chunks, N)
      /\ x.next \in 0..N
  BY GoodParts DEF Good, ReassemblerSet
<1>2. 0..N \subseteq 0..M
  OBVIOUS
<1>3. x.chunks \in ChunkMaps(M)
  BY <1>1, <1>2 DEF ChunkMaps
<1>4. x \in ReassemblerSet(M)
  BY <1>1, <1>2, <1>3 DEF ReassemblerSet
<1>5. \A c \in DOMAIN x.chunks : ChunkEnd(x.chunks, c) \in Nat /\ ChunkEnd(x.chunks, c) =< N
                                 /\ c \in Nat
  BY <1>1, PieceEnds
<1>6. Chunked(x.chunks, M)
  BY <1>1, <1>5 DEF Chunked
<1>7. Held(x.chunks, M) = Held(x.chunks, N)
  <2>1. \A i \in 0..M : \A c \in DOMAIN x.chunks : Holds(x.chunks, c, i) => i \in 0..N
    BY <1>5 DEF Holds
  <2> QED BY <1>2, <2>1 DEF Held, HeldIn
<1>8. ~x.output.input_ended
  BY DEF Good
<1> QED BY <1>4, <1>6, <1>7, <1>8 DEF Good, Closed
-----------------------------------------------------------------------------
(* A connection and the segments between it and its peer.                   *)

Stores == UNION {[cs -> Bytes] : cs \in SUBSET Nat}

ReceiverSet ==
    [isn : Int, fin_received : BOOLEAN,
     reassembler : [chunks : Stores, next : Nat, unassembled_bytes : Nat, eof_idx : Int,
                    output : StreamSet]]

ConnectionSet ==
    [sender : SenderSet, receiver : ReceiverSet, segments_out : Seq(SegmentSet),
     linger : BOOLEAN, active : BOOLEAN, time_since_last_segment_received : Nat]

\* How many sequence numbers a receiver has taken, SYN and FIN included.
TakenBy(rcv) ==
    IF rcv.isn = None THEN 0
    ELSE 1 + inbound(rcv).bytes_written + (IF inbound(rcv).input_ended THEN 1 ELSE 0)

\* A segment that takes no sequence numbers.
Blank(seg) == ~seg.syn /\ ~seg.fin /\ seg.payload = << >>

\* The segment is the SYN or a part of the stream that s has sent.
CarriesPart(seg, s) ==
    \E p \in Nat :
        /\ seg.seqno = wrap(p, s.isn) /\ s.syn_sent
        /\ \/ seg.syn /\ p = 0 /\ ~seg.fin /\ seg.payload = << >>
           \/ /\ ~seg.syn /\ p > 0
              /\ seg.payload = Excerpt(p - 1, Len(seg.payload))
              /\ p - 1 + Len(seg.payload) =< s.stream.bytes_read
              /\ seg.fin => s.fin_sent /\ p - 1 + Len(seg.payload) = s.stream.bytes_read

\* A segment as the sender queues it, before the receiver stamps it.
Queued(seg, s) ==
    /\ seg \in SegmentSet /\ ~seg.ack
    /\ Blank(seg) \/ CarriesPart(seg, s)

\* A segment on its way from connection c to the peer, whose ISN is j.
Sound(seg, c, j) ==
    /\ seg \in SegmentSet
    /\ seg.rst \/ Blank(seg) \/ CarriesPart(seg, c.sender)
    /\ seg.ack => \E a \in 0..TakenBy(c.receiver) : seg.ackno = wrap(a, j)

\* From s to u a sender goes on with the same stream.
Ahead(s, u) ==
    /\ u.isn = s.isn
    /\ s.stream.bytes_read =< u.stream.bytes_read
    /\ s.syn_sent => u.syn_sent
    /\ s.fin_sent => u.fin_sent /\ u.stream.bytes_read = s.stream.bytes_read

-----------------------------------------------------------------------------
(* A sender and its segments.                                               *)

\* Grown is Ahead: after the FIN there is nothing to send.
LEMMA GrownAhead ==
    ASSUME NEW t, NEW u, FillInv(t), FillInv(u), Grown(t, u)
    PROVE  Ahead(t, u)
<1>1. /\ t.stream.bytes_read \in Nat /\ u.stream.bytes_read \in Nat
      /\ t.stream.bytes_written \in Nat /\ u.stream.bytes_written \in Nat
      /\ t.stream.buffer \in Seq(Nat) /\ u.stream.buffer \in Seq(Nat)
  BY DEF FillInv, SenderSet, StreamSet
<1>2. Len(u.stream.buffer) \in Nat /\ Len(t.stream.buffer) \in Nat
  BY <1>1
<1>3. /\ t.stream.bytes_written = t.stream.bytes_read + Len(t.stream.buffer)
      /\ u.stream.bytes_written = u.stream.bytes_read + Len(u.stream.buffer)
      /\ t.fin_sent => t.stream.buffer = << >>
  BY DEF FillInv, Buffers, Accounts
<1>4. t.fin_sent => Len(t.stream.buffer) = 0
  BY <1>3
<1> QED BY <1>1, <1>2, <1>3, <1>4 DEF Grown, Ahead

\* Ahead is reflexive and transitive.
LEMMA AheadChains ==
    ASSUME NEW s, NEW t, NEW u, s.stream.bytes_read \in Nat, t.stream.bytes_read \in Nat,
           u.stream.bytes_read \in Nat, Ahead(s, t), Ahead(t, u)
    PROVE  Ahead(s, u) /\ Ahead(s, s)
BY DEF Ahead

\* What is sent stays a part of the stream.
LEMMA PartStays ==
    ASSUME NEW seg \in SegmentSet, NEW s, NEW u, s.stream.bytes_read \in Nat,
           u.stream.bytes_read \in Nat, Ahead(s, u), CarriesPart(seg, s)
    PROVE  CarriesPart(seg, u)
<1>1. Len(seg.payload) \in Nat
  BY DEF SegmentSet
<1>2. PICK p \in Nat :
        /\ seg.seqno = wrap(p, s.isn) /\ s.syn_sent
        /\ \/ seg.syn /\ p = 0 /\ ~seg.fin /\ seg.payload = << >>
           \/ /\ ~seg.syn /\ p > 0
              /\ seg.payload = Excerpt(p - 1, Len(seg.payload))
              /\ p - 1 + Len(seg.payload) =< s.stream.bytes_read
              /\ seg.fin => s.fin_sent /\ p - 1 + Len(seg.payload) = s.stream.bytes_read
  BY DEF CarriesPart
<1>3. /\ seg.seqno = wrap(p, u.isn) /\ u.syn_sent
      /\ \/ seg.syn /\ p = 0 /\ ~seg.fin /\ seg.payload = << >>
         \/ /\ ~seg.syn /\ p > 0
            /\ seg.payload = Excerpt(p - 1, Len(seg.payload))
            /\ p - 1 + Len(seg.payload) =< u.stream.bytes_read
            /\ seg.fin => u.fin_sent /\ p - 1 + Len(seg.payload) = u.stream.bytes_read
  BY <1>1, <1>2 DEF Ahead
<1> QED BY <1>3 DEF CarriesPart

\* An outstanding segment can be queued.
LEMMA OutstandingQueued ==
    ASSUME NEW t, FillInv(t), NEW p \in DOMAIN t.outstanding
    PROVE  Queued(t.outstanding[p], t)
<1> DEFINE seg == t.outstanding[p]
           n == Len(seg.payload)
           N == t.stream.bytes_read
<1>1. PICK D \in SUBSET Nat : t.outstanding \in [D -> SegmentSet]
  BY DEF FillInv, SenderSet, Tracked
<1>2. p \in Nat /\ seg \in SegmentSet
  BY <1>1
<1>3. seg.payload \in Seq(Nat) /\ n \in Nat
  BY <1>2 DEF SegmentSet
<1>4. /\ t.next_seqno \in Nat /\ N \in Nat /\ t.syn_sent \in BOOLEAN /\ t.fin_sent \in BOOLEAN
      /\ t.ackno \in Nat
  BY DEF FillInv, SenderSet, StreamSet
<1>5. /\ seg.seqno = wrap(p, t.isn)
      /\ seg.syn <=> p = 0
      /\ seg.fin <=> (t.fin_sent /\ SegEnd(t, p) = t.next_seqno)
      /\ \A k \in 1..n : seg.payload[k] = p + k - 2
      /\ seg.syn => n = 0 /\ ~seg.fin
      /\ ~seg.ack
  BY DEF FillInv, Carries
<1>6. p < SegEnd(t, p) /\ SegEnd(t, p) =< t.next_seqno
  BY DEF FillInv, Covers
<1>7. /\ t.next_seqno = (IF t.syn_sent THEN 1 ELSE 0) + N + (IF t.fin_sent THEN 1 ELSE 0)
      /\ ~t.syn_sent => t.next_seqno = 0
  BY DEF FillInv, Accounts
<1>8. SegEnd(t, p) = p + (n + (IF seg.syn THEN 1 ELSE 0) + (IF seg.fin THEN 1 ELSE 0))
  BY DEF SegEnd, length_in_sequence_space
<1>9. seg.payload = [k \in 1..n |-> seg.payload[k]] /\ (n = 0 => seg.payload = << >>)
  BY <1>3
<1> HIDE DEF seg, n, N
<1>10. CASE seg.syn
  <2>1. p = 0 /\ ~seg.fin /\ seg.payload = << >>
    BY <1>5, <1>9, <1>10
  <2>2. t.syn_sent
    BY <1>2, <1>3, <1>4, <1>6, <1>7, <1>8
  <2> QED BY <2>1, <2>2, <1>2, <1>5, <1>10 DEF CarriesPart, Queued, seg
<1>11. CASE ~seg.syn
  <2>1. p > 0 /\ t.syn_sent
    BY <1>2, <1>3, <1>4, <1>5, <1>6, <1>7, <1>8, <1>11
  <2>2. seg.payload = Excerpt(p - 1, n)
    <3>1. \A k \in 1..n : seg.payload[k] = p - 1 + k - 1
      BY <1>5, <1>2, <1>3
    <3> QED BY <3>1, <1>9 DEF Excerpt
  <2>3. /\ p - 1 + n =< N
        /\ seg.fin => t.fin_sent /\ p - 1 + n = N
    <3>1. t.next_seqno = 1 + N + (IF t.fin_sent THEN 1 ELSE 0)
      BY <2>1, <1>7, <1>4
    <3>2. CASE seg.fin
      <4>1. SegEnd(t, p) = p + n + 1 /\ SegEnd(t, p) = t.next_seqno /\ t.fin_sent
        BY <3>2, <1>5, <1>8, <1>11, <1>2, <1>3
      <4> QED BY SMTT(30), <3>1, <4>1, <1>2, <1>3, <1>4
    <3>3. CASE ~seg.fin
      <4>1. SegEnd(t, p) = p + n /\ (t.fin_sent => SegEnd(t, p) # t.next_seqno)
        BY <3>3, <1>5, <1>8, <1>11, <1>2, <1>3
      <4> QED BY <3>1, <3>3, <4>1, <1>2, <1>3, <1>4, <1>6
    <3> QED BY <3>2, <3>3
  <2> QED BY <2>1, <2>2, <2>3, <1>2, <1>5, <1>11 DEF CarriesPart, Queued, seg, n, N
<1> QED BY <1>10, <1>11

\* What a sender queues while it goes on can be queued.
LEMMA QueueStays ==
    ASSUME NEW t, NEW u, FillInv(t), FillInv(u), Grown(t, u),
           \A seg \in Range(t.segments_out) : Queued(seg, t)
    PROVE  \A seg \in Range(u.segments_out) : Queued(seg, u)
<1>1. Ahead(t, u) /\ t.stream.bytes_read \in Nat /\ u.stream.bytes_read \in Nat
  BY GrownAhead DEF FillInv, SenderSet, StreamSet
<1> SUFFICES ASSUME NEW seg \in Range(u.segments_out) PROVE Queued(seg, u)
  OBVIOUS
<1>2. CASE seg \in Range(t.segments_out)
  BY <1>1, <1>2, PartStays DEF Queued
<1>3. CASE seg \in Range(u.outstanding)
  <2>1. PICK p \in DOMAIN u.outstanding : seg = u.outstanding[p]
    BY <1>3 DEF Range
  <2> QED BY <2>1, OutstandingQueued
<1> QED BY <1>2, <1>3 DEF Grown

\* Nothing is outstanding exactly when everything sent is acknowledged.
LEMMA SettledIsAcked ==
    ASSUME NEW t, FillInv(t)
    PROVE  Settled(t) <=> t.ackno = t.next_seqno
<1>1. t.ackno \in Nat /\ t.next_seqno \in Nat /\ t.ackno =< t.next_seqno
  BY DEF FillInv, SenderSet, Covers
<1>2. CASE t.ackno = t.next_seqno
  <2>1. ASSUME NEW p \in DOMAIN t.outstanding PROVE FALSE
    <3>1. t.ackno < SegEnd(t, p) /\ SegEnd(t, p) =< t.next_seqno
      BY DEF FillInv, Covers
    <3>2. PICK D \in SUBSET Nat : t.outstanding \in [D -> SegmentSet]
      BY DEF FillInv, SenderSet, Tracked
    <3>3. p \in Nat /\ length_in_sequence_space(t.outstanding[p]) \in Nat
      BY <3>2, LengthType
    <3>4. SegEnd(t, p) \in Nat
      BY <3>3 DEF SegEnd
    <3> QED BY <3>1, <3>4, <1>1, <1>2
  <2> QED BY <2>1, <1>2 DEF Settled
<1>3. CASE t.ackno < t.next_seqno
  <2>1. \E p \in DOMAIN t.outstanding : p =< t.ackno /\ t.ackno < SegEnd(t, p)
    BY <1>1, <1>3 DEF FillInv, Covers
  <2> QED BY <2>1, <1>3, <1>1 DEF Settled
<1> QED BY <1>1, <1>2, <1>3

-----------------------------------------------------------------------------
(* A connection.                                                            *)

\* A stream that the sequence numbers tell apart (StreamAssumption).
Short(n) == n \in Nat /\ n + 2 < Half /\ n + 2 + Mod32 < Mod64

\* The sending half of connection u, whose application has written at most n bytes.
Sends(u, n) ==
    /\ u \in ConnectionSet
    /\ FillInv(u.sender)
    /\ u.sender.isn \in 0..(Mod32 - 1)
    /\ u.sender.timer_running <=> ~Settled(u.sender)
    /\ \A seg \in Range(u.sender.segments_out) : Queued(seg, u.sender)
    /\ u.active => ~u.sender.stream.error
    /\ u.sender.stream.bytes_written =< n

\* The receiving half of connection u, fed by the sender s.
Hears(u, s) ==
    LET rcv == u.receiver
        o   == inbound(rcv)
        N   == s.stream.bytes_read
    IN  /\ rcv \in ReceiverSet
        /\ rcv.isn \in {None, s.isn}
        /\ rcv.isn # None => s.syn_sent
        /\ o.bytes_written =< N
        /\ o.input_ended => /\ s.fin_sent /\ o.bytes_written = N
                            /\ rcv.fin_received /\ rcv.isn # None
        /\ rcv.reassembler.eof_idx # NoEof => s.fin_sent /\ rcv.fin_received
        /\ Len(o.buffer) =< o.capacity
        /\ u.active => Good(rcv.reassembler, N) /\ Closed(rcv.reassembler, N)

\* Connection u, whose peer is d, between two steps and within one.
Fine(u, d, n) ==
    /\ Sends(u, n) /\ Hears(u, d.sender)
    /\ u.sender.ackno =< TakenBy(d.receiver)
    /\ \A seg \in Range(u.segments_out) : Sound(seg, u, d.sender.isn)

\* From u to v a connection goes forward.
Onward(u, v) ==
    /\ Ahead(u.sender, v.sender)
    /\ u.sender.ackno =< v.sender.ackno
    /\ TakenBy(u.receiver) =< TakenBy(v.receiver)
    /\ FilledUp(u.sender) => FilledUp(v.sender)

\* From u to v the outbound stream is what it was, for the application.
SameSource(u, v) ==
    /\ v.sender.stream.bytes_written = u.sender.stream.bytes_written
    /\ v.sender.stream.input_ended = u.sender.stream.input_ended
    /\ v.sender.stream.error = u.sender.stream.error

\* The segment says what connection u has taken so far.
Fresh(seg, u, j) ==
    \/ seg.rst
    \/ u.receiver.isn # None =>
          seg.ack /\ seg.ackno = wrap(AbsoluteAckno(u.receiver), j)

\* A receiver has taken a natural number of sequence numbers.
LEMMA TakenType ==
    ASSUME NEW rcv \in ReceiverSet
    PROVE  TakenBy(rcv) \in Nat
<1>1. inbound(rcv).bytes_written \in Nat
  BY DEF ReceiverSet, StreamSet, inbound
<1> DEFINE w == inbound(rcv).bytes_written
           b == IF inbound(rcv).input_ended THEN 1 ELSE 0
<1>2. w \in Nat /\ b \in Nat
  BY <1>1
<1>3. TakenBy(rcv) = IF rcv.isn = None THEN 0 ELSE 1 + w + b
  BY DEF TakenBy
<1> HIDE DEF w, b
<1> QED BY <1>2, <1>3

\* Elements of sequences that are joined or taken apart.
LEMMA Ranges ==
    ASSUME NEW S, NEW a \in Seq(S), NEW b \in Seq(S)
    PROVE  Range(a \o b) = Range(a) \cup Range(b) /\ Range(a) \subseteq S
<1>1. /\ Len(a) \in Nat /\ Len(b) \in Nat
      /\ DOMAIN a = 1..Len(a) /\ DOMAIN b = 1..Len(b) /\ DOMAIN (a \o b) = 1..(Len(a) + Len(b))
      /\ \A k \in 1..Len(a) : (a \o b)[k] = a[k] /\ a[k] \in S
      /\ \A k \in 1..Len(b) : (a \o b)[Len(a) + k] = b[k]
  OBVIOUS
<1>2. ASSUME NEW x \in Range(a \o b) PROVE x \in Range(a) \cup Range(b)
  <2>1. PICK k \in 1..(Len(a) + Len(b)) : x = (a \o b)[k]
    BY <1>1 DEF Range
  <2>2. CASE k =< Len(a)
    BY <1>1, <2>1, <2>2 DEF Range
  <2>3. CASE k > Len(a)
    <3>1. k - Len(a) \in 1..Len(b) /\ Len(a) + (k - Len(a)) = k
      BY <1>1, <2>3
    <3>2. x = b[k - Len(a)]
      BY <1>1, <2>1, <3>1
    <3> QED BY <1>1, <3>1, <3>2 DEF Range
  <2> QED BY <1>1, <2>2, <2>3
<1>3. ASSUME NEW x \in Range(a) PROVE x \in Range(a \o b) /\ x \in S
  <2>1. PICK k \in 1..Len(a) : x = a[k]
    BY <1>1 DEF Range
  <2>2. k \in 1..(Len(a) + Len(b))
    BY <1>1
  <2> QED BY <1>1, <2>1, <2>2 DEF Range
<1>4. ASSUME NEW x \in Range(b) PROVE x \in Range(a \o b)
  <2>1. PICK k \in 1..Len(b) : x = b[k]
    BY <1>1 DEF Range
  <2>2. Len(a) + k \in 1..(Len(a) + Len(b))
    BY <1>1
  <2> QED BY <1>1, <2>1, <2>2 DEF Range
<1> QED BY <1>2, <1>3, <1>4

\* An element more at the end, and one less at the front.
LEMMA RangeEnds ==
    ASSUME NEW S, NEW a \in Seq(S), NEW x \in S
    PROVE  /\ Append(a, x) \in Seq(S) /\ Append(a, x) # << >>
           /\ Range(Append(a, x)) = Range(a) \cup {x}
           /\ a # << >> => /\ Head(a) \in Range(a) /\ Head(a) \in S
                           /\ Tail(a) \in Seq(S) /\ Range(Tail(a)) \subseteq Range(a)
<1>1. /\ Len(a) \in Nat /\ DOMAIN a = 1..Len(a) /\ \A k \in 1..Len(a) : a[k] \in S
      /\ DOMAIN Append(a, x) = 1..(Len(a) + 1) /\ Append(a, x) \in Seq(S)
      /\ \A k \in 1..Len(a) : Append(a, x)[k] = a[k]
      /\ Append(a, x)[Len(a) + 1] = x /\ Len(Append(a, x)) = Len(a) + 1
  OBVIOUS
<1>2. Range(Append(a, x)) = Range(a) \cup {x}
  <2>1. ASSUME NEW y \in Range(Append(a, x)) PROVE y \in Range(a) \cup {x}
    <3>1. PICK k \in 1..(Len(a) + 1) : y = Append(a, x)[k]
      BY <1>1 DEF Range
    <3>2. k \in 1..Len(a) \/ k = Len(a) + 1
      BY <1>1
    <3> QED BY <1>1, <3>1, <3>2 DEF Range
  <2>2. ASSUME NEW y \in Range(a) PROVE y \in Range(Append(a, x))
    <3>1. PICK k \in 1..Len(a) : y = a[k]
      BY <1>1 DEF Range
    <3>2. k \in 1..(Len(a) + 1)
      BY <1>1
    <3> QED BY <1>1, <3>1, <3>2 DEF Range
  <2>3. x \in Range(Append(a, x))
    BY <1>1 DEF Range
  <2> QED BY <2>1, <2>2, <2>3
<1>3. ASSUME a # << >>
      PROVE  /\ Head(a) \in Range(a) /\ Head(a) \in S
             /\ Tail(a) \in Seq(S) /\ Range(Tail(a)) \subseteq Range(a)
  <2>1. /\ Len(a) > 0 /\ Head(a) = a[1] /\ Tail(a) \in Seq(S) /\ Len(Tail(a)) = Len(a) - 1
        /\ DOMAIN Tail(a) = 1..(Len(a) - 1)
        /\ \A k \in 1..(Len(a) - 1) : Tail(a)[k] = a[k + 1]
    BY <1>3, <1>1
  <2>2. ASSUME NEW y \in Range(Tail(a)) PROVE y \in Range(a)
    <3>1. PICK k \in 1..(Len(a) - 1) : y = Tail(a)[k]
      BY <2>1 DEF Range
    <3>2. k + 1 \in 1..Len(a) /\ y = a[k + 1]
      BY <1>1, <2>1, <3>1
    <3> QED BY <1>1, <3>2 DEF Range
  <2>3. 1 \in 1..Len(a)
    BY <1>1, <2>1
  <2> QED BY <1>1, <2>1, <2>2, <2>3 DEF Range
<1>4. Append(a, x) # << >>
  BY <1>1
<1> QED BY <1>1, <1>2, <1>3, <1>4

\* A segment stays sound while the connection that sent it goes on.
LEMMA SoundStays ==
    ASSUME NEW seg, NEW u, NEW v, NEW j, Sound(seg, u, j), Ahead(u.sender, v.sender),
           u.sender.stream.bytes_read \in Nat, v.sender.stream.bytes_read \in Nat,
           u.receiver \in ReceiverSet, v.receiver \in ReceiverSet,
           TakenBy(u.receiver) =< TakenBy(v.receiver)
    PROVE  Sound(seg, v, j)
<1>1. TakenBy(u.receiver) \in Nat /\ TakenBy(v.receiver) \in Nat
  BY TakenType
<1>2. seg \in SegmentSet
  BY DEF Sound
<1>3. CarriesPart(seg, u.sender) => CarriesPart(seg, v.sender)
  BY <1>2, PartStays
<1>4. ASSUME seg.ack PROVE \E a \in 0..TakenBy(v.receiver) : seg.ackno = wrap(a, j)
  <2>1. PICK a \in 0..TakenBy(u.receiver) : seg.ackno = wrap(a, j)
    BY <1>4 DEF Sound
  <2>2. a \in 0..TakenBy(v.receiver)
    BY <1>1
  <2> QED BY <2>1, <2>2
<1> QED BY <1>2, <1>3, <1>4 DEF Sound

\* A connection whose sender goes on.
LEMMA SenderMoves ==
    ASSUME NEW u, NEW d, NEW n \in Nat, Fine(u, d, n),
           NEW s, FillInv(s), Ahead(u.sender, s), s.timer_running <=> ~Settled(s),
           \A seg \in Range(s.segments_out) : Queued(seg, s),
           s.ackno =< TakenBy(d.receiver), s.stream.bytes_written =< n,
           s.stream.error = u.sender.stream.error
    PROVE  LET v == [u EXCEPT !.sender = s]
           IN  /\ Fine(v, d, n) /\ v.sender = s /\ v.receiver = u.receiver
               /\ v.active = u.active /\ v.linger = u.linger /\ v.segments_out = u.segments_out
               /\ Ahead(u.sender, v.sender) /\ TakenBy(u.receiver) =< TakenBy(v.receiver)
<1> DEFINE v == [u EXCEPT !.sender = s]
<1>1. u \in ConnectionSet /\ s \in SenderSet /\ u.sender \in SenderSet
  BY DEF Fine, Sends, FillInv
<1>2. /\ v \in ConnectionSet /\ v.sender = s /\ v.receiver = u.receiver
      /\ v.active = u.active /\ v.linger = u.linger /\ v.segments_out = u.segments_out
  BY <1>1 DEF ConnectionSet
<1> HIDE DEF v
<1>3. /\ u.sender.stream.bytes_read \in Nat /\ s.stream.bytes_read \in Nat
      /\ u.receiver \in ReceiverSet /\ TakenBy(u.receiver) \in Nat
  BY <1>1, TakenType DEF SenderSet, StreamSet, ConnectionSet
<1>4. Sends(v, n)
  <2>1. s.isn \in 0..(Mod32 - 1)
    BY DEF Ahead, Fine, Sends
  <2> QED BY <1>2, <2>1 DEF Fine, Sends
<1>5. Hears(v, d.sender)
  BY <1>2 DEF Fine, Hears
<1>6. \A seg \in Range(v.segments_out) : Sound(seg, v, d.sender.isn)
  BY <1>2, <1>3, SoundStays DEF Fine
<1> QED BY <1>2, <1>3, <1>4, <1>5, <1>6 DEF Fine, v

\* A sender with another queue.
LEMMA QueueMoves ==
    ASSUME NEW s, FillInv(s), NEW q \in Seq(SegmentSet),
           \A seg \in Range(q) : Queued(seg, s)
    PROVE  LET t == [s EXCEPT !.segments_out = q]
           IN  /\ FillInv(t) /\ Ahead(s, t) /\ (Settled(t) <=> Settled(s))
               /\ \A seg \in Range(t.segments_out) : Queued(seg, t)
               /\ FilledUp(s) => FilledUp(t)
               /\ t.segments_out = q /\ t.stream = s.stream /\ t.ackno = s.ackno
               /\ t.next_seqno = s.next_seqno /\ t.isn = s.isn
               /\ t.outstanding = s.outstanding
               /\ t.syn_sent = s.syn_sent /\ t.fin_sent = s.fin_sent
               /\ t.timer_running = s.timer_running /\ t.window_size = s.window_size
<1> DEFINE t == [s EXCEPT !.segments_out = q]
<1>1. s \in SenderSet /\ Accounts(s) /\ Buffers(s)
  BY DEF FillInv
<1>2. /\ t \in SenderSet
      /\ t.segments_out = q /\ t.stream = s.stream /\ t.ackno = s.ackno
      /\ t.next_seqno = s.next_seqno /\ t.isn = s.isn
      /\ t.outstanding = s.outstanding
      /\ t.syn_sent = s.syn_sent /\ t.fin_sent = s.fin_sent
      /\ t.timer_running = s.timer_running /\ t.window_size = s.window_size
  BY <1>1 DEF SenderSet
<1> HIDE DEF t
<1>3. Accounts(t) /\ Buffers(t)
  BY <1>1, <1>2 DEF Accounts, Buffers
<1>4. FillInv(t) /\ (Settled(t) <=> Settled(s))
  BY <1>2, <1>3, FrameStep
<1>5. s.stream.bytes_read \in Nat
  BY <1>1 DEF SenderSet, StreamSet
<1>6. Ahead(s, t)
  BY <1>2, <1>5 DEF Ahead
<1>7. \A seg \in Range(q) : Queued(seg, t)
  BY <1>2, <1>5, <1>6, PartStays DEF Queued
<1>8. FilledUp(s) => FilledUp(t)
  BY <1>2 DEF FilledUp, WindowRight
<1> QED BY <1>2, <1>4, <1>6, <1>7, <1>8 DEF t

\* A queued segment is sound once it is stamped.
LEMMA StampedSound ==
    ASSUME NEW u, NEW d, NEW n \in Nat, Fine(u, d, n), d.sender.isn \in 0..(Mod32 - 1),
           NEW seg, Queued(seg, u.sender)
    PROVE  LET out == Stamped(u, seg)
           IN  /\ out \in SegmentSet /\ Sound(out, u, d.sender.isn)
               /\ out.seqno = seg.seqno /\ out.syn = seg.syn /\ out.fin = seg.fin
               /\ out.payload = seg.payload
               /\ u.receiver.isn # None =>
                     out.ack /\ out.ackno = wrap(AbsoluteAckno(u.receiver), d.sender.isn)
<1> DEFINE rcv == u.receiver
           o == inbound(rcv)
           a == AbsoluteAckno(rcv)
           j == d.sender.isn
           w == Lesser(window_size(rcv), MaxWin)
           out == Stamped(u, seg)
<1>1. /\ rcv \in ReceiverSet /\ rcv.isn \in {None, j} /\ Len(o.buffer) =< o.capacity
  BY DEF Fine, Hears
<1>2. /\ o.buffer \in Seq(Nat) /\ o.capacity \in Nat /\ o.bytes_written \in Nat
      /\ TakenBy(rcv) \in Nat /\ rcv.fin_received \in BOOLEAN /\ o.input_ended \in BOOLEAN
  BY <1>1, TakenType DEF ReceiverSet, StreamSet, inbound, Bytes
<1>3. w \in Nat
  <2>1. Len(o.buffer) \in Nat /\ MaxWin \in Nat
    BY <1>2, ConnectionAssumption
  <2>2. window_size(rcv) \in Nat
    BY <2>1, <1>1, <1>2 DEF window_size, remaining_capacity
  <2> QED BY <2>1, <2>2 DEF Lesser
<1>4. a \in Nat /\ (rcv.isn # None => a =< TakenBy(rcv))
  BY <1>2 DEF AbsoluteAckno, TakenBy
<1>5. wrap(a, j) \in Nat
  BY <1>4, WidthAssumption DEF wrap
<1>6. seg \in SegmentSet
  BY DEF Queued
<1>7. ackno(rcv) = IF rcv.isn = None THEN None ELSE wrap(a, j)
  BY <1>1 DEF ackno
<1>8. (ackno(rcv) = None) <=> (rcv.isn = None)
  BY <1>5, <1>7 DEF None
<1> DEFINE opened == [seg EXCEPT !.win = w]
<1>9. /\ opened \in SegmentSet /\ opened.seqno = seg.seqno /\ opened.syn = seg.syn
      /\ opened.fin = seg.fin /\ opened.payload = seg.payload /\ opened.ack = seg.ack
  BY <1>3, <1>6 DEF SegmentSet
<1>10. out = IF rcv.isn = None THEN opened
             ELSE [opened EXCEPT !.ack = TRUE, !.ackno = wrap(a, j)]
  BY <1>7, <1>8 DEF Stamped
<1> HIDE DEF opened, w
<1>11. /\ out \in SegmentSet /\ out.seqno = seg.seqno /\ out.syn = seg.syn /\ out.fin = seg.fin
       /\ out.payload = seg.payload
       /\ rcv.isn # None => out.ack /\ out.ackno = wrap(a, j)
       /\ rcv.isn = None => ~out.ack
  <2>1. CASE rcv.isn = None
    BY <1>9, <1>10, <2>1 DEF Queued
  <2>2. CASE rcv.isn # None
    BY <1>5, <1>9, <1>10, <2>2 DEF SegmentSet
  <2> QED BY <2>1, <2>2
<1> HIDE DEF out
<1>12. Blank(out) \/ CarriesPart(out, u.sender)
  BY <1>11 DEF Queued, Blank, CarriesPart
<1>13. out.ack => \E b \in 0..TakenBy(rcv) : out.ackno = wrap(b, j)
  BY <1>2, <1>4, <1>11
<1> QED BY <1>11, <1>12, <1>13 DEF Sound, out

\* push_segments_out sends the sender's queue.
LEMMA PushOut ==
    ASSUME NEW u, NEW d, NEW n \in Nat, Fine(u, d, n), d.sender.isn \in 0..(Mod32 - 1)
    PROVE  LET v == push_segments_out(u)
           IN  /\ Fine(v, d, n) /\ Onward(u, v)
               /\ v.sender.stream = u.sender.stream /\ v.receiver = u.receiver
               /\ v.sender.outstanding = u.sender.outstanding
               /\ v.sender.next_seqno = u.sender.next_seqno /\ v.sender.ackno = u.sender.ackno
               /\ v.sender.fin_sent = u.sender.fin_sent
               /\ v.active = u.active /\ v.linger = u.linger
               /\ \A seg \in Range(v.segments_out) :
                     seg \in Range(u.segments_out) \/ Fresh(seg, v, d.sender.isn)
<1> DEFINE queued == u.sender.segments_out
           t == [u.sender EXCEPT !.segments_out = << >>]
           out == [k \in DOMAIN queued |-> Stamped(u, queued[k])]
           v == push_segments_out(u)
<1>1. /\ FillInv(u.sender) /\ u.sender \in SenderSet /\ u \in ConnectionSet
      /\ \A seg \in Range(queued) : Queued(seg, u.sender)
      /\ u.sender.timer_running <=> ~Settled(u.sender)
      /\ u.sender.ackno =< TakenBy(d.receiver)
      /\ u.sender.stream.bytes_written =< n
  BY DEF Fine, Sends, FillInv
<1>2. Range(<< >>) = {} /\ << >> \in Seq(SegmentSet)
  BY DEF Range
<1>3. /\ FillInv(t) /\ Ahead(u.sender, t) /\ (Settled(t) <=> Settled(u.sender))
      /\ \A seg \in Range(t.segments_out) : Queued(seg, t)
      /\ FilledUp(u.sender) => FilledUp(t)
      /\ t.segments_out = << >> /\ t.stream = u.sender.stream /\ t.ackno = u.sender.ackno
      /\ t.next_seqno = u.sender.next_seqno /\ t.outstanding = u.sender.outstanding
      /\ t.fin_sent = u.sender.fin_sent
      /\ t.timer_running = u.sender.timer_running
  BY <1>1, <1>2, QueueMoves
<1>4. queued \in Seq(SegmentSet)
  BY <1>1 DEF SenderSet
<1> HIDE DEF t, queued
<1>5. \A k \in DOMAIN queued : queued[k] \in Range(queued) /\ Queued(queued[k], u.sender)
  BY <1>1 DEF Range
<1>6. \A k \in DOMAIN queued :
          /\ Stamped(u, queued[k]) \in SegmentSet /\ Sound(Stamped(u, queued[k]), u, d.sender.isn)
          /\ Fresh(Stamped(u, queued[k]), u, d.sender.isn)
  BY <1>5, StampedSound DEF Fresh
<1>7. out \in Seq(SegmentSet)
  <2>1. Len(queued) \in Nat /\ DOMAIN queued = 1..Len(queued)
    BY <1>4
  <2>2. out \in [1..Len(queued) -> SegmentSet]
    BY <1>6, <2>1
  <2> QED BY <2>1, <2>2
<1>8. \A seg \in Range(out) : Sound(seg, u, d.sender.isn)
                              /\ Fresh(seg, u, d.sender.isn)
  BY <1>5, <1>6 DEF Range
<1> DEFINE w == [u EXCEPT !.sender = t]
<1>9. /\ Fine(w, d, n) /\ w.sender = t /\ w.receiver = u.receiver
      /\ w.active = u.active /\ w.linger = u.linger /\ w.segments_out = u.segments_out
      /\ Ahead(u.sender, w.sender) /\ TakenBy(u.receiver) =< TakenBy(w.receiver)
  BY <1>1, <1>3, SenderMoves
<1> HIDE DEF w
<1>10. w \in ConnectionSet /\ u.segments_out \in Seq(SegmentSet)
  BY <1>1, <1>9 DEF Fine, Sends, ConnectionSet
<1>11. v = [w EXCEPT !.segments_out = @ \o out]
  BY <1>1, <1>9 DEF push_segments_out, w, t, queued, ConnectionSet
<1> DEFINE all == u.segments_out \o out
<1>12. all \in Seq(SegmentSet) /\ v = [w EXCEPT !.segments_out = all]
  BY <1>7, <1>9, <1>10, <1>11
<1> HIDE DEF out, v, all
<1>13. /\ v \in ConnectionSet /\ v.sender = t /\ v.receiver = u.receiver
       /\ v.active = u.active /\ v.linger = u.linger /\ v.segments_out = all
  BY <1>9, <1>10, <1>12 DEF ConnectionSet
<1>14. Range(v.segments_out) = Range(u.segments_out) \cup Range(out)
  BY <1>7, <1>10, <1>13, Ranges DEF all
<1>15. \A seg \in Range(v.segments_out) : Sound(seg, v, d.sender.isn)
  <2>1. /\ u.sender.stream.bytes_read \in Nat /\ v.sender.stream.bytes_read \in Nat
        /\ u.receiver \in ReceiverSet /\ v.receiver \in ReceiverSet
        /\ TakenBy(u.receiver) =< TakenBy(v.receiver)
        /\ Ahead(u.sender, v.sender)
    BY <1>1, <1>3, <1>9, <1>13 DEF SenderSet, StreamSet, ConnectionSet
  <2>2. \A seg \in Range(v.segments_out) : Sound(seg, u, d.sender.isn)
    BY <1>8, <1>14 DEF Fine
  <2> QED BY <2>1, <2>2, SoundStays
<1>16. Fine(v, d, n)
  BY <1>9, <1>13, <1>15 DEF Fine, Sends, Hears
<1>17. u.sender.ackno =< v.sender.ackno
  BY <1>1, <1>3, <1>13 DEF SenderSet
<1>18. \A seg \in Range(out) : Fresh(seg, v, d.sender.isn)
  BY <1>8, <1>13 DEF Fresh
<1> QED BY <1>3, <1>9, <1>13, <1>14, <1>16, <1>17, <1>18 DEF Onward, v

-----------------------------------------------------------------------------
(* A segment at the receiver.                                               *)

\* The sender's numbers stay below the bound of StreamAssumption.
LEMMA SentIsShort ==
    ASSUME NEW s, FillInv(s), NEW m, Short(m), s.stream.bytes_written =< m
    PROVE  /\ s.stream.bytes_read \in Nat /\ s.stream.bytes_read =< m
           /\ s.next_seqno \in Nat /\ s.next_seqno =< s.stream.bytes_read + 2
           /\ s.next_seqno < Half /\ s.next_seqno + Mod32 < Mod64
           /\ s.ackno \in Nat /\ s.ackno =< s.next_seqno
<1>1. /\ s.stream.bytes_read \in Nat /\ s.next_seqno \in Nat /\ s.stream.bytes_written \in Nat
      /\ s.stream.buffer \in Seq(Nat) /\ s.ackno \in Nat /\ s.ackno =< s.next_seqno
  BY DEF FillInv, SenderSet, StreamSet, Covers
<1>2. Len(s.stream.buffer) \in Nat
  BY <1>1
<1>3. s.stream.bytes_written = s.stream.bytes_read + Len(s.stream.buffer)
  BY DEF FillInv, Buffers
<1>4. s.next_seqno = (IF s.syn_sent THEN 1 ELSE 0) + s.stream.bytes_read
                     + (IF s.fin_sent THEN 1 ELSE 0)
  BY DEF FillInv, Accounts
<1>5. m \in Nat /\ m + 2 < Half /\ m + 2 + Mod32 < Mod64
      /\ Half \in Nat /\ Mod32 \in Nat /\ Mod64 \in Nat
  BY HalfIsHalf, WidthAssumption DEF Short
<1>6. s.next_seqno =< s.stream.bytes_read + 2
  BY <1>1, <1>4
<1>7. s.stream.bytes_read =< m
  BY <1>1, <1>2, <1>3, <1>5
<1> QED BY <1>1, <1>5, <1>6, <1>7

\* A good reassembler has the type of a receiver's.
LEMMA GoodIsStored ==
    ASSUME NEW x, NEW N \in Nat, Good(x, N)
    PROVE  /\ x \in [chunks : Stores, next : Nat, unassembled_bytes : Nat, eof_idx : Int,
                     output : StreamSet]
           /\ x.next \in 0..N /\ x.output.bytes_written = x.next
           /\ x.output.buffer = Excerpt(x.output.bytes_read, x.next - x.output.bytes_read)
           /\ x.output.bytes_read \in 0..x.next /\ x.output.error = FALSE
           /\ Len(x.output.buffer) =< x.output.capacity
           /\ x.eof_idx \in {NoEof, N} /\ x.output.input_ended \in BOOLEAN
<1>1. x \in ReassemblerSet(N) /\ Delivered(x.output, x.next)
  BY DEF Good
<1>2. x.chunks \in Stores
  <2>1. PICK cs \in SUBSET (0..N) : x.chunks \in [cs -> Bytes]
    BY <1>1 DEF ReassemblerSet, ChunkMaps
  <2>2. cs \in SUBSET Nat
    OBVIOUS
  <2> QED BY <2>1, <2>2 DEF Stores
<1>3. /\ x.next \in 0..N /\ x.unassembled_bytes \in Nat /\ x.eof_idx \in {NoEof, N}
      /\ x.output \in OutputSet
      /\ x = [chunks |-> x.chunks, next |-> x.next, unassembled_bytes |-> x.unassembled_bytes,
              eof_idx |-> x.eof_idx, output |-> x.output]
  BY <1>1 DEF ReassemblerSet
<1>4. x.eof_idx \in Int /\ x.next \in Nat
  BY <1>3 DEF NoEof
<1>5. x.output \in StreamSet /\ x.output.error = FALSE /\ x.output.bytes_read \in Nat
      /\ x.output.input_ended \in BOOLEAN
  BY <1>3 DEF OutputSet, StreamSet, Bytes
<1>6. /\ x.output.bytes_written = x.next /\ x.output.bytes_read =< x.next
      /\ x.output.buffer = Excerpt(x.output.bytes_read, x.next - x.output.bytes_read)
      /\ Len(x.output.buffer) =< x.output.capacity
  BY <1>1 DEF Delivered
<1> QED BY <1>2, <1>3, <1>4, <1>5, <1>6

\* What is written into the output goes to the end of its buffer.
LEMMA OutputGrows ==
    ASSUME NEW x, NEW y, NEW N \in Nat, Good(x, N), Good(y, N), x.next =< y.next,
           Unread(x.output, y.output)
    PROVE  LET k == y.output.bytes_written - x.output.bytes_written
           IN  /\ k \in Nat
               /\ y.output.buffer = x.output.buffer \o Excerpt(x.output.bytes_written, k)
<1> DEFINE b == x.output.bytes_read
           k == y.next - x.next
           l == x.next - b
<1>1. /\ x.next \in 0..N /\ x.output.bytes_written = x.next /\ b \in 0..x.next
      /\ x.output.buffer = Excerpt(b, x.next - b)
      /\ y.next \in 0..N /\ y.output.bytes_written = y.next
      /\ y.output.buffer = Excerpt(y.output.bytes_read, y.next - y.output.bytes_read)
      /\ y.output.bytes_read = b
  BY GoodIsStored DEF Unread
<1>2. b \in Nat /\ k \in Nat /\ l \in Nat /\ b + l = x.next /\ l + k = y.next - b
  BY <1>1
<1> HIDE DEF b, k, l
<1>3. Excerpt(b, l) \o Excerpt(b + l, k) = Excerpt(b, l + k)
  BY <1>2, ExcerptJoin
<1> QED BY <1>1, <1>2, <1>3 DEF k, l

\* The absolute sequence number that the receiver finds is the sender's.
LEMMA AbsoluteIs ==
    ASSUME NEW i \in 0..(Mod32 - 1), NEW m, Short(m), NEW p \in 0..(m + 1), NEW w \in 0..m
    PROVE  unwrap(wrap(p, i), i, w + 1) = p
<1>1. m \in Nat /\ m + 2 < Half /\ m + 2 + Mod32 < Mod64 /\ Half \in Nat
      /\ Mod32 \in Nat /\ Mod64 \in Nat /\ Mod32 = 2 * Half
  BY HalfIsHalf, WidthAssumption DEF Short
<1>2. p \in 0..(Mod64 - 1) /\ w + 1 \in Nat /\ (w + 1) + Mod32 < Mod64
  BY <1>1
<1>3. Distance(p, w + 1) < Half
  BY <1>1 DEF Distance
<1> DEFINE c == w + 1
<1>4. c \in Nat /\ c + Mod32 < Mod64 /\ Distance(p, c) < Half
  BY <1>2, <1>3
<1> HIDE DEF c
<1>5. unwrap(wrap(p, i), i, c) = p
  BY <1>2, <1>4, UnwrapInvertsWrap
<1> QED BY <1>5 DEF c

\* push_substring of a segment's payload at the index that its number gives.
LEMMA SegmentPushed ==
    ASSUME NEW rcv \in ReceiverSet, NEW s, FillInv(s), NEW m, Short(m),
           s.stream.bytes_written =< m, s.isn \in 0..(Mod32 - 1), rcv.isn = s.isn,
           Good(rcv.reassembler, s.stream.bytes_read), Closed(rcv.reassembler, s.stream.bytes_read),
           NEW seg \in SegmentSet, Blank(seg) \/ CarriesPart(seg, s)
    PROVE  LET N == s.stream.bytes_read
               x == rcv.reassembler
               y == push_substring(x, seg.payload, StreamIndex(rcv, seg), seg.fin)
           IN  /\ Good(y, N) /\ Closed(y, N)
               /\ x.next =< y.next /\ Unread(x.output, y.output)
               /\ y.eof_idx # x.eof_idx => seg.fin /\ y.eof_idx = N
               /\ seg.fin => s.fin_sent
<1> DEFINE N == s.stream.bytes_read
           x == rcv.reassembler
           idx == StreamIndex(rcv, seg)
           w == x.output.bytes_written
           y == push_substring(x, seg.payload, idx, seg.fin)
<1>1. N \in Nat /\ N =< m /\ m \in Nat /\ m + 2 + Mod32 < Mod64 /\ Mod32 \in Nat /\ Mod64 \in Nat
  BY SentIsShort, WidthAssumption DEF Short
<1>2. w \in 0..N
  BY <1>1, GoodIsStored
<1>3. seg.fin \in BOOLEAN /\ seg.syn \in BOOLEAN /\ seg.seqno \in Nat /\ seg.payload \in Seq(Nat)
  BY DEF SegmentSet
<1>4. AbsoluteSeqno(rcv, seg) = unwrap(seg.seqno, s.isn, w + 1)
  BY DEF AbsoluteSeqno, inbound
<1> HIDE DEF N, x, w
<1>5. ASSUME Blank(seg)
      PROVE  /\ Good(y, N) /\ Closed(y, N) /\ x.next =< y.next /\ Unread(x.output, y.output)
             /\ y.eof_idx = x.eof_idx /\ ~seg.fin
  <2>1. seg.payload = << >> /\ seg.fin = FALSE
    BY <1>3, <1>5 DEF Blank
  <2>2. idx \in Nat
    <3>1. w + 1 \in Nat /\ s.isn \in Int /\ seg.seqno \in Int
      BY <1>1, <1>2, <1>3
    <3>2. unwrap(seg.seqno, s.isn, w + 1) \in Nat
      BY <3>1, UnwrapType
    <3>3. idx = IF seg.syn THEN unwrap(seg.seqno, s.isn, w + 1)
                ELSE (unwrap(seg.seqno, s.isn, w + 1) - 1) % Mod64
      BY <1>4 DEF StreamIndex
    <3>4. Mod64 > 0
      BY WidthAssumption
    <3> QED BY <1>1, <3>2, <3>3, <3>4
  <2> HIDE DEF idx
  <2>3. Good(x, N) /\ Closed(x, N)
    BY DEF x, N
  <2> QED BY <1>1, <2>1, <2>2, <2>3, EmptyPush
<1>6. ASSUME CarriesPart(seg, s)
      PROVE  /\ Good(y, N) /\ Closed(y, N) /\ x.next =< y.next /\ Unread(x.output, y.output)
             /\ y.eof_idx # x.eof_idx => seg.fin /\ y.eof_idx = N
             /\ seg.fin => s.fin_sent
  <2> DEFINE len == Len(seg.payload)
  <2>1. PICK p \in Nat :
          /\ seg.seqno = wrap(p, s.isn) /\ s.syn_sent
          /\ \/ seg.syn /\ p = 0 /\ ~seg.fin /\ seg.payload = << >>
             \/ /\ ~seg.syn /\ p > 0
                /\ seg.payload = Excerpt(p - 1, len)
                /\ p - 1 + len =< N
                /\ seg.fin => s.fin_sent /\ p - 1 + len = N
    BY <1>6 DEF CarriesPart, N
  <2>2. len \in Nat
    BY <1>3
  <2> HIDE DEF len
  <2>3. p \in 0..(m + 1) /\ w \in 0..m
    BY <2>1, <2>2, <1>1, <1>2
  <2>4. AbsoluteSeqno(rcv, seg) = p
    BY <1>4, <2>1, <2>3, AbsoluteIs
  <2>5. Good(x, N) /\ Closed(x, N)
    BY DEF x, N
  <2>6. CASE seg.syn
    <3>1. idx = 0 /\ seg.payload = << >> /\ seg.fin = FALSE
      BY <2>1, <2>4, <2>6, <1>3 DEF StreamIndex
    <3> HIDE DEF idx
    <3> QED BY <1>1, <2>5, <3>1, EmptyPush
  <2>7. CASE ~seg.syn
    <3>1. /\ p > 0 /\ seg.payload = Excerpt(p - 1, len) /\ p - 1 + len =< N
          /\ seg.fin => s.fin_sent /\ p - 1 + len = N
      BY <2>1, <2>7
    <3>2. idx = (p - 1) % Mod64
      BY <2>4, <2>7 DEF StreamIndex
    <3>3. p - 1 \in 0..(Mod64 - 1)
      BY <3>1, <2>3, <1>1
    <3>4. idx = p - 1
      BY <3>2, <3>3, <1>1
    <3> HIDE DEF idx
    <3>5. idx \in 0..N /\ seg.payload = Excerpt(idx, len) /\ idx + len =< N
          /\ (seg.fin => idx + len = N)
      BY <3>1, <3>4, <2>2, <1>1
    <3> DEFINE fin == seg.fin
    <3>6. fin \in BOOLEAN /\ (fin => idx + len = N)
      BY <3>5, <1>3
    <3>7. y = push_substring(x, Excerpt(idx, len), idx, fin)
      BY <3>5
    <3> HIDE DEF y, fin
    <3>8. /\ Good(y, N) /\ Closed(y, N) /\ x.next =< y.next /\ Unread(x.output, y.output)
          /\ y.eof_idx \in {x.eof_idx, IF fin THEN N ELSE x.eof_idx}
      BY <1>1, <2>2, <2>5, <3>5, <3>6, <3>7, PushKeeps
    <3>9. y.eof_idx # x.eof_idx => seg.fin /\ y.eof_idx = N
      BY <3>8 DEF fin
    <3> QED BY <3>1, <3>8, <3>9
  <2> QED BY <2>6, <2>7
<1> HIDE DEF idx
<1> QED BY <1>5, <1>6 DEF N, x, idx

\* From the output o to p bytes of the stream were added, and the end perhaps.
Arrived(o, p) ==
    /\ p.bytes_written - o.bytes_written \in Nat
    /\ p.buffer = o.buffer \o Excerpt(o.bytes_written, p.bytes_written - o.bytes_written)
    /\ o.input_ended => p.input_ended

\* Nothing arrived.
LEMMA ArrivedNothing ==
    ASSUME NEW o \in StreamSet, NEW p, p.buffer = o.buffer, p.bytes_written = o.bytes_written,
           p.input_ended = o.input_ended
    PROVE  Arrived(o, p)
<1>1. o.buffer \in Seq(Nat) /\ o.bytes_written \in Nat
  BY DEF StreamSet
<1>2. o.bytes_written - o.bytes_written = 0
  BY <1>1
<1>3. Excerpt(o.bytes_written, 0) = << >>
  <2>1. Excerpt(o.bytes_written, 0) \in Bytes /\ Len(Excerpt(o.bytes_written, 0)) = 0
    BY <1>1, ExcerptType
  <2> QED BY <2>1 DEF Bytes
<1>4. o.buffer \o << >> = o.buffer
  BY <1>1
<1>5. p.bytes_written - o.bytes_written = 0
  BY <1>2
<1>6. p.buffer = o.buffer \o Excerpt(o.bytes_written, p.bytes_written - o.bytes_written)
  BY <1>3, <1>4, <1>5
<1>7. p.bytes_written - o.bytes_written \in Nat
  BY <1>5
<1>8. o.input_ended => p.input_ended
  OBVIOUS
<1> QED BY <1>6, <1>7, <1>8 DEF Arrived

\* A closed output stays closed.
LEMMA ClosedStays ==
    ASSUME NEW x, NEW y, NEW N \in Nat, Good(x, N), Closed(x, N), Good(y, N), Closed(y, N),
           x.next =< y.next, y.eof_idx \in {x.eof_idx, N},
           x.output.input_ended
    PROVE  y.output.input_ended
<1>1. x.next = N /\ x.eof_idx # NoEof /\ y.next \in 0..N /\ y.eof_idx \in {NoEof, N}
  BY GoodIsStored DEF Closed
<1>2. y.next = N
  BY <1>1
<1>3. y.eof_idx # NoEof
  BY <1>1 DEF NoEof
<1> QED BY <1>2, <1>3 DEF Closed

\* receiver_segment_received takes what follows of the stream and nothing else.
LEMMA Received ==
    ASSUME NEW u \in ConnectionSet, u.active, NEW s, Hears(u, s), FillInv(s), NEW m, Short(m),
           s.stream.bytes_written =< m, s.isn \in 0..(Mod32 - 1),
           NEW seg \in SegmentSet, Blank(seg) \/ CarriesPart(seg, s)
    PROVE  LET rcv == u.receiver
               new == receiver_segment_received(rcv, seg)
               v   == [u EXCEPT !.receiver = new]
           IN  /\ v \in ConnectionSet /\ Hears(v, s) /\ v.receiver = new
               /\ v.sender = u.sender /\ v.segments_out = u.segments_out
               /\ v.active = u.active /\ v.linger = u.linger
               /\ TakenBy(rcv) =< TakenBy(new)
               /\ Arrived(inbound(rcv), inbound(new))
               /\ new.reassembler.eof_idx # rcv.reassembler.eof_idx => seg.fin
<1> DEFINE rcv == u.receiver
           new == receiver_segment_received(rcv, seg)
           v   == [u EXCEPT !.receiver = new]
           N   == s.stream.bytes_read
           x   == rcv.reassembler
           known == IF rcv.isn = None THEN [rcv EXCEPT !.isn = seg.seqno] ELSE rcv
           y   == push_substring(x, seg.payload, StreamIndex(known, seg), seg.fin)
<1> SUFFICES /\ v \in ConnectionSet /\ Hears(v, s) /\ v.receiver = new
             /\ v.sender = u.sender /\ v.segments_out = u.segments_out
             /\ v.active = u.active /\ v.linger = u.linger
             /\ TakenBy(rcv) =< TakenBy(new)
             /\ Arrived(inbound(rcv), inbound(new))
             /\ new.reassembler.eof_idx # x.eof_idx => seg.fin
  OBVIOUS
<1>1. /\ rcv \in ReceiverSet /\ rcv.isn \in {None, s.isn} /\ (rcv.isn # None => s.syn_sent)
      /\ Good(x, N) /\ Closed(x, N)
      /\ x.eof_idx # NoEof => s.fin_sent /\ rcv.fin_received
  BY DEF Hears
<1>2. N \in Nat /\ N =< m
  BY SentIsShort
<1>3. inbound(rcv) \in StreamSet /\ TakenBy(rcv) \in Nat
  BY <1>1, TakenType DEF inbound, ReceiverSet
<1>4. seg.fin \in BOOLEAN /\ seg.syn \in BOOLEAN
  BY DEF SegmentSet
<1>5. CASE rcv.isn = None /\ ~seg.syn
  <2>1. new = rcv
    BY <1>5 DEF receiver_segment_received
  <2> HIDE DEF new
  <2>2. v = u
    BY <2>1 DEF ConnectionSet
  <2>3. Arrived(inbound(rcv), inbound(rcv))
    BY <1>3, ArrivedNothing
  <2>4. v \in ConnectionSet /\ Hears(v, s)
    BY <2>2
  <2>5. TakenBy(rcv) =< TakenBy(new) /\ Arrived(inbound(rcv), inbound(new))
    BY <1>3, <2>1, <2>3
  <2> HIDE DEF v
  <2> QED BY <2>1, <2>2, <2>4, <2>5
<1>6. CASE ~(rcv.isn = None /\ ~seg.syn)
  <2>1. known \in ReceiverSet /\ known.isn = s.isn /\ known.reassembler = x
        /\ known.fin_received = rcv.fin_received /\ s.syn_sent
    <3>1. CASE rcv.isn = None
      <4>1. CarriesPart(seg, s) /\ seg.syn
        BY <1>6, <3>1 DEF Blank
      <4>2. seg.seqno = wrap(0, s.isn) /\ s.syn_sent
        BY <4>1 DEF CarriesPart
      <4>3. wrap(0, s.isn) = s.isn
        <5>1. Mod32 \in Nat /\ Mod32 > 0
          BY WidthAssumption
        <5>2. (0 + s.isn) % Mod32 = s.isn
          BY <5>1
        <5> QED BY <5>2 DEF wrap
      <4>4. known = [rcv EXCEPT !.isn = s.isn]
        BY <3>1, <4>2, <4>3
      <4>5. s.isn \in Int
        OBVIOUS
      <4> HIDE DEF known
      <4> QED BY <1>1, <4>2, <4>4, <4>5 DEF ReceiverSet
    <3>2. CASE rcv.isn # None
      BY <1>1, <3>2
    <3> QED BY <3>1, <3>2
  <2>2. new = [known EXCEPT !.reassembler = y, !.fin_received = @ \/ seg.fin]
    BY <1>6, <2>1 DEF receiver_segment_received
  <2> HIDE DEF known
  <2>3. /\ Good(y, N) /\ Closed(y, N)
        /\ x.next =< y.next /\ Unread(x.output, y.output)
        /\ y.eof_idx # x.eof_idx => seg.fin /\ y.eof_idx = N
        /\ seg.fin => s.fin_sent
    BY <1>1, <2>1, SegmentPushed
  <2> HIDE DEF y
  <2>4. /\ y \in [chunks : Stores, next : Nat, unassembled_bytes : Nat, eof_idx : Int,
                  output : StreamSet]
        /\ y.next \in 0..N /\ y.output.bytes_written = y.next
        /\ Len(y.output.buffer) =< y.output.capacity
        /\ y.eof_idx \in {NoEof, N} /\ y.output.input_ended \in BOOLEAN /\ y.output.error = FALSE
        /\ x.next \in 0..N /\ x.output.bytes_written = x.next /\ x.output.error = FALSE
        /\ x.output.input_ended \in BOOLEAN /\ x.eof_idx \in {NoEof, N}
    BY <1>1, <1>2, <2>3, GoodIsStored
  <2> DEFINE fin == rcv.fin_received \/ seg.fin
  <2>5. fin \in BOOLEAN
    OBVIOUS
  <2>6. new = [known EXCEPT !.reassembler = y, !.fin_received = fin]
    BY <2>1, <2>2
  <2> HIDE DEF fin, new
  <2>7. /\ new \in ReceiverSet /\ new.isn = s.isn /\ new.reassembler = y /\ new.fin_received = fin
    BY <2>1, <2>4, <2>5, <2>6 DEF ReceiverSet
  <2>8. /\ v \in ConnectionSet /\ v.receiver = new
        /\ v.sender = u.sender /\ v.segments_out = u.segments_out
        /\ v.active = u.active /\ v.linger = u.linger
    BY <2>7 DEF ConnectionSet
  <2> HIDE DEF v
  <2>9. x.output.input_ended => y.output.input_ended
    <3>1. y.eof_idx \in {x.eof_idx, N}
      BY <2>3
    <3> HIDE DEF x, N
    <3> QED BY <1>1, <1>2, <2>3, <3>1, ClosedStays
  <2>10. TakenBy(rcv) =< TakenBy(new)
    BY SMTT(30), <2>4, <2>7, <2>9, <2>3, <1>1 DEF TakenBy, inbound
  <2>11. y.eof_idx # NoEof => s.fin_sent /\ fin
    BY <1>1, <2>3 DEF fin
  <2>12. y.output.input_ended => y.eof_idx # NoEof /\ y.next = N
    BY <2>3 DEF Closed
  <2>13. s.isn # None
    BY DEF None
  <2>14. Hears(v, s)
    BY <2>13, <2>1, <2>3, <2>4, <2>7, <2>8, <2>11, <2>12 DEF Hears, inbound
  <2>15. Arrived(x.output, y.output)
    BY <1>1, <1>2, <2>3, <2>4, <2>9, OutputGrows DEF Arrived
  <2> QED BY <2>3, <2>7, <2>8, <2>10, <2>14, <2>15 DEF inbound
<1> HIDE DEF new, v
<1> QED BY <1>5, <1>6

-----------------------------------------------------------------------------
(* The parts of a connection's methods.                                     *)

\* fill_window.
LEMMA FillMoves ==
    ASSUME NEW u, NEW d, NEW n \in Nat, Fine(u, d, n)
    PROVE  LET s == fill_window(u.sender)
               v == [u EXCEPT !.sender = s]
           IN  /\ Fine(v, d, n) /\ Onward(u, v) /\ FilledUp(v.sender) /\ SameSource(u, v)
               /\ v.sender = s /\ v.receiver = u.receiver /\ v.segments_out = u.segments_out
               /\ v.active = u.active /\ v.linger = u.linger
<1> DEFINE t == u.sender
           s == fill_window(t)
           v == [u EXCEPT !.sender = s]
<1>1. /\ FillInv(t) /\ t.ackno \in Nat /\ (t.timer_running <=> ~Settled(t))
      /\ \A seg \in Range(t.segments_out) : Queued(seg, t)
      /\ t.ackno =< TakenBy(d.receiver) /\ t.stream.bytes_written =< n
  BY DEF Fine, Sends, FillInv, SenderSet
<1>2. /\ FillInv(s) /\ Filled(t, s) /\ FilledUp(s) /\ s.ackno = t.ackno
      /\ s.timer_running <=> ~Settled(s)
  BY <1>1, FillStep
<1> HIDE DEF s
<1>3. /\ Ahead(t, s) /\ \A seg \in Range(s.segments_out) : Queued(seg, s)
  BY <1>1, <1>2, GrownAhead, QueueStays DEF Filled
<1>4. /\ s.stream.bytes_written = t.stream.bytes_written
      /\ s.stream.input_ended = t.stream.input_ended
      /\ s.stream.error = t.stream.error
  BY <1>2 DEF Filled, Grown
<1>5. /\ Fine(v, d, n) /\ v.sender = s /\ v.receiver = u.receiver
      /\ v.active = u.active /\ v.linger = u.linger /\ v.segments_out = u.segments_out
      /\ Ahead(u.sender, v.sender) /\ TakenBy(u.receiver) =< TakenBy(v.receiver)
  BY <1>1, <1>2, <1>3, <1>4, SenderMoves
<1> HIDE DEF v
<1> QED BY <1>1, <1>2, <1>4, <1>5 DEF Onward, SameSource, v, s

\* ack_received, with an acknowledgment of what the peer d has taken.
LEMMA AckMoves ==
    ASSUME NEW u, NEW d, NEW n, Short(n), Fine(u, d, n), TakenBy(d.receiver) =< u.sender.next_seqno,
           d.receiver \in ReceiverSet, NEW a \in 0..TakenBy(d.receiver),
           NEW x, x = wrap(a, u.sender.isn), NEW window \in Nat
    PROVE  LET s == ack_received(u.sender, x, window)
               v == [u EXCEPT !.sender = s]
           IN  /\ Fine(v, d, n) /\ Onward(u, v) /\ SameSource(u, v)
               /\ v.sender = s /\ v.receiver = u.receiver /\ v.segments_out = u.segments_out
               /\ v.active = u.active /\ v.linger = u.linger /\ a =< s.ackno
<1> DEFINE t == u.sender
           i == t.isn
           s == ack_received(t, x, window)
           v == [u EXCEPT !.sender = s]
<1>1. /\ FillInv(t) /\ (t.timer_running <=> ~Settled(t))
      /\ \A seg \in Range(t.segments_out) : Queued(seg, t)
      /\ t.ackno =< TakenBy(d.receiver) /\ t.stream.bytes_written =< n
      /\ i \in 0..(Mod32 - 1)
  BY DEF Fine, Sends
<1>2. /\ t.next_seqno \in Nat /\ t.next_seqno < Half /\ t.next_seqno + Mod32 < Mod64
      /\ t.ackno \in Nat /\ t.ackno =< t.next_seqno
  BY <1>1, SentIsShort
<1>3. TakenBy(d.receiver) \in Nat /\ a \in Nat /\ a =< t.next_seqno /\ a =< TakenBy(d.receiver)
  BY <1>2, TakenType
<1>4. Half \in Nat /\ Mod32 \in Nat /\ Mod64 \in Nat /\ Mod32 > 0 /\ Mod32 = 2 * Half
  BY HalfIsHalf, WidthAssumption
<1>5. unwrap(wrap(a, i), i, t.ackno) = a
  <2>1. a \in 0..(Mod64 - 1) /\ t.ackno + Mod32 < Mod64
    BY <1>2, <1>3, <1>4
  <2>2. Distance(a, t.ackno) < Half
    BY <1>2, <1>3, <1>4 DEF Distance
  <2> QED BY <1>1, <1>2, <2>1, <2>2, UnwrapInvertsWrap
<1>6. wrap(a, i) \in Int
  BY <1>1, <1>3, <1>4 DEF wrap
<1>7. /\ FillInv(s) /\ (s.timer_running <=> ~Settled(s))
      /\ Grown(t, s) /\ (FilledUp(t) => FilledUp(s))
      /\ s.ackno = t.ackno \/ s.ackno = a
      /\ s.ackno >= a /\ t.ackno =< s.ackno
  <2>1. x \in Int /\ unwrap(x, t.isn, t.ackno) = a
    BY <1>5, <1>6
  <2>2. LET b == unwrap(x, t.isn, t.ackno)
            w == ack_received(t, x, window)
        IN  /\ FillInv(w) /\ (w.timer_running <=> ~Settled(w))
            /\ Grown(t, w) /\ (FilledUp(t) => FilledUp(w))
            /\ w.ackno = t.ackno \/ (w.ackno = b /\ b =< t.next_seqno)
            /\ b =< t.next_seqno => w.ackno >= b
            /\ w.ackno > t.ackno \/ w.ackno = t.ackno
    BY <1>1, <2>1, AckReceivedStep
  <2>3. LET w == ack_received(t, x, window)
        IN  /\ FillInv(w) /\ (w.timer_running <=> ~Settled(w))
            /\ Grown(t, w) /\ (FilledUp(t) => FilledUp(w))
            /\ w.ackno = t.ackno \/ w.ackno = a
            /\ w.ackno >= a /\ t.ackno =< w.ackno
    BY <1>2, <1>3, <2>1, <2>2
  <2> QED BY <2>3
<1> HIDE DEF s
<1>8. /\ Ahead(t, s) /\ \A seg \in Range(s.segments_out) : Queued(seg, s)
  BY <1>1, <1>7, GrownAhead, QueueStays
<1>9. /\ s.stream.bytes_written = t.stream.bytes_written
      /\ s.stream.input_ended = t.stream.input_ended
      /\ s.stream.error = t.stream.error
  BY <1>7 DEF Grown
<1>10. s.ackno =< TakenBy(d.receiver) /\ a =< s.ackno
  BY <1>1, <1>2, <1>3, <1>7
<1>11. n \in Nat
  BY DEF Short
<1>12. /\ Fine(v, d, n) /\ v.sender = s /\ v.receiver = u.receiver
       /\ v.active = u.active /\ v.linger = u.linger /\ v.segments_out = u.segments_out
       /\ Ahead(u.sender, v.sender) /\ TakenBy(u.receiver) =< TakenBy(v.receiver)
  BY <1>1, <1>7, <1>8, <1>9, <1>10, <1>11, SenderMoves
<1> HIDE DEF v
<1> QED BY <1>7, <1>9, <1>10, <1>12 DEF Onward, SameSource, v, s

\* The parts of a connection, opened up.
LEMMA FineParts ==
    ASSUME NEW u, NEW d, NEW n, Fine(u, d, n)
    PROVE  /\ u \in ConnectionSet /\ u.sender \in SenderSet /\ u.receiver \in ReceiverSet
           /\ u.sender.stream \in StreamSet /\ u.sender.stream.bytes_read \in Nat
           /\ u.sender.ackno \in Nat /\ TakenBy(u.receiver) \in Nat
           /\ inbound(u.receiver) \in StreamSet
           /\ FillInv(u.sender) /\ (u.sender.timer_running <=> ~Settled(u.sender))
           /\ \A seg \in Range(u.sender.segments_out) : Queued(seg, u.sender)
           /\ u.sender.ackno =< TakenBy(d.receiver) /\ u.sender.stream.bytes_written =< n
           /\ u.sender.isn \in 0..(Mod32 - 1)
           /\ u.segments_out \in Seq(SegmentSet)
<1>1. /\ u \in ConnectionSet /\ FillInv(u.sender)
      /\ (u.sender.timer_running <=> ~Settled(u.sender))
      /\ \A seg \in Range(u.sender.segments_out) : Queued(seg, u.sender)
      /\ u.sender.ackno =< TakenBy(d.receiver) /\ u.sender.stream.bytes_written =< n
      /\ u.sender.isn \in 0..(Mod32 - 1)
  BY DEF Fine, Sends
<1>2. /\ u.sender \in SenderSet /\ u.receiver \in ReceiverSet /\ u.segments_out \in Seq(SegmentSet)
  BY <1>1 DEF ConnectionSet
<1>3. u.sender.stream \in StreamSet /\ u.sender.ackno \in Nat /\ inbound(u.receiver) \in StreamSet
  BY <1>2 DEF SenderSet, ReceiverSet, inbound
<1>4. u.sender.stream.bytes_read \in Nat
  BY <1>3 DEF StreamSet
<1> QED BY <1>1, <1>2, <1>3, <1>4, TakenType

\* Steps forward add up.
LEMMA OnwardChains ==
    ASSUME NEW u, NEW v, NEW w, NEW d, NEW n, Fine(u, d, n), Fine(v, d, n), Fine(w, d, n),
           Onward(u, v), Onward(v, w)
    PROVE  Onward(u, w)
<1>1. /\ u.sender.stream.bytes_read \in Nat /\ v.sender.stream.bytes_read \in Nat
      /\ w.sender.stream.bytes_read \in Nat
      /\ u.sender.ackno \in Nat /\ v.sender.ackno \in Nat /\ w.sender.ackno \in Nat
      /\ TakenBy(u.receiver) \in Nat /\ TakenBy(v.receiver) \in Nat /\ TakenBy(w.receiver) \in Nat
  BY FineParts
<1>2. Ahead(u.sender, w.sender)
  BY <1>1, AheadChains DEF Onward
<1> QED BY <1>1, <1>2 DEF Onward

\* A connection that differs in its flags and its clock only.
LEMMA FlagMoves ==
    ASSUME NEW u, NEW d, NEW n, Fine(u, d, n), NEW v \in ConnectionSet,
           v.sender = u.sender, v.receiver = u.receiver, v.segments_out = u.segments_out,
           v.active => u.active
    PROVE  Fine(v, d, n) /\ Onward(u, v) /\ SameSource(u, v)
<1>1. /\ u.sender.stream.bytes_read \in Nat /\ u.sender.ackno \in Nat
      /\ TakenBy(u.receiver) \in Nat
  BY FineParts
<1>2. Sends(v, n)
  BY DEF Fine, Sends
<1>3. Hears(v, d.sender)
  BY DEF Fine, Hears
<1>4. \A seg \in Range(v.segments_out) : Sound(seg, v, d.sender.isn)
  BY DEF Fine, Sound
<1>5. Fine(v, d, n)
  BY <1>2, <1>3, <1>4 DEF Fine
<1> QED BY <1>1, <1>5 DEF Onward, Ahead, SameSource

\* send_empty_segment.
LEMMA EmptyQueued ==
    ASSUME NEW s, FillInv(s), \A seg \in Range(s.segments_out) : Queued(seg, s)
    PROVE  LET t == send_empty_segment(s)
               q == Append(s.segments_out, Segment(wrap(s.next_seqno, s.isn)))
           IN  /\ FillInv(t) /\ Ahead(s, t) /\ (Settled(t) <=> Settled(s))
               /\ \A seg \in Range(t.segments_out) : Queued(seg, t)
               /\ FilledUp(s) => FilledUp(t)
               /\ t.segments_out = q /\ q \in Seq(SegmentSet) /\ q # << >>
               /\ t.stream = s.stream /\ t.ackno = s.ackno /\ t.fin_sent = s.fin_sent
               /\ t.timer_running = s.timer_running
<1> DEFINE seg == Segment(wrap(s.next_seqno, s.isn))
           q == Append(s.segments_out, seg)
           t == send_empty_segment(s)
<1>1. s \in SenderSet /\ s.next_seqno \in Int /\ s.isn \in Int /\ s.segments_out \in Seq(SegmentSet)
  BY DEF FillInv, SenderSet
<1>2. seg \in SegmentSet
  BY <1>1, SegmentType
<1>3. Queued(seg, s)
  BY <1>2 DEF Queued, Blank, Segment
<1> HIDE DEF seg
<1>4. q \in Seq(SegmentSet) /\ q # << >> /\ Range(q) = Range(s.segments_out) \cup {seg}
  BY <1>1, <1>2, RangeEnds
<1>5. \A e \in Range(q) : Queued(e, s)
  BY <1>3, <1>4
<1>6. t = [s EXCEPT !.segments_out = q]
  BY DEF send_empty_segment, seg
<1> HIDE DEF q, t
<1>7. /\ FillInv(t) /\ Ahead(s, t) /\ (Settled(t) <=> Settled(s))
      /\ \A e \in Range(t.segments_out) : Queued(e, t)
      /\ FilledUp(s) => FilledUp(t)
      /\ t.segments_out = q /\ t.stream = s.stream /\ t.ackno = s.ackno
      /\ t.fin_sent = s.fin_sent /\ t.timer_running = s.timer_running
  BY <1>4, <1>5, <1>6, QueueMoves
<1> QED BY <1>4, <1>7 DEF t, q, seg

\* A segment is answered, with what the window lets out or alone.
LEMMA AnsweredMoves ==
    ASSUME NEW u, NEW d, NEW n \in Nat, Fine(u, d, n), NEW seg
    PROVE  LET v == Answered(u, seg)
           IN  /\ Fine(v, d, n) /\ Onward(u, v) /\ SameSource(u, v)
               /\ v.receiver = u.receiver /\ v.segments_out = u.segments_out
               /\ v.active = u.active /\ v.linger = u.linger
<1> DEFINE f == fill_window(u.sender)
           w == [u EXCEPT !.sender = f]
           x == [u EXCEPT !.sender = send_empty_segment(f)]
           v == Answered(u, seg)
<1> USE DEF SameSource
<1>1. CASE ~NeedsAck(u, seg)
  <2>1. v = u
    BY <1>1 DEF Answered
  <2>2. Fine(u, d, n) /\ Onward(u, u) /\ SameSource(u, u)
    <3>1. u \in ConnectionSet
      BY FineParts
    <3> QED BY <3>1, FlagMoves
  <2> QED BY <2>1, <2>2
<1>2. CASE NeedsAck(u, seg)
  <2>1. /\ Fine(w, d, n) /\ Onward(u, w) /\ FilledUp(w.sender) /\ SameSource(u, w)
        /\ w.sender = f /\ w.receiver = u.receiver /\ w.segments_out = u.segments_out
        /\ w.active = u.active /\ w.linger = u.linger
    BY FillMoves
  <2>2. CASE f.segments_out # << >>
    <3>1. v = w
      BY <1>2, <2>2 DEF Answered
    <3> HIDE DEF w, v
    <3> QED BY <2>1, <3>1 DEF v
  <2>3. CASE f.segments_out = << >>
    <3>1. v = x
      BY <1>2, <2>3 DEF Answered
    <3> DEFINE t == send_empty_segment(f)
    <3>2. /\ FillInv(f) /\ (f.timer_running <=> ~Settled(f)) /\ f.ackno \in Nat
          /\ \A e \in Range(f.segments_out) : Queued(e, f)
          /\ f.ackno =< TakenBy(d.receiver) /\ f.stream.bytes_written =< n
      <4> HIDE DEF w, f
      <4> QED BY <2>1, FineParts
    <3>3. x = [w EXCEPT !.sender = t]
      <4>1. u \in ConnectionSet
        BY FineParts
      <4> HIDE DEF f
      <4> QED BY <4>1 DEF ConnectionSet
    <3> HIDE DEF f, w, x
    <3>4. /\ FillInv(t) /\ Ahead(f, t) /\ (Settled(t) <=> Settled(f))
          /\ \A e \in Range(t.segments_out) : Queued(e, t)
          /\ FilledUp(f) => FilledUp(t)
          /\ t.stream = f.stream /\ t.ackno = f.ackno
          /\ t.timer_running = f.timer_running
      BY <3>2, EmptyQueued
    <3> HIDE DEF t
    <3> DEFINE y == [w EXCEPT !.sender = t]
    <3>5. /\ Fine(y, d, n) /\ y.sender = t /\ y.receiver = w.receiver
          /\ y.active = w.active /\ y.linger = w.linger /\ y.segments_out = w.segments_out
          /\ Ahead(w.sender, y.sender) /\ TakenBy(w.receiver) =< TakenBy(y.receiver)
      BY <2>1, <3>2, <3>4, SenderMoves
    <3>6. x = y
      BY <3>3
    <3> HIDE DEF y
    <3>7. Onward(w, y)
      BY <2>1, <3>2, <3>4, <3>5 DEF Onward
    <3>8. Onward(u, y)
      BY <2>1, <3>5, <3>7, OnwardChains
    <3>9. SameSource(u, y)
      BY <2>1, <3>4, <3>5
    <3> HIDE DEF v
    <3> QED BY <2>1, <3>1, <3>5, <3>6, <3>8, <3>9 DEF v
  <2> QED BY <2>2, <2>3
<1> QED BY <1>1, <1>2

\* The receiver takes a segment.
LEMMA TakeMoves ==
    ASSUME NEW u, NEW d, NEW n, NEW m, Fine(u, d, n), u.active, Short(m), Sends(d, m),
           NEW seg \in SegmentSet, Blank(seg) \/ CarriesPart(seg, d.sender)
    PROVE  LET v == [u EXCEPT !.receiver = receiver_segment_received(@, seg)]
           IN  /\ Fine(v, d, n) /\ Onward(u, v) /\ SameSource(u, v)
               /\ v.sender = u.sender /\ v.segments_out = u.segments_out
               /\ v.active = u.active /\ v.linger = u.linger
               /\ Arrived(inbound(u.receiver), inbound(v.receiver))
               /\ v.receiver.reassembler.eof_idx # u.receiver.reassembler.eof_idx => seg.fin
<1> DEFINE rcv == u.receiver
           new == receiver_segment_received(rcv, seg)
           v == [u EXCEPT !.receiver = new]
           s == d.sender
<1>1. /\ FillInv(s) /\ s.stream.bytes_written =< m /\ s.isn \in 0..(Mod32 - 1)
  BY DEF Sends
<1>2. u \in ConnectionSet /\ Hears(u, s) /\ u.sender.stream.bytes_read \in Nat
      /\ u.sender.ackno \in Nat /\ u.receiver \in ReceiverSet
  BY FineParts DEF Fine
<1> HIDE DEF s
<1>3. /\ v \in ConnectionSet /\ Hears(v, s) /\ v.receiver = new
      /\ v.sender = u.sender /\ v.segments_out = u.segments_out
      /\ v.active = u.active /\ v.linger = u.linger
      /\ TakenBy(rcv) =< TakenBy(new)
      /\ Arrived(inbound(rcv), inbound(new))
      /\ new.reassembler.eof_idx # rcv.reassembler.eof_idx => seg.fin
  BY <1>1, <1>2, Received DEF s
<1> HIDE DEF new, v
<1>4. Ahead(u.sender, v.sender) /\ Onward(u, v) /\ SameSource(u, v)
  BY <1>2, <1>3 DEF Ahead, Onward, SameSource
<1>5. \A e \in Range(v.segments_out) : Sound(e, v, s.isn)
  <2>1. v.receiver \in ReceiverSet /\ v.sender.stream.bytes_read \in Nat
    BY <1>2, <1>3 DEF ConnectionSet
  <2>2. \A e \in Range(v.segments_out) : Sound(e, u, s.isn)
    BY <1>3 DEF Fine, s
  <2> QED BY <1>2, <1>3, <1>4, <2>1, <2>2, SoundStays
<1>6. Sends(v, n)
  BY <1>3 DEF Fine, Sends
<1>7. Fine(v, d, n)
  BY <1>3, <1>5, <1>6 DEF Fine, s
<1> QED BY <1>3, <1>4, <1>7 DEF v, new

\* segment_received of a connection that is active, for a segment that is no reset.
LEMMA ReceiveMoves ==
    ASSUME NEW u, NEW d, NEW n, NEW m, Fine(u, d, n), u.active, Short(n), Short(m), Sends(d, m),
           TakenBy(d.receiver) =< u.sender.next_seqno, d.receiver \in ReceiverSet,
           NEW seg, Sound(seg, d, u.sender.isn), ~seg.rst,
           NEW a, seg.ack => a \in 0..TakenBy(d.receiver) /\ seg.ackno = wrap(a, u.sender.isn)
    PROVE  LET v == segment_received(u, seg)
           IN  /\ Fine(v, d, n) /\ Onward(u, v) /\ SameSource(u, v) /\ v.active
               /\ Arrived(inbound(u.receiver), inbound(v.receiver))
               /\ ~u.linger => ~v.linger
               /\ ~v.linger => \/ ~u.linger
                               \/ inbound(v.receiver).input_ended /\ ~u.sender.fin_sent
               /\ v.receiver.reassembler.eof_idx # u.receiver.reassembler.eof_idx => seg.fin
               /\ seg.ack => a =< v.sender.ackno
               /\ \A e \in Range(v.segments_out) :
                     e \in Range(u.segments_out) \/ Fresh(e, v, d.sender.isn)
<1> DEFINE heard    == [u EXCEPT !.time_since_last_segment_received = 0]
           received == [heard EXCEPT !.receiver = receiver_segment_received(@, seg)]
           acked    == IF seg.ack
                       THEN [received EXCEPT !.sender = ack_received(@, seg.ackno, seg.win)]
                       ELSE received
           noted    == NoteClose(acked)
           answered == Answered(noted, seg)
           v        == segment_received(u, seg)
<1>1. v = push_segments_out(answered)
  BY DEF segment_received
<1>2. /\ seg \in SegmentSet /\ (Blank(seg) \/ CarriesPart(seg, d.sender)) /\ seg.win \in Nat
      /\ n \in Nat /\ d.sender.isn \in 0..(Mod32 - 1)
  BY DEF Sound, SegmentSet, Short, Sends
<1>3. u \in ConnectionSet
  BY FineParts
<1>4. heard \in ConnectionSet /\ heard.sender = u.sender /\ heard.receiver = u.receiver
      /\ heard.segments_out = u.segments_out /\ heard.active = u.active /\ heard.linger = u.linger
  BY <1>3 DEF ConnectionSet
<1> HIDE DEF heard
<1>5. Fine(heard, d, n) /\ Onward(u, heard) /\ SameSource(u, heard)
  BY <1>4, FlagMoves
<1>6. /\ Fine(received, d, n) /\ Onward(heard, received)
      /\ received.sender = u.sender /\ received.segments_out = u.segments_out
      /\ received.active = u.active /\ received.linger = u.linger
      /\ Arrived(inbound(u.receiver), inbound(received.receiver))
      /\ received.receiver.reassembler.eof_idx # u.receiver.reassembler.eof_idx => seg.fin
  BY ZenonT(40), <1>2, <1>4, <1>5, TakeMoves
<1> HIDE DEF received
<1>7. Onward(u, received) /\ SameSource(u, received)
  BY <1>5, <1>6, OnwardChains DEF SameSource
<1>8. /\ Fine(acked, d, n) /\ Onward(received, acked) /\ SameSource(received, acked)
      /\ acked.receiver = received.receiver /\ acked.segments_out = u.segments_out
      /\ acked.active = u.active /\ acked.linger = u.linger
      /\ seg.ack => a =< acked.sender.ackno
  <2>1. CASE seg.ack
    <3> DEFINE s == ack_received(received.sender, seg.ackno, seg.win)
               w == [received EXCEPT !.sender = s]
    <3>1. acked = w
      BY <2>1
    <3>2. /\ Fine(received, d, n) /\ TakenBy(d.receiver) =< received.sender.next_seqno
          /\ a \in 0..TakenBy(d.receiver) /\ seg.win \in Nat
          /\ seg.ackno = wrap(a, received.sender.isn)
      BY <1>2, <1>6, <2>1
    <3>3. /\ Fine(w, d, n) /\ Onward(received, w) /\ SameSource(received, w)
          /\ w.sender = s /\ w.receiver = received.receiver
          /\ w.segments_out = received.segments_out
          /\ w.active = received.active /\ w.linger = received.linger /\ a =< s.ackno
      BY <3>2, AckMoves
    <3> HIDE DEF w, s, acked
    <3> QED BY <1>6, <3>1, <3>3
  <2>2. CASE ~seg.ack
    <3>1. acked = received
      BY <2>2
    <3>2. received \in ConnectionSet
      BY <1>6, FineParts
    <3> HIDE DEF acked
    <3> QED BY <1>6, <2>2, <3>1, <3>2, FlagMoves
  <2> QED BY <2>1, <2>2
<1> HIDE DEF acked
<1>9. Onward(u, acked) /\ SameSource(u, acked)
  BY <1>5, <1>6, <1>7, <1>8, OnwardChains DEF SameSource
<1>10. /\ noted \in ConnectionSet /\ noted.sender = acked.sender /\ noted.receiver = acked.receiver
       /\ noted.segments_out = u.segments_out /\ noted.active = u.active
       /\ noted.linger = (u.linger /\ ~(inbound(acked.receiver).input_ended
                                        /\ ~eof(acked.sender.stream)))
  <2>1. acked \in ConnectionSet
    BY <1>8, FineParts
  <2> DEFINE l == u.linger /\ ~(inbound(acked.receiver).input_ended /\ ~eof(acked.sender.stream))
  <2>2. noted = [acked EXCEPT !.linger = l] /\ l \in BOOLEAN
    BY <1>8 DEF NoteClose
  <2> HIDE DEF l, noted
  <2>3. /\ noted \in ConnectionSet /\ noted.sender = acked.sender /\ noted.receiver = acked.receiver
        /\ noted.segments_out = acked.segments_out /\ noted.active = acked.active
        /\ noted.linger = l
    BY <2>1, <2>2 DEF ConnectionSet
  <2> QED BY <2>3, <1>8 DEF l
<1> HIDE DEF noted
<1>11. Fine(noted, d, n) /\ Onward(acked, noted) /\ SameSource(acked, noted)
  BY <1>8, <1>10, FlagMoves
<1>12. /\ Fine(answered, d, n) /\ Onward(noted, answered) /\ SameSource(noted, answered)
       /\ answered.receiver = noted.receiver /\ answered.segments_out = noted.segments_out
       /\ answered.active = noted.active /\ answered.linger = noted.linger
  BY <1>2, <1>11, AnsweredMoves
<1> HIDE DEF answered
<1>13. /\ Fine(v, d, n) /\ Onward(answered, v)
       /\ v.sender.stream = answered.sender.stream /\ v.receiver = answered.receiver
       /\ v.sender.ackno = answered.sender.ackno
       /\ v.active = answered.active /\ v.linger = answered.linger
       /\ \A e \in Range(v.segments_out) :
             e \in Range(answered.segments_out) \/ Fresh(e, v, d.sender.isn)
  BY ZenonT(40), <1>1, <1>2, <1>12, PushOut
<1> HIDE DEF v
<1>14. Onward(u, noted) /\ Onward(acked, answered)
  BY <1>8, <1>9, <1>11, <1>12, OnwardChains
<1>15. Onward(u, answered)
  BY <1>8, <1>9, <1>12, <1>14, OnwardChains
<1>16. Onward(u, v)
  BY <1>12, <1>13, <1>15, OnwardChains
<1>17. SameSource(u, v)
  BY <1>9, <1>11, <1>12, <1>13 DEF SameSource
<1>18. ~v.linger => \/ ~u.linger
                    \/ inbound(v.receiver).input_ended /\ ~u.sender.fin_sent
  <2>1. acked.sender.fin_sent => eof(acked.sender.stream)
    <3>1. FillInv(acked.sender)
      BY <1>8, FineParts
    <3> QED BY <3>1 DEF FillInv, Accounts, eof
  <2>2. u.sender.fin_sent => acked.sender.fin_sent
    BY <1>9 DEF Onward, Ahead
  <2> QED BY <1>10, <1>12, <1>13, <2>1, <2>2
<1>19. seg.ack => a =< v.sender.ackno
  <2>1. acked.sender.ackno =< answered.sender.ackno
    BY <1>14 DEF Onward
  <2>2. acked.sender.ackno \in Nat /\ answered.sender.ackno \in Nat /\ TakenBy(d.receiver) \in Nat
    BY <1>8, <1>12, FineParts, TakenType
  <2> QED BY <1>8, <1>13, <2>1, <2>2
<1> QED BY <1>6, <1>8, <1>10, <1>12, <1>13, <1>16, <1>17, <1>18, <1>19 DEF v

\* A connection with another queue.
LEMMA OutMoves ==
    ASSUME NEW u, NEW d, NEW n, Fine(u, d, n), NEW q \in Seq(SegmentSet),
           \A seg \in Range(q) : Sound(seg, u, d.sender.isn)
    PROVE  LET v == [u EXCEPT !.segments_out = q]
           IN  /\ Fine(v, d, n) /\ Onward(u, v)
               /\ v.sender = u.sender /\ v.receiver = u.receiver /\ v.segments_out = q
               /\ v.active = u.active /\ v.linger = u.linger
<1> DEFINE v == [u EXCEPT !.segments_out = q]
<1>1. u \in ConnectionSet
  BY FineParts
<1>2. /\ v \in ConnectionSet /\ v.sender = u.sender /\ v.receiver = u.receiver
      /\ v.segments_out = q /\ v.active = u.active /\ v.linger = u.linger
  BY <1>1 DEF ConnectionSet
<1> HIDE DEF v
<1>3. /\ u.sender.stream.bytes_read \in Nat /\ u.sender.ackno \in Nat
      /\ TakenBy(u.receiver) \in Nat
  BY FineParts
<1>4. Sends(v, n)
  BY <1>2 DEF Fine, Sends
<1>5. Hears(v, d.sender)
  BY <1>2 DEF Fine, Hears
<1>6. \A seg \in Range(v.segments_out) : Sound(seg, v, d.sender.isn)
  BY <1>2 DEF Sound
<1>7. Fine(v, d, n)
  BY <1>2, <1>4, <1>5, <1>6 DEF Fine
<1>8. Onward(u, v)
  BY <1>2, <1>3 DEF Onward, Ahead
<1> QED BY <1>2, <1>7, <1>8 DEF v

\* What the applications see of an endpoint when both its streams fail.
Broken(u, v) ==
    /\ ~v.active /\ v.linger = u.linger
    /\ v.sender.stream.error
    /\ v.sender.stream.bytes_written = u.sender.stream.bytes_written
    /\ v.sender.stream.input_ended = u.sender.stream.input_ended
    /\ v.receiver.isn = u.receiver.isn
    /\ v.receiver.reassembler.eof_idx = u.receiver.reassembler.eof_idx
    /\ inbound(v.receiver).buffer = inbound(u.receiver).buffer
    /\ inbound(v.receiver).bytes_written = inbound(u.receiver).bytes_written
    /\ inbound(v.receiver).input_ended = inbound(u.receiver).input_ended
    /\ inbound(v.receiver).error

\* Both streams of a connection fail.
LEMMA FailMoves ==
    ASSUME NEW u, NEW d, NEW n, Fine(u, d, n)
    PROVE  LET v == unclean_shutdown(u, FALSE)
           IN  /\ Fine(v, d, n) /\ Onward(u, v) /\ Broken(u, v)
               /\ v.segments_out = u.segments_out
<1> DEFINE st  == set_error(u.sender.stream)
           s   == [u.sender EXCEPT !.stream = st]
           out == set_error(inbound(u.receiver))
           rcv == [u.receiver EXCEPT !.reassembler.output = out]
           v   == [u EXCEPT !.sender = s, !.receiver = rcv, !.active = FALSE]
<1>1. /\ u \in ConnectionSet /\ u.sender \in SenderSet /\ u.receiver \in ReceiverSet
      /\ u.sender.stream \in StreamSet /\ u.sender.stream.bytes_read \in Nat
      /\ u.sender.ackno \in Nat /\ TakenBy(u.receiver) \in Nat
      /\ inbound(u.receiver) \in StreamSet /\ FillInv(u.sender)
      /\ (u.sender.timer_running <=> ~Settled(u.sender))
      /\ \A seg \in Range(u.sender.segments_out) : Queued(seg, u.sender)
      /\ u.sender.ackno =< TakenBy(d.receiver) /\ u.sender.stream.bytes_written =< n
      /\ u.sender.isn \in 0..(Mod32 - 1)
  BY FineParts
<1>2. /\ st \in StreamSet /\ st.error = TRUE
      /\ st.buffer = u.sender.stream.buffer /\ st.capacity = u.sender.stream.capacity
      /\ st.input_ended = u.sender.stream.input_ended
      /\ st.bytes_written = u.sender.stream.bytes_written
      /\ st.bytes_read = u.sender.stream.bytes_read
  BY <1>1 DEF StreamSet, set_error
<1>3. /\ out \in StreamSet /\ out.error = TRUE
      /\ out.buffer = inbound(u.receiver).buffer /\ out.capacity = inbound(u.receiver).capacity
      /\ out.input_ended = inbound(u.receiver).input_ended
      /\ out.bytes_written = inbound(u.receiver).bytes_written
      /\ out.bytes_read = inbound(u.receiver).bytes_read
  BY <1>1 DEF StreamSet, set_error
<1>4. unclean_shutdown(u, FALSE) = v
  BY <1>1 DEF unclean_shutdown, inbound, ConnectionSet
<1> HIDE DEF st, out
<1>5. /\ s \in SenderSet /\ s.stream = st /\ s.isn = u.sender.isn /\ s.ackno = u.sender.ackno
      /\ s.next_seqno = u.sender.next_seqno /\ s.outstanding = u.sender.outstanding
      /\ s.fin_sent = u.sender.fin_sent /\ s.syn_sent = u.sender.syn_sent
      /\ s.timer_running = u.sender.timer_running /\ s.segments_out = u.sender.segments_out
      /\ s.window_size = u.sender.window_size
  BY <1>1, <1>2 DEF SenderSet
<1>6. /\ rcv \in ReceiverSet /\ inbound(rcv) = out /\ rcv.isn = u.receiver.isn
      /\ rcv.fin_received = u.receiver.fin_received
      /\ rcv.reassembler.eof_idx = u.receiver.reassembler.eof_idx
  BY <1>1, <1>3 DEF ReceiverSet, inbound
<1> HIDE DEF s, rcv
<1>7. /\ v \in ConnectionSet /\ v.sender = s /\ v.receiver = rcv /\ v.active = FALSE
      /\ v.linger = u.linger /\ v.segments_out = u.segments_out
  BY <1>1, <1>5, <1>6 DEF ConnectionSet
<1> HIDE DEF v
<1>8. FillInv(s) /\ (Settled(s) <=> Settled(u.sender))
  <2>1. Accounts(s) /\ Buffers(s)
    BY <1>1, <1>2, <1>5 DEF FillInv, Accounts, Buffers
  <2> QED BY <1>1, <1>5, <2>1, FrameStep
<1>9. Ahead(u.sender, s) /\ (FilledUp(u.sender) => FilledUp(s))
  BY <1>1, <1>2, <1>5 DEF Ahead, FilledUp, WindowRight
<1>10. \A seg \in Range(s.segments_out) : Queued(seg, s)
  <2>1. s.stream.bytes_read \in Nat
    BY <1>1, <1>2, <1>5
  <2> QED BY <1>1, <1>5, <1>9, <2>1, PartStays DEF Queued
<1>11. Sends(v, n)
  BY <1>1, <1>2, <1>5, <1>7, <1>8, <1>10 DEF Sends
<1>12. Hears(v, d.sender)
  <2>1. Hears(u, d.sender)
    BY DEF Fine
  <2> QED BY <2>1, <1>3, <1>6, <1>7 DEF Hears
<1>13. TakenBy(rcv) = TakenBy(u.receiver)
  BY <1>3, <1>6 DEF TakenBy
<1>14. \A seg \in Range(v.segments_out) : Sound(seg, v, d.sender.isn)
  <2>1. \A seg \in Range(v.segments_out) : Sound(seg, u, d.sender.isn)
    BY <1>7 DEF Fine
  <2>2. Ahead(u.sender, v.sender) /\ v.sender.stream.bytes_read \in Nat
        /\ v.receiver \in ReceiverSet /\ TakenBy(u.receiver) =< TakenBy(v.receiver)
    BY <1>1, <1>2, <1>5, <1>6, <1>7, <1>9, <1>13
  <2> QED BY <1>1, <2>1, <2>2, SoundStays
<1>15. Fine(v, d, n)
  BY <1>1, <1>5, <1>7, <1>11, <1>12, <1>14 DEF Fine
<1>16. Onward(u, v)
  BY <1>1, <1>5, <1>7, <1>9, <1>13 DEF Onward
<1>17. Broken(u, v)
  BY <1>2, <1>3, <1>5, <1>6, <1>7 DEF Broken
<1> QED BY <1>4, <1>7, <1>15, <1>16, <1>17

\* Both streams of a connection fail and the front of its queue goes out as a reset.
LEMMA ResetMoves ==
    ASSUME NEW u, NEW d, NEW n \in Nat, Fine(u, d, n)
    PROVE  LET v == unclean_shutdown(u, TRUE)
           IN  /\ Fine(v, d, n) /\ Onward(u, v) /\ Broken(u, v)
               /\ \A e \in Range(v.segments_out) : e \in Range(u.segments_out) \/ e.rst
<1> DEFINE over == unclean_shutdown(u, FALSE)
           t    == send_empty_segment(over.sender)
           q    == t.segments_out
           s    == [t EXCEPT !.segments_out = Tail(q)]
           rst  == [Head(q) EXCEPT !.ack = FALSE, !.rst = TRUE]
           w    == [over EXCEPT !.sender = s]
           out  == Append(u.segments_out, rst)
           v    == [w EXCEPT !.segments_out = out]
<1>1. /\ Fine(over, d, n) /\ Onward(u, over) /\ Broken(u, over)
      /\ over.segments_out = u.segments_out
  BY FailMoves
<1>2. unclean_shutdown(u, TRUE)
        = [over EXCEPT !.sender = [t EXCEPT !.segments_out = Tail(@)],
                       !.segments_out = Append(@, rst)]
  BY DEF unclean_shutdown
<1> HIDE DEF over
<1>3. /\ over \in ConnectionSet /\ FillInv(over.sender) /\ over.sender \in SenderSet
      /\ \A e \in Range(over.sender.segments_out) : Queued(e, over.sender)
      /\ (over.sender.timer_running <=> ~Settled(over.sender))
      /\ over.sender.ackno =< TakenBy(d.receiver) /\ over.sender.stream.bytes_written =< n
      /\ u.segments_out \in Seq(SegmentSet) /\ over.sender.stream.bytes_read \in Nat
      /\ over.sender.ackno \in Nat
  BY <1>1, FineParts
<1>4. /\ FillInv(t) /\ Ahead(over.sender, t) /\ (Settled(t) <=> Settled(over.sender))
      /\ \A e \in Range(q) : Queued(e, t)
      /\ FilledUp(over.sender) => FilledUp(t)
      /\ q \in Seq(SegmentSet) /\ q # << >>
      /\ t.stream = over.sender.stream /\ t.ackno = over.sender.ackno
      /\ t.timer_running = over.sender.timer_running
  <2> DEFINE r == Append(over.sender.segments_out,
                         Segment(wrap(over.sender.next_seqno, over.sender.isn)))
  <2>1. /\ FillInv(t) /\ Ahead(over.sender, t) /\ (Settled(t) <=> Settled(over.sender))
        /\ \A e \in Range(t.segments_out) : Queued(e, t)
        /\ FilledUp(over.sender) => FilledUp(t)
        /\ t.segments_out = r /\ r \in Seq(SegmentSet) /\ r # << >>
        /\ t.stream = over.sender.stream /\ t.ackno = over.sender.ackno
        /\ t.timer_running = over.sender.timer_running
    BY <1>3, EmptyQueued
  <2> HIDE DEF r
  <2> QED BY <2>1
<1> HIDE DEF t
<1>5. /\ Head(q) \in SegmentSet /\ Tail(q) \in Seq(SegmentSet) /\ Range(Tail(q)) \subseteq Range(q)
  <2>1. PICK x : x \in SegmentSet
    BY <1>4
  <2> QED BY <1>4, <2>1, RangeEnds
<1> HIDE DEF q
<1>6. /\ FillInv(s) /\ Ahead(t, s) /\ (Settled(s) <=> Settled(t))
      /\ \A e \in Range(s.segments_out) : Queued(e, s)
      /\ FilledUp(t) => FilledUp(s)
      /\ s.stream = t.stream /\ s.ackno = t.ackno /\ s.timer_running = t.timer_running
  BY <1>4, <1>5, QueueMoves
<1>7. s = [t EXCEPT !.segments_out = Tail(@)]
  BY DEF q
<1> HIDE DEF s
<1>8. Ahead(over.sender, s) /\ s.stream = over.sender.stream /\ s.ackno = over.sender.ackno
  <2>1. t.stream.bytes_read \in Nat /\ s.stream.bytes_read \in Nat
    BY <1>3, <1>4, <1>6
  <2> QED BY <1>3, <1>4, <1>6, <2>1, AheadChains
<1>9. /\ Fine(w, d, n) /\ w.sender = s /\ w.receiver = over.receiver
      /\ w.active = over.active /\ w.linger = over.linger /\ w.segments_out = over.segments_out
      /\ TakenBy(over.receiver) =< TakenBy(w.receiver)
  BY <1>1, <1>3, <1>4, <1>6, <1>8, SenderMoves
<1>10. unclean_shutdown(u, TRUE) = v
  BY <1>1, <1>2, <1>3, <1>7 DEF ConnectionSet
<1> HIDE DEF w
<1>11. Onward(over, w)
  BY <1>3, <1>4, <1>6, <1>8, <1>9 DEF Onward
<1>12. rst \in SegmentSet /\ rst.rst /\ ~rst.ack
  BY <1>5 DEF SegmentSet
<1> HIDE DEF rst
<1>13. Sound(rst, w, d.sender.isn)
  BY <1>12 DEF Sound
<1>14. out \in Seq(SegmentSet) /\ Range(out) = Range(u.segments_out) \cup {rst}
  BY <1>3, <1>12, RangeEnds
<1> HIDE DEF out
<1>15. \A e \in Range(out) : Sound(e, w, d.sender.isn)
  BY <1>1, <1>9, <1>13, <1>14 DEF Fine
<1>16. /\ Fine(v, d, n) /\ Onward(w, v) /\ v.sender = w.sender /\ v.receiver = w.receiver
       /\ v.segments_out = out /\ v.active = w.active /\ v.linger = w.linger
  <2>1. Fine(w, d, n) /\ out \in Seq(SegmentSet)
    BY <1>9, <1>14
  <2> QED BY ONLY <2>1, <1>15, OutMoves
<1> HIDE DEF v
<1>17. Onward(u, w)
  BY <1>1, <1>9, <1>11, OnwardChains
<1>18. Onward(u, v)
  BY <1>9, <1>16, <1>17, OnwardChains
<1>19. Broken(u, v)
  BY <1>1, <1>8, <1>9, <1>16 DEF Broken
<1> QED BY <1>10, <1>12, <1>14, <1>16, <1>18, <1>19

\* The clock of an endpoint: its sender's timer, and the time since a segment came.
LEMMA ClockMoves ==
    ASSUME NEW u, NEW d, NEW n \in Nat, Fine(u, d, n), NEW ms \in Nat,
           NEW v \in ConnectionSet, v.sender = sender_tick(u.sender, ms),
           v.receiver = u.receiver, v.segments_out = u.segments_out,
           v.active = u.active, v.linger = u.linger
    PROVE  Fine(v, d, n) /\ Onward(u, v) /\ SameSource(u, v)
<1> DEFINE t == u.sender
           s == sender_tick(t, ms)
           w == [u EXCEPT !.sender = s]
<1>1. /\ u \in ConnectionSet /\ FillInv(t) /\ (t.timer_running <=> ~Settled(t))
      /\ \A e \in Range(t.segments_out) : Queued(e, t)
      /\ t.ackno =< TakenBy(d.receiver) /\ t.stream.bytes_written =< n
      /\ t.ackno \in Nat /\ TakenBy(u.receiver) \in Nat
  BY FineParts
<1>2. /\ FillInv(s) /\ (s.timer_running <=> ~Settled(s))
      /\ Filled(t, s) /\ s.next_seqno = t.next_seqno /\ s.stream = t.stream
      /\ s.fin_sent = t.fin_sent
  BY <1>1, TickStep
<1> HIDE DEF s
<1>3. /\ Grown(t, s) /\ s.ackno = t.ackno
      /\ FilledUp(t) => FilledUp(s)
  BY <1>2 DEF Filled, FilledUp, WindowRight
<1>4. Ahead(t, s) /\ \A e \in Range(s.segments_out) : Queued(e, s)
  BY <1>1, <1>2, <1>3, GrownAhead, QueueStays
<1>5. /\ Fine(w, d, n) /\ w.sender = s /\ w.receiver = u.receiver
      /\ w.active = u.active /\ w.linger = u.linger /\ w.segments_out = u.segments_out
      /\ Ahead(u.sender, w.sender) /\ TakenBy(u.receiver) =< TakenBy(w.receiver)
  BY <1>1, <1>2, <1>3, <1>4, SenderMoves
<1> HIDE DEF w
<1>6. v.sender = s
  BY DEF s
<1>7. v.active => w.active
  BY <1>5
<1>8. Fine(v, d, n)
  BY <1>5, <1>6, <1>7, FlagMoves
<1> QED BY <1>1, <1>2, <1>3, <1>5, <1>6, <1>8 DEF Onward, SameSource

\* A tick of a connection that is active: something is sent again, or the connection
\* gives up, or it is done.
LEMMA TickMoves ==
    ASSUME NEW u, NEW d, NEW n \in Nat, Fine(u, d, n), u.active,
           d.sender.isn \in 0..(Mod32 - 1), NEW ms \in Nat
    PROVE  LET v == connection_tick(u, ms)
           IN  /\ Fine(v, d, n) /\ Onward(u, v)
               /\ \/ Broken(u, v)
                  \/ /\ SameSource(u, v) /\ v.receiver = u.receiver /\ v.linger = u.linger
                     /\ v.active \/ (/\ inbound(v.receiver).input_ended
                                     /\ eof(v.sender.stream) /\ Settled(v.sender))
               /\ \A e \in Range(v.segments_out) :
                     e \in Range(u.segments_out) \/ Fresh(e, v, d.sender.isn)
<1> DEFINE now   == Lesser(u.time_since_last_segment_received + ms, LingerTime)
           s     == sender_tick(u.sender, ms)
           later == [u EXCEPT !.time_since_last_segment_received = now, !.sender = s]
           p     == push_segments_out(later)
           done  == /\ Finished(p)
                    /\ ~p.linger \/ p.time_since_last_segment_received >= LingerTime
           a     == p.active /\ ~done
           closed == [p EXCEPT !.active = a]
           over  == unclean_shutdown(later, TRUE)
           v     == connection_tick(u, ms)
<1>1. now \in Nat
  <2>1. u.time_since_last_segment_received \in Nat
    <3>1. u \in ConnectionSet
      BY FineParts
    <3> QED BY <3>1 DEF ConnectionSet
  <2> QED BY <2>1, ConnectionAssumption DEF Lesser
<1>2. v = over \/ v = closed
  BY DEF connection_tick, CloseIfDone
<1> HIDE DEF now, v
<1>3. /\ Fine(later, d, n) /\ Onward(u, later) /\ SameSource(u, later)
      /\ later.receiver = u.receiver /\ later.segments_out = u.segments_out
      /\ later.active = u.active /\ later.linger = u.linger
  <2>1. u \in ConnectionSet /\ s \in SenderSet
    <3>1. /\ u \in ConnectionSet /\ FillInv(u.sender)
          /\ (u.sender.timer_running <=> ~Settled(u.sender))
      BY FineParts
    <3>2. FillInv(s)
      BY <3>1, TickStep
    <3> QED BY <3>1, <3>2 DEF FillInv
  <2>2. s = sender_tick(u.sender, ms)
    OBVIOUS
  <2> HIDE DEF s
  <2>3. /\ later \in ConnectionSet /\ later.sender = s /\ later.receiver = u.receiver
        /\ later.segments_out = u.segments_out
        /\ later.active = u.active /\ later.linger = u.linger
    BY <1>1, <2>1 DEF ConnectionSet
  <2> HIDE DEF later
  <2> QED BY <2>2, <2>3, ClockMoves
<1> HIDE DEF later
<1>4. CASE v = over
  <2>1. /\ Fine(over, d, n) /\ Onward(later, over) /\ Broken(later, over)
        /\ \A e \in Range(over.segments_out) : e \in Range(later.segments_out) \/ e.rst
    BY <1>3, ResetMoves
  <2> HIDE DEF over
  <2>2. Onward(u, over)
    BY <1>3, <2>1, OnwardChains
  <2>3. Broken(u, over)
    BY <1>3, <2>1 DEF Broken, SameSource
  <2> QED BY <1>3, <1>4, <2>1, <2>2, <2>3 DEF Fresh, v
<1>5. CASE v = closed
  <2>1. /\ Fine(p, d, n) /\ Onward(later, p)
        /\ p.sender.stream = later.sender.stream /\ p.receiver = later.receiver
        /\ p.active = later.active /\ p.linger = later.linger
        /\ \A e \in Range(p.segments_out) :
              e \in Range(later.segments_out) \/ Fresh(e, p, d.sender.isn)
    BY <1>3, PushOut
  <2>2. a \in BOOLEAN
    OBVIOUS
  <2>3. ~a => p.active = FALSE \/ (/\ inbound(p.receiver).input_ended
                                   /\ eof(p.sender.stream) /\ Settled(p.sender))
    <3>1. FillInv(p.sender)
      BY <2>1, FineParts
    <3>2. bytes_in_flight(p.sender) = 0 => Settled(p.sender)
      BY <3>1, InFlight
    <3>3. p \in ConnectionSet
      BY <2>1, FineParts
    <3> HIDE DEF p
    <3>4. p.active \in BOOLEAN
      BY <3>3 DEF ConnectionSet
    <3> QED BY <3>2, <3>4 DEF Finished
  <2> HIDE DEF p, a
  <2>4. p \in ConnectionSet
    BY <2>1, FineParts
  <2>5. /\ closed \in ConnectionSet /\ closed.sender = p.sender /\ closed.receiver = p.receiver
        /\ closed.segments_out = p.segments_out /\ closed.active = a /\ closed.linger = p.linger
    BY <2>2, <2>4 DEF ConnectionSet
  <2>6. closed.active => p.active
    BY <2>5 DEF a
  <2> HIDE DEF closed
  <2>7. Fine(closed, d, n) /\ Onward(p, closed) /\ SameSource(p, closed)
    BY <2>1, <2>5, <2>6, FlagMoves
  <2>8. Onward(u, p)
    BY <1>3, <2>1, OnwardChains
  <2>9. Onward(u, closed)
    BY <1>3, <2>1, <2>7, <2>8, OnwardChains
  <2>10. SameSource(u, closed)
    BY <1>3, <2>1, <2>5 DEF SameSource
  <2>11. \A e \in Range(closed.segments_out) :
            e \in Range(u.segments_out) \/ Fresh(e, closed, d.sender.isn)
    BY <1>3, <2>1, <2>5 DEF Fresh
  <2>12. closed.active \/ (/\ inbound(closed.receiver).input_ended
                           /\ eof(closed.sender.stream) /\ Settled(closed.sender))
    BY <1>3, <2>1, <2>3, <2>5
  <2> QED BY <1>3, <1>5, <2>1, <2>5, <2>7, <2>9, <2>10, <2>11, <2>12 DEF v
<1> QED BY <1>2, <1>4, <1>5

\* The stream of a sender changes and what the window lets out of it is sent.
LEMMA StreamMoves ==
    ASSUME NEW u, NEW d, NEW n \in Nat, Fine(u, d, n), d.sender.isn \in 0..(Mod32 - 1),
           NEW s, FillInv(s), Settled(s) <=> Settled(u.sender), OnlyStream(u.sender, s),
           s.stream.bytes_read = u.sender.stream.bytes_read,
           s.stream.error = u.sender.stream.error, s.stream.bytes_written =< n
    PROVE  LET v == push_segments_out([u EXCEPT !.sender = fill_window(s)])
           IN  /\ Fine(v, d, n) /\ Onward(u, v) /\ FilledUp(v.sender)
               /\ v.sender.stream.bytes_written = s.stream.bytes_written
               /\ v.sender.stream.input_ended = s.stream.input_ended
               /\ v.sender.stream.error = s.stream.error
               /\ v.receiver = u.receiver /\ v.active = u.active /\ v.linger = u.linger
               /\ \A e \in Range(v.segments_out) :
                     e \in Range(u.segments_out) \/ Fresh(e, v, d.sender.isn)
<1> DEFINE t == u.sender
           w == [u EXCEPT !.sender = s]
           f == fill_window(w.sender)
           x == [w EXCEPT !.sender = f]
           v == push_segments_out(x)
<1>1. /\ u \in ConnectionSet /\ FillInv(t) /\ (t.timer_running <=> ~Settled(t))
      /\ \A e \in Range(t.segments_out) : Queued(e, t)
      /\ t.ackno =< TakenBy(d.receiver) /\ t.stream.bytes_read \in Nat
      /\ t.ackno \in Nat /\ TakenBy(u.receiver) \in Nat
  BY FineParts
<1>2. /\ Ahead(t, s) /\ (s.timer_running <=> ~Settled(s)) /\ s.ackno = t.ackno
      /\ s.segments_out = t.segments_out
  BY <1>1 DEF OnlyStream, Ahead
<1>3. \A e \in Range(s.segments_out) : Queued(e, s)
  BY <1>1, <1>2, PartStays DEF Queued
<1>4. /\ Fine(w, d, n) /\ w.sender = s /\ w.receiver = u.receiver
      /\ w.active = u.active /\ w.linger = u.linger /\ w.segments_out = u.segments_out
      /\ Ahead(u.sender, w.sender) /\ TakenBy(u.receiver) =< TakenBy(w.receiver)
  BY <1>1, <1>2, <1>3, SenderMoves
<1>5. [u EXCEPT !.sender = fill_window(s)] = x
  <2>1. w.sender = s
    BY <1>4
  <2> QED BY <1>1, <2>1 DEF ConnectionSet
<1> HIDE DEF w
<1>6. /\ Fine(x, d, n) /\ Onward(w, x) /\ FilledUp(x.sender) /\ SameSource(w, x)
      /\ x.sender = f /\ x.receiver = w.receiver /\ x.segments_out = w.segments_out
      /\ x.active = w.active /\ x.linger = w.linger
  BY <1>4, FillMoves
<1> HIDE DEF f, x
<1>7. /\ Fine(v, d, n) /\ Onward(x, v)
      /\ v.sender.stream = x.sender.stream /\ v.receiver = x.receiver
      /\ v.active = x.active /\ v.linger = x.linger
      /\ \A e \in Range(v.segments_out) :
            e \in Range(x.segments_out) \/ Fresh(e, v, d.sender.isn)
  BY <1>6, PushOut
<1> HIDE DEF v
<1>8. FilledUp(v.sender)
  BY <1>6, <1>7 DEF Onward
<1>9. Onward(u, v)
  <2>1. Onward(w, v)
    BY <1>4, <1>6, <1>7, OnwardChains
  <2>2. v.sender.stream.bytes_read \in Nat /\ w.sender.stream.bytes_read \in Nat
    BY <1>4, <1>7, FineParts
  <2>3. Ahead(u.sender, v.sender)
    BY <1>1, <1>4, <2>1, <2>2, AheadChains DEF Onward
  <2> QED BY <1>2, <1>4, <1>8, <2>1, <2>3 DEF Onward
<1>10. /\ v.sender.stream.bytes_written = s.stream.bytes_written
       /\ v.sender.stream.input_ended = s.stream.input_ended
       /\ v.sender.stream.error = s.stream.error
  BY <1>4, <1>6, <1>7 DEF SameSource
<1>11. /\ v.receiver = u.receiver /\ v.active = u.active /\ v.linger = u.linger
       /\ \A e \in Range(v.segments_out) :
             e \in Range(u.segments_out) \/ Fresh(e, v, d.sender.isn)
  BY <1>4, <1>6, <1>7
<1> QED BY <1>5, <1>7, <1>8, <1>9, <1>10, <1>11 DEF v

\* connect, of an endpoint that is not over.
LEMMA ConnectMoves ==
    ASSUME NEW u, NEW d, NEW n \in Nat, Fine(u, d, n), d.sender.isn \in 0..(Mod32 - 1),
           u.active
    PROVE  LET v == connect(u)
           IN  /\ Fine(v, d, n) /\ Onward(u, v) /\ FilledUp(v.sender) /\ SameSource(u, v)
               /\ v.receiver = u.receiver /\ v.active = u.active /\ v.linger = u.linger
               /\ \A e \in Range(v.segments_out) :
                     e \in Range(u.segments_out) \/ Fresh(e, v, d.sender.isn)
<1> DEFINE s == u.sender
           v == push_segments_out([u EXCEPT !.sender = fill_window(s)])
<1>1. u \in ConnectionSet /\ FillInv(s) /\ s.stream.bytes_written =< n
  BY FineParts
<1>2. connect(u) = v
  <2>1. u.active = TRUE
    BY <1>1 DEF ConnectionSet
  <2>2. [u EXCEPT !.sender = fill_window(@), !.active = TRUE]
          = [u EXCEPT !.sender = fill_window(s)]
    BY <1>1, <2>1 DEF ConnectionSet
  <2> QED BY <2>2 DEF connect
<1>3. OnlyStream(u.sender, s)
  BY DEF OnlyStream
<1>4. /\ Fine(v, d, n) /\ Onward(u, v) /\ FilledUp(v.sender)
      /\ v.sender.stream.bytes_written = s.stream.bytes_written
      /\ v.sender.stream.input_ended = s.stream.input_ended
      /\ v.sender.stream.error = s.stream.error
      /\ v.receiver = u.receiver /\ v.active = u.active /\ v.linger = u.linger
      /\ \A e \in Range(v.segments_out) :
            e \in Range(u.segments_out) \/ Fresh(e, v, d.sender.isn)
  BY <1>1, <1>3, StreamMoves
<1> HIDE DEF v
<1> QED BY <1>2, <1>4 DEF SameSource

\* end_input_stream, of an endpoint that may be over.
LEMMA EndMoves ==
    ASSUME NEW u, NEW d, NEW n \in Nat, Fine(u, d, n), d.sender.isn \in 0..(Mod32 - 1)
    PROVE  LET v == end_input_stream(u)
           IN  /\ Fine(v, d, n) /\ Onward(u, v) /\ FilledUp(v.sender)
               /\ v.sender.stream.bytes_written = u.sender.stream.bytes_written
               /\ v.sender.stream.input_ended
               /\ v.sender.stream.error = u.sender.stream.error
               /\ v.receiver = u.receiver /\ v.active = u.active /\ v.linger = u.linger
               /\ \A e \in Range(v.segments_out) :
                     e \in Range(u.segments_out) \/ Fresh(e, v, d.sender.isn)
<1> DEFINE s == [u.sender EXCEPT !.stream = end_input(@)]
           v == push_segments_out([u EXCEPT !.sender = fill_window(s)])
<1>1. u \in ConnectionSet /\ FillInv(u.sender) /\ u.sender.stream.bytes_written =< n
  BY FineParts
<1>2. end_input_stream(u) = v
  BY DEF end_input_stream
<1>3. /\ FillInv(s) /\ (Settled(s) <=> Settled(u.sender)) /\ OnlyStream(u.sender, s)
      /\ s.stream.bytes_written = u.sender.stream.bytes_written
      /\ s.stream.bytes_read = u.sender.stream.bytes_read
      /\ s.stream.input_ended = TRUE
      /\ s.stream.error = u.sender.stream.error
  BY <1>1, EndStep
<1> HIDE DEF s
<1>4. /\ Fine(v, d, n) /\ Onward(u, v) /\ FilledUp(v.sender)
      /\ v.sender.stream.bytes_written = s.stream.bytes_written
      /\ v.sender.stream.input_ended = s.stream.input_ended
      /\ v.sender.stream.error = s.stream.error
      /\ v.receiver = u.receiver /\ v.active = u.active /\ v.linger = u.linger
      /\ \A e \in Range(v.segments_out) :
            e \in Range(u.segments_out) \/ Fresh(e, v, d.sender.isn)
  BY <1>1, <1>3, StreamMoves
<1> HIDE DEF v
<1> QED BY <1>2, <1>3, <1>4

\* write of the next k bytes of the stream; it takes what there is room for.
LEMMA WriteMoves ==
    ASSUME NEW u, NEW d, NEW n \in Nat, Fine(u, d, n), d.sender.isn \in 0..(Mod32 - 1),
           u.active, NEW k \in Nat, u.sender.stream.bytes_written + k =< n
    PROVE  LET v == connection_write(u, Excerpt(u.sender.stream.bytes_written, k))
           IN  /\ Fine(v, d, n) /\ Onward(u, v) /\ FilledUp(v.sender)
               /\ v.sender.stream.bytes_written
                    = u.sender.stream.bytes_written + Accepted(u.sender.stream, k)
               /\ Accepted(u.sender.stream, k) \in 0..k
               /\ v.sender.stream.input_ended = u.sender.stream.input_ended
               /\ v.sender.stream.error = u.sender.stream.error
               /\ v.receiver = u.receiver /\ v.active = u.active /\ v.linger = u.linger
               /\ \A e \in Range(v.segments_out) :
                     e \in Range(u.segments_out) \/ Fresh(e, v, d.sender.isn)
<1> DEFINE b    == u.sender.stream.bytes_written
           data == Excerpt(u.sender.stream.bytes_written, k)
           s    == [u.sender EXCEPT !.stream = write(@, data)]
           v    == push_segments_out([u EXCEPT !.sender = fill_window(s)])
           q    == Accepted(u.sender.stream, k)
<1>1. /\ u \in ConnectionSet /\ FillInv(u.sender) /\ u.sender.stream \in StreamSet
      /\ u.sender.stream.error = FALSE
  <2>1. u \in ConnectionSet /\ FillInv(u.sender) /\ u.sender.stream \in StreamSet
    BY FineParts
  <2>2. ~u.sender.stream.error
    BY DEF Fine, Sends
  <2> QED BY <2>1, <2>2 DEF StreamSet
<1>2. b \in Nat /\ q \in 0..k
  <2>1. /\ b \in Nat /\ u.sender.stream.capacity \in Nat
        /\ Len(u.sender.stream.buffer) \in Nat
        /\ Len(u.sender.stream.buffer) =< u.sender.stream.capacity
    BY <1>1 DEF StreamSet, FillInv, Buffers
  <2>2. \/ q = 0
        \/ q = k
        \/ q = remaining_capacity(u.sender.stream) /\ ~(k < q)
    BY DEF Accepted, Lesser
  <2>3. remaining_capacity(u.sender.stream) \in Nat
    BY <2>1 DEF remaining_capacity
  <2> HIDE DEF b, q
  <2>4. q \in 0..k
    BY <2>2, <2>3
  <2> QED BY <2>1, <2>4
<1>3. connection_write(u, data) = v
  BY DEF connection_write
<1>4. /\ FillInv(s) /\ (Settled(s) <=> Settled(u.sender)) /\ OnlyStream(u.sender, s)
      /\ s.stream.bytes_written = u.sender.stream.bytes_written + q
      /\ s.stream.bytes_read = u.sender.stream.bytes_read
      /\ s.stream.input_ended = u.sender.stream.input_ended
      /\ s.stream.error = u.sender.stream.error
  <2> DEFINE t == u.sender
             r == [t EXCEPT !.stream = write(@, data)]
  <2>1. FillInv(t) /\ k \in Nat /\ data = Excerpt(t.stream.bytes_written, k)
    BY <1>1
  <2>2. r = [t EXCEPT !.stream = write(@, data)]
    OBVIOUS
  <2>3. s = r /\ u.sender = t /\ q = Accepted(t.stream, k)
    OBVIOUS
  <2> HIDE DEF t, r, data, s, q
  <2>4. /\ FillInv(r) /\ (Settled(r) <=> Settled(t)) /\ OnlyStream(t, r)
        /\ r.stream.bytes_written = t.stream.bytes_written + Accepted(t.stream, k)
        /\ r.stream.bytes_read = t.stream.bytes_read
        /\ r.stream.input_ended = t.stream.input_ended
        /\ r.stream.error = t.stream.error
    BY ONLY <2>1, <2>2, WriteStep
  <2> QED BY ONLY <2>3, <2>4
<1> HIDE DEF s, q, b
<1>5. s.stream.bytes_written = b + q /\ s.stream.bytes_written =< n
  <2>1. s.stream.bytes_written = b + q /\ b + k =< n
    BY <1>4 DEF b
  <2> QED BY <1>2, <2>1
<1>6. /\ Fine(v, d, n) /\ Onward(u, v) /\ FilledUp(v.sender)
      /\ v.sender.stream.bytes_written = s.stream.bytes_written
      /\ v.sender.stream.input_ended = s.stream.input_ended
      /\ v.sender.stream.error = s.stream.error
      /\ v.receiver = u.receiver /\ v.active = u.active /\ v.linger = u.linger
      /\ \A e \in Range(v.segments_out) :
            e \in Range(u.segments_out) \/ Fresh(e, v, d.sender.isn)
  BY <1>1, <1>4, <1>5, StreamMoves
<1> HIDE DEF v
<1> QED BY <1>2, <1>3, <1>4, <1>5, <1>6 DEF b, q

\* k bytes are popped.
LEMMA PopSome ==
    ASSUME NEW o \in StreamSet, NEW k \in Nat, k =< Len(o.buffer)
    PROVE  LET p == pop_output(o, k)
           IN  /\ p \in StreamSet /\ p.capacity = o.capacity /\ p.input_ended = o.input_ended
               /\ p.bytes_written = o.bytes_written /\ p.error = o.error
               /\ Len(p.buffer) = Len(o.buffer) - k /\ Len(o.buffer) \in Nat
               /\ p.buffer = SubSeq(o.buffer, k + 1, Len(o.buffer))
<1> DEFINE b == o.buffer
           q == SubSeq(b, k + 1, Len(b))
           r == o.bytes_read + k
           p == pop_output(o, k)
<1>1. b \in Seq(Nat) /\ Len(b) \in Nat /\ o.bytes_read \in Nat
  BY DEF StreamSet
<1>2. Lesser(k, Len(b)) = k
  BY <1>1 DEF Lesser
<1>3. p = [o EXCEPT !.buffer = q, !.bytes_read = r]
  BY <1>2 DEF pop_output
<1>4. q \in Seq(Nat) /\ Len(q) = Len(b) - k
  <2>1. k + 1 \in 1..(Len(b) + 1) /\ k =< Len(b)
    BY <1>1
  <2>2. \A j \in (k + 1)..Len(b) : j \in 1..Len(b) /\ b[j] \in Nat
    BY <1>1
  <2>3. q \in Seq(Nat) /\ Len(q) = IF k + 1 =< Len(b) THEN Len(b) - (k + 1) + 1 ELSE 0
    BY <1>1, <2>1, <2>2, SubSeqProperties
  <2> QED BY <1>1, <2>1, <2>3
<1>5. r \in Nat
  BY <1>1
<1> HIDE DEF b, q, r, p
<1>6. /\ p \in StreamSet /\ p.capacity = o.capacity /\ p.input_ended = o.input_ended
      /\ p.bytes_written = o.bytes_written /\ p.error = o.error /\ p.buffer = q
  BY <1>3, <1>4, <1>5 DEF StreamSet
<1> QED BY <1>1, <1>4, <1>6 DEF p, b, q

\* The application takes k bytes.
LEMMA ReadMoves ==
    ASSUME NEW u, NEW d, NEW n, Fine(u, d, n),
           NEW k \in Nat, k =< Len(inbound(u.receiver).buffer),
           d.sender.stream.bytes_read \in Nat
    PROVE  LET v == read_inbound(u, k)
           IN  /\ Fine(v, d, n) /\ Onward(u, v)
               /\ v.sender = u.sender /\ v.segments_out = u.segments_out
               /\ v.active = u.active /\ v.linger = u.linger
               /\ v.receiver.isn = u.receiver.isn
               /\ v.receiver.reassembler.eof_idx = u.receiver.reassembler.eof_idx
               /\ inbound(v.receiver).buffer =
                    SubSeq(inbound(u.receiver).buffer, k + 1, Len(inbound(u.receiver).buffer))
               /\ Len(inbound(v.receiver).buffer) = Len(inbound(u.receiver).buffer) - k
               /\ inbound(v.receiver).bytes_written = inbound(u.receiver).bytes_written
               /\ inbound(v.receiver).input_ended = inbound(u.receiver).input_ended
               /\ inbound(v.receiver).error = inbound(u.receiver).error
<1> DEFINE rcv == u.receiver
           x   == rcv.reassembler
           o   == x.output
           out == pop_output(o, k)
           y   == [x EXCEPT !.output = out]
           new == [rcv EXCEPT !.reassembler = y]
           v   == [u EXCEPT !.receiver = new]
           N   == d.sender.stream.bytes_read
<1>1. /\ u \in ConnectionSet /\ rcv \in ReceiverSet /\ TakenBy(rcv) \in Nat
      /\ u.sender.stream.bytes_read \in Nat /\ u.sender.ackno \in Nat
      /\ inbound(rcv) = o /\ o \in StreamSet /\ k =< Len(o.buffer)
      /\ x \in [chunks : Stores, next : Nat, unassembled_bytes : Nat, eof_idx : Int,
                output : StreamSet]
  BY FineParts DEF inbound, ReceiverSet
<1>3. read_inbound(u, k) = v
  BY <1>1 DEF read_inbound, ConnectionSet, ReceiverSet
<1>4. /\ out \in StreamSet /\ out.capacity = o.capacity /\ out.input_ended = o.input_ended
      /\ out.bytes_written = o.bytes_written /\ out.error = o.error
      /\ Len(out.buffer) = Len(o.buffer) - k
      /\ out.buffer = SubSeq(o.buffer, k + 1, Len(o.buffer)) /\ Len(o.buffer) \in Nat
  BY <1>1, PopSome
<1>6. u.active => Good(y, N) /\ Closed(y, N)
  <2>1. u.active => Good(x, N) /\ Closed(x, N)
    BY DEF Fine, Hears
  <2>2. y = [x EXCEPT !.output = pop_output(@, k)]
    OBVIOUS
  <2>3. N \in Nat /\ k =< Len(x.output.buffer)
    BY <1>1
  <2> HIDE DEF y, x, N
  <2> QED BY <2>1, <2>2, <2>3, ReadKeeps
<1> HIDE DEF out
<1>7. /\ y.output = out /\ y.eof_idx = x.eof_idx
      /\ y \in [chunks : Stores, next : Nat, unassembled_bytes : Nat, eof_idx : Int,
                output : StreamSet]
  BY <1>1, <1>4
<1> HIDE DEF y
<1>8. /\ new \in ReceiverSet /\ new.reassembler = y /\ new.isn = rcv.isn
      /\ new.fin_received = rcv.fin_received /\ inbound(new) = out
  BY <1>1, <1>7 DEF ReceiverSet, inbound
<1> HIDE DEF new
<1>9. /\ v \in ConnectionSet /\ v.receiver = new /\ v.sender = u.sender
      /\ v.segments_out = u.segments_out /\ v.active = u.active /\ v.linger = u.linger
  BY <1>1, <1>8 DEF ConnectionSet
<1> HIDE DEF v
<1>10. TakenBy(new) = TakenBy(rcv)
  BY <1>1, <1>4, <1>8 DEF TakenBy
<1>11. Sends(v, n)
  BY <1>9 DEF Fine, Sends
<1>12. Hears(v, d.sender)
  <2>1. Len(out.buffer) =< out.capacity
    <3>1. Len(o.buffer) =< o.capacity
      BY <1>1 DEF Fine, Hears
    <3>2. o.capacity \in Nat
      BY <1>1 DEF StreamSet
    <3> QED BY <1>4, <3>1, <3>2
  <2>2. Hears(u, d.sender)
    BY DEF Fine
  <2> QED BY <1>1, <1>4, <1>6, <1>7, <1>8, <1>9, <2>1, <2>2 DEF Hears
<1>13. \A e \in Range(v.segments_out) : Sound(e, v, d.sender.isn)
  BY <1>9, <1>10 DEF Fine, Sound
<1>14. Fine(v, d, n)
  BY <1>9, <1>10, <1>11, <1>12, <1>13 DEF Fine
<1>15. Onward(u, v)
  BY <1>1, <1>9, <1>10 DEF Onward, Ahead
<1> QED BY <1>1, <1>3, <1>4, <1>7, <1>8, <1>9, <1>14, <1>15

-----------------------------------------------------------------------------
(* Both connections.                                                        *)

\* A receiver still hears rightly when the peer's sender goes on.
LEMMA HearsStays ==
    ASSUME NEW u, NEW s, NEW t, Hears(u, s), Ahead(s, t),
           s.stream.bytes_read \in Nat, t.stream.bytes_read \in Nat
    PROVE  Hears(u, t)
<1> DEFINE x == u.receiver.reassembler
           N == s.stream.bytes_read
           M == t.stream.bytes_read
<1>1. N =< M /\ (s.fin_sent => M = N)
  BY DEF Ahead
<1>2. inbound(u.receiver).bytes_written \in Nat
  BY DEF Hears, ReceiverSet, StreamSet, inbound
<1>3. u.active => Good(x, M) /\ Closed(x, M)
  <2>1. CASE M = N
    BY <2>1 DEF Hears
  <2>2. CASE M # N
    <3>1. x.eof_idx = NoEof
      BY <1>1, <2>2 DEF Hears
    <3>2. u.active => Good(x, N)
      BY DEF Hears
    <3> HIDE DEF x, N, M
    <3>3. N \in Nat /\ M \in Nat
      BY DEF N, M
    <3> QED BY <1>1, <3>1, <3>2, <3>3, GoodGrows
  <2> QED BY <2>1, <2>2
<1> QED BY <1>1, <1>2, <1>3 DEF Hears, Ahead

\* A receiver takes no more than the peer's sender has sent.
LEMMA TakenIsSent ==
    ASSUME NEW u, NEW s, Hears(u, s), FillInv(s)
    PROVE  TakenBy(u.receiver) =< s.next_seqno
<1>1. /\ s.next_seqno \in Nat /\ s.stream.bytes_read \in Nat
      /\ s.syn_sent \in BOOLEAN /\ s.fin_sent \in BOOLEAN
      /\ s.next_seqno = (IF s.syn_sent THEN 1 ELSE 0) + s.stream.bytes_read
                          + (IF s.fin_sent THEN 1 ELSE 0)
  BY DEF FillInv, SenderSet, StreamSet, Accounts
<1>2. /\ inbound(u.receiver).bytes_written \in Nat /\ inbound(u.receiver).input_ended \in BOOLEAN
      /\ inbound(u.receiver).bytes_written =< s.stream.bytes_read
      /\ inbound(u.receiver).input_ended => s.fin_sent
      /\ u.receiver.isn # None => s.syn_sent
  BY DEF Hears, ReceiverSet, StreamSet, inbound
<1> DEFINE w == inbound(u.receiver).bytes_written
           e == inbound(u.receiver).input_ended
<1>3. TakenBy(u.receiver) = IF u.receiver.isn = None THEN 0 ELSE 1 + w + (IF e THEN 1 ELSE 0)
  BY DEF TakenBy
<1> HIDE DEF w, e
<1>4. CASE u.receiver.isn = None
  BY <1>1, <1>3, <1>4
<1>5. CASE u.receiver.isn # None
  <2>1. s.syn_sent /\ w \in Nat /\ w =< s.stream.bytes_read /\ (e => s.fin_sent)
    BY <1>2, <1>5 DEF w, e
  <2>2. s.next_seqno = 1 + s.stream.bytes_read + (IF s.fin_sent THEN 1 ELSE 0)
    BY <1>1, <2>1
  <2>3. TakenBy(u.receiver) = 1 + w + (IF e THEN 1 ELSE 0)
    BY <1>3, <1>5
  <2>4. CASE e
    BY <1>1, <2>1, <2>2, <2>3, <2>4
  <2>5. CASE ~e
    BY <1>1, <2>1, <2>2, <2>3, <2>5
  <2> QED BY <2>4, <2>5
<1> QED BY <1>4, <1>5
=============================================================================
