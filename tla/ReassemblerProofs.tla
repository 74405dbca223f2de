-------------------------- MODULE ReassemblerProofs --------------------------
(***************************************************************************)
(* The reassembler delivers the stream, for any capacity, stream length and *)
(* excerpts.                                                                *)
(***************************************************************************)
EXTENDS ReassemblerSpec, ConnectionLemmas

\* The bytes stored are those of substrings that began inside the window.
Near == \A i \in Held(r.chunks, StreamLength) : i + 1 < first_unacceptable_idx(r) + MaxPush

IInv ==
    /\ Good(r, StreamLength) /\ Closed(r, StreamLength) /\ r.output.capacity = Capacity
    /\ Near

\* A new reassembler is empty.
LEMMA InitGood == Init => IInv
<1>1. Good(NewReassembler(Capacity), StreamLength) /\ Closed(NewReassembler(Capacity), StreamLength)
  BY NewReassemblerGood, ReassemblerAssumption
<1>2. Held(NewReassembler(Capacity).chunks, StreamLength) = {}
  BY DEF NewReassembler, Held, HeldIn
<1> QED BY <1>1, <1>2 DEF Init, IInv, Near, NewReassembler, NewStream

\* What a step does to the bytes held.
NothingLost ==
    \A i \in Held(r.chunks, StreamLength) \ Held(r'.chunks, StreamLength) :
        \/ i < r'.next
        \/ i >= first_unacceptable_idx(r) /\ remaining_capacity(r'.output) = 0

\* Where the window ends: it moves with what is read.
LEMMA WindowIs ==
    ASSUME NEW x, Good(x, StreamLength)
    PROVE  /\ first_unacceptable_idx(x) \in Nat /\ x.next \in Nat
           /\ x.output.bytes_read \in Nat /\ x.output.capacity \in Nat
           /\ first_unacceptable_idx(x) = x.output.bytes_read + x.output.capacity
           /\ first_unacceptable_idx(x) = x.next + remaining_capacity(x.output)
<1>1. x.output.bytes_read \in Nat
  BY DEF Good, ReassemblerSet, OutputSet
<1> QED BY <1>1, GoodParts, ReassemblerAssumption

\* So many indices follow one another.
LEMMA RunLength ==
    ASSUME NEW a \in Nat, NEW n \in Nat
    PROVE  IsFiniteSet(a..(a + n - 1)) /\ Cardinality(a..(a + n - 1)) = n
<1>1. a \in Int /\ a + n - 1 \in Int
  OBVIOUS
<1>2. /\ IsFiniteSet(a..(a + n - 1))
      /\ Cardinality(a..(a + n - 1)) = IF a > a + n - 1 THEN 0 ELSE (a + n - 1) - a + 1
  BY <1>1, FS_Interval
<1> QED BY <1>2

\* Of so many bytes that the window lets in, less than one substring is too much.
LEMMA Sums ==
    ASSUME NEW c \in Nat, NEW l \in Nat, NEW room \in Nat, room = c - l,
           NEW most \in Nat, most > 0, NEW n \in Nat, n =< room + most - 1
    PROVE  l + n =< c + most - 1
  OBVIOUS

\* Every step keeps the invariant and loses no byte inside the window.
LEMMA StepGood == IInv /\ [Next]_r => IInv' /\ NothingLost
<1> SUFFICES ASSUME IInv, [Next]_r
             PROVE  IInv' /\ NothingLost
  OBVIOUS
<1>1. /\ Good(r, StreamLength) /\ Closed(r, StreamLength) /\ r.output.capacity = Capacity
      /\ Near
  BY DEF IInv
<1>2. ASSUME NEW index \in 0..StreamLength, NEW len \in 0..MaxPush, NEW is_last \in BOOLEAN,
             Push(index, len, is_last)
      PROVE  IInv' /\ NothingLost
  <2>1. /\ len \in Nat /\ index + len =< StreamLength /\ len =< MaxPush /\ MaxPush \in Nat
        /\ is_last => index + len = StreamLength
        /\ r' = push_substring(r, Excerpt(index, len), index, is_last)
    BY <1>2, ReassemblerAssumption DEF Push, Pushed
  <2>2. /\ Good(r', StreamLength) /\ Closed(r', StreamLength)
        /\ Unread(r.output, r'.output)
        /\ \/ Held(r.chunks, StreamLength) \subseteq Held(r'.chunks, StreamLength) \cup 0..(r'.next - 1)
           \/ remaining_capacity(r'.output) = 0
        /\ \A i \in Held(r'.chunks, StreamLength) \ Held(r.chunks, StreamLength) :
               i + 1 < first_unacceptable_idx(r) + len
    <3> DEFINE N == StreamLength
               y == push_substring(r, Excerpt(index, len), index, is_last)
    <3>1. N \in Nat /\ index \in 0..N /\ len \in Nat /\ index + len =< N
          /\ is_last \in BOOLEAN /\ (is_last => index + len = N)
      BY <2>1, ReassemblerAssumption
    <3>2. Good(r, N) /\ Closed(r, N) /\ r' = y
      BY <1>1, <2>1
    <3> HIDE DEF N
    <3>3. /\ Good(y, N) /\ Closed(y, N) /\ Unread(r.output, y.output)
          /\ \/ Held(r.chunks, N) \subseteq Held(y.chunks, N) \cup 0..(y.next - 1)
             \/ remaining_capacity(y.output) = 0
          /\ \A i \in Held(y.chunks, N) \ Held(r.chunks, N) :
                 i + 1 < first_unacceptable_idx(r) + len
      BY ONLY SMTT(30), <3>1, <3>2, PushKeeps
    <3> HIDE DEF y
    <3> QED BY <3>2, <3>3 DEF N
  <2>3. /\ r'.next \in Nat /\ first_unacceptable_idx(r) \in Nat
        /\ first_unacceptable_idx(r') = first_unacceptable_idx(r)
        /\ first_unacceptable_idx(r') = r'.next + remaining_capacity(r'.output)
    BY <1>1, <2>2, WindowIs DEF Unread
  <2>4. Held(r.chunks, StreamLength) \subseteq Nat /\ Held(r'.chunks, StreamLength) \subseteq Nat
    BY ReassemblerAssumption DEF Held, HeldIn
  <2>5. NothingLost
    BY <2>2, <2>3, <2>4 DEF NothingLost
  <2>6. Near'
    BY <1>1, <2>1, <2>2, <2>3, <2>4 DEF Near
  <2> QED BY <1>1, <2>2, <2>5, <2>6 DEF IInv, Unread
<1>3. ASSUME NEW len \in 1..Capacity, Read(len)
      PROVE  IInv' /\ NothingLost
  <2>1. /\ len \in Nat /\ len =< Len(r.output.buffer)
        /\ r' = [r EXCEPT !.output = pop_output(@, len)]
    BY <1>3, ReassemblerAssumption DEF Read
  <2>2. Good(r', StreamLength) /\ Closed(r', StreamLength) /\ r'.chunks = r.chunks
        /\ r'.output.capacity = r.output.capacity
        /\ r.output.bytes_read =< r'.output.bytes_read
    <3>1. Good(r', StreamLength) /\ Closed(r', StreamLength) /\ r'.chunks = r.chunks
          /\ r'.output.capacity = r.output.capacity
      BY <1>1, <2>1, ReadKeeps, ReassemblerAssumption
    <3>2. r'.output.bytes_read = r.output.bytes_read + len
      <4>1. /\ r \in ReassemblerSet(StreamLength) /\ Len(r.output.buffer) \in Nat
            /\ r.output.bytes_read \in Nat
        BY <1>1, GoodParts, WindowIs, ReassemblerAssumption DEF Good
      <4>2. Lesser(len, Len(r.output.buffer)) = len
        BY <2>1, <4>1 DEF Lesser
      <4>3. r'.output = pop_output(r.output, len)
        BY <2>1, <4>1 DEF ReassemblerSet
      <4>4. r.output \in OutputSet
        BY <4>1 DEF ReassemblerSet
      <4> QED BY <4>1, <4>2, <4>3, <4>4 DEF pop_output, OutputSet
    <3> QED BY <1>1, <2>1, <3>1, <3>2, WindowIs
  <2>3. /\ first_unacceptable_idx(r) \in Nat /\ first_unacceptable_idx(r') \in Nat
        /\ first_unacceptable_idx(r) =< first_unacceptable_idx(r')
    BY <1>1, <2>2, WindowIs
  <2>4. Held(r.chunks, StreamLength) \subseteq Nat
    BY ReassemblerAssumption DEF Held, HeldIn
  <2>5. Near'
    BY <1>1, <2>2, <2>3, <2>4, ReassemblerAssumption DEF Near
  <2> QED BY <1>1, <2>2, <2>5 DEF IInv, NothingLost
<1>4. CASE UNCHANGED r
  BY <1>1, <1>4 DEF IInv, Near, Good, Closed, NothingLost
<1> QED BY <1>2, <1>3, <1>4 DEF Next

\* The inductive invariant: whatever excerpts push_substring gets, in whatever order.
THEOREM Inductive == Spec => []IInv
<1>1. IInv /\ [Next]_r => IInv'
  BY StepGood
<1> QED BY InitGood, <1>1, PTL DEF Spec

\* The invariant gives the five that the run checks.
LEMMA Consequences ==
    IInv => /\ ChunksDisjoint /\ OutputIsStream /\ EndsExactly
            /\ ExcessIsOneSubstring /\ CounterCoversStored
<1> SUFFICES ASSUME IInv
             PROVE  /\ ChunksDisjoint /\ OutputIsStream /\ EndsExactly
                    /\ ExcessIsOneSubstring /\ CounterCoversStored
  OBVIOUS
<1>1. /\ Good(r, StreamLength) /\ Closed(r, StreamLength) /\ r.output.capacity = Capacity
      /\ Near
  BY DEF IInv
<1>2. ChunksDisjoint
  BY <1>1 DEF Good, Chunked, ChunksDisjoint
<1>3. OutputIsStream
  BY <1>1 DEF Good, Delivered, OutputIsStream
<1>4. EndsExactly
  BY <1>1 DEF Good, Closed, ReassemblerSet, EndsExactly
<1>5. SumOfLengths(r.chunks, DOMAIN r.chunks) = Cardinality(Held(r.chunks, StreamLength))
  BY <1>1, GoodParts, SumIs, ReassemblerAssumption DEF Held
<1>6. ExcessIsOneSubstring
  <2> DEFINE H == Held(r.chunks, StreamLength)
             room == remaining_capacity(r.output)
             most == room + MaxPush - 1
             I == r.next..(r.next + most - 1)
             l == Len(r.output.buffer)
             n == Cardinality(H)
  <2>1. /\ r.next \in Nat /\ room \in Nat /\ MaxPush \in Nat /\ MaxPush > 0
        /\ first_unacceptable_idx(r) = r.next + room
        /\ room = Capacity - l /\ l \in Nat /\ Capacity \in Nat
    BY <1>1, GoodParts, ReassemblerAssumption
  <2> HIDE DEF room, l
  <2>2. most \in Nat
    BY <2>1
  <2>3. H \subseteq I
    <3> SUFFICES ASSUME NEW i \in H PROVE i \in I
      OBVIOUS
    <3>1. i \in Nat /\ i + 1 < (r.next + room) + MaxPush
      BY <1>1, <2>1, ReassemblerAssumption DEF Near, Held, HeldIn
    <3>2. PICK c \in DOMAIN r.chunks : c =< i /\ c \in Nat /\ r.next =< c
      BY <1>1, GoodParts, PieceEnds, ReassemblerAssumption DEF Held, HeldIn, Holds, Good
    <3> HIDE DEF H
    <3> QED BY <2>1, <3>1, <3>2
  <2>4. IsFiniteSet(I) /\ Cardinality(I) = most
    <3> HIDE DEF most
    <3> QED BY <2>1, <2>2, RunLength
  <2> HIDE DEF H, I
  <2>5. n \in Nat /\ n =< most
    BY <2>3, <2>4, FS_Subset, FS_CardinalityType
  <2>6. l + n =< Capacity + MaxPush - 1
    <3> HIDE DEF n
    <3> QED BY <2>1, <2>5, Sums
  <2> QED BY <1>5, <2>6 DEF ExcessIsOneSubstring, H, l
<1>7. CounterCoversStored
  <2>1. Cardinality(Held(r.chunks, StreamLength)) \in Nat /\ r.unassembled_bytes \in Nat
        /\ Cardinality(Held(r.chunks, StreamLength)) =< r.unassembled_bytes
    BY <1>1, GoodParts, HeldFinite, ReassemblerAssumption DEF Good, Held
  <2> QED BY <1>5, <2>1 DEF CounterCoversStored
<1> QED BY <1>2, <1>3, <1>4, <1>6, <1>7

\* The chunks of _unassemble_strs never overlap and hold the bytes of the stream that
\* belong at their index (stream_reassembler.cc:55 and the assertion of line 168).
THEOREM Disjoint == Spec => []ChunksDisjoint
<1> QED BY Inductive, Consequences, PTL

\* Out of order, overlapping, repeated or cut at the window: the output is the stream
\* from its first byte, without a hole.
THEOREM Delivery == Spec => []OutputIsStream
<1> QED BY Inductive, Consequences, PTL

\* The output is closed exactly when every byte is written and the end is known.
THEOREM Ending == Spec => []EndsExactly
<1> QED BY Inductive, Consequences, PTL

\* What is kept exceeds the capacity by less than one substring: the test of
\* stream_reassembler.cc:140-141 only looks at where a substring begins.
THEOREM Excess == Spec => []ExcessIsOneSubstring
<1> QED BY Inductive, Consequences, PTL

\* The unsigned _unassembled_bytes_num never wraps below zero.
THEOREM Counter == Spec => []CounterCoversStored
<1> QED BY Inductive, Consequences, PTL

\* A stored byte inside the window leaves the store for the output only, although covered
\* chunks are erased before the window test; one past it may be lost once the output is full.
THEOREM NoLoss == Spec => DiscardsOnlyPastWindow
<1>1. IInv /\ [Next]_r =>
        [\A i \in Stored \ Stored' :
            \/ i < r'.next
            \/ i >= first_unacceptable_idx(r) /\ remaining_capacity(r'.output) = 0]_r
  BY StepGood DEF NothingLost, Stored, Held, HeldIn
<1> QED BY Inductive, <1>1, PTL DEF Spec, DiscardsOnlyPastWindow
=============================================================================
