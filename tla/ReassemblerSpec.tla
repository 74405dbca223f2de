--------------------------- MODULE ReassemblerSpec ---------------------------
(***************************************************************************)
(* A StreamReassembler fed with excerpts of one stream, in any order,       *)
(* overlapping, repeated and partly beyond the window, while an application *)
(* reads the output at its own pace.  The byte at index i of the stream is  *)
(* the number i, so a displaced byte shows.                                 *)
(***************************************************************************)
EXTENDS StreamReassembler

CONSTANTS Capacity,       \* capacity of the reassembler, at least 1
          StreamLength,   \* length of the peer's stream
          MaxPush,        \* the longest excerpt
          MaxCounted      \* bound on the counter of unassembled bytes

ASSUME ReassemblerAssumption ==
    /\ Capacity \in Nat \ {0}
    /\ StreamLength \in Nat
    /\ MaxPush \in Nat \ {0}
    /\ MaxCounted \in Nat

VARIABLE r

Init == r = NewReassembler(Capacity)

Pushed(index, len, is_last) == push_substring(r, Excerpt(index, len), index, is_last)

\* The eof flag travels on the excerpt that ends the stream, or on none: the
\* peer may send its last bytes and its FIN apart.  The last conjunct bounds the
\* state space: an excerpt does not lift the counter over MaxCounted.
Push(index, len, is_last) ==
    /\ index + len =< StreamLength
    /\ is_last => index + len = StreamLength
    /\ r' = Pushed(index, len, is_last)
    /\ r'.unassembled_bytes =< Greater(MaxCounted, r.unassembled_bytes)

Read(len) ==
    /\ len =< Len(r.output.buffer)
    /\ r' = [r EXCEPT !.output = pop_output(@, len)]

Next ==
    \/ \E index \in 0..StreamLength, len \in 0..MaxPush, is_last \in BOOLEAN :
           Push(index, len, is_last)
    \/ \E len \in 1..Capacity : Read(len)

\* What the peer's retransmission timer keeps doing: it sends again from the
\* first byte that is not acknowledged, with the FIN if it fits.
PushNext ==
    \E len \in 0..MaxPush :
        /\ len > 0 \/ r.next = StreamLength
        /\ Push(r.next, len, r.next + len = StreamLength)

\* ENABLED <<PushNext>>_r, spelled out.
CanPushNext ==
    \E len \in 0..Lesser(MaxPush, StreamLength - r.next) :
        LET pushed == Pushed(r.next, len, r.next + len = StreamLength)
        IN  /\ len > 0 \/ r.next = StreamLength
            /\ pushed.unassembled_bytes =< Greater(MaxCounted, r.unassembled_bytes)
            /\ pushed # r

\* Weak fairness of both.
Fairness ==
    /\ []<>~CanPushNext \/ []<><<PushNext>>_r
    /\ WF_r(\E len \in 1..Capacity : Read(len))

Spec == Init /\ [][Next]_r

FairSpec == Spec /\ Fairness

-----------------------------------------------------------------------------
Stored == {i \in 0..StreamLength : \E c \in DOMAIN r.chunks : Holds(r.chunks, c, i)}

\* The chunks never overlap, hold the bytes their index says, and none starts
\* before the next index: the assertion of stream_reassembler.cc:168 and the
\* comment of line 55 ("no two substrings overlap").
ChunksDisjoint ==
    \A c \in DOMAIN r.chunks :
        /\ r.next =< c
        /\ r.chunks[c] = Excerpt(c, Len(r.chunks[c]))
        /\ r.chunks[c] # << >>
        /\ \A d \in DOMAIN r.chunks : c < d => ChunkEnd(r.chunks, c) =< d

\* The output is the stream itself, from its first byte and without a hole,
\* whatever order the excerpts came in, and it never holds more than Capacity.
OutputIsStream ==
    /\ r.output.bytes_written = r.next
    /\ r.output.buffer = Excerpt(r.output.bytes_read, r.next - r.output.bytes_read)
    /\ Len(r.output.buffer) =< Capacity

\* The output ends exactly when the whole stream is written and its end is known.
EndsExactly ==
    /\ r.eof_idx \in {NoEof, StreamLength}
    /\ r.output.input_ended <=> (r.eof_idx # NoEof /\ r.next = StreamLength)

\* Output and store together hold more than the capacity by less than one substring:
\* only a chunk that begins inside the window reaches past it, the excess that the
\* comment of stream_reassembler.cc:135-139 accepts (about 1 kB, one segment) and the
\* header does not (WithinCapacity below).
ExcessIsOneSubstring ==
    Len(r.output.buffer) + SumOfLengths(r.chunks, DOMAIN r.chunks) =< Capacity + MaxPush - 1

\* unassembled_bytes never counts fewer bytes than are stored, so the unsigned
\* counter never wraps below zero.
CounterCoversStored == r.unassembled_bytes >= SumOfLengths(r.chunks, DOMAIN r.chunks)

\* A stored byte leaves the store into the output, or else it lies past the window and
\* the output is full.  There both erases lose what was kept: that of lines 126-127,
\* when the window test of line 141 then drops the substring that covered the chunk,
\* and that of lines 173-179.  Inside the window neither loses a byte.
DiscardsOnlyPastWindow ==
    [][\A i \in Stored \ Stored' :
          \/ i < r'.next
          \/ i >= first_unacceptable_idx(r) /\ remaining_capacity(r'.output) = 0]_r

\* If the peer retransmits from the first missing byte and the application
\* reads, the whole stream and its end reach the application.
EventuallyAllRead ==
    <>[](r.output.bytes_read = StreamLength /\ eof(r.output))

-----------------------------------------------------------------------------
\* stream_reassembler.hh:44-45, "the number of bytes in the substrings stored but
\* not yet reassembled".
CountsStoredBytes == r.unassembled_bytes = SumOfLengths(r.chunks, DOMAIN r.chunks)

\* stream_reassembler.hh:24-26 and 31-32, the capacity "limits both the bytes that have
\* been reassembled, and those that have not yet been reassembled" and "bytes that would
\* exceed the capacity are silently discarded".
WithinCapacity ==
    Len(r.output.buffer) + SumOfLengths(r.chunks, DOMAIN r.chunks) =< Capacity
=============================================================================
