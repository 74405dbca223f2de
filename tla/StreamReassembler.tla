-------------------------- MODULE StreamReassembler --------------------------
(***************************************************************************)
(* libsponge/stream_reassembler.cc as operators on a record.                *)
(*   chunks            _unassemble_strs: start index -> nonempty string     *)
(*   next              _next_assembled_idx                                  *)
(*   unassembled_bytes _unassembled_bytes_num, the counter                  *)
(*   eof_idx           _eof_idx, NoEof until a substring carries the flag   *)
(*   output            the ByteStream of reassembled bytes                  *)
(* push_substring's two loops over the ordered map are written as the sets  *)
(* of chunks they erase, cut or write; ReassemblerLoops.tla steps through   *)
(* the loops one iteration at a time and compares.                          *)
(***************************************************************************)
EXTENDS ByteStream, Functions, FiniteSetsExt

\* size_t(-1): beyond every index of the stream.
NoEof == -1

NewReassembler(capacity) ==
    [chunks            |-> << >>,
     next              |-> 0,
     unassembled_bytes |-> 0,
     eof_idx           |-> NoEof,
     output            |-> NewStream(capacity)]

\* The index after the chunk that starts at c.
ChunkEnd(chunks, c) == c + Len(chunks[c])

Drop(chunks, cs) == Restrict(chunks, DOMAIN chunks \ cs)

\* How many bytes the chunks that start in cs hold: the pairs of a chunk and a
\* position in it.
SumOfLengths(chunks, cs) == Cardinality(UNION {{c} \X (1..Len(chunks[c])) : c \in cs})

\* A mutant: the window does not shrink with what waits in the output.
first_unacceptable_idx_Unread(r) == r.next + r.output.capacity

\* The first index past the receive window.
first_unacceptable_idx(r) == r.next + remaining_capacity(r.output)

\* Where the new bytes of a substring begin: after the stored chunk it overlaps
\* on the left or, when no chunk starts at or before it, after what is written.
NewIdx(r, index) ==
    LET up == {c \in DOMAIN r.chunks : c =< index}
    IN  IF up # {} THEN Greater(index, ChunkEnd(r.chunks, Max(up)))
                   ELSE Greater(index, r.next)

\* A mutant: a chunk that ends together with the range is not erased.
Covered_OffByOne(r, from, to) ==
    {c \in DOMAIN r.chunks : from =< c /\ c < to /\ ChunkEnd(r.chunks, c) < to}

\* The stored chunks that the range from..to-1 covers; the loop erases them.
Covered(r, from, to) ==
    {c \in DOMAIN r.chunks : from =< c /\ c < to /\ ChunkEnd(r.chunks, c) =< to}

\* A mutant: a partial overlap on the right is not cut off.
CutEnd_Uncut(r, from, to) == to

\* The range is cut at the chunk that it overlaps but does not cover.
CutEnd(r, from, to) ==
    LET partial == {c \in DOMAIN r.chunks :
                        from =< c /\ c < to /\ to < ChunkEnd(r.chunks, c)}
    IN  IF partial = {} THEN to ELSE Min(partial)

Discard(r, cs) ==
    [r EXCEPT !.chunks = Drop(@, cs),
              !.unassembled_bytes = @ - SumOfLengths(r.chunks, cs)]

\* A mutant: the stored bytes are not counted.
Store_Uncounted(r, start, data) ==
    [r EXCEPT !.chunks = IF start \in DOMAIN @ THEN @
                         ELSE [c \in DOMAIN @ \cup {start} |->
                                 IF c = start THEN data ELSE @[c]]]

\* map::insert, which leaves a chunk with the same start as it is.
Store(r, start, data) ==
    [r EXCEPT !.chunks = IF start \in DOMAIN @ THEN @
                         ELSE [c \in DOMAIN @ \cup {start} |->
                                 IF c = start THEN data ELSE @[c]],
              !.unassembled_bytes = @ + Len(data)]

\* A mutant: the next index moves by the whole substring, not by what was written.
WriteDirect_Whole(r, data) ==
    [r EXCEPT !.output = write(@, data), !.next = @ + Len(data)]

\* Lines 148-157: write what fits and store the rest under the new next index.
WriteDirect(r, data) ==
    LET n       == Accepted(r.output, Len(data))
        written == [r EXCEPT !.output = write(@, data), !.next = @ + n]
    IN  IF n < Len(data)
        THEN Store(written, r.next + n, SubSeq(data, n + 1, Len(data)))
        ELSE written

Insert(r, start, data) ==
    IF data = << >> THEN r
    ELSE IF start = r.next THEN WriteDirect(r, data) ELSE Store(r, start, data)

\* Index i is held in chunk c; the byte held at index i.
Holds(chunks, c, i) == c =< i /\ i < ChunkEnd(chunks, c)

ByteAt(chunks, i) ==
    LET c == CHOOSE c \in DOMAIN chunks : Holds(chunks, c, i) IN chunks[c][i - c + 1]

\* The chunks that follow one another without a gap from the next index.
Chain(r) ==
    {c \in DOMAIN r.chunks :
        r.next =< c /\ \A i \in r.next..c : \E d \in DOMAIN r.chunks : Holds(r.chunks, d, i)}

\* The next index after assembling: the chain as far as the output has room.
AssembledTo(r) ==
    LET ends == {ChunkEnd(r.chunks, c) : c \in Chain(r)}
    IN  r.next + Accepted(r.output, IF ends = {} THEN 0 ELSE Max(ends) - r.next)

\* Lines 166-188.  The chunk the room ends inside of is stored again under the new
\* next index; one that starts exactly where the room ends is erased although the
\* counter keeps it (insert under its own key does nothing, lines 173-179).
Assemble(r) ==
    LET to    == AssembledTo(r)
        cut   == {c \in Chain(r) : c < to /\ to < ChunkEnd(r.chunks, c)}
        kept  == DOMAIN r.chunks \ {c \in Chain(r) : c =< to}
        bytes == [k \in 1..(to - r.next) |-> ByteAt(r.chunks, r.next + k - 1)]
        rest  == [c \in {to : d \in cut} |->
                     LET d == Max(cut)
                     IN  SubSeq(r.chunks[d], to - d + 1, Len(r.chunks[d]))]
    IN  [r EXCEPT !.output = write(@, bytes),
                  !.next = to,
                  !.chunks = [c \in kept \cup DOMAIN rest |->
                                 IF c \in kept THEN @[c] ELSE rest[c]],
                  !.unassembled_bytes = @ - (to - r.next)]

\* Mutants: the output is closed as soon as the flag arrives; the end index is
\* compared with < instead of <=.
NoteEof_AtOnce(r, end, is_last) ==
    [r EXCEPT !.eof_idx = IF is_last THEN end ELSE @,
              !.output = IF is_last THEN end_input(@) ELSE @]

NoteEof_Strict(r, end, is_last) ==
    LET eof_idx == IF is_last THEN end ELSE r.eof_idx
    IN  [r EXCEPT !.eof_idx = eof_idx,
                  !.output = IF eof_idx # NoEof /\ eof_idx < r.next
                             THEN end_input(@) ELSE @]

\* Lines 189-192: remember the end if this substring carries it, and close the
\* output once everything before it is written.
NoteEof(r, end, is_last) ==
    LET eof_idx == IF is_last THEN end ELSE r.eof_idx
    IN  [r EXCEPT !.eof_idx = eof_idx,
                  !.output = IF eof_idx # NoEof /\ eof_idx =< r.next
                             THEN end_input(@) ELSE @]

\* A mutant: the window test drops a substring that does not fit to its end, and with
\* it the chunks that were erased before.
push_substring_WholeOnly(r, data, index, is_last) ==
    LET new_idx == NewIdx(r, index)
        to      == CutEnd(r, new_idx, index + Len(data))
        cleared == Discard(r, Covered(r, new_idx, index + Len(data)))
        fresh   == SubSeq(data, new_idx - index + 1, to - index)
    IN  IF first_unacceptable_idx(r) < to \/ first_unacceptable_idx(r) =< new_idx
        THEN cleared
        ELSE NoteEof(Assemble(Insert(cleared, new_idx, fresh)),
                     index + Len(data), is_last)

\* push_substring.  Chunks the substring covers are erased before the window is
\* looked at; a substring that begins past the window ends the call there.
push_substring(r, data, index, is_last) ==
    LET new_idx == NewIdx(r, index)
        to      == CutEnd(r, new_idx, index + Len(data))
        cleared == Discard(r, Covered(r, new_idx, index + Len(data)))
        fresh   == SubSeq(data, new_idx - index + 1, to - index)
    IN  IF first_unacceptable_idx(r) =< new_idx THEN cleared
        ELSE NoteEof(Assemble(Insert(cleared, new_idx, fresh)),
                     index + Len(data), is_last)
=============================================================================
