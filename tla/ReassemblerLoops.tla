--------------------------- MODULE ReassemblerLoops ---------------------------
(***************************************************************************)
(* push_substring with its two loops stepped through one iteration of the   *)
(* ordered map at a time, as stream_reassembler.cc runs them.  It is the    *)
(* reference the set-based operators of StreamReassembler are compared to.  *)
(***************************************************************************)
EXTENDS StreamReassembler

\* The first chunk at or after index i: lower_bound.
LowerBound(chunks, i) == Min({c \in DOMAIN chunks : i =< c})

RECURSIVE TrimLoop(_, _, _)
TrimLoop(r, new_idx, to) ==
    IF \A c \in DOMAIN r.chunks : c < new_idx THEN [reassembler |-> r, to |-> to]
    ELSE LET c == LowerBound(r.chunks, new_idx)
         IN  CASE to =< c -> [reassembler |-> r, to |-> to]
               [] c < to /\ to < ChunkEnd(r.chunks, c) -> [reassembler |-> r, to |-> c]
               [] OTHER -> TrimLoop(Discard(r, {c}), new_idx, to)

RECURSIVE AssembleLoop(_)
AssembleLoop(r) ==
    IF DOMAIN r.chunks = {} \/ Min(DOMAIN r.chunks) # r.next THEN r
    ELSE LET data    == r.chunks[r.next]
             n       == Accepted(r.output, Len(data))
             written == [r EXCEPT !.output = write(@, data), !.next = @ + n]
         IN  IF n < Len(data)
             THEN Discard(Store(written, r.next + n, SubSeq(data, n + 1, Len(data))),
                          {r.next})
             ELSE AssembleLoop(Discard(written, {r.next}))

push_by_loops(r, data, index, is_last) ==
    LET new_idx == NewIdx(r, index)
        trimmed == TrimLoop(r, new_idx, index + Len(data))
        fresh   == SubSeq(data, new_idx - index + 1, trimmed.to - index)
    IN  IF first_unacceptable_idx(r) =< new_idx THEN trimmed.reassembler
        ELSE NoteEof(AssembleLoop(Insert(trimmed.reassembler, new_idx, fresh)),
                     index + Len(data), is_last)
=============================================================================
