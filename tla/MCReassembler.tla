---------------------------- MODULE MCReassembler ----------------------------
(* ReassemblerSpec with, at every reachable state, each possible call compared *)
(* with the loops of the code.                                                  *)
EXTENDS ReassemblerSpec

Loops == INSTANCE ReassemblerLoops

\* For every call the program can make next, the set-based operators compute what
\* the loops over the ordered map compute.
AgreesWithLoops ==
    \A index \in 0..StreamLength, len \in 0..MaxPush, is_last \in BOOLEAN :
        index + len =< StreamLength =>
            push_substring(r, Excerpt(index, len), index, is_last)
                = Loops!push_by_loops(r, Excerpt(index, len), index, is_last)
=============================================================================
