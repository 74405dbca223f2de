--------------------------- MODULE WrappingProofs ---------------------------
(***************************************************************************)
(* unwrap inverts wrap and finds a closest number, for every width, over    *)
(* every count that WrappingSpec reaches.                                   *)
(***************************************************************************)
EXTENDS WrappingSpec, ConnectionLemmas

\* The counts stay inside uint64_t.
TypeOK ==
    /\ isn \in 0..(Mod32 - 1)
    /\ position \in 0..(Mod64 - 1)
    /\ checkpoint \in 0..(Mod64 - 1)

\* The system keeps the types.
LEMMA TypeCorrect == CountsSpec => []TypeOK
<1>1. CountsInit => TypeOK
  BY WidthAssumption DEF CountsInit, TypeOK
<1>2. TypeOK /\ [CountsNext]_counts => TypeOK'
  BY WidthAssumption DEF TypeOK, CountsNext, SenderAdvances, ReaderAdvances, counts
<1> QED BY <1>1, <1>2, PTL DEF CountsSpec

\* For every pair of widths: unwrap returns a number that wraps to its argument and
\* is closest to the checkpoint, below the highest period.
THEOREM UnwrapClosestHolds == CountsSpec => []UnwrapClosest
<1>1. TypeOK => UnwrapClosest
  <2> SUFFICES ASSUME TypeOK, checkpoint + Mod32 < Mod64
               PROVE  LET n == wrap(position, isn)
                          x == unwrap(n, isn, checkpoint)
                      IN  /\ x \in 0..(Mod64 - 1) /\ wrap(x, isn) = n
                          /\ \A y \in 0..(Mod64 - 1) : wrap(y, isn) = n =>
                                 Distance(x, checkpoint) =< Distance(y, checkpoint)
    BY DEF UnwrapClosest
  <2>1. isn \in 0..(Mod32 - 1) /\ checkpoint \in Nat /\ position \in Nat
    BY DEF TypeOK
  <2>2. wrap(position, isn) \in 0..(Mod32 - 1)
    BY <2>1, WidthAssumption DEF wrap
  <2> QED BY <2>1, <2>2, UnwrapFacts, UnwrapIsClosest
<1> QED BY <1>1, TypeCorrect, PTL

\* For every pair of widths: what one side sends and the other unwraps next to its own
\* count is the number that was sent, as long as the counts are less than half a
\* period apart.
THEOREM RoundTripHolds == CountsSpec => []RoundTrip
<1>1. TypeOK => RoundTrip
  BY UnwrapInvertsWrap DEF TypeOK, RoundTrip
<1> QED BY <1>1, TypeCorrect, PTL
=============================================================================
