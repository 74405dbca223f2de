---------------------------- MODULE WrappingSpec ----------------------------
(***************************************************************************)
(* How a TCP endpoint uses wrap and unwrap: one side counts an absolute     *)
(* position, sends it wrapped, and the other side unwraps it next to its    *)
(* own count of the same stream.  The two counts drift apart, in either     *)
(* direction, by at most MaxDrift, while both run through the 64-bit range. *)
(***************************************************************************)
EXTENDS WrappingIntegers

CONSTANT MaxDrift      \* bound of the drift between the two counts

VARIABLES isn,         \* the stream's initial sequence number, fixed
          position,    \* the absolute number that is sent, in 0..Mod64-1
          checkpoint   \* the reader's count, in 0..Mod64-1

counts == <<isn, position, checkpoint>>

CountsInit ==
    /\ isn \in 0..(Mod32 - 1)
    /\ position = 0
    /\ checkpoint = 0

SenderAdvances ==
    /\ position < Mod64 - 1
    /\ position + 1 - checkpoint =< MaxDrift
    /\ position' = position + 1
    /\ UNCHANGED <<isn, checkpoint>>

ReaderAdvances ==
    /\ checkpoint < Mod64 - 1
    /\ checkpoint + 1 - position =< MaxDrift
    /\ checkpoint' = checkpoint + 1
    /\ UNCHANGED <<isn, position>>

CountsNext == SenderAdvances \/ ReaderAdvances

CountsSpec == CountsInit /\ [][CountsNext]_counts

-----------------------------------------------------------------------------
\* What wrapping_integers.cc says of unwrap: of the 64-bit numbers that wrap to its
\* argument, it returns one closest to the checkpoint.  Stated wherever the period
\* above the checkpoint's own is still inside 64 bits.
UnwrapClosest ==
    LET n == wrap(position, isn)
        x == unwrap(n, isn, checkpoint)
    IN  checkpoint + Mod32 < Mod64 =>
            /\ x \in 0..(Mod64 - 1) /\ wrap(x, isn) = n
            /\ \A y \in 0..(Mod64 - 1) :
                   wrap(y, isn) = n => Distance(x, checkpoint) =< Distance(y, checkpoint)

\* What the TCP classes rely on: a number less than half a period away from the
\* checkpoint survives the trip over the wire, across any number of wraps.
RoundTrip ==
    (checkpoint + Mod32 < Mod64 /\ Distance(position, checkpoint) < Half) =>
        unwrap(wrap(position, isn), isn, checkpoint) = position
=============================================================================
