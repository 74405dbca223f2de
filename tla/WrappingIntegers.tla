-------------------------- MODULE WrappingIntegers --------------------------
(***************************************************************************)
(* The 32-bit wrapping sequence numbers of libsponge/wrapping_integers.cc.  *)
(* Mod32 and Mod64 are the moduli of uint32_t and uint64_t: 2^32 and 2^64   *)
(* in the code, small powers of two when TLC enumerates the operators.      *)
(***************************************************************************)
EXTENDS Integers

CONSTANTS Mod32, Mod64

ASSUME WidthAssumption ==
    /\ Mod32 \in Nat /\ Mod64 \in Nat
    /\ Mod32 > 0 /\ Mod32 % 2 = 0
    /\ Mod64 % Mod32 = 0 /\ Mod64 > Mod32

Half == Mod32 \div 2

wrap(n, isn) == (n + isn) % Mod32

\* The high bits of the checkpoint joined to the offset of n from the ISN:
\* unwrap's first guess.
Splice(n, isn, checkpoint) ==
    (checkpoint - (checkpoint % Mod32)) + ((n - isn) % Mod32)

\* Mutants: the lowest period is not guarded; no guess moves up.
unwrap_NoFloor(n, isn, checkpoint) ==
    LET t == Splice(n, isn, checkpoint)
    IN  CASE t - checkpoint > Half -> (t - Mod32) % Mod64
          [] checkpoint - t > Half -> (t + Mod32) % Mod64
          [] OTHER                 -> t

unwrap_NeverUp(n, isn, checkpoint) ==
    LET t == Splice(n, isn, checkpoint)
    IN  IF t - checkpoint > Half /\ t >= Mod32 THEN t - Mod32 ELSE t

\* A guess more than half a period away moves by one period: down unless it is
\* already in the lowest one, up modulo the width of uint64_t.
unwrap(n, isn, checkpoint) ==
    LET t == Splice(n, isn, checkpoint)
    IN  CASE t - checkpoint > Half /\ t >= Mod32 -> t - Mod32
          [] checkpoint - t > Half               -> (t + Mod32) % Mod64
          [] OTHER                               -> t

Distance(x, y) == IF x > y THEN x - y ELSE y - x
=============================================================================
