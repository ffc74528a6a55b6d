--------------------------------- MODULE Bits ---------------------------------
(***************************************************************************)
(* The operators & and | of C, on numbers of 16 bits: a number is the sum  *)
(* of its bits, a bit the power of two that it stands for.                 *)
(***************************************************************************)
EXTENDS Integers, FiniteSetsExt

Powers == {2^k : k \in 0 .. 15}
BitsOf(n) == {p \in Powers : (n \div p) % 2 = 1}

a & b == SumSet(BitsOf(a) \cap BitsOf(b))
a | b == SumSet(BitsOf(a) \cup BitsOf(b))
=============================================================================
