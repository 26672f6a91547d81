------------------------------ MODULE Halving ------------------------------
(* What the reductions of the kernels share.                               *)
EXTENDS Integers

\* Halving leads from w to 1 without a remainder.
PowerOfTwo(w) ==
  \E W \in SUBSET (1..w) : w \in W /\ \A v \in W \ {1} : v % 2 = 0 /\ v \div 2 \in W
=============================================================================
