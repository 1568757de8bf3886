------------------------------ MODULE MCSweep ------------------------------
(* Instances of Sweep for TLC.                                             *)
EXTENDS Sweep, TLC

CONSTANTS s1, s2, r1

\* One unit per deposit: two of them reach the threshold, one alone is dust.
MCTotal == [d \in 0 .. LastDeposit |-> d]

\* Sweepers run the same code.
MCSymmetry == Permutations(Sweepers)
=============================================================================
