----------------------------- MODULE MCWithdraw -----------------------------
(* Instances of Withdraw for TLC.                                          *)
EXTENDS Withdraw, TLC

CONSTANTS w1, w2

\* Amounts of the two-order instances: together they exceed the wallet that
\* either of them fits in.
MCAmount == [o \in Orders |-> 2]

\* Workers run the same code.
MCSymmetry == Permutations(Workers)

=============================================================================
