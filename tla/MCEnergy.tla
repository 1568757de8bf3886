------------------------------ MODULE MCEnergy ------------------------------
(* Instances of Energy for TLC.                                            *)
EXTENDS Energy

\* Every id is used twice, as a halted withdrawal does, while the reconciler
\* still works on the row of the first use.
MCAttempts == [r \in Requests |-> 2]
=============================================================================
