------------------------------ MODULE MCTopup ------------------------------
(* Instances of Topup for TLC.                                             *)
EXTENDS Topup
=============================================================================
