----------------------------- MODULE MCScanner -----------------------------
(* Instances of Scanner for TLC.                                           *)
EXTENDS Scanner
=============================================================================
