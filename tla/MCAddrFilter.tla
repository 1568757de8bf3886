---------------------------- MODULE MCAddrFilter ----------------------------
(* Instances of AddrFilter for TLC.                                        *)
EXTENDS AddrFilter

\* An operator writes an address that no index derives to.
MCForeign == {-2}
=============================================================================
