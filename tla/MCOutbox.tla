------------------------------ MODULE MCOutbox ------------------------------
(* Instances of Outbox for TLC.                                            *)
EXTENDS Outbox

CONSTANTS m1, d1, d2

\* The merchant callback and the optional message queue, in main's order.
BothPublishers == <<"merchant", "rocketmq">>

\* The first event belongs to a merchant, the second to the platform.
MCMerchantOf == [e \in Events |-> IF e = 1 THEN m1 ELSE NoMerchant]
=============================================================================
