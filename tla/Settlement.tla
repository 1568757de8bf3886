----------------------------- MODULE Settlement -----------------------------
(***************************************************************************)
(* What the withdrawal service promises the business system, without       *)
(* workers, locks, crashes, nodes or clocks: an order is bound to at most  *)
(* one transfer, only that transfer is ever launched, and the order is     *)
(* settled once, together with the one report of its outcome.              *)
(***************************************************************************)
CONSTANTS Orders, Txs, NoTx

VARIABLES
    phase,     \* phase[o]: "absent", "open" or "settled"
    transfer,  \* transfer[o]: the transfer order o is bound to
    launched,  \* the transfers handed to the network
    reports    \* the outcomes reported to the business system

vars == <<phase, transfer, launched, reports>>

Init ==
    /\ phase = [o \in Orders |-> "absent"]
    /\ transfer = [o \in Orders |-> NoTx]
    /\ launched = {}
    /\ reports = {}

\* The business system submits an order.
Submit(o) ==
    /\ phase[o] = "absent"
    /\ phase' = [phase EXCEPT ![o] = "open"]
    /\ UNCHANGED <<transfer, launched, reports>>

\* An open order is bound, once, to a transfer of its own.
Bind(o, t) ==
    /\ phase[o] = "open"
    /\ transfer[o] = NoTx
    /\ \A p \in Orders : transfer[p] # t
    /\ transfer' = [transfer EXCEPT ![o] = t]
    /\ UNCHANGED <<phase, launched, reports>>

\* The bound transfer goes to the network, any number of times; the same bytes
\* may go out again after the order was settled.
Launch(o) ==
    /\ transfer[o] # NoTx
    /\ launched' = launched \cup {transfer[o]}
    /\ UNCHANGED <<phase, transfer, reports>>

\* An open order gets its outcome and the outcome is reported.  Success takes a
\* launched transfer; a rejection means that none was ever bound.
Settle(o, outcome) ==
    /\ phase[o] = "open"
    /\ outcome = "success" => transfer[o] \in launched
    /\ outcome = "rejected" => transfer[o] = NoTx
    /\ phase' = [phase EXCEPT ![o] = "settled"]
    /\ reports' = reports \cup {[order |-> o, result |-> outcome]}
    /\ UNCHANGED <<transfer, launched>>

Next ==
    \E o \in Orders :
        \/ Submit(o)
        \/ \E t \in Txs : Bind(o, t)
        \/ Launch(o)
        \/ \E outcome \in {"success", "failed", "rejected"} : Settle(o, outcome)

Spec == Init /\ [][Next]_vars

=============================================================================
