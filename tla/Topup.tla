------------------------------- MODULE Topup -------------------------------
(***************************************************************************)
(* Refills of a rental platform's prepaid balance (internal/energy/        *)
(* topup.go).  Every sweep process runs a check loop, which sends TRX from *)
(* the gas account when the balance is low, and a reconcile loop, which    *)
(* follows the transfers until the platform has credited them.             *)
(*                                                                         *)
(* One platform; TRX amounts are small numbers.  The provider lock is held *)
(* for ten minutes, longer than the bounded calls of a refill take, so it  *)
(* expires only under a process that died.                                 *)
(***************************************************************************)
EXTENDS Integers, FiniteSets, Functions

CONSTANTS
    Processes,      \* sweep processes
    NoProcess,
    LowWatermark,   \* low_watermark_trx
    Target,         \* target_trx
    MaxSingle,      \* max_single_topup_trx, 0 for none
    MaxDaily,       \* max_daily_topup_trx, 0 for none
    MaxDailyCount,  \* max_daily_topup_count, 0 for none
    MaxRows,        \* bound: topup_record rows
    MaxDays,        \* bound: days
    MaxFaults       \* bound: crashes and failed writes

ASSUME ProcessAssumption == NoProcess \notin Processes
ASSUME AmountAssumption ==
    {LowWatermark, Target, MaxSingle, MaxDaily, MaxDailyCount} \subseteq Nat
ASSUME BoundAssumption == {MaxRows, MaxDays, MaxFaults} \subseteq Nat

VARIABLES
    rows,     \* rows[i]: the topup_record row with id i
    lock,     \* holder of "topup:<provider>"
    day,      \* today
    \* --- the platform and the chain
    prepaid,  \* the prepaid balance
    tx,       \* tx[i]: what became of the transfer of row i
    booked,   \* the rows whose transfer the platform has credited
    \* --- check loop
    pc,       \* pc[p]: its next step
    seen,     \* seen[p]: the balance it read
    at,       \* at[p]: the row it is sending
    \* --- reconcile loop
    step,     \* step[p]: its next step
    snap,     \* snap[p]: the row it looks at, as it was queried
    faults    \* faults spent, out of MaxFaults

world == <<prepaid, tx, booked>>
checks == <<pc, seen, at>>
recons == <<step, snap>>
vars == <<rows, lock, day, world, checks, recons, faults>>

Ids == 1 .. MaxRows
Open == {"created", "broadcast", "confirmed"}
NoRow == [status |-> "none", amount |-> 0, trigger |-> 0, day |-> 0, sent |-> FALSE]
NoSnap == [id |-> 0, status |-> "none"]

Init ==
    /\ rows = [i \in Ids |-> NoRow]
    /\ lock = NoProcess
    /\ day = 1
    /\ prepaid = Target
    /\ tx = [i \in Ids |-> "none"]
    /\ booked = {}
    /\ pc = [p \in Processes |-> "idle"]
    /\ seen = [p \in Processes |-> 0]
    /\ at = [p \in Processes |-> 0]
    /\ step = [p \in Processes |-> "query"]
    /\ snap = [p \in Processes |-> NoSnap]
    /\ faults = 0

Fault == faults < MaxFaults /\ faults' = faults + 1

-----------------------------------------------------------------------------
(* check and refill.                                                       *)

\* check: the balance is read before the lock is asked for.
Check(p) ==
    /\ pc[p] = "idle"
    /\ prepaid < LowWatermark
    /\ seen' = [seen EXCEPT ![p] = prepaid]
    /\ pc' = [pc EXCEPT ![p] = "lock"]
    /\ UNCHANGED <<rows, lock, day, world, at, recons, faults>>

Leave(p) ==
    /\ pc' = [pc EXCEPT ![p] = "idle"]
    /\ seen' = [seen EXCEPT ![p] = 0]
    /\ at' = [at EXCEPT ![p] = 0]

\* A lock that is held, or that Redis does not answer for, ends the attempt.
TakeLock(p) ==
    /\ pc[p] = "lock"
    /\ \/ /\ lock = NoProcess
          /\ lock' = p
          /\ pc' = [pc EXCEPT ![p] = "guard"]
          /\ UNCHANGED <<seen, at>>
       \/ Leave(p) /\ UNCHANGED lock
    /\ UNCHANGED <<rows, day, world, recons, faults>>

\* defer unlock(): DEL, whoever holds the key by now.
Unlock(p) == Leave(p) /\ lock' = NoProcess

\* Mutant: a confirmed transfer no longer blocks the next one, and neither does
\* one whose row was never advanced.
PendingBroadcast == \E i \in Ids : rows[i].status = "broadcast"

\* guardPending
GuardPending == \E i \in Ids : rows[i].status \in Open

Capped(amount) == IF MaxSingle > 0 /\ amount > MaxSingle THEN MaxSingle ELSE amount

\* The rows of a day guardDailyLimits adds up.
Counted(d) == {i \in Ids : rows[i].status \notin {"none", "failed"} /\ rows[i].day = d}
Today == Counted(day)

Total(S) == SumFunctionOnSet([i \in Ids |-> rows[i].amount], S)

\* Mutant: the caps are compared with what was sent before.
LimitsBefore(amount) ==
    /\ MaxDailyCount > 0 => Cardinality(Today) <= MaxDailyCount
    /\ MaxDaily > 0 => Total(Today) <= MaxDaily

GuardDailyLimits(amount) ==
    /\ MaxDailyCount > 0 => Cardinality(Today) < MaxDailyCount
    /\ MaxDaily > 0 => Total(Today) + amount <= MaxDaily

\* refill up to the insert: an unsettled refill, a balance at the target, a
\* daily cap, a deposit address that is not the configured one, or a database
\* error ends it.
Refill(p) ==
    LET amount == Capped(Target - seen[p]) IN
    /\ pc[p] = "guard"
    /\ \/ /\ ~GuardPending
          /\ amount > 0
          /\ GuardDailyLimits(amount)
          /\ \E i \in Ids :
               /\ rows[i].status = "none"
               /\ \A j \in Ids : j < i => rows[j].status # "none"
               /\ rows' = [rows EXCEPT ![i] =
                     [status |-> "created", amount |-> amount, trigger |-> seen[p],
                      day |-> day, sent |-> FALSE]]
               /\ at' = [at EXCEPT ![p] = i]
          /\ pc' = [pc EXCEPT ![p] = "build"]
          /\ UNCHANGED <<lock, seen>>
       \/ Unlock(p) /\ UNCHANGED rows
    /\ UNCHANGED <<day, world, recons, faults>>

\* BuildTRXTransfer and Sign; an error of either fails the row.
BuildAndSign(p) ==
    /\ pc[p] = "build"
    /\ \/ /\ pc' = [pc EXCEPT ![p] = "send"]
          /\ UNCHANGED <<rows, lock, seen, at, faults>>
       \/ /\ \/ rows' = [rows EXCEPT ![at[p]].status = "failed"] /\ UNCHANGED faults
             \/ Fault /\ UNCHANGED rows
          /\ Unlock(p)
    /\ UNCHANGED <<day, world, recons>>

\* Broadcast: the transfer reaches the network or it does not, and an error
\* does not tell which.
Send(p) ==
    /\ pc[p] = "send"
    /\ tx' \in {tx, [tx EXCEPT ![at[p]] = "sent"]}
    /\ pc' = [pc EXCEPT ![p] = "record"]
    /\ UNCHANGED <<rows, lock, day, prepaid, booked, seen, at, recons, faults>>

\* Mutant: an error of Broadcast fails the row.
RecordError(p) ==
    /\ pc[p] = "record"
    /\ \/ rows' = [rows EXCEPT ![at[p]].status = "broadcast", ![at[p]].sent = TRUE]
       \/ rows' = [rows EXCEPT ![at[p]].status = "failed"]
    /\ Unlock(p)
    /\ UNCHANGED <<day, world, recons, faults>>

\* Either way the row is broadcast and keeps the txid.
Record(p) ==
    /\ pc[p] = "record"
    /\ \/ /\ rows' = [rows EXCEPT ![at[p]].status = "broadcast", ![at[p]].sent = TRUE]
          /\ UNCHANGED faults
       \/ Fault /\ UNCHANGED rows
    /\ Unlock(p)
    /\ UNCHANGED <<day, world, recons>>

-----------------------------------------------------------------------------
(* Reconcile.                                                              *)

\* Mutant: confirmed refills are not looked at again.
UnsettledBroadcast == {i \in Ids : rows[i].status = "broadcast" /\ rows[i].sent}

\* The query, less the rows without a txid that the loop skips.
Unsettled == {i \in Ids : rows[i].status \in {"broadcast", "confirmed"} /\ rows[i].sent}

Query(p) ==
    /\ step[p] = "query"
    /\ \E i \in Unsettled : snap' = [snap EXCEPT ![p] = [id |-> i, status |-> rows[i].status]]
    /\ step' = [step EXCEPT ![p] = "receipt"]
    /\ UNCHANGED <<rows, lock, day, world, checks, faults>>

Drop(p) ==
    /\ step' = [step EXCEPT ![p] = "query"]
    /\ snap' = [snap EXCEPT ![p] = NoSnap]

\* The receipt and the write that follows from it, by id.  A read that fails
\* and a transfer that is not on chain leave the row for the next round; a
\* write that fails is not noticed.
ReadReceipt(p) ==
    LET i == snap[p].id
        Write(status) ==
            \/ rows' = [rows EXCEPT ![i].status = status] /\ UNCHANGED faults
            \/ Fault /\ UNCHANGED rows
    IN
    /\ step[p] = "receipt"
    /\ \/ tx[i] \notin {"ok", "reverted"} /\ Drop(p) /\ UNCHANGED <<rows, faults>>
       \/ Fault /\ Drop(p) /\ UNCHANGED rows
       \/ tx[i] = "reverted" /\ Write("failed") /\ Drop(p)
       \/ /\ tx[i] = "ok"
          /\ IF snap[p].status = "broadcast" THEN Write("confirmed")
             ELSE UNCHANGED <<rows, faults>>
          /\ step' = [step EXCEPT ![p] = "balance"]
          /\ UNCHANGED snap
    /\ UNCHANGED <<lock, day, world, checks>>

\* The platform's balance shows nine tenths of the transfer.
Reflected(i) == 10 * prepaid >= 10 * rows[i].trigger + 9 * rows[i].amount

\* The row is credited once the balance reflects it, or the next round looks
\* again.
ReadBalance(p) ==
    LET i == snap[p].id IN
    /\ step[p] = "balance"
    /\ \/ /\ rows' = IF Reflected(i) THEN [rows EXCEPT ![i].status = "credited"] ELSE rows
          /\ UNCHANGED faults
       \/ Fault /\ UNCHANGED rows
    /\ Drop(p)
    /\ UNCHANGED <<lock, day, world, checks>>

-----------------------------------------------------------------------------
(* Chain, platform, time and crashes.                                      *)

\* A sent transfer is packed and executed, or expires.
Land(i) ==
    /\ tx[i] = "sent"
    /\ tx' \in {[tx EXCEPT ![i] = s] : s \in {"ok", "reverted", "expired"}}
    /\ UNCHANGED <<rows, lock, day, prepaid, booked, checks, recons, faults>>

\* The platform credits a deposit some time after it is on chain.
Book(i) ==
    /\ tx[i] = "ok"
    /\ i \notin booked
    /\ booked' = booked \cup {i}
    /\ prepaid' = prepaid + rows[i].amount
    /\ UNCHANGED <<rows, lock, day, tx, checks, recons, faults>>

\* Rentals are paid from the balance.
Spend ==
    /\ prepaid > 0
    /\ prepaid' = prepaid - 1
    /\ UNCHANGED <<rows, lock, day, tx, booked, checks, recons, faults>>

NextDay ==
    /\ day < MaxDays
    /\ day' = day + 1
    /\ UNCHANGED <<rows, lock, world, checks, recons, faults>>

\* A process dies in either loop; its lock stays until it expires.
Crash(p) ==
    /\ pc[p] # "idle" \/ step[p] # "query"
    /\ Fault
    /\ Leave(p)
    /\ Drop(p)
    /\ UNCHANGED <<rows, lock, day, world>>

LockExpires ==
    /\ lock # NoProcess
    /\ pc[lock] \in {"idle", "lock"}
    /\ lock' = NoProcess
    /\ UNCHANGED <<rows, day, world, checks, recons, faults>>

-----------------------------------------------------------------------------
CheckStep(p) ==
    \/ Check(p) \/ TakeLock(p) \/ Refill(p) \/ BuildAndSign(p) \/ Send(p) \/ Record(p)

ReconcileStep(p) == Query(p) \/ ReadReceipt(p) \/ ReadBalance(p)

Next ==
    \/ \E p \in Processes : CheckStep(p) \/ ReconcileStep(p) \/ Crash(p)
    \/ \E i \in Ids : Land(i) \/ Book(i)
    \/ Spend \/ NextDay \/ LockExpires

Spec == Init /\ [][Next]_vars

\* The reconcile loop of a live process goes on, and handles every row of its
\* query; nothing is assumed of the chain, the platform or the check loop.
Fairness ==
    \A p \in Processes :
        /\ WF_vars(ReadReceipt(p) \/ ReadBalance(p))
        /\ \A i \in Ids : SF_vars(Query(p) /\ snap'[p].id = i)

FairSpec == Spec /\ Fairness

-----------------------------------------------------------------------------
(* Properties.                                                             *)

Statuses == {"none", "failed", "credited"} \cup Open

\* Every variable holds values of its column or local variable.
TypeOK ==
    /\ rows \in [Ids -> [status : Statuses, amount : Nat, trigger : Nat, day : Nat,
                         sent : BOOLEAN]]
    /\ lock \in Processes \cup {NoProcess}
    /\ day \in Nat
    /\ prepaid \in Nat
    /\ tx \in [Ids -> {"none", "sent", "ok", "reverted", "expired"}]
    /\ booked \subseteq Ids
    /\ pc \in [Processes -> {"idle", "lock", "guard", "build", "send", "record"}]
    /\ seen \in [Processes -> Nat]
    /\ at \in [Processes -> Ids \cup {0}]
    /\ step \in [Processes -> {"query", "receipt", "balance"}]
    /\ snap \in [Processes -> [id : Ids \cup {0}, status : Statuses]]
    /\ faults \in Nat

\* "leave the row broadcast and let reconciliation settle it rather than sending
\* a second transfer": two refills are never on their way at once.
OneTransferAtATime ==
    \A i, j \in Ids : tx[i] = "sent" /\ tx[j] = "sent" => i = j

\* "per day caps stop the loop from draining the gas account": what the refills
\* of one day move, or may still move, stays under both caps, although failed
\* rows are not counted.
DailyCapsHold ==
    \A d \in 1 .. MaxDays :
        LET moved == {i \in Ids : rows[i].day = d /\ tx[i] \in {"sent", "ok"}}
        IN /\ MaxDaily > 0 => Total(moved) <= MaxDaily
           /\ MaxDailyCount > 0 => Cardinality(moved) <= MaxDailyCount

\* The record agrees with the chain: a failed refill moved nothing and never
\* will, a confirmed or credited one did.
RecordIsTrue ==
    \A i \in Ids :
        /\ rows[i].status = "failed" => tx[i] \in {"none", "reverted"}
        /\ rows[i].status \in {"confirmed", "credited"} => tx[i] = "ok"

\* The refill has reached the platform's balance and its row is still open.
Due(i) == i \in booked /\ rows[i].status \in {"broadcast", "confirmed"}

\* The row is settled, or the balance no longer shows the refill.
SettledOrSpent(i) == rows[i].status = "credited" \/ ~Reflected(i)

\* "it confirms them on chain and then waits for the provider balance to
\* actually reflect the transfer": a refill the platform has credited is settled,
\* whichever processes crash, unless rentals have already used up more than a
\* tenth of it; then its row stays open and no other refill is made.
SettledUnlessSpent == \A i \in Ids : Due(i) ~> SettledOrSpent(i)

-----------------------------------------------------------------------------
(* The inductive invariant.                                                *)

Sending == {"build", "send", "record"}

\* The check loop past Lock holds the lock.
LockInv == \A p \in Processes : pc[p] \in {"guard"} \cup Sending => lock = p

\* The row being sent is still as it was inserted.
AtInv ==
    \A p \in Processes :
        pc[p] \in Sending =>
            /\ at[p] \in Ids
            /\ rows[at[p]].status = "created"
            /\ pc[p] # "record" => tx[at[p]] = "none"

\* No transfer without a row, and one row at a time whose fate is unknown.
OpenInv ==
    /\ \A i \in Ids : rows[i].status = "none" => tx[i] = "none"
    /\ \A i, j \in Ids :
         {rows[i].status, rows[j].status} \subseteq {"created", "broadcast"} => i = j

\* The reconcile loop works on a row that was handed to Broadcast.
SnapInv ==
    \A p \in Processes :
        step[p] # "query" =>
            /\ snap[p].id \in Ids
            /\ rows[snap[p].id].status \notin {"none", "created"}
            /\ step[p] = "balance" => tx[snap[p].id] = "ok"

\* The rows guardDailyLimits counts stay within the caps it enforces.
CapInv ==
    \A d \in 1 .. MaxDays :
        /\ MaxDaily > 0 => Total(Counted(d)) <= MaxDaily
        /\ MaxDailyCount > 0 => Cardinality(Counted(d)) <= MaxDailyCount

\* What both loops remember agrees with rows, lock and chain.
IInv == TypeOK /\ LockInv /\ AtInv /\ OpenInv /\ SnapInv /\ RecordIsTrue

=============================================================================
