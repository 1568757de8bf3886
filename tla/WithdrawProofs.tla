--------------------------- MODULE WithdrawProofs ---------------------------
(***************************************************************************)
(* Safety of the withdrawal workers for any number of orders, workers,     *)
(* transactions and faults.  IInv is preserved by every step; the safety   *)
(* properties and the refinement of Settlement follow from it.  FailInv,   *)
(* ClosedInv and CoverInv are added for what needs more than that: that no *)
(* answer is lost or no lookup late, or that there is one worker;          *)
(* HaltCountInv relates the counts of halts to the halts that happened.    *)
(***************************************************************************)
EXTENDS Withdraw, SumLemmas

\* The fields of a row a worker holds.
LEMMA RowFields ==
    \A r \in Row : r.id \in Orders /\ r.halt \in Nat /\ r.txid \in Txs \cup {NoTx}
BY DEF Row

\* A query returns rows as they are: id, halt_count and txid of the same row.
LEMMA QueryFields ==
    ASSUME NEW S, NEW n, NEW r \in Query(S, n)
    PROVE  r.id \in S /\ r.halt = haltCount[r.id] /\ r.txid = txid[r.id]
<1>1. PICK o \in FirstById(S, n) :
           r = [id |-> o, halt |-> haltCount[o], txid |-> txid[o]]
  BY DEF Query
<1>2. o \in S
  BY DEF FirstById
<1> QED
  BY <1>1, <1>2

\* A query over existing rows returns typed rows.
LEMMA QueryType ==
    ASSUME TypeOK, NEW S, S \subseteq Orders, NEW n
    PROVE  Query(S, n) \subseteq Row
<1> SUFFICES ASSUME NEW r \in Query(S, n) PROVE r \in Row
  OBVIOUS
<1>1. PICK o \in FirstById(S, n) :
           r = [id |-> o, halt |-> haltCount[o], txid |-> txid[o]]
  BY DEF Query
<1>2. o \in Orders
  BY DEF FirstById
<1> QED
  BY <1>1, <1>2 DEF Row, TypeOK

\* The initial state satisfies the invariant.
LEMMA InitInv == Init => IInv
<1> SUFFICES ASSUME Init PROVE IInv
  OBVIOUS
<1>1. TypeOK
  BY EnvironmentAssumption DEF Init, TypeOK, Statuses, Reasons, Pcs, Notes, NoRow, Row
<1>2. LocalInv
  BY DEF Init, LocalInv, RowInv, BuiltInv, FreshInv, BoundInv, SnapshotInv, VerdictInv,
         Executing, Settling
<1>3. GlobalInv
  BY DEF Init, GlobalInv, TxidInv, NetInv, SentIsRecorded, ConfirmedIsPaid,
         ReportMatchesOutcome, Open, Settled
<1> QED
  BY <1>1, <1>2, <1>3 DEF IInv

-----------------------------------------------------------------------------
(* Effects that several actions share.                                     *)

\* A worker that leaves its row forgets it; nothing is lost for the others as
\* long as rows keep their txid and solidified blocks stay.
LEMMA LeaveLocal ==
    ASSUME TypeOK, LocalInv, NEW w \in Workers, NEW l \in {"poll", "created", "settle"},
           Leave(w, l), batch' = batch \/ batch' = [batch EXCEPT ![w] = {}],
           owner' = owner, txid' = txid,
           \A t \in Txs : net[t] = "final" => net'[t] = "final" /\ result'[t] = result[t]
    PROVE  LocalInv'
<1>1. /\ pc'[w] = l
      /\ \A v \in Workers : v # w =>
            pc'[v] = pc[v] /\ row'[v] = row[v] /\ tx'[v] = tx[v] /\ note'[v] = note[v]
      /\ \A v \in Workers : batch'[v] = batch[v] \/ batch'[v] = {}
  BY DEF Leave, Goto, TypeOK
<1>2. RowInv'
  BY <1>1 DEF LocalInv, RowInv, Executing, Settling
<1>3. BuiltInv' /\ FreshInv' /\ BoundInv'
  BY <1>1 DEF LocalInv, BuiltInv, FreshInv, BoundInv
<1>4. SnapshotInv'
  BY <1>1 DEF LocalInv, SnapshotInv, Settling
<1>5. VerdictInv'
  BY <1>1 DEF LocalInv, VerdictInv, SnapshotInv, Settling
<1> QED
  BY <1>2, <1>3, <1>4, <1>5 DEF LocalInv

\* Leaving a row keeps the types of the worker's variables.
LEMMA LeaveType ==
    ASSUME TypeOK, NEW w \in Workers, NEW l \in {"poll", "created", "settle"}, Leave(w, l)
    PROVE  /\ pc' \in [Workers -> Pcs]
           /\ row' \in [Workers -> Row \cup {NoRow}]
           /\ tx' \in [Workers -> Txs \cup {NoTx}]
           /\ note' \in [Workers -> Notes]
           /\ balance' \in [Workers -> Nat]
BY DEF TypeOK, Leave, Goto, Pcs, Notes

\* Settling an order by compare-and-swap: the outcome fits what the row and
\* the chain say, and the report goes with it.
LEMMA SettleGlobal ==
    ASSUME TypeOK, GlobalInv, NEW o \in Orders, NEW from, NEW to, NEW why \in Reasons,
           SettleIf(o, from, to, why),
           txid' = txid, owner' = owner, net' = net, result' = result, sent' = sent,
           \/ from = {"created"} /\ to \in {"failed", "rejected"}
           \/ from = Open /\ to = "failed" /\ why # "halted"
           \/ /\ from = Open /\ to = "confirmed"
              /\ net[txid[o]] = "final" /\ result[txid[o]] = "paid"
    PROVE  /\ GlobalInv'
           /\ status' \in [Orders -> Statuses]
           /\ reason' \in [Orders -> Reasons]
           /\ outbox' \subseteq [order : Orders, result : {"success", "failed", "rejected"}]
<1>1. CASE status[o] \notin from
  BY <1>1 DEF SettleIf, GlobalInv, TxidInv, NetInv, SentIsRecorded, ConfirmedIsPaid,
              ReportMatchesOutcome, TypeOK
<1>2. CASE status[o] \in from
  <2>1. /\ status' = [status EXCEPT ![o] = to]
        /\ reason' = [reason EXCEPT ![o] = why]
        /\ EnqueueOutbox(o, Result(to))
        /\ status[o] \notin Settled /\ to \in Settled
        /\ Result(to) \in {"success", "failed", "rejected"}
    BY <1>2 DEF SettleIf, Open, Settled, Result
  <2>2. /\ status' \in [Orders -> Statuses] /\ status'[o] = to
        /\ reason' \in [Orders -> Reasons] /\ reason'[o] = why
        /\ \A p \in Orders : p # o => status'[p] = status[p] /\ reason'[p] = reason[p]
    BY <2>1 DEF TypeOK, Statuses, Settled
  <2>3. \A e \in outbox : e.order # o
    BY <2>1 DEF GlobalInv, ReportMatchesOutcome
  <2>4. outbox' = outbox \cup {[order |-> o, result |-> Result(to)]}
    BY <2>1, <2>3 DEF EnqueueOutbox
  <2>5. ReportMatchesOutcome'
    <3> SUFFICES ASSUME NEW p \in Orders
                 PROVE  {e \in outbox' : e.order = p} =
                           IF status'[p] \in Settled
                           THEN {[order |-> p, result |-> Result(status'[p])]} ELSE {}
      BY DEF ReportMatchesOutcome
    <3>1. CASE p = o
      BY <3>1, <2>1, <2>2, <2>3, <2>4
    <3>2. CASE p # o
      <4>1. {e \in outbox' : e.order = p} = {e \in outbox : e.order = p}
        BY <3>2, <2>4
      <4> QED
        BY <4>1, <3>2, <2>2 DEF GlobalInv, ReportMatchesOutcome
    <3> QED
      BY <3>1, <3>2
  <2>6. TxidInv'
    BY <1>2, <2>2 DEF GlobalInv, TxidInv, Open
  <2>7. ConfirmedIsPaid'
    BY <1>2, <2>2 DEF GlobalInv, ConfirmedIsPaid, TxidInv, Open
  <2>8. NetInv' /\ SentIsRecorded'
    BY DEF GlobalInv, NetInv, SentIsRecorded
  <2>9. outbox' \subseteq [order : Orders, result : {"success", "failed", "rejected"}]
    BY <2>1, <2>4 DEF TypeOK
  <2> QED
    BY <2>2, <2>5, <2>6, <2>7, <2>8, <2>9 DEF GlobalInv
<1> QED
  BY <1>1, <1>2

\* Handing the recorded transaction of an order to the gateway, whatever the
\* answer: the bytes stay traceable and solidified blocks stay.
LEMMA BroadcastGlobal ==
    ASSUME TypeOK, GlobalInv, NEW t \in Txs, NEW o \in Orders, txid[o] = t,
           NEW answer \in Answers, Broadcast(t, answer),
           status' = status, txid' = txid, reason' = reason, outbox' = outbox,
           owner' = owner, result' = result
    PROVE  /\ GlobalInv'
           /\ \A u \in Txs : net[u] = "final" => net'[u] = "final" /\ result'[u] = result[u]
           /\ net' \in [Txs -> {"nowhere", "pool", "block", "final", "void"}]
           /\ faults' \in Nat
           /\ sent' \subseteq Txs
<1>1. PICK where \in {"void", net[t], Taken(t)} :
           /\ net' = [net EXCEPT ![t] = where]
           /\ where = "void" => net[t] \in {"nowhere", "void"}
  BY DEF Broadcast, Answers
<1>2. sent' = sent \cup {t} /\ faults' \in Nat
  BY DEF Broadcast, TypeOK
<1>3. /\ where \in {"nowhere", "pool", "block", "final", "void"}
      /\ where # net[t] => net[t] \in {"nowhere", "void"} /\ where \in {"pool", "void"}
  BY <1>1 DEF Taken, TypeOK
<1>4. net' \in [Txs -> {"nowhere", "pool", "block", "final", "void"}]
  BY <1>1, <1>3 DEF TypeOK
<1>5. \A u \in Txs : net[u] = "final" => net'[u] = "final" /\ result'[u] = result[u]
  BY <1>1, <1>3 DEF TypeOK
<1>6. SentIsRecorded'
  BY <1>2, TxAssumption DEF GlobalInv, SentIsRecorded, TxidInv, NoTx
<1>7. NetInv'
  BY <1>1, <1>2, <1>3 DEF GlobalInv, NetInv, TypeOK
<1>8. ConfirmedIsPaid'
  BY <1>5 DEF GlobalInv, ConfirmedIsPaid, TypeOK
<1>9. TxidInv' /\ ReportMatchesOutcome'
  BY DEF GlobalInv, TxidInv, ReportMatchesOutcome
<1> QED
  BY <1>2, <1>4, <1>5, <1>6, <1>7, <1>8, <1>9 DEF GlobalInv, TypeOK
-----------------------------------------------------------------------------
(* One lemma per action: the step preserves the invariant.                 *)

\* processCreated's query.
LEMMA ProcessCreatedInv ==
    ASSUME IInv, NEW w \in Workers, ProcessCreated(w)
    PROVE  IInv'
<1>1. TypeOK'
  BY QueryType DEF IInv, TypeOK, ProcessCreated, Keep, Goto, db, chain, Pcs
<1>2. LocalInv'
  BY TxAssumption, QueryFields DEF IInv, TypeOK, ProcessCreated, Keep, Goto, db,
     chain, LocalInv, RowInv, BuiltInv, FreshInv, BoundInv, SnapshotInv, VerdictInv,
     Executing, Settling, NoTx
<1>3. GlobalInv'
  BY DEF IInv, TypeOK, ProcessCreated, Keep, Goto, db, chain, GlobalInv, TxidInv,
     NetInv, SentIsRecorded, ConfirmedIsPaid, ReportMatchesOutcome
<1> QED
  BY <1>1, <1>2, <1>3 DEF IInv

\* Taking the order lock, or skipping the row.
LEMMA TakeLockInv ==
    ASSUME IInv, NEW w \in Workers, TakeLock(w)
    PROVE  IInv'
<1>1. TypeOK'
  BY DEF IInv, TypeOK, TakeLock, Goto, IsNextRow, db, chain, Pcs
<1>2. LocalInv'
  <2>1. PICK r \in batch[w] :
           /\ batch' = [batch EXCEPT ![w] = @ \ {r}]
           /\ \/ pc' = pc /\ row' = row
              \/ pc' = [pc EXCEPT ![w] = "risk"] /\ row' = [row EXCEPT ![w] = r]
    BY DEF TakeLock, Goto
  <2>2. r \in Row /\ UNCHANGED <<tx, note, txid, owner, net, result>>
    BY DEF IInv, TypeOK, TakeLock, db, chain
  <2> QED
    BY <2>1, <2>2 DEF IInv, TypeOK, LocalInv, RowInv, BuiltInv, FreshInv, BoundInv,
       SnapshotInv, VerdictInv, Executing, Settling
<1>3. GlobalInv'
  BY DEF IInv, TypeOK, TakeLock, Goto, IsNextRow, db, chain, GlobalInv, TxidInv,
     NetInv, SentIsRecorded, ConfirmedIsPaid, ReportMatchesOutcome
<1> QED
  BY <1>1, <1>2, <1>3 DEF IInv

\* The balance lookup.
LEMMA ReadBalanceInv ==
    ASSUME IInv, NEW w \in Workers, ReadBalance(w)
    PROVE  IInv'
<1>1. TypeOK'
  BY DEF IInv, TypeOK, ReadBalance, Goto, db, chain, Pcs
<1>2. LocalInv'
  BY TxAssumption DEF IInv, TypeOK, ReadBalance, Goto, db, chain, LocalInv, RowInv,
     BuiltInv, FreshInv, BoundInv, SnapshotInv, VerdictInv, Executing, Settling,
     NoTx
<1>3. GlobalInv'
  BY DEF IInv, TypeOK, ReadBalance, Goto, db, chain, GlobalInv, TxidInv, NetInv,
     SentIsRecorded, ConfirmedIsPaid, ReportMatchesOutcome
<1> QED
  BY <1>1, <1>2, <1>3 DEF IInv

\* The in-flight sum.
LEMMA CheckInflightInv ==
    ASSUME IInv, NEW w \in Workers, CheckInflight(w)
    PROVE  IInv'
<1>1. TypeOK'
  BY DEF IInv, TypeOK, CheckInflight, Keep, Goto, db, chain, Pcs
<1>2. LocalInv'
  BY TxAssumption DEF IInv, TypeOK, CheckInflight, Keep, Goto, db, chain, LocalInv,
     RowInv, BuiltInv, FreshInv, BoundInv, SnapshotInv, VerdictInv, Executing,
     Settling, NoTx
<1>3. GlobalInv'
  BY DEF IInv, TypeOK, CheckInflight, Keep, Goto, db, chain, GlobalInv, TxidInv,
     NetInv, SentIsRecorded, ConfirmedIsPaid, ReportMatchesOutcome
<1> QED
  BY <1>1, <1>2, <1>3 DEF IInv

\* The energy step.
LEMMA AcquireEnergyInv ==
    ASSUME IInv, NEW w \in Workers, AcquireEnergy(w)
    PROVE  IInv'
<1>1. TypeOK'
  BY DEF IInv, TypeOK, AcquireEnergy, Keep, Goto, db, chain, Pcs
<1>2. LocalInv'
  BY TxAssumption DEF IInv, TypeOK, AcquireEnergy, Keep, Goto, db, chain, LocalInv,
     RowInv, BuiltInv, FreshInv, BoundInv, SnapshotInv, VerdictInv, Executing,
     Settling, NoTx
<1>3. GlobalInv'
  BY DEF IInv, TypeOK, AcquireEnergy, Keep, Goto, db, chain, GlobalInv, TxidInv,
     NetInv, SentIsRecorded, ConfirmedIsPaid, ReportMatchesOutcome
<1> QED
  BY <1>1, <1>2, <1>3 DEF IInv

\* Reconcile's query.
LEMMA ReconcileInv ==
    ASSUME IInv, NEW w \in Workers, Reconcile(w)
    PROVE  IInv'
<1>1. TypeOK'
  BY QueryType DEF IInv, TypeOK, Reconcile, Keep, Goto, db, chain, Pcs, Open
<1>2. LocalInv'
  BY TxAssumption, QueryFields DEF IInv, TypeOK, Reconcile, Keep, Goto, db, chain,
     LocalInv, RowInv, BuiltInv, FreshInv, BoundInv, SnapshotInv, VerdictInv,
     Executing, Settling, NoTx
<1>3. GlobalInv'
  BY DEF IInv, TypeOK, Reconcile, Keep, Goto, db, chain, GlobalInv, TxidInv, NetInv,
     SentIsRecorded, ConfirmedIsPaid, ReportMatchesOutcome
<1> QED
  BY <1>1, <1>2, <1>3 DEF IInv

\* The end of a round.
LEMMA EndRoundInv ==
    ASSUME IInv, NEW w \in Workers, EndRound(w)
    PROVE  IInv'
<1>1. TypeOK'
  BY DEF IInv, TypeOK, EndRound, Keep, Goto, db, chain, Pcs
<1>2. LocalInv'
  BY TxAssumption DEF IInv, TypeOK, EndRound, Keep, Goto, db, chain, LocalInv,
     RowInv, BuiltInv, FreshInv, BoundInv, SnapshotInv, VerdictInv, Executing,
     Settling, NoTx
<1>3. GlobalInv'
  BY DEF IInv, TypeOK, EndRound, Keep, Goto, db, chain, GlobalInv, TxidInv, NetInv,
     SentIsRecorded, ConfirmedIsPaid, ReportMatchesOutcome
<1> QED
  BY <1>1, <1>2, <1>3 DEF IInv

\* The receipt lookup.
LEMMA ReadReceiptInv ==
    ASSUME IInv, NEW w \in Workers, ReadReceipt(w)
    PROVE  IInv'
<1>1. TypeOK'
  BY DEF IInv, TypeOK, ReadReceipt, Goto, IsNextRow, db, chain, Pcs
<1>2. LocalInv'
  BY TxAssumption, RowFields DEF IInv, TypeOK, ReadReceipt, Goto, IsNextRow, db,
     chain, LocalInv, RowInv, BuiltInv, FreshInv, BoundInv, SnapshotInv, VerdictInv,
     Executing, Settling, NoTx
<1>3. GlobalInv'
  BY DEF IInv, TypeOK, ReadReceipt, Goto, IsNextRow, db, chain, GlobalInv, TxidInv,
     NetInv, SentIsRecorded, ConfirmedIsPaid, ReportMatchesOutcome
<1> QED
  BY <1>1, <1>2, <1>3 DEF IInv

\* The clock after a fruitless lookup.
LEMMA JudgeInv ==
    ASSUME IInv, NEW w \in Workers, Judge(w)
    PROVE  IInv'
<1>1. TypeOK'
  <2>1. PICK l \in {"finish", "resend"} : pc' = [pc EXCEPT ![w] = l]
    BY Zenon DEF Judge, Goto
  <2>2. note' = note \/ note' = [note EXCEPT ![w] = "expired"]
    BY Zenon DEF Judge
  <2>3. pc' \in [Workers -> Pcs]
    BY <2>1 DEF IInv, TypeOK, Pcs
  <2>4. note' \in [Workers -> Notes]
    BY <2>2 DEF IInv, TypeOK, Notes, Verdicts
  <2> QED
    BY <2>3, <2>4 DEF IInv, TypeOK, Judge, db, chain
<1>2. LocalInv'
  BY TxAssumption DEF IInv, TypeOK, Judge, Goto, db, chain, LocalInv, RowInv,
     BuiltInv, FreshInv, BoundInv, SnapshotInv, VerdictInv, Executing, Settling,
     NoTx, Verdicts
<1>3. GlobalInv'
  BY DEF IInv, TypeOK, Judge, Goto, db, chain, GlobalInv, TxidInv, NetInv,
     SentIsRecorded, ConfirmedIsPaid, ReportMatchesOutcome
<1> QED
  BY <1>1, <1>2, <1>3 DEF IInv

\* A submitted order.
LEMMA CreateWithdrawInv ==
    ASSUME IInv, NEW o \in Orders, CreateWithdraw(o)
    PROVE  IInv'
<1>1. TypeOK'
  BY DEF IInv, TypeOK, CreateWithdraw, chain, local, Statuses
<1>2. LocalInv'
  BY TxAssumption DEF IInv, TypeOK, CreateWithdraw, chain, local, LocalInv, RowInv,
     BuiltInv, FreshInv, BoundInv, SnapshotInv, VerdictInv, Executing, Settling,
     NoTx
<1>3. GlobalInv'
  BY DEF IInv, TypeOK, CreateWithdraw, chain, local, GlobalInv, TxidInv, NetInv,
     SentIsRecorded, ConfirmedIsPaid, ReportMatchesOutcome, Open, Settled, Result
<1> QED
  BY <1>1, <1>2, <1>3 DEF IInv

\* The lock's TTL.
LEMMA LockExpiresInv ==
    ASSUME IInv, NEW o \in Orders, LockExpires(o)
    PROVE  IInv'
<1>1. TypeOK'
  BY DEF IInv, TypeOK, LockExpires, db, chain, local
<1>2. LocalInv'
  BY TxAssumption DEF IInv, TypeOK, LockExpires, db, chain, local, LocalInv, RowInv,
     BuiltInv, FreshInv, BoundInv, SnapshotInv, VerdictInv, Executing, Settling,
     NoTx
<1>3. GlobalInv'
  BY DEF IInv, TypeOK, LockExpires, db, chain, local, GlobalInv, TxidInv, NetInv,
     SentIsRecorded, ConfirmedIsPaid, ReportMatchesOutcome
<1> QED
  BY <1>1, <1>2, <1>3 DEF IInv

\* expired_at passes.
LEMMA LocalExpiresInv ==
    ASSUME IInv, NEW o \in Orders, LocalExpires(o)
    PROVE  IInv'
<1>1. TypeOK'
  BY DEF IInv, TypeOK, LocalExpires, db, chain, local
<1>2. LocalInv'
  BY TxAssumption DEF IInv, TypeOK, LocalExpires, db, chain, local, LocalInv,
     RowInv, BuiltInv, FreshInv, BoundInv, SnapshotInv, VerdictInv, Executing,
     Settling, NoTx
<1>3. GlobalInv'
  BY DEF IInv, TypeOK, LocalExpires, db, chain, local, GlobalInv, TxidInv, NetInv,
     SentIsRecorded, ConfirmedIsPaid, ReportMatchesOutcome
<1> QED
  BY <1>1, <1>2, <1>3 DEF IInv

\* A transaction expires.
LEMMA ChainExpiresInv ==
    ASSUME IInv, NEW t \in Txs, ChainExpires(t)
    PROVE  IInv'
<1>1. TypeOK'
  BY DEF IInv, TypeOK, ChainExpires, db, local
<1>2. LocalInv'
  BY TxAssumption DEF IInv, TypeOK, ChainExpires, db, local, LocalInv, RowInv,
     BuiltInv, FreshInv, BoundInv, SnapshotInv, VerdictInv, Executing, Settling,
     NoTx
<1>3. GlobalInv'
  BY DEF IInv, TypeOK, ChainExpires, db, local, GlobalInv, TxidInv, NetInv,
     SentIsRecorded, ConfirmedIsPaid, ReportMatchesOutcome
<1> QED
  BY <1>1, <1>2, <1>3 DEF IInv

\* Finance refills the wallet.
LEMMA RefillInv ==
    ASSUME IInv, Refill
    PROVE  IInv'
<1>1. TypeOK'
  BY EnvironmentAssumption DEF IInv, TypeOK, Refill, db, local
<1>2. LocalInv'
  BY TxAssumption DEF IInv, TypeOK, Refill, db, local, LocalInv, RowInv, BuiltInv,
     FreshInv, BoundInv, SnapshotInv, VerdictInv, Executing, Settling, NoTx
<1>3. GlobalInv'
  BY DEF IInv, TypeOK, Refill, db, local, GlobalInv, TxidInv, NetInv,
     SentIsRecorded, ConfirmedIsPaid, ReportMatchesOutcome
<1> QED
  BY <1>1, <1>2, <1>3 DEF IInv

\* An error in execute.
LEMMA ExecuteErrorInv ==
    ASSUME IInv, NEW w \in Workers, ExecuteError(w)
    PROVE  IInv'
<1> USE DEF IInv
<1>a. /\ Leave(w, "created")
      /\ batch' = batch
      /\ UNCHANGED <<db, expired, chain, sent, halts>> /\ faults' = faults + 1
  BY DEF ExecuteError, Release
<1>1. TypeOK'
  <2>1. lock' \in [Orders -> Workers \cup {NoWorker}]
    BY DEF TypeOK, ExecuteError, Release
  <2> QED
    BY <1>a, <2>1, LeaveType DEF TypeOK, db, chain
<1>2. LocalInv'
  BY <1>a, LeaveLocal DEF chain, db
<1>3. GlobalInv'
  BY <1>a DEF GlobalInv, TxidInv, NetInv, SentIsRecorded, ConfirmedIsPaid,
     ReportMatchesOutcome, chain, db
<1> QED
  BY <1>1, <1>2, <1>3

\* An error in reconcileOne.
LEMMA ReconcileErrorInv ==
    ASSUME IInv, NEW w \in Workers, ReconcileError(w)
    PROVE  IInv'
<1> USE DEF IInv
<1>a. /\ Leave(w, "settle")
      /\ batch' = batch
      /\ UNCHANGED <<db, expired, chain, sent, halts>> /\ faults' = faults + 1
  BY DEF ReconcileError
<1>1. TypeOK'
  BY <1>a, LeaveType DEF TypeOK, ReconcileError, db, chain
<1>2. LocalInv'
  BY <1>a, LeaveLocal DEF chain, db
<1>3. GlobalInv'
  BY <1>a DEF GlobalInv, TxidInv, NetInv, SentIsRecorded, ConfirmedIsPaid,
     ReportMatchesOutcome, chain, db
<1> QED
  BY <1>1, <1>2, <1>3

\* A crash.
LEMMA CrashInv ==
    ASSUME IInv, NEW w \in Workers, Crash(w)
    PROVE  IInv'
<1> USE DEF IInv
<1>a. /\ Leave(w, "poll")
      /\ batch' = [batch EXCEPT ![w] = {}]
      /\ UNCHANGED <<db, expired, chain, sent, halts>> /\ faults' = faults + 1
  BY DEF Crash
<1>1. TypeOK'
  BY <1>a, LeaveType DEF TypeOK, Crash, db, chain
<1>2. LocalInv'
  BY <1>a, LeaveLocal DEF chain, db
<1>3. GlobalInv'
  BY <1>a DEF GlobalInv, TxidInv, NetInv, SentIsRecorded, ConfirmedIsPaid,
     ReportMatchesOutcome, chain, db
<1> QED
  BY <1>1, <1>2, <1>3

\* A block includes a transaction.
LEMMA IncludeInv ==
    ASSUME IInv, NEW t \in Txs, Include(t)
    PROVE  IInv'
<1>1. TypeOK'
  <2>1. Amount[owner[t]] \in Nat
    BY AmountAssumption DEF IInv, GlobalInv, NetInv, SentIsRecorded, Include
  <2>2. hot' \in Nat
    BY <2>1 DEF IInv, TypeOK, Include
  <2> QED
    BY <2>2 DEF IInv, TypeOK, Include, db, local, Outcomes
<1>2. LocalInv'
  BY TxAssumption DEF IInv, TypeOK, Include, db, local, LocalInv, RowInv, BuiltInv,
     FreshInv, BoundInv, SnapshotInv, VerdictInv, Executing, Settling, NoTx,
     GlobalInv, NetInv
<1>3. GlobalInv'
  <2>1. TxidInv' /\ SentIsRecorded' /\ ReportMatchesOutcome'
    BY DEF IInv, Include, db, local, GlobalInv, TxidInv, SentIsRecorded,
       ReportMatchesOutcome
  <2>2. NetInv'
    BY DEF IInv, TypeOK, Include, db, local, GlobalInv, NetInv
  <2>3. ConfirmedIsPaid'
    BY DEF IInv, TypeOK, Include, db, local, GlobalInv, ConfirmedIsPaid
  <2> QED
    BY <2>1, <2>2, <2>3 DEF GlobalInv
<1> QED
  BY <1>1, <1>2, <1>3 DEF IInv

\* A fork takes a block back.
LEMMA ForkInv ==
    ASSUME IInv, NEW t \in Txs, Fork(t)
    PROVE  IInv'
<1>1. TypeOK'
  <2>1. Amount[owner[t]] \in Nat
    BY AmountAssumption DEF IInv, GlobalInv, NetInv, SentIsRecorded, Fork
  <2>2. hot' \in Nat
    BY <2>1 DEF IInv, TypeOK, Fork
  <2> QED
    BY <2>2 DEF IInv, TypeOK, Fork, db, local
<1>2. LocalInv'
  BY TxAssumption DEF IInv, TypeOK, Fork, db, local, LocalInv, RowInv, BuiltInv,
     FreshInv, BoundInv, SnapshotInv, VerdictInv, Executing, Settling, NoTx,
     GlobalInv, NetInv
<1>3. GlobalInv'
  <2>1. TxidInv' /\ SentIsRecorded' /\ ReportMatchesOutcome'
    BY DEF IInv, Fork, db, local, GlobalInv, TxidInv, SentIsRecorded,
       ReportMatchesOutcome
  <2>2. NetInv'
    BY DEF IInv, TypeOK, Fork, db, local, GlobalInv, NetInv
  <2>3. ConfirmedIsPaid'
    BY DEF IInv, TypeOK, Fork, db, local, GlobalInv, ConfirmedIsPaid
  <2> QED
    BY <2>1, <2>2, <2>3 DEF GlobalInv
<1> QED
  BY <1>1, <1>2, <1>3 DEF IInv

\* A block becomes final.
LEMMA SolidifyInv ==
    ASSUME IInv, NEW t \in Txs, Solidify(t)
    PROVE  IInv'
<1>1. TypeOK'
  BY DEF IInv, TypeOK, Solidify, db, local
<1>2. LocalInv'
  BY TxAssumption DEF IInv, TypeOK, Solidify, db, local, LocalInv, RowInv, BuiltInv,
     FreshInv, BoundInv, SnapshotInv, VerdictInv, Executing, Settling, NoTx,
     GlobalInv, NetInv
<1>3. GlobalInv'
  <2>1. TxidInv' /\ SentIsRecorded' /\ ReportMatchesOutcome'
    BY DEF IInv, Solidify, db, local, GlobalInv, TxidInv, SentIsRecorded,
       ReportMatchesOutcome
  <2>2. NetInv'
    BY DEF IInv, TypeOK, Solidify, db, local, GlobalInv, NetInv
  <2>3. ConfirmedIsPaid'
    BY DEF IInv, TypeOK, Solidify, db, local, GlobalInv, ConfirmedIsPaid
  <2> QED
    BY <2>1, <2>2, <2>3 DEF GlobalInv
<1> QED
  BY <1>1, <1>2, <1>3 DEF IInv

\* A node forgets a pending transaction.
LEMMA EvictInv ==
    ASSUME IInv, NEW t \in Txs, Evict(t)
    PROVE  IInv'
<1>1. TypeOK'
  BY DEF IInv, TypeOK, Evict, db, local
<1>2. LocalInv'
  BY TxAssumption DEF IInv, TypeOK, Evict, db, local, LocalInv, RowInv, BuiltInv,
     FreshInv, BoundInv, SnapshotInv, VerdictInv, Executing, Settling, NoTx,
     GlobalInv, NetInv
<1>3. GlobalInv'
  <2>1. TxidInv' /\ SentIsRecorded' /\ ReportMatchesOutcome'
    BY DEF IInv, Evict, db, local, GlobalInv, TxidInv, SentIsRecorded,
       ReportMatchesOutcome
  <2>2. NetInv'
    BY DEF IInv, TypeOK, Evict, db, local, GlobalInv, NetInv
  <2>3. ConfirmedIsPaid'
    BY DEF IInv, TypeOK, Evict, db, local, GlobalInv, ConfirmedIsPaid
  <2> QED
    BY <2>1, <2>2, <2>3 DEF GlobalInv
<1> QED
  BY <1>1, <1>2, <1>3 DEF IInv

\* riskCheck passing, or reject.
LEMMA RiskCheckInv ==
    ASSUME IInv, NEW w \in Workers, RiskCheck(w)
    PROVE  IInv'
<1> DEFINE o == row[w].id
<1>1. o \in Orders
  BY RowFields DEF IInv, LocalInv, RowInv, Executing, RiskCheck
<1>2. CASE Keep(w, "balance") /\ UNCHANGED <<status, reason, outbox, lock>>
  <2>1. TypeOK'
    BY <1>2 DEF IInv, TypeOK, RiskCheck, Keep, Goto, Pcs, chain
  <2>2. LocalInv'
    BY <1>2 DEF IInv, TypeOK, RiskCheck, Keep, Goto, LocalInv, RowInv, BuiltInv, FreshInv,
       BoundInv, SnapshotInv, VerdictInv, Executing, Settling, chain
  <2>3. GlobalInv'
    BY <1>2 DEF IInv, RiskCheck, GlobalInv, TxidInv, NetInv, SentIsRecorded,
       ConfirmedIsPaid, ReportMatchesOutcome, chain
  <2> QED
    BY <2>1, <2>2, <2>3 DEF IInv
<1>3. ASSUME NEW why \in {"blocked", "dailyLimit"},
             SettleIf(o, {"created"}, "rejected", why), Release(w)
      PROVE  IInv'
  <2>1. UNCHANGED <<txid, haltCount, expired, owner, net, result, dead, hot, refills, batch,
                    faults, sent, halts>> /\ Leave(w, "created")
    BY <1>3 DEF RiskCheck, chain, Release
  <2>2. /\ GlobalInv'
        /\ status' \in [Orders -> Statuses]
        /\ reason' \in [Orders -> Reasons]
        /\ outbox' \subseteq [order : Orders, result : {"success", "failed", "rejected"}]
    BY <1>1, <1>3, <2>1, SettleGlobal DEF IInv, Reasons
  <2>3. LocalInv'
    BY <2>1, LeaveLocal DEF IInv
  <2>4. lock' \in [Orders -> Workers \cup {NoWorker}]
    BY <1>3 DEF IInv, TypeOK, Release
  <2>5. TypeOK'
    BY <2>1, <2>2, <2>4, LeaveType DEF IInv, TypeOK
  <2> QED
    BY <2>2, <2>3, <2>5 DEF IInv
<1> QED
  BY <1>2, <1>3 DEF RiskCheck

\* halt and failHalted.
LEMMA HaltInv ==
    ASSUME IInv, NEW w \in Workers, Halt(w)
    PROVE  IInv'
<1> DEFINE o == row[w].id
<1>1. o \in Orders /\ row[w].halt \in Nat
  BY RowFields DEF IInv, LocalInv, RowInv, Executing, Halt
<1>2. /\ UNCHANGED <<txid, expired, owner, net, result, dead, hot, refills, batch, faults,
                     sent>>
      /\ Release(w) /\ Leave(w, "created")
  BY DEF Halt, chain, Release
<1>3. /\ GlobalInv'
      /\ status' \in [Orders -> Statuses]
      /\ reason' \in [Orders -> Reasons]
      /\ outbox' \subseteq [order : Orders, result : {"success", "failed", "rejected"}]
  <2>1. CASE SettleIf(o, {"created"}, "failed", "halted")
    BY <1>1, <1>2, <2>1, SettleGlobal DEF IInv, Reasons
  <2>2. CASE /\ reason' = [reason EXCEPT ![o] = IF status[o] = "created" THEN "halted" ELSE @]
             /\ UNCHANGED <<status, outbox>>
    <3>1. /\ reason' \in [Orders -> Reasons]
          /\ \A p \in Orders : status[p] # "created" => reason'[p] = reason[p]
      BY <2>2 DEF IInv, TypeOK, Reasons
    <3> QED
      BY <1>2, <2>2, <3>1 DEF IInv, TypeOK, GlobalInv, TxidInv, NetInv, SentIsRecorded,
         ConfirmedIsPaid, ReportMatchesOutcome
  <2> QED
    BY <2>1, <2>2 DEF Halt
<1>4. LocalInv'
  BY <1>2, LeaveLocal DEF IInv
<1>5. /\ lock' \in [Orders -> Workers \cup {NoWorker}]
      /\ haltCount' \in [Orders -> Nat]
      /\ halts' \in [Orders -> Nat]
  BY <1>1, <1>2 DEF IInv, TypeOK, Release, Halt, Attempt
<1>6. TypeOK'
  BY <1>2, <1>3, <1>5, LeaveType DEF IInv, TypeOK
<1> QED
  BY <1>3, <1>4, <1>6 DEF IInv

\* A transaction is built and signed, or building fails.
LEMMA BuildAndSignInv ==
    ASSUME IInv, NEW w \in Workers, BuildAndSign(w)
    PROVE  IInv'
<1> DEFINE o == row[w].id
<1>1. o \in Orders /\ row[w] \in Row
  BY RowFields DEF IInv, LocalInv, RowInv, Executing, BuildAndSign
<1>2. UNCHANGED <<status, txid, haltCount, reason, outbox, expired, net, result, dead, hot,
                  refills, batch, faults, sent, halts>>
  BY DEF BuildAndSign, db
<1>3. CASE Release(w) /\ UNCHANGED owner
  <2>1. Leave(w, "created")
    BY <1>3 DEF Release
  <2>2. LocalInv'
    BY <1>2, <1>3, <2>1, LeaveLocal DEF IInv
  <2>3. GlobalInv'
    BY <1>2, <1>3 DEF IInv, GlobalInv, TxidInv, NetInv, SentIsRecorded, ConfirmedIsPaid,
       ReportMatchesOutcome
  <2>4. lock' \in [Orders -> Workers \cup {NoWorker}]
    BY <1>3 DEF IInv, TypeOK, Release
  <2>5. TypeOK'
    BY <1>2, <1>3, <2>1, <2>4, LeaveType DEF IInv, TypeOK
  <2> QED
    BY <2>2, <2>3, <2>5 DEF IInv
<1>4. ASSUME NEW t \in Txs, owner[t] = 0,
             owner' = [owner EXCEPT ![t] = o], tx' = [tx EXCEPT ![w] = t],
             Goto(w, "commit"), UNCHANGED <<lock, row, note, balance>>
      PROVE  IInv'
  <2>1. TypeOK'
    BY <1>1, <1>2, <1>4 DEF IInv, TypeOK, Goto, Pcs
  <2>2. /\ owner'[t] = o /\ pc'[w] = "commit" /\ tx'[w] = t
        /\ \A u \in Txs : u # t => owner'[u] = owner[u]
        /\ \A v \in Workers : v # w => pc'[v] = pc[v] /\ tx'[v] = tx[v]
    BY <1>4 DEF IInv, TypeOK, Goto
  <2>3. t \notin sent /\ \A p \in Orders : txid[p] # t
    BY <1>4, TxAssumption, OrdersAssumption
       DEF IInv, GlobalInv, SentIsRecorded, TxidInv, NoTx
  <2>4. \A v \in Workers : pc[v] \in {"commit", "send", "record"} => tx[v] # t
    BY <1>1, <1>4, OrdersAssumption, RowFields
       DEF IInv, LocalInv, BuiltInv, RowInv, Executing
  <2>5. RowInv' /\ BuiltInv'
    BY <1>1, <1>4, <2>2, <2>4 DEF IInv, LocalInv, RowInv, BuiltInv
  <2>6. FreshInv' /\ BoundInv'
    BY <1>2, <1>4, <2>2, <2>3, <2>4 DEF IInv, LocalInv, FreshInv, BoundInv
  <2>7. SnapshotInv' /\ VerdictInv'
    BY <1>2, <1>4, <2>2 DEF IInv, LocalInv, SnapshotInv, VerdictInv, Settling
  <2>8. TxidInv' /\ SentIsRecorded'
    BY <1>2, <2>2, <2>3 DEF IInv, TypeOK, GlobalInv, TxidInv, SentIsRecorded
  <2>9. NetInv' /\ ConfirmedIsPaid' /\ ReportMatchesOutcome'
    BY <1>2 DEF IInv, GlobalInv, NetInv, ConfirmedIsPaid, ReportMatchesOutcome
  <2> QED
    BY <2>1, <2>5, <2>6, <2>7, <2>8, <2>9 DEF IInv, LocalInv, GlobalInv
<1> QED
  BY <1>3, <1>4 DEF BuildAndSign

\* The compare-and-swap created -> signed: the one place where an order is
\* bound to a transaction.
LEMMA CommitSignedInv ==
    ASSUME IInv, NEW w \in Workers, CommitSigned(w)
    PROVE  IInv'
<1> DEFINE o == row[w].id
<1>1. /\ o \in Orders /\ row[w] \in Row /\ tx[w] \in Txs /\ owner[tx[w]] = o
      /\ pc[w] = "commit"
  BY RowFields DEF IInv, LocalInv, RowInv, BuiltInv, Executing, CommitSigned
<1>2. UNCHANGED <<haltCount, reason, outbox, expired, owner, net, result, dead, hot, refills,
                  batch, faults, sent, halts>>
  BY DEF CommitSigned, chain
<1>3. CASE status[o] # "created"
  <2>1. Leave(w, "created") /\ Release(w) /\ UNCHANGED <<status, txid>>
    BY <1>3 DEF CommitSigned, Release
  <2>2. LocalInv'
    BY <1>2, <2>1, LeaveLocal DEF IInv
  <2>3. GlobalInv'
    BY <1>2, <2>1 DEF IInv, GlobalInv, TxidInv, NetInv, SentIsRecorded, ConfirmedIsPaid,
       ReportMatchesOutcome
  <2>4. lock' \in [Orders -> Workers \cup {NoWorker}]
    BY <2>1 DEF IInv, TypeOK, Release
  <2>5. TypeOK'
    BY <1>2, <2>1, <2>4, LeaveType DEF IInv, TypeOK
  <2> QED
    BY <2>2, <2>3, <2>5 DEF IInv
<1>4. CASE status[o] = "created"
  <2>1. /\ status' = [status EXCEPT ![o] = "signed"]
        /\ txid' = [txid EXCEPT ![o] = tx[w]]
        /\ pc' = [pc EXCEPT ![w] = "send"]
        /\ UNCHANGED <<lock, row, tx, note, balance>>
    BY <1>4 DEF CommitSigned, Keep, Goto
  <2>2. TypeOK'
    BY <1>1, <1>2, <2>1 DEF IInv, TypeOK, Statuses, Pcs
  <2>3. /\ status'[o] = "signed" /\ txid'[o] = tx[w] /\ pc'[w] = "send"
        /\ \A p \in Orders : p # o => status'[p] = status[p] /\ txid'[p] = txid[p]
        /\ \A v \in Workers : v # w => pc'[v] = pc[v]
    BY <1>1, <2>1 DEF IInv, TypeOK
  <2>4. /\ txid[o] = NoTx /\ tx[w] # NoTx
        /\ \A p \in Orders : txid[p] # tx[w]
        /\ \A v \in Workers : v # w /\ pc[v] = "commit" => tx[v] # tx[w]
    BY <1>1, <1>4, TxAssumption
       DEF IInv, GlobalInv, TxidInv, LocalInv, FreshInv, NoTx
  <2>5. \A v \in Workers : pc[v] \in {"send", "record"} => row[v].id # o
    BY <2>4, TxAssumption DEF IInv, LocalInv, BoundInv, BuiltInv, NoTx
  <2>6. \A v \in Workers : pc[v] \in Settling => row[v].id # o
    BY <2>4, TxAssumption DEF IInv, LocalInv, SnapshotInv, NoTx
  <2>7. RowInv' /\ BuiltInv'
    BY <1>1, <1>2, <2>1, <2>3 DEF IInv, LocalInv, RowInv, BuiltInv, Executing, Settling
  <2>8. FreshInv'
    BY <1>1, <2>1, <2>3, <2>4 DEF IInv, LocalInv, FreshInv
  <2>9. BoundInv'
    BY <1>1, <2>1, <2>3, <2>5, RowFields
       DEF IInv, LocalInv, BoundInv, RowInv, Executing
  <2>10. SnapshotInv'
    <3>1. \A v \in Workers : \A r \in batch[v] : r.txid # NoTx => txid'[r.id] = r.txid
      BY <2>3, <2>4, RowFields DEF IInv, TypeOK, LocalInv, SnapshotInv
    <3>2. \A v \in Workers : pc'[v] \in Settling =>
             row[v].txid \in Txs /\ txid'[row[v].id] = row[v].txid
      BY <2>3, <2>6, RowFields DEF IInv, LocalInv, SnapshotInv, RowInv, Settling
    <3> QED
      BY <1>2, <2>1, <3>1, <3>2 DEF SnapshotInv
  <2>11. VerdictInv'
    BY <1>2, <2>1, <2>3 DEF IInv, LocalInv, VerdictInv
  <2>12. TxidInv'
    BY <1>1, <1>2, <2>3, <2>4 DEF IInv, GlobalInv, TxidInv, Open
  <2>13. SentIsRecorded'
    BY <1>2, <2>3, <2>4, TxAssumption DEF IInv, TypeOK, GlobalInv, SentIsRecorded, NoTx
  <2>14. ConfirmedIsPaid'
    BY <1>2, <2>3 DEF IInv, GlobalInv, ConfirmedIsPaid
  <2>15. NetInv' /\ ReportMatchesOutcome'
    BY <1>2, <1>4, <2>3 DEF IInv, GlobalInv, NetInv, ReportMatchesOutcome, Settled
  <2> QED
    BY <2>2, <2>7, <2>8, <2>9, <2>10, <2>11, <2>12, <2>13, <2>14, <2>15
       DEF IInv, LocalInv, GlobalInv
<1> QED
  BY <1>3, <1>4

\* broadcast hands the recorded transaction to the gateway.
LEMMA SendInv ==
    ASSUME IInv, NEW w \in Workers, Send(w)
    PROVE  IInv'
<1> DEFINE o == row[w].id
<1>1. o \in Orders /\ tx[w] \in Txs /\ txid[o] = tx[w]
  BY RowFields DEF IInv, LocalInv, RowInv, BuiltInv, BoundInv, Executing, Send
<1>2. UNCHANGED <<status, txid, haltCount, reason, outbox, lock, expired, owner, result, dead,
                  hot, refills, batch, row, tx, balance, halts>>
  BY DEF Send, db
<1>3. PICK answer \in Answers :
         Broadcast(tx[w], answer) /\ note' = [note EXCEPT ![w] = answer]
  BY DEF Send
<1>4. /\ GlobalInv'
      /\ \A u \in Txs : net[u] = "final" => net'[u] = "final" /\ result'[u] = result[u]
      /\ net' \in [Txs -> {"nowhere", "pool", "block", "final", "void"}]
      /\ faults' \in Nat
      /\ sent' \subseteq Txs
  BY <1>1, <1>2, <1>3, BroadcastGlobal DEF IInv
<1>5. pc' = [pc EXCEPT ![w] = "record"] /\ pc[w] = "send"
  BY DEF Send, Goto
<1>6. TypeOK'
  BY <1>2, <1>3, <1>4, <1>5 DEF IInv, TypeOK, Pcs, Notes, Answers
<1>7. /\ pc'[w] = "record"
      /\ \A v \in Workers : v # w => pc'[v] = pc[v] /\ note'[v] = note[v]
  BY <1>3, <1>5 DEF IInv, TypeOK
<1>8. RowInv' /\ BuiltInv' /\ FreshInv' /\ BoundInv'
  BY <1>2, <1>5, <1>7
     DEF IInv, LocalInv, RowInv, BuiltInv, FreshInv, BoundInv, Executing, Settling
<1>9. SnapshotInv'
  BY <1>2, <1>7 DEF IInv, LocalInv, SnapshotInv, Settling
<1>10. VerdictInv'
  BY <1>2, <1>4, <1>7 DEF IInv, LocalInv, VerdictInv, SnapshotInv, Settling
<1> QED
  BY <1>4, <1>6, <1>8, <1>9, <1>10 DEF IInv, LocalInv

\* The bookkeeping after the answer of a node.
LEMMA RecordInv ==
    ASSUME IInv, NEW w \in Workers, Record(w)
    PROVE  IInv'
<1> DEFINE o == row[w].id
<1>1. o \in Orders
  BY RowFields DEF IInv, LocalInv, RowInv, Executing, Record
<1>2. /\ UNCHANGED <<txid, haltCount, expired, owner, net, result, dead, hot, refills, batch,
                     faults, sent, halts>>
      /\ Release(w) /\ Leave(w, "created")
  BY DEF Record, chain, Release
<1>3. /\ GlobalInv'
      /\ status' \in [Orders -> Statuses]
      /\ reason' \in [Orders -> Reasons]
      /\ outbox' \subseteq [order : Orders, result : {"success", "failed", "rejected"}]
  <2>1. CASE SettleIf(o, Open, "failed", "refused")
    BY <1>1, <1>2, <2>1, SettleGlobal DEF IInv, Reasons
  <2>2. CASE UNCHANGED <<status, reason, outbox>>
    BY <1>2, <2>2 DEF IInv, TypeOK, GlobalInv, TxidInv, NetInv, SentIsRecorded,
       ConfirmedIsPaid, ReportMatchesOutcome
  <2>3. CASE /\ status[o] = "signed" /\ status' = [status EXCEPT ![o] = "broadcast"]
             /\ \E why \in {"", "node"} : reason' = [reason EXCEPT ![o] = why]
             /\ UNCHANGED outbox
    <3>1. /\ status' \in [Orders -> Statuses] /\ reason' \in [Orders -> Reasons]
          /\ status'[o] = "broadcast"
          /\ \A p \in Orders : p # o => status'[p] = status[p] /\ reason'[p] = reason[p]
      <4>1. PICK why \in {"", "node"} : reason' = [reason EXCEPT ![o] = why]
        BY <2>3
      <4>2. reason' \in [Orders -> Reasons] /\ \A p \in Orders : p # o => reason'[p] = reason[p]
        BY <4>1 DEF IInv, TypeOK, Reasons
      <4> QED
        BY <1>1, <2>3, <4>2 DEF IInv, TypeOK, Statuses
    <3>2. TxidInv'
      BY <1>1, <1>2, <2>3, <3>1 DEF IInv, GlobalInv, TxidInv, Open
    <3>4. ConfirmedIsPaid'
      BY <1>2, <3>1 DEF IInv, GlobalInv, ConfirmedIsPaid
    <3>3. NetInv' /\ SentIsRecorded' /\ ReportMatchesOutcome'
      BY <1>1, <1>2, <2>3, <3>1
         DEF IInv, GlobalInv, NetInv, SentIsRecorded, ReportMatchesOutcome, Settled
    <3> QED
      BY <2>3, <3>1, <3>2, <3>3, <3>4 DEF IInv, TypeOK, GlobalInv
  <2> QED
    BY <2>1, <2>2, <2>3 DEF Record
<1>4. LocalInv'
  BY <1>2, LeaveLocal DEF IInv
<1>5. lock' \in [Orders -> Workers \cup {NoWorker}]
  BY <1>2 DEF IInv, TypeOK, Release
<1>6. TypeOK'
  BY <1>2, <1>3, <1>5, LeaveType DEF IInv, TypeOK
<1> QED
  BY <1>3, <1>4, <1>6 DEF IInv

\* rebroadcast: the transaction of the snapshot is still the row's.
LEMMA RebroadcastInv ==
    ASSUME IInv, NEW w \in Workers, Rebroadcast(w)
    PROVE  IInv'
<1> DEFINE o == row[w].id
           t == row[w].txid
<1>1. o \in Orders /\ t \in Txs /\ txid[o] = t /\ pc[w] = "resend"
  BY RowFields DEF IInv, LocalInv, RowInv, SnapshotInv, Settling, Rebroadcast
<1>2. UNCHANGED <<status, txid, haltCount, reason, outbox, lock, expired, owner, result, dead,
                  hot, refills, batch, halts>>
  BY DEF Rebroadcast, db
<1>3. PICK answer \in Answers :
         /\ Broadcast(t, answer)
         /\ \/ /\ note' = [note EXCEPT ![w] = "refused"] /\ Goto(w, "finish")
               /\ UNCHANGED <<row, tx, balance>>
            \/ Leave(w, "settle")
  BY DEF Rebroadcast
<1>4. /\ GlobalInv'
      /\ \A u \in Txs : net[u] = "final" => net'[u] = "final" /\ result'[u] = result[u]
      /\ net' \in [Txs -> {"nowhere", "pool", "block", "final", "void"}]
      /\ faults' \in Nat
      /\ sent' \subseteq Txs
  BY <1>1, <1>2, <1>3, BroadcastGlobal DEF IInv
<1>5. CASE Leave(w, "settle")
  <2>1. LocalInv'
    BY <1>2, <1>4, <1>5, LeaveLocal DEF IInv
  <2>2. TypeOK'
    BY <1>2, <1>4, <1>5, LeaveType DEF IInv, TypeOK
  <2> QED
    BY <1>4, <2>1, <2>2 DEF IInv
<1>6. CASE /\ note' = [note EXCEPT ![w] = "refused"] /\ Goto(w, "finish")
           /\ UNCHANGED <<row, tx, balance>>
  <2>1. /\ pc' = [pc EXCEPT ![w] = "finish"]
        /\ pc' \in [Workers -> Pcs] /\ pc'[w] = "finish"
        /\ \A v \in Workers : v # w => pc'[v] = pc[v]
    BY <1>6 DEF IInv, TypeOK, Goto, Pcs
  <2>2. /\ note' \in [Workers -> Notes] /\ note'[w] = "refused"
        /\ \A v \in Workers : v # w => note'[v] = note[v]
    BY <1>6 DEF IInv, TypeOK, Notes, Verdicts
  <2>3. TypeOK'
    BY <1>2, <1>4, <1>6, <2>1, <2>2 DEF IInv, TypeOK
  <2>4. RowInv' /\ BuiltInv' /\ FreshInv' /\ BoundInv'
    BY <1>1, <1>2, <1>6, <2>1
       DEF IInv, LocalInv, RowInv, BuiltInv, FreshInv, BoundInv, Executing, Settling
  <2>5. SnapshotInv'
    BY <1>1, <1>2, <1>6, <2>1 DEF IInv, LocalInv, SnapshotInv, Settling
  <2>6. VerdictInv'
    BY <1>2, <1>4, <1>6, <2>1, <2>2
       DEF IInv, LocalInv, VerdictInv, SnapshotInv, Settling, Verdicts
  <2> QED
    BY <1>4, <2>3, <2>4, <2>5, <2>6 DEF IInv, LocalInv
<1> QED
  BY <1>3, <1>5, <1>6

\* The receipt of the solidity node becomes the verdict.
LEMMA FinalInfoInv ==
    ASSUME IInv, NEW w \in Workers, FinalInfo(w)
    PROVE  IInv'
<1> DEFINE t == row[w].txid
<1>1. t \in Txs /\ pc[w] = "final"
  BY DEF IInv, LocalInv, SnapshotInv, Settling, FinalInfo
<1>2. UNCHANGED <<status, txid, haltCount, reason, outbox, lock, expired, owner, net, result,
                  dead, hot, refills, batch, faults, sent, halts>>
  BY DEF FinalInfo, db, chain
<1>3. GlobalInv'
  BY <1>2 DEF IInv, GlobalInv, TxidInv, NetInv, SentIsRecorded, ConfirmedIsPaid,
     ReportMatchesOutcome
<1>4. CASE Leave(w, "settle")
  <2>1. LocalInv'
    BY <1>2, <1>4, LeaveLocal DEF IInv
  <2>2. TypeOK'
    BY <1>2, <1>4, LeaveType DEF IInv, TypeOK
  <2> QED
    BY <1>3, <2>1, <2>2 DEF IInv
<1>5. CASE /\ net[t] = "final" /\ note' = [note EXCEPT ![w] = result[t]] /\ Goto(w, "finish")
           /\ UNCHANGED <<row, tx, balance>>
  <2>1. result[t] \in Outcomes
    BY <1>1, <1>5 DEF IInv, GlobalInv, NetInv
  <2>2. /\ pc' \in [Workers -> Pcs] /\ pc'[w] = "finish"
        /\ \A v \in Workers : v # w => pc'[v] = pc[v]
    BY <1>5 DEF IInv, TypeOK, Goto, Pcs
  <2>3. /\ note' \in [Workers -> Notes] /\ note'[w] = result[t]
        /\ \A v \in Workers : v # w => note'[v] = note[v]
    BY <1>5, <2>1 DEF IInv, TypeOK, Notes, Verdicts
  <2>4. TypeOK'
    BY <1>2, <1>5, <2>2, <2>3 DEF IInv, TypeOK
  <2>5. RowInv' /\ BuiltInv' /\ FreshInv' /\ BoundInv'
    BY <1>1, <1>2, <1>5, <2>2
       DEF IInv, LocalInv, RowInv, BuiltInv, FreshInv, BoundInv, Executing, Settling
  <2>6. SnapshotInv'
    BY <1>1, <1>2, <1>5, <2>2 DEF IInv, LocalInv, SnapshotInv, Settling
  <2>7. VerdictInv'
    BY <1>2, <1>5, <2>1, <2>2, <2>3 DEF IInv, LocalInv, VerdictInv, Verdicts
  <2> QED
    BY <1>3, <2>4, <2>5, <2>6, <2>7 DEF IInv, LocalInv
<1> QED
  BY <1>4, <1>5 DEF FinalInfo, IsFinal

\* finish.
LEMMA FinishInv ==
    ASSUME IInv, NEW w \in Workers, Finish(w)
    PROVE  IInv'
<1> DEFINE o == row[w].id
<1>1. /\ o \in Orders /\ txid[o] = row[w].txid /\ note[w] \in Verdicts
      /\ note[w] = "paid" => net[txid[o]] = "final" /\ result[txid[o]] = "paid"
  BY RowFields DEF IInv, LocalInv, RowInv, SnapshotInv, VerdictInv, Settling, Finish
<1>2. /\ UNCHANGED <<txid, haltCount, lock, expired, owner, net, result, dead, hot, refills,
                     batch, faults, sent, halts>>
      /\ Leave(w, "settle")
  BY DEF Finish, chain
<1>3. /\ GlobalInv'
      /\ status' \in [Orders -> Statuses]
      /\ reason' \in [Orders -> Reasons]
      /\ outbox' \subseteq [order : Orders, result : {"success", "failed", "rejected"}]
  <2>1. CASE note[w] = "paid"
    <3>1. SettleIf(o, Open, "confirmed", "") /\ "" \in Reasons
      BY <2>1 DEF Finish, Reasons
    <3> QED
      BY <1>1, <1>2, <2>1, <3>1, SettleGlobal DEF IInv
  <2>2. CASE note[w] # "paid"
    <3>1. SettleIf(o, Open, "failed", note[w]) /\ note[w] \in Reasons /\ note[w] # "halted"
      BY <1>1, <2>2 DEF Finish, Reasons, Verdicts, Outcomes
    <3> QED
      BY <1>1, <1>2, <3>1, SettleGlobal DEF IInv
  <2> QED
    BY <2>1, <2>2
<1>4. LocalInv'
  BY <1>2, LeaveLocal DEF IInv
<1>5. TypeOK'
  BY <1>2, <1>3, LeaveType DEF IInv, TypeOK
<1> QED
  BY <1>3, <1>4, <1>5 DEF IInv

-----------------------------------------------------------------------------
(* The theorems.                                                           *)

\* Every step of the system preserves the invariant.
LEMMA NextInv == IInv /\ [Next]_vars => IInv'
<1> SUFFICES ASSUME IInv, [Next]_vars PROVE IInv'
  OBVIOUS
<1>1. CASE UNCHANGED vars
  <2>1. TypeOK'
    BY <1>1 DEF IInv, TypeOK, vars, db, chain, local
  <2>2. LocalInv'
    BY <1>1 DEF IInv, LocalInv, RowInv, BuiltInv, FreshInv, BoundInv, SnapshotInv,
       VerdictInv, vars, db, chain, local
  <2>3. GlobalInv'
    BY <1>1 DEF IInv, GlobalInv, TxidInv, NetInv, SentIsRecorded, ConfirmedIsPaid,
       ReportMatchesOutcome, vars, db, chain, local
  <2> QED
    BY <2>1, <2>2, <2>3 DEF IInv
<1>2. ASSUME NEW o \in Orders, CreateWithdraw(o) \/ LockExpires(o) \/ LocalExpires(o)
      PROVE  IInv'
  BY <1>2, CreateWithdrawInv, LockExpiresInv, LocalExpiresInv
<1>3. ASSUME NEW w \in Workers, Execute(w)
      PROVE  IInv'
  BY <1>3, ProcessCreatedInv, TakeLockInv, RiskCheckInv, ReadBalanceInv, CheckInflightInv,
     AcquireEnergyInv, HaltInv, BuildAndSignInv, CommitSignedInv, SendInv, RecordInv
     DEF Execute
<1>4. ASSUME NEW w \in Workers, ReconcileSteps(w)
      PROVE  IInv'
  BY <1>4, ReconcileInv, EndRoundInv, ReadReceiptInv, JudgeInv, RebroadcastInv, FinalInfoInv,
     FinishInv DEF ReconcileSteps
<1>5. ASSUME NEW w \in Workers, Failure(w)
      PROVE  IInv'
  BY <1>5, ExecuteErrorInv, ReconcileErrorInv, CrashInv DEF Failure
<1>6. ASSUME NEW t \in Txs, Chain(t)
      PROVE  IInv'
  BY <1>6, IncludeInv, ForkInv, SolidifyInv, EvictInv, ChainExpiresInv DEF Chain
<1>7. CASE Refill
  BY <1>7, RefillInv
<1> QED
  BY <1>1, <1>2, <1>3, <1>4, <1>5, <1>6, <1>7 DEF Next

\* The inductive invariant holds in every reachable state, so every value a
\* worker still holds agrees with the rows and the chain.
THEOREM Invariance == Spec => []IInv
<1> QED
  BY InitInv, NextInv, PTL DEF Spec

\* Every variable of the workers, the tables and the chain keeps its type.
THEOREM TypeCorrect == Spec => []TypeOK
<1>1. IInv => TypeOK
  BY DEF IInv
<1> QED
  BY <1>1, Invariance, PTL

\* At most one transaction per order is ever handed to a node, for any number
\* of workers, expired locks, crashes and lost answers.
THEOREM NoDoublePayment == Spec => []AtMostOneTransfer
<1>1. IInv => AtMostOneTransfer
  BY DEF IInv, GlobalInv, SentIsRecorded, AtMostOneTransfer
<1> QED
  BY <1>1, Invariance, PTL

\* An order reported as paid was paid by a solidified transfer.
THEOREM ConfirmedOrdersArePaid == Spec => []ConfirmedIsPaid
<1>1. IInv => ConfirmedIsPaid
  BY DEF IInv, GlobalInv
<1> QED
  BY <1>1, Invariance, PTL

\* A settled order has exactly one report, of its own outcome; an open order
\* has none.
THEOREM OneReportPerOrder == Spec => []ReportMatchesOutcome
<1>1. IInv => ReportMatchesOutcome
  BY DEF IInv, GlobalInv
<1> QED
  BY <1>1, Invariance, PTL

\* Nothing was sent for a rejected order or one that was halted too often.
THEOREM RefusedOrdersNeverSent == Spec => []RefusedNeverSent
<1>1. IInv => RefusedNeverSent
  BY TxAssumption DEF IInv, TypeOK, GlobalInv, TxidInv, SentIsRecorded, RefusedNeverSent, NoTx
<1> QED
  BY <1>1, Invariance, PTL

-----------------------------------------------------------------------------
(* Withdraw implements Settlement, and never reopens a settled order.      *)

\* What a step of Withdraw does to the state of Settlement.
PromiseStep == [Promise!Next]_(Promise!vars)

\* What a settled order may never lose.
StaysSettled ==
    \A o \in Orders : status[o] \in Settled =>
        /\ status'[o] = status[o]
        /\ txid'[o] = txid[o]
        /\ reason'[o] = reason[o]

\* A step that touches no row, report or transfer is a stuttering step.
LEMMA StillStep ==
    ASSUME UNCHANGED <<status, txid, outbox, sent>>
    PROVE  PromiseStep
  BY DEF PromiseStep, Promise!vars

\* The compare-and-swap that settles an order is Settle, or changes nothing.
LEMMA SettleStep ==
    ASSUME IInv, NEW o \in Orders, NEW from, NEW to \in Settled, NEW why,
           from = {"created"} \/ from = Open,
           SettleIf(o, from, to, why), txid' = txid, sent' = sent,
           to = "confirmed" => txid[o] \in sent,
           to = "rejected" => txid[o] = NoTx
    PROVE  PromiseStep /\ StaysSettled
<1>1. CASE status[o] \notin from
  <2>1. UNCHANGED <<status, reason, outbox>>
    BY <1>1 DEF SettleIf
  <2> QED
    BY <2>1, StillStep DEF StaysSettled
<1>2. CASE status[o] \in from
  <2>1. /\ status' = [status EXCEPT ![o] = to]
        /\ reason' = [reason EXCEPT ![o] = why]
        /\ EnqueueOutbox(o, Result(to))
        /\ status[o] \notin Settled /\ Phase(status[o]) = "open" /\ Phase(to) = "settled"
    BY <1>2 DEF SettleIf, Open, Settled, Phase
  <2>2. \A e \in outbox : e.order # o
    BY <2>1 DEF IInv, TypeOK, GlobalInv, ReportMatchesOutcome
  <2>3. outbox' = outbox \cup {[order |-> o, result |-> Result(to)]}
    BY <2>1, <2>2 DEF EnqueueOutbox
  <2>4. [p \in Orders |-> Phase(status'[p])] =
            [[p \in Orders |-> Phase(status[p])] EXCEPT ![o] = "settled"]
    BY <2>1 DEF IInv, TypeOK
  <2>5. Result(to) \in {"success", "failed", "rejected"}
    BY DEF Result
  <2>6. Result(to) = "success" => txid[o] \in sent
    BY DEF Result, Settled
  <2>7. Result(to) = "rejected" => txid[o] = NoTx
    BY DEF Result, Settled
  <2>8. Promise!Settle(o, Result(to))
    BY <2>1, <2>3, <2>4, <2>6, <2>7 DEF Promise!Settle
  <2>9. PromiseStep
    BY <2>5, <2>8 DEF PromiseStep, Promise!Next
  <2>10. StaysSettled
    BY <2>1 DEF IInv, TypeOK, StaysSettled
  <2> QED
    BY <2>9, <2>10
<1> QED
  BY <1>1, <1>2

\* Handing the bytes of a row to a node is Launch.
LEMMA LaunchStep ==
    ASSUME IInv, NEW o \in Orders, txid[o] # NoTx, NEW answer, Broadcast(txid[o], answer),
           UNCHANGED <<status, txid, reason, outbox>>
    PROVE  PromiseStep /\ StaysSettled
<1>1. sent' = sent \cup {txid[o]}
  BY DEF Broadcast
<1>2. Promise!Launch(o)
  BY <1>1 DEF Promise!Launch
<1> QED
  BY <1>2 DEF PromiseStep, Promise!Next, StaysSettled

\* createWithdraw is Submit.
LEMMA CreateWithdrawStep ==
    ASSUME IInv, NEW o \in Orders, CreateWithdraw(o)
    PROVE  PromiseStep /\ StaysSettled
<1>1. /\ status[o] = "absent" /\ status' = [status EXCEPT ![o] = "created"]
      /\ UNCHANGED <<txid, reason, outbox, sent>>
  BY DEF CreateWithdraw
<1>2. Phase(status[o]) = "absent" /\ Phase("created") = "open"
  BY <1>1 DEF Phase, Settled
<1>3. [p \in Orders |-> Phase(status'[p])] =
          [[p \in Orders |-> Phase(status[p])] EXCEPT ![o] = "open"]
  BY <1>1, <1>2 DEF IInv, TypeOK
<1>4. Promise!Submit(o)
  BY <1>1, <1>2, <1>3 DEF Promise!Submit
<1>5. StaysSettled
  BY <1>1 DEF IInv, TypeOK, StaysSettled, Settled
<1> QED
  BY <1>4, <1>5 DEF PromiseStep, Promise!Next

\* riskCheck settles the order as rejected, or lets it pass.
LEMMA RiskCheckStep ==
    ASSUME IInv, NEW w \in Workers, RiskCheck(w)
    PROVE  PromiseStep /\ StaysSettled
<1> DEFINE o == row[w].id
<1>1. o \in Orders /\ UNCHANGED <<txid, sent>>
  BY RowFields DEF IInv, LocalInv, RowInv, Executing, RiskCheck
<1>2. CASE UNCHANGED <<status, reason, outbox>>
  BY <1>1, <1>2, StillStep DEF StaysSettled
<1>3. ASSUME NEW why, SettleIf(o, {"created"}, "rejected", why)
      PROVE  PromiseStep /\ StaysSettled
  <2>1. CASE status[o] = "created"
    <3>1. txid[o] = NoTx
      BY <1>1, <2>1 DEF IInv, GlobalInv, TxidInv
    <3> QED
      BY <1>1, <1>3, <3>1, SettleStep DEF Settled
  <2>2. CASE status[o] # "created"
    <3>1. UNCHANGED <<status, reason, outbox>>
      BY <1>3, <2>2 DEF SettleIf
    <3> QED
      BY <1>2, <3>1
  <2> QED
    BY <2>1, <2>2
<1> QED
  BY <1>2, <1>3 DEF RiskCheck

\* halt keeps the order open, failHalted settles it.
LEMMA HaltStep ==
    ASSUME IInv, NEW w \in Workers, Halt(w)
    PROVE  PromiseStep /\ StaysSettled
<1> DEFINE o == row[w].id
<1>1. o \in Orders /\ UNCHANGED <<txid, sent>>
  BY RowFields DEF IInv, LocalInv, RowInv, Executing, Halt
<1>2. CASE SettleIf(o, {"created"}, "failed", "halted")
  BY <1>1, <1>2, SettleStep DEF Settled
<1>3. CASE /\ reason' = [reason EXCEPT ![o] = IF status[o] = "created" THEN "halted" ELSE @]
           /\ UNCHANGED <<status, outbox>>
  <2>1. StaysSettled
    BY <1>1, <1>3 DEF IInv, TypeOK, StaysSettled, Settled
  <2> QED
    BY <1>1, <1>3, <2>1, StillStep
<1> QED
  BY <1>2, <1>3 DEF Halt

\* The compare-and-swap created -> signed is Bind.
LEMMA CommitSignedStep ==
    ASSUME IInv, NEW w \in Workers, CommitSigned(w)
    PROVE  PromiseStep /\ StaysSettled
<1> DEFINE o == row[w].id
<1>1. o \in Orders /\ tx[w] \in Txs /\ UNCHANGED <<reason, outbox, sent>>
  BY RowFields DEF IInv, LocalInv, RowInv, BuiltInv, Executing, CommitSigned
<1>2. CASE status[o] # "created"
  <2>1. UNCHANGED <<status, txid>>
    BY <1>2 DEF CommitSigned
  <2> QED
    BY <1>1, <2>1, StillStep DEF StaysSettled
<1>3. CASE status[o] = "created"
  <2>1. /\ status' = [status EXCEPT ![o] = "signed"]
        /\ txid' = [txid EXCEPT ![o] = tx[w]]
    BY <1>3 DEF CommitSigned
  <2>2. txid[o] = NoTx /\ \A p \in Orders : txid[p] # tx[w]
    BY <1>1, <1>3 DEF CommitSigned, IInv, LocalInv, FreshInv, GlobalInv, TxidInv
  <2>3. Phase("created") = "open" /\ Phase("signed") = "open"
    BY DEF Phase, Settled
  <2>4. [p \in Orders |-> Phase(status'[p])] = [p \in Orders |-> Phase(status[p])]
    BY <1>1, <1>3, <2>1, <2>3 DEF IInv, TypeOK
  <2>5. Promise!Bind(o, tx[w])
    BY <1>1, <1>3, <2>1, <2>2, <2>3, <2>4 DEF Promise!Bind
  <2>6. PromiseStep
    BY <1>1, <2>5 DEF PromiseStep, Promise!Next
  <2>7. StaysSettled
    BY <1>1, <1>3, <2>1 DEF IInv, TypeOK, StaysSettled, Settled
  <2> QED
    BY <2>6, <2>7
<1> QED
  BY <1>2, <1>3

\* The bookkeeping of broadcast settles the order or keeps it open.
LEMMA RecordStep ==
    ASSUME IInv, NEW w \in Workers, Record(w)
    PROVE  PromiseStep /\ StaysSettled
<1> DEFINE o == row[w].id
<1>1. o \in Orders /\ UNCHANGED <<txid, sent>>
  BY RowFields DEF IInv, LocalInv, RowInv, Executing, Record
<1>2. CASE SettleIf(o, Open, "failed", "refused")
  BY <1>1, <1>2, SettleStep DEF Settled
<1>3. CASE UNCHANGED <<status, reason, outbox>>
  BY <1>1, <1>3, StillStep DEF StaysSettled
<1>4. CASE /\ status[o] = "signed" /\ status' = [status EXCEPT ![o] = "broadcast"]
           /\ reason' = [reason EXCEPT ![o] = IF note[w] = "ok" THEN "" ELSE "node"]
           /\ UNCHANGED outbox
  <2>1. Phase("signed") = Phase("broadcast")
    BY DEF Phase, Settled
  <2>2. [p \in Orders |-> Phase(status'[p])] = [p \in Orders |-> Phase(status[p])]
    BY <1>1, <1>4, <2>1 DEF IInv, TypeOK
  <2>3. PromiseStep
    BY <1>1, <1>4, <2>2 DEF PromiseStep, Promise!vars
  <2>4. StaysSettled
    BY <1>1, <1>4 DEF IInv, TypeOK, StaysSettled, Settled
  <2> QED
    BY <2>3, <2>4
<1> QED
  BY <1>2, <1>3, <1>4 DEF Record

\* The first broadcast launches the transfer the row is bound to.
LEMMA SendStep ==
    ASSUME IInv, NEW w \in Workers, Send(w)
    PROVE  PromiseStep /\ StaysSettled
<1>1. row[w].id \in Orders /\ txid[row[w].id] = tx[w] /\ tx[w] # NoTx
  BY RowFields, TxAssumption
     DEF IInv, LocalInv, RowInv, BuiltInv, BoundInv, Executing, Send, NoTx
<1>2. PICK answer \in Answers : Broadcast(tx[w], answer)
  BY DEF Send
<1>3. UNCHANGED <<status, txid, reason, outbox>>
  BY DEF Send, db
<1> QED
  BY <1>1, <1>2, <1>3, LaunchStep

\* So does every rebroadcast.
LEMMA RebroadcastStep ==
    ASSUME IInv, NEW w \in Workers, Rebroadcast(w)
    PROVE  PromiseStep /\ StaysSettled
<1>1. row[w].id \in Orders /\ txid[row[w].id] = row[w].txid /\ row[w].txid # NoTx
  BY RowFields, TxAssumption
     DEF IInv, LocalInv, RowInv, SnapshotInv, Settling, Rebroadcast, NoTx
<1>2. PICK answer \in Answers : Broadcast(row[w].txid, answer)
  BY DEF Rebroadcast
<1>3. UNCHANGED <<status, txid, reason, outbox>>
  BY DEF Rebroadcast, db
<1> QED
  BY <1>1, <1>2, <1>3, LaunchStep

\* finish settles; a success was launched before, since it is on the chain.
LEMMA FinishStep ==
    ASSUME IInv, NEW w \in Workers, Finish(w)
    PROVE  PromiseStep /\ StaysSettled
<1> DEFINE o == row[w].id
<1>1. o \in Orders /\ txid[o] = row[w].txid /\ row[w].txid \in Txs /\ UNCHANGED <<txid, sent>>
  BY RowFields DEF IInv, LocalInv, RowInv, SnapshotInv, Settling, Finish
<1>2. CASE note[w] = "paid"
  <2>1. SettleIf(o, Open, "confirmed", "")
    BY <1>2 DEF Finish
  <2>2. txid[o] \in sent
    BY <1>1, <1>2 DEF Finish, IInv, LocalInv, VerdictInv, GlobalInv, NetInv
  <2> QED
    BY <1>1, <2>1, <2>2, SettleStep DEF Settled
<1>3. CASE note[w] # "paid"
  <2>1. SettleIf(o, Open, "failed", note[w])
    BY <1>3 DEF Finish
  <2> QED
    BY <1>1, <2>1, SettleStep DEF Settled
<1> QED
  BY <1>2, <1>3

\* Every other step leaves the rows, the reports and the transfers alone.
LEMMA OtherStep ==
    ASSUME IInv,
           \/ UNCHANGED vars \/ Refill
           \/ \E o \in Orders : LockExpires(o) \/ LocalExpires(o)
           \/ \E t \in Txs : Chain(t)
           \/ \E w \in Workers :
                 \/ ProcessCreated(w) \/ TakeLock(w) \/ ReadBalance(w) \/ CheckInflight(w)
                 \/ AcquireEnergy(w) \/ BuildAndSign(w) \/ Reconcile(w) \/ EndRound(w)
                 \/ ReadReceipt(w) \/ Judge(w) \/ FinalInfo(w) \/ Failure(w)
    PROVE  PromiseStep /\ StaysSettled
<1>1. UNCHANGED <<status, txid, reason, outbox, sent>>
  <2>1. CASE UNCHANGED vars \/ Refill
    BY <2>1 DEF vars, db, Refill
  <2>2. ASSUME NEW o \in Orders, LockExpires(o) \/ LocalExpires(o)
        PROVE  UNCHANGED <<status, txid, reason, outbox, sent>>
    BY <2>2 DEF LockExpires, LocalExpires, db
  <2>3. ASSUME NEW t \in Txs, Chain(t)
        PROVE  UNCHANGED <<status, txid, reason, outbox, sent>>
    BY <2>3 DEF Chain, Include, Fork, Solidify, Evict, ChainExpires, db
  <2>4. ASSUME NEW w \in Workers,
               \/ ProcessCreated(w) \/ TakeLock(w) \/ ReadBalance(w) \/ CheckInflight(w)
               \/ AcquireEnergy(w) \/ BuildAndSign(w)
        PROVE  UNCHANGED <<status, txid, reason, outbox, sent>>
    BY <2>4 DEF ProcessCreated, TakeLock, ReadBalance, CheckInflight, AcquireEnergy,
       BuildAndSign, db
  <2>5. ASSUME NEW w \in Workers,
               Reconcile(w) \/ EndRound(w) \/ ReadReceipt(w) \/ Judge(w) \/ FinalInfo(w)
        PROVE  UNCHANGED <<status, txid, reason, outbox, sent>>
    BY <2>5 DEF Reconcile, EndRound, ReadReceipt, Judge, FinalInfo, db
  <2>6. ASSUME NEW w \in Workers, Failure(w)
        PROVE  UNCHANGED <<status, txid, reason, outbox, sent>>
    BY <2>6 DEF Failure, ExecuteError, ReconcileError, Crash, db
  <2> QED
    BY <2>1, <2>2, <2>3, <2>4, <2>5, <2>6
<1> QED
  BY <1>1, StillStep DEF StaysSettled

\* Every step of Withdraw is a step of Settlement and keeps settled orders.
LEMMA NextStep ==
    ASSUME IInv, [Next]_vars
    PROVE  PromiseStep /\ StaysSettled
<1>1. CASE UNCHANGED vars \/ Refill
  BY <1>1, OtherStep
<1>2. ASSUME NEW o \in Orders, CreateWithdraw(o) \/ LockExpires(o) \/ LocalExpires(o)
      PROVE  PromiseStep /\ StaysSettled
  BY <1>2, CreateWithdrawStep, OtherStep
<1>3. ASSUME NEW w \in Workers, Execute(w)
      PROVE  PromiseStep /\ StaysSettled
  BY <1>3, OtherStep, RiskCheckStep, HaltStep, CommitSignedStep, SendStep, RecordStep DEF Execute
<1>4. ASSUME NEW w \in Workers, ReconcileSteps(w)
      PROVE  PromiseStep /\ StaysSettled
  BY <1>4, OtherStep, RebroadcastStep, FinishStep DEF ReconcileSteps
<1>5. ASSUME NEW w \in Workers, Failure(w)
      PROVE  PromiseStep /\ StaysSettled
  BY <1>5, OtherStep
<1>6. ASSUME NEW t \in Txs, Chain(t)
      PROVE  PromiseStep /\ StaysSettled
  BY <1>6, OtherStep
<1> QED
  BY <1>1, <1>2, <1>3, <1>4, <1>5, <1>6 DEF Next

\* The initial state of Withdraw is the initial state of Settlement.
LEMMA InitStep == Init => Promise!Init
<1> SUFFICES ASSUME Init PROVE Promise!Init
  OBVIOUS
<1>1. Phase("absent") = "absent"
  BY DEF Phase, Settled
<1>2. [o \in Orders |-> Phase(status[o])] = [o \in Orders |-> "absent"]
  BY <1>1 DEF Init
<1> QED
  BY <1>2 DEF Init, Promise!Init

\* A settled order never changes again, whatever late answers, stale batches and
\* other workers do.
THEOREM SettledOrdersAreFinal == Spec => SettledIsFinal
<1>1. IInv /\ [Next]_vars => StaysSettled
  BY NextStep
<1>2. IInv /\ [Next]_vars => [\A o \in Orders : status[o] \in Settled =>
                                /\ status'[o] = status[o]
                                /\ txid'[o] = txid[o]
                                /\ reason'[o] = reason[o]]_vars
  BY <1>1 DEF StaysSettled
<1> QED
  BY <1>2, Invariance, PTL DEF Spec, SettledIsFinal

\* The withdrawal workers implement the promise made to the business system.
THEOREM Refinement == Spec => ImplementsSettlement
<1>1. IInv /\ [Next]_vars => [Promise!Next]_(Promise!vars)
  BY NextStep DEF PromiseStep
<1> QED
  BY <1>1, InitStep, Invariance, PTL DEF Spec, ImplementsSettlement, Promise!Spec

-----------------------------------------------------------------------------
(* Failed orders are unpaid, as long as no answer is lost and no lookup is *)
(* late.                                                                   *)

\* The step leaves the variables of every worker but w alone.
Alone(w) ==
    \A v \in Workers : v # w =>
        /\ pc'[v] = pc[v] /\ row'[v] = row[v] /\ tx'[v] = tx[v] /\ note'[v] = note[v]
        /\ balance'[v] = balance[v] /\ batch'[v] = batch[v]

\* A worker's step only touches its own variables.
LEMMA WorkerAlone ==
    ASSUME TypeOK, NEW w \in Workers, Execute(w) \/ ReconcileSteps(w) \/ Failure(w)
    PROVE  Alone(w)
<1> USE DEF TypeOK, Alone, Keep, Leave, Goto, Release
<1>1. CASE ProcessCreated(w) \/ TakeLock(w) \/ RiskCheck(w) \/ ReadBalance(w)
  BY <1>1 DEF ProcessCreated, TakeLock, RiskCheck, ReadBalance
<1>2. CASE CheckInflight(w) \/ AcquireEnergy(w) \/ Halt(w) \/ BuildAndSign(w)
  BY <1>2 DEF CheckInflight, AcquireEnergy, Halt, BuildAndSign
<1>3. CASE CommitSigned(w) \/ Send(w) \/ Record(w)
  BY <1>3 DEF CommitSigned, Send, Record
<1>4. CASE Reconcile(w) \/ EndRound(w) \/ ReadReceipt(w) \/ Judge(w)
  BY <1>4 DEF Reconcile, EndRound, ReadReceipt, Judge
<1>5. CASE Rebroadcast(w) \/ FinalInfo(w) \/ Finish(w)
  BY <1>5 DEF Rebroadcast, FinalInfo, Finish
<1>6. CASE Failure(w)
  BY <1>6 DEF Failure, ExecuteError, ReconcileError, Crash
<1> QED
  BY <1>1, <1>2, <1>3, <1>4, <1>5, <1>6 DEF Execute, ReconcileSteps

\* Where a worker goes on.
LEMMA Goes ==
    ASSUME TypeOK, NEW w \in Workers, NEW l,
           Goto(w, l) \/ Keep(w, l) \/ Leave(w, l)
    PROVE  pc'[w] = l
  BY DEF TypeOK, Goto, Keep, Leave

\* What every step leaves of a transaction that cannot pay.
StaysUnpayable ==
    \A t \in Txs : Unpayable(t) =>
        \/ net'[t] = "void"
        \/ dead'[t] /\ net'[t] \notin {"block", "final"}
        \/ net'[t] = "final" /\ result'[t] # "paid"

\* Handing bytes to a node: where they can be afterwards.
LEMMA BroadcastNet ==
    ASSUME TypeOK, NEW t \in Txs, NEW answer \in Answers, Broadcast(t, answer)
    PROVE  /\ \A u \in Txs : u # t => net'[u] = net[u]
           /\ \/ net'[t] = net[t]
              \/ net[t] = "nowhere" /\ ~dead[t] /\ net'[t] = "pool"
              \/ net[t] = "nowhere" /\ net'[t] = "void"
           /\ answer = "permanent" /\ "lostAnswer" \notin Hazards => net'[t] = "void"
<1>1. PICK where \in {"void", net[t], Taken(t)} :
           /\ net' = [net EXCEPT ![t] = where]
           /\ where = "void" => net[t] \in {"nowhere", "void"}
           /\ answer = "permanent" /\ "lostAnswer" \notin Hazards => where = "void"
  BY DEF Broadcast, Answers
<1> QED
  BY <1>1 DEF TypeOK, Taken

\* The steps that move a transaction or its deadline.
LEMMA NetSteps ==
    ASSUME [Next]_vars
    PROVE  \/ UNCHANGED <<net, result, dead>>
           \/ \E w \in Workers : Send(w) \/ Rebroadcast(w)
           \/ \E t \in Txs : Chain(t)
<1>1. CASE \E o \in Orders : CreateWithdraw(o) \/ LockExpires(o) \/ LocalExpires(o)
  BY <1>1 DEF CreateWithdraw, LockExpires, LocalExpires, chain
<1>2. ASSUME NEW w \in Workers, Execute(w)
      PROVE  UNCHANGED <<net, result, dead>> \/ Send(w)
  BY <1>2 DEF Execute, ProcessCreated, TakeLock, RiskCheck, ReadBalance, CheckInflight,
     AcquireEnergy, Halt, BuildAndSign, CommitSigned, Record, chain
<1>3. ASSUME NEW w \in Workers, ReconcileSteps(w)
      PROVE  UNCHANGED <<net, result, dead>> \/ Rebroadcast(w)
  BY <1>3 DEF ReconcileSteps, Reconcile, EndRound, ReadReceipt, Judge, FinalInfo, Finish, chain
<1>4. ASSUME NEW w \in Workers, Failure(w)
      PROVE  UNCHANGED <<net, result, dead>>
  BY <1>4 DEF Failure, ExecuteError, ReconcileError, Crash, chain
<1>5. CASE Refill \/ UNCHANGED vars
  BY <1>5 DEF Refill, vars, chain
<1> QED
  BY <1>1, <1>2, <1>3, <1>4, <1>5 DEF Next

\* A transaction that cannot pay never can again, and only blocks have results.
LEMMA NetStep ==
    ASSUME IInv, ResultInv, [Next]_vars
    PROVE  ResultInv' /\ StaysUnpayable /\ \A t \in Txs : dead[t] => dead'[t]
<1> USE DEF StaysUnpayable, Unpayable, ResultInv
<1>1. CASE UNCHANGED <<net, result, dead>>
  BY <1>1
<1>2. ASSUME NEW w \in Workers, Send(w) \/ Rebroadcast(w)
      PROVE  ResultInv' /\ StaysUnpayable /\ \A t \in Txs : dead[t] => dead'[t]
  <2>1. PICK t \in Txs, answer \in Answers : Broadcast(t, answer)
    <3>1. CASE Send(w)
      BY <3>1 DEF Send, IInv, LocalInv, BuiltInv
    <3>2. CASE Rebroadcast(w)
      BY <3>2 DEF Rebroadcast, IInv, LocalInv, SnapshotInv, Settling
    <3> QED
      BY <1>2, <3>1, <3>2
  <2>2. UNCHANGED <<result, dead>>
    BY <1>2 DEF Send, Rebroadcast
  <2>3. /\ \A u \in Txs : u # t => net'[u] = net[u]
        /\ \/ net'[t] = net[t]
           \/ net[t] = "nowhere" /\ ~dead[t] /\ net'[t] = "pool"
           \/ net[t] = "nowhere" /\ net'[t] = "void"
    BY <2>1, BroadcastNet DEF IInv
  <2> QED
    BY <2>2, <2>3
<1>3. ASSUME NEW t \in Txs, Chain(t)
      PROVE  ResultInv' /\ StaysUnpayable /\ \A u \in Txs : dead[u] => dead'[u]
  <2> USE DEF IInv, TypeOK
  <2>1. CASE Include(t)
    BY <2>1 DEF Include
  <2>2. CASE Fork(t)
    BY <2>2 DEF Fork
  <2>3. CASE Solidify(t)
    BY <2>3 DEF Solidify
  <2>4. CASE Evict(t)
    BY <2>4 DEF Evict
  <2>5. CASE ChainExpires(t)
    BY <2>5 DEF ChainExpires
  <2> QED
    BY <1>3, <2>1, <2>2, <2>3, <2>4, <2>5 DEF Chain
<1> QED
  BY <1>1, <1>2, <1>3, NetSteps

\* Only LocalExpires moves the local clock past expired_at.
LEMMA ClockSteps ==
    ASSUME [Next]_vars
    PROVE  UNCHANGED expired \/ \E o \in Orders : LocalExpires(o)
<1>1. CASE \E o \in Orders : CreateWithdraw(o) \/ LockExpires(o)
  BY <1>1 DEF CreateWithdraw, LockExpires
<1>2. ASSUME NEW w \in Workers, Execute(w) PROVE UNCHANGED expired
  BY <1>2 DEF Execute, ProcessCreated, TakeLock, RiskCheck, ReadBalance, CheckInflight,
     AcquireEnergy, Halt, BuildAndSign, CommitSigned, Send, Record
<1>3. ASSUME NEW w \in Workers, ReconcileSteps(w) \/ Failure(w) PROVE UNCHANGED expired
  BY <1>3 DEF ReconcileSteps, Reconcile, EndRound, ReadReceipt, Judge, Rebroadcast, FinalInfo,
     Finish, Failure, ExecuteError, ReconcileError, Crash
<1>4. ASSUME NEW t \in Txs, Chain(t) PROVE UNCHANGED expired
  BY <1>4 DEF Chain, Include, Fork, Solidify, Evict, ChainExpires
<1>5. CASE Refill \/ UNCHANGED vars
  BY <1>5 DEF Refill, vars
<1> QED
  BY <1>1, <1>2, <1>3, <1>4, <1>5 DEF Next

\* A worker that is alone in its step leaves the others' verdicts true.
LEMMA OthersJudged ==
    ASSUME FailInv, StaysUnpayable, UNCHANGED expired, IInv,
           NEW w, Alone(w), NEW v \in Workers, v # w
    PROVE  JudgedInv(v)'
<1>1. /\ pc'[v] = pc[v] /\ row'[v] = row[v] /\ tx'[v] = tx[v] /\ note'[v] = note[v]
      /\ JudgedInv(v)
  BY DEF Alone, FailInv
<1>2. /\ pc[v] \in Settling => row[v].txid \in Txs
      /\ pc[v] = "record" => tx[v] \in Txs
  BY DEF IInv, LocalInv, SnapshotInv, BuiltInv
<1>3. \A t \in Txs : Unpayable(t) => Unpayable(t)'
  BY DEF StaysUnpayable, Unpayable
<1> QED
  BY <1>1, <1>2, <1>3 DEF JudgedInv, Settling

\* The steps after which a worker holds a verdict or is about to reach one.
LEMMA JudgingSteps ==
    ASSUME TypeOK, NEW w \in Workers, Execute(w) \/ ReconcileSteps(w) \/ Failure(w)
    PROVE  \/ pc'[w] \notin {"judge", "finish", "record"}
           \/ Send(w) \/ ReadReceipt(w) \/ Judge(w) \/ Rebroadcast(w) \/ FinalInfo(w)
<1> USE Goes DEF Release
<1>1. CASE ProcessCreated(w) \/ RiskCheck(w) \/ ReadBalance(w) \/ CheckInflight(w)
  BY <1>1 DEF ProcessCreated, RiskCheck, ReadBalance, CheckInflight
<1>2. CASE TakeLock(w)
  <2>1. pc[w] = "created" /\ (pc' = pc \/ Goto(w, "risk"))
    BY <1>2 DEF TakeLock
  <2> QED
    BY <2>1
<1>3. CASE AcquireEnergy(w) \/ Halt(w) \/ BuildAndSign(w)
  BY <1>3 DEF AcquireEnergy, Halt, BuildAndSign
<1>4. CASE CommitSigned(w) \/ Record(w)
  BY <1>4 DEF CommitSigned, Record
<1>5. CASE Reconcile(w) \/ EndRound(w) \/ Finish(w)
  BY <1>5 DEF Reconcile, EndRound, Finish
<1>6. CASE Failure(w)
  BY <1>6 DEF Failure, ExecuteError, ReconcileError, Crash
<1> QED
  BY <1>1, <1>2, <1>3, <1>4, <1>5, <1>6 DEF Execute, ReconcileSteps

\* What a worker concludes from a lookup, an answer or the clock is true.
LEMMA OwnJudged ==
    ASSUME "lostAnswer" \notin Hazards, FailInv, IInv, IInv',
           NEW w \in Workers, Execute(w) \/ ReconcileSteps(w) \/ Failure(w), UNCHANGED expired
    PROVE  JudgedInv(w)'
<1> USE DEF JudgedInv
<1>1. CASE pc'[w] \notin {"judge", "finish", "record"}
  BY <1>1
<1>2. CASE Send(w)
  <2>1. PICK answer \in Answers : Broadcast(tx[w], answer) /\ note' = [note EXCEPT ![w] = answer]
    BY <1>2 DEF Send
  <2>2. tx[w] \in Txs /\ tx' = tx /\ note'[w] = answer /\ pc'[w] = "record"
    BY <1>2, <2>1 DEF Send, Goto, IInv, TypeOK, LocalInv, BuiltInv
  <2>3. answer = "permanent" => net'[tx[w]] = "void"
    BY <2>1, <2>2, BroadcastNet DEF IInv
  <2> QED
    BY <2>2, <2>3 DEF Unpayable
<1>3. CASE ReadReceipt(w)
  <2>1. PICK r \in batch[w] :
           \/ UNCHANGED <<row, pc>>
           \/ /\ r.txid # NoTx
              /\ row' = [row EXCEPT ![w] = r]
              /\ pc' = [pc EXCEPT ![w] =
                    IF net[r.txid] \in {"block", "final"} THEN "final" ELSE "judge"]
    BY <1>3 DEF ReadReceipt, Goto
  <2>2. /\ pc[w] = "settle" /\ UNCHANGED <<net, dead, expired, txid>>
    BY <1>3 DEF ReadReceipt, chain, db
  <2>3. CASE UNCHANGED <<row, pc>>
    BY <2>2, <2>3
  <2>4. CASE row'[w] = r /\ r.txid # NoTx /\ pc'[w] = "judge" /\ net[r.txid] \notin {"block", "final"}
    <3>1. r.txid = txid[r.id] /\ r.id \in Orders
      BY <2>4, RowFields DEF IInv, TypeOK, LocalInv, SnapshotInv
    <3>2. expired[r.id] => dead[r.txid]
      BY <3>1 DEF FailInv, ExpiryInv
    <3> QED
      BY <2>2, <2>4, <3>2 DEF Unpayable
  <2>5. pc'[w] = "final" \/ UNCHANGED <<row, pc>> \/
        (row'[w] = r /\ r.txid # NoTx /\ pc'[w] = "judge" /\ net[r.txid] \notin {"block", "final"})
    BY <2>1 DEF IInv, TypeOK
  <2> QED
    BY <2>3, <2>4, <2>5
<1>4. CASE Judge(w)
  <2>1. /\ pc[w] = "judge" /\ UNCHANGED <<row, net, dead, result>>
        /\ pc'[w] = IF expired[row[w].id] THEN "finish" ELSE "resend"
    BY <1>4 DEF Judge, Goto, IInv, TypeOK, chain
  <2>2. expired[row[w].id] => Unpayable(row[w].txid)
    BY <2>1 DEF FailInv
  <2> QED
    BY <2>1, <2>2 DEF Unpayable
<1>5. CASE Rebroadcast(w)
  <2>1. PICK answer \in Answers :
           /\ Broadcast(row[w].txid, answer)
           /\ \/ answer = "permanent" /\ pc'[w] = "finish" /\ row' = row
              \/ pc'[w] = "settle"
    BY <1>5, Goes DEF Rebroadcast, IInv
  <2>2. row[w].txid \in Txs
    BY <1>5 DEF Rebroadcast, IInv, LocalInv, SnapshotInv, Settling
  <2>3. answer = "permanent" => net'[row[w].txid] = "void"
    BY <2>1, <2>2, BroadcastNet DEF IInv
  <2> QED
    BY <2>1, <2>3 DEF Unpayable
<1>6. CASE FinalInfo(w)
  <2>1. /\ UNCHANGED <<net, result, dead>>
        /\ \/ /\ net[row[w].txid] = "final" /\ row' = row
              /\ note'[w] = result[row[w].txid] /\ pc'[w] = "finish"
           \/ pc'[w] = "settle"
    <3>1. note \in [Workers -> Notes]
      BY DEF IInv, TypeOK
    <3> QED
      BY <1>6, <3>1, Goes DEF FinalInfo, IsFinal, IInv, chain
  <2> QED
    BY <2>1 DEF Unpayable
<1> QED
  BY <1>1, <1>2, <1>3, <1>4, <1>5, <1>6, JudgingSteps DEF IInv

\* Where failed orders come from: halted or refused ones, and those that were
\* judged.
LEMMA FailedSteps ==
    ASSUME IInv, [Next]_vars, NEW o \in Orders, status'[o] = "failed"
    PROVE  \/ status[o] = "failed" /\ txid'[o] = txid[o]
           \/ status[o] = "created" /\ txid'[o] = txid[o]
           \/ /\ txid'[o] = txid[o]
              /\ \E w \in Workers :
                    /\ row[w].id = o
                    /\ \/ pc[w] = "record" /\ note[w] = "permanent"
                       \/ pc[w] = "finish" /\ note[w] # "paid"
<1> USE DEF IInv, TypeOK
<1>1. CASE \E p \in Orders : CreateWithdraw(p) \/ LockExpires(p) \/ LocalExpires(p)
  BY <1>1 DEF CreateWithdraw, LockExpires, LocalExpires, db
<1>2. ASSUME NEW w \in Workers,
             ProcessCreated(w) \/ TakeLock(w) \/ ReadBalance(w) \/ CheckInflight(w)
             \/ AcquireEnergy(w) \/ BuildAndSign(w) \/ Send(w)
      PROVE  UNCHANGED <<status, txid>>
  BY <1>2 DEF ProcessCreated, TakeLock, ReadBalance, CheckInflight, AcquireEnergy,
     BuildAndSign, Send, db
<1>3. ASSUME NEW w \in Workers, RiskCheck(w) \/ Halt(w)
      PROVE  txid' = txid /\ status[o] \in {"failed", "created"}
  BY <1>3 DEF RiskCheck, Halt, SettleIf
<1>4. ASSUME NEW w \in Workers, CommitSigned(w)
      PROVE  txid'[o] = txid[o] /\ status[o] = "failed"
  BY <1>4 DEF CommitSigned
<1>5. ASSUME NEW w \in Workers, Record(w)
      PROVE  /\ txid' = txid
             /\ \/ status[o] = "failed"
                \/ row[w].id = o /\ pc[w] = "record" /\ note[w] = "permanent"
  BY <1>5 DEF Record, SettleIf
<1>6. ASSUME NEW w \in Workers, Finish(w)
      PROVE  /\ txid' = txid
             /\ \/ status[o] = "failed"
                \/ row[w].id = o /\ pc[w] = "finish" /\ note[w] # "paid"
  BY <1>6 DEF Finish, SettleIf
<1>7. ASSUME NEW w \in Workers,
             Reconcile(w) \/ EndRound(w) \/ ReadReceipt(w) \/ Judge(w) \/ Rebroadcast(w)
             \/ FinalInfo(w) \/ Failure(w)
      PROVE  UNCHANGED <<status, txid>>
  BY <1>7 DEF Reconcile, EndRound, ReadReceipt, Judge, Rebroadcast, FinalInfo, Failure,
     ExecuteError, ReconcileError, Crash, db
<1>8. CASE Refill \/ UNCHANGED vars \/ \E t \in Txs : Chain(t)
  BY <1>8 DEF Refill, vars, Chain, Include, Fork, Solidify, Evict, ChainExpires, db
<1> QED
  BY <1>1, <1>2, <1>3, <1>4, <1>5, <1>6, <1>7, <1>8 DEF Next, Execute, ReconcileSteps

\* A txid never changes once it is set.
LEMMA TxidSteps ==
    ASSUME IInv, [Next]_vars
    PROVE  \A o \in Orders : txid[o] # NoTx => txid'[o] = txid[o]
<1> USE DEF IInv, TypeOK
<1>1. CASE \E p \in Orders : CreateWithdraw(p) \/ LockExpires(p) \/ LocalExpires(p)
  BY <1>1 DEF CreateWithdraw, LockExpires, LocalExpires, db
<1>2. ASSUME NEW w \in Workers, Execute(w), ~CommitSigned(w)
      PROVE  UNCHANGED txid
  BY <1>2 DEF Execute, ProcessCreated, TakeLock, RiskCheck, Halt, ReadBalance, CheckInflight,
     AcquireEnergy, BuildAndSign, Send, Record, db
<1>3. ASSUME NEW w \in Workers, CommitSigned(w)
      PROVE  \A o \in Orders : txid[o] # NoTx => txid'[o] = txid[o]
  BY <1>3 DEF CommitSigned, GlobalInv, TxidInv
<1>4. ASSUME NEW w \in Workers, ReconcileSteps(w) \/ Failure(w)
      PROVE  UNCHANGED txid
  BY <1>4 DEF ReconcileSteps, Reconcile, EndRound, ReadReceipt, Judge, Rebroadcast, FinalInfo,
     Finish, Failure, ExecuteError, ReconcileError, Crash, db
<1>5. CASE Refill \/ UNCHANGED vars \/ \E t \in Txs : Chain(t)
  BY <1>5 DEF Refill, vars, Chain, Include, Fork, Solidify, Evict, ChainExpires, db
<1> QED
  BY <1>1, <1>2, <1>3, <1>4, <1>5 DEF Next

\* The environment does not touch a worker.
LEMMA NobodySteps ==
    ASSUME [Next]_vars
    PROVE  \/ UNCHANGED <<pc, batch, row, tx, note, balance>>
           \/ \E w \in Workers : Execute(w) \/ ReconcileSteps(w) \/ Failure(w)
  BY DEF Next, CreateWithdraw, LockExpires, LocalExpires, Chain, Include, Fork, Solidify, Evict,
     ChainExpires, Refill, vars, local

\* Every step preserves FailInv.
LEMMA NextFailInv ==
    ASSUME "lostAnswer" \notin Hazards, "lateRead" \notin Hazards,
           IInv, IInv', FailInv, [Next]_vars
    PROVE  FailInv'
<1>1. ResultInv' /\ StaysUnpayable /\ \A t \in Txs : dead[t] => dead'[t]
  BY NetStep DEF FailInv
<1>2. \A t \in Txs : Unpayable(t) => Unpayable(t)'
  BY <1>1 DEF StaysUnpayable, Unpayable
<1>3. ExpiryInv'
  <2> SUFFICES ASSUME NEW o \in Orders, expired'[o]
               PROVE  txid'[o] # NoTx /\ dead'[txid'[o]]
    BY DEF ExpiryInv
  <2>1. txid[o] # NoTx /\ dead[txid[o]]
    BY ClockSteps DEF LocalExpires, FailInv, ExpiryInv, IInv, TypeOK
  <2> QED
    BY <1>1, <2>1, TxidSteps DEF IInv, TypeOK
<1>4. FailedInv'
  <2> SUFFICES ASSUME NEW o \in Orders, status'[o] = "failed", txid'[o] # NoTx
               PROVE  Unpayable(txid[o])' /\ txid'[o] = txid[o]
    BY DEF FailedInv, Unpayable
  <2>1. txid'[o] = txid[o] /\ txid[o] \in Txs
    BY FailedSteps DEF IInv, TypeOK
  <2>2. CASE status[o] = "failed"
    BY <1>2, <2>1, <2>2 DEF FailInv, FailedInv, Unpayable
  <2>3. CASE status[o] = "created"
    BY <2>1, <2>3 DEF IInv, GlobalInv, TxidInv
  <2>4. ASSUME NEW w \in Workers, row[w].id = o,
               \/ pc[w] = "record" /\ note[w] = "permanent"
               \/ pc[w] = "finish" /\ note[w] # "paid"
        PROVE  Unpayable(txid[o])
    BY <2>4 DEF FailInv, JudgedInv, IInv, LocalInv, BoundInv, SnapshotInv, Settling
  <2> QED
    BY <1>2, <2>1, <2>2, <2>3, <2>4, FailedSteps DEF Unpayable
<1>5. ASSUME NEW v \in Workers PROVE JudgedInv(v)'
  <2>1. CASE UNCHANGED <<pc, batch, row, tx, note, balance>>
    <3>1. pc[v] = "judge" /\ expired'[row[v].id] => expired[row[v].id]
      <4>1. CASE UNCHANGED expired
        BY <4>1
      <4>2. ASSUME NEW o \in Orders, LocalExpires(o)
            PROVE  pc[v] = "judge" => expired'[row[v].id] = expired[row[v].id]
        <5>1. expired' = [expired EXCEPT ![o] = TRUE] /\ (pc[v] = "judge" => row[v].id # o)
          BY <4>2 DEF LocalExpires
        <5>2. expired \in [Orders -> BOOLEAN] /\ (pc[v] = "judge" => row[v].id \in Orders)
          BY RowFields DEF IInv, TypeOK, LocalInv, RowInv, Settling
        <5> QED
          BY <5>1, <5>2
      <4> QED
        BY <4>1, <4>2, ClockSteps
    <3>2. /\ pc[v] \in Settling => row[v].txid \in Txs
          /\ pc[v] = "record" => tx[v] \in Txs
      BY DEF IInv, LocalInv, SnapshotInv, BuiltInv
    <3> QED
      BY <1>2, <2>1, <3>1, <3>2 DEF FailInv, JudgedInv, Settling, Unpayable
  <2>2. ASSUME NEW w \in Workers, Execute(w) \/ ReconcileSteps(w) \/ Failure(w)
        PROVE  JudgedInv(v)'
    <3>1. UNCHANGED expired
      BY <2>2 DEF Execute, ProcessCreated, TakeLock, RiskCheck, ReadBalance, CheckInflight,
         AcquireEnergy, Halt, BuildAndSign, CommitSigned, Send, Record, ReconcileSteps, Reconcile,
         EndRound, ReadReceipt, Judge, Rebroadcast, FinalInfo, Finish, Failure, ExecuteError,
         ReconcileError, Crash
    <3>2. Alone(w)
      BY <2>2, WorkerAlone DEF IInv
    <3> QED
      BY <1>1, <2>2, <3>1, <3>2, OthersJudged, OwnJudged
  <2> QED
    BY <2>1, <2>2, NobodySteps
<1> QED
  BY <1>1, <1>3, <1>4, <1>5 DEF FailInv

\* As long as no answer is lost and no lookup is late, an order failed back to
\* the business system is not paid on chain as well, whatever the number of
\* workers, crashes, forks and expired locks.
THEOREM FailedOrdersAreUnpaid ==
    ASSUME "lostAnswer" \notin Hazards, "lateRead" \notin Hazards
    PROVE  Spec => []FailedIsUnpaid
<1>1. Init => FailInv
  BY DEF Init, FailInv, ResultInv, ExpiryInv, FailedInv, JudgedInv
<1>2. IInv /\ IInv' /\ FailInv /\ [Next]_vars => FailInv'
  BY NextFailInv
<1>3. IInv /\ FailInv => FailedIsUnpaid
  <2> SUFFICES ASSUME IInv, FailInv, NEW o \in Orders, status[o] = "failed",
                      NEW t \in Txs, owner[t] = o, result[t] = "paid"
               PROVE  FALSE
    BY DEF FailedIsUnpaid
  <2>1. net[t] \in {"block", "final"}
    BY DEF FailInv, ResultInv
  <2>2. txid[o] = t /\ t # NoTx
    BY <2>1, TxAssumption DEF IInv, GlobalInv, NetInv, SentIsRecorded, NoTx
  <2>3. Unpayable(t)
    BY <2>2 DEF FailInv, FailedInv
  <2> QED
    BY <2>1, <2>3 DEF Unpayable
<1> QED
  BY <1>1, <1>2, <1>3, Invariance, PTL DEF Spec

-----------------------------------------------------------------------------
(* One worker never promises more than the wallet holds.                   *)

\* A closed transaction stays closed.
LEMMA StaysClosed ==
    ASSUME IInv, [Next]_vars, NEW t \in Txs, Closed(t)
    PROVE  Closed(t)'
<1> USE DEF Closed
<1>1. CASE UNCHANGED <<net, result, dead>>
  BY <1>1
<1>2. ASSUME NEW w \in Workers, Send(w) \/ Rebroadcast(w)
      PROVE  Closed(t)'
  <2>1. PICK u \in Txs, answer \in Answers : Broadcast(u, answer)
    <3>1. CASE Send(w)
      BY <3>1 DEF Send, IInv, LocalInv, BuiltInv
    <3>2. CASE Rebroadcast(w)
      BY <3>2 DEF Rebroadcast, IInv, LocalInv, SnapshotInv, Settling
    <3> QED
      BY <1>2, <3>1, <3>2
  <2>2. dead' = dead
    BY <1>2 DEF Send, Rebroadcast
  <2>3. net'[t] = net[t] \/ net[t] = "nowhere"
    BY <2>1, BroadcastNet DEF IInv
  <2> QED
    BY <2>2, <2>3
<1>3. ASSUME NEW u \in Txs, Chain(u)
      PROVE  Closed(t)'
  BY <1>3 DEF Chain, Include, Fork, Solidify, Evict, ChainExpires, IInv, TypeOK
<1> QED
  BY <1>1, <1>2, <1>3, NetSteps

\* What a worker concludes closes the transaction, even from a late lookup: the
\* local clock is past expired_at only when the chain is past the expiration.
LEMMA OwnClosed ==
    ASSUME "lostAnswer" \notin Hazards, ClosedInv, IInv, IInv',
           NEW w \in Workers, Execute(w) \/ ReconcileSteps(w) \/ Failure(w)
    PROVE  ClosedVerdict(w)'
<1> USE DEF ClosedVerdict, Closed
<1>1. CASE pc'[w] \notin {"judge", "finish", "record"}
  BY <1>1
<1>2. CASE Send(w)
  <2>1. PICK answer \in Answers : Broadcast(tx[w], answer) /\ note' = [note EXCEPT ![w] = answer]
    BY <1>2 DEF Send
  <2>2. tx[w] \in Txs /\ tx' = tx /\ note'[w] = answer /\ pc'[w] = "record"
    BY <1>2, <2>1 DEF Send, Goto, IInv, TypeOK, LocalInv, BuiltInv
  <2>3. answer = "permanent" => net'[tx[w]] = "void"
    BY <2>1, <2>2, BroadcastNet DEF IInv
  <2> QED
    BY <2>2, <2>3
<1>3. CASE ReadReceipt(w)
  <2>1. pc[w] = "settle" /\ (pc' = pc \/ \E l \in {"final", "judge"} : Goto(w, l))
    BY <1>3 DEF ReadReceipt
  <2>2. pc'[w] \notin {"finish", "record"}
    BY <2>1, Goes DEF IInv
  <2> QED
    BY <2>2
<1>4. CASE Judge(w)
  <2>1. /\ pc[w] = "judge" /\ UNCHANGED <<row, net, dead>>
        /\ pc'[w] = IF expired[row[w].id] THEN "finish" ELSE "resend"
    BY <1>4 DEF Judge, Goto, IInv, TypeOK, chain
  <2>2. row[w].id \in Orders /\ txid[row[w].id] = row[w].txid
    BY <2>1, RowFields DEF IInv, LocalInv, RowInv, SnapshotInv, Settling
  <2>3. expired[row[w].id] => dead[row[w].txid]
    BY <2>2 DEF ClosedInv, ExpiryInv
  <2> QED
    BY <2>1, <2>3
<1>5. CASE Rebroadcast(w)
  <2>1. PICK answer \in Answers :
           /\ Broadcast(row[w].txid, answer)
           /\ \/ answer = "permanent" /\ pc'[w] = "finish" /\ row' = row
              \/ pc'[w] = "settle"
    BY <1>5, Goes DEF Rebroadcast, IInv
  <2>2. row[w].txid \in Txs
    BY <1>5 DEF Rebroadcast, IInv, LocalInv, SnapshotInv, Settling
  <2>3. answer = "permanent" => net'[row[w].txid] = "void"
    BY <2>1, <2>2, BroadcastNet DEF IInv
  <2> QED
    BY <2>1, <2>3
<1>6. CASE FinalInfo(w)
  <2>1. /\ UNCHANGED net
        /\ \/ net[row[w].txid] = "final" /\ row' = row /\ pc'[w] = "finish"
           \/ pc'[w] = "settle"
    BY <1>6, Goes DEF FinalInfo, IsFinal, IInv, chain
  <2> QED
    BY <2>1
<1> QED
  BY <1>1, <1>2, <1>3, <1>4, <1>5, <1>6, JudgingSteps DEF IInv

\* Every step preserves ClosedInv, late lookups included.
LEMMA NextClosedInv ==
    ASSUME "lostAnswer" \notin Hazards, IInv, IInv', ClosedInv, [Next]_vars
    PROVE  ClosedInv'
<1>1. ResultInv' /\ \A t \in Txs : dead[t] => dead'[t]
  BY NetStep DEF ClosedInv
<1>2. ASSUME NEW t \in Txs, Closed(t) PROVE Closed(t)'
  BY <1>2, StaysClosed
<1>3. ExpiryInv'
  <2> SUFFICES ASSUME NEW o \in Orders, expired'[o]
               PROVE  txid'[o] # NoTx /\ dead'[txid'[o]]
    BY DEF ExpiryInv
  <2>1. txid[o] # NoTx /\ dead[txid[o]]
    BY ClockSteps DEF LocalExpires, ClosedInv, ExpiryInv, IInv, TypeOK
  <2> QED
    BY <1>1, <2>1, TxidSteps DEF IInv, TypeOK
<1>4. ASSUME NEW o \in Orders, status'[o] = "failed", txid'[o] # NoTx
      PROVE  Closed(txid[o])' /\ txid'[o] = txid[o]
  <2>1. txid'[o] = txid[o] /\ txid[o] \in Txs
    BY <1>4, FailedSteps DEF IInv, TypeOK
  <2>2. CASE status[o] = "failed"
    BY <1>2, <1>4, <2>1, <2>2 DEF ClosedInv, Closed
  <2>3. CASE status[o] = "created"
    BY <1>4, <2>1, <2>3 DEF IInv, GlobalInv, TxidInv
  <2>4. ASSUME NEW w \in Workers, row[w].id = o,
               \/ pc[w] = "record" /\ note[w] = "permanent"
               \/ pc[w] = "finish" /\ note[w] # "paid"
        PROVE  Closed(txid[o])
    BY <2>4 DEF ClosedInv, ClosedVerdict, IInv, LocalInv, BoundInv, SnapshotInv, Settling
  <2> QED
    BY <1>2, <1>4, <2>1, <2>2, <2>3, <2>4, FailedSteps DEF Closed
<1>5. ASSUME NEW v \in Workers PROVE ClosedVerdict(v)'
  <2>1. /\ pc[v] \in Settling => row[v].txid \in Txs
        /\ pc[v] = "record" => tx[v] \in Txs
        /\ ClosedVerdict(v)
    BY DEF IInv, LocalInv, SnapshotInv, BuiltInv, ClosedInv
  <2>2. CASE pc'[v] = pc[v] /\ row'[v] = row[v] /\ tx'[v] = tx[v] /\ note'[v] = note[v]
    BY <1>2, <2>1, <2>2 DEF ClosedVerdict, Settling, Closed
  <2>3. CASE UNCHANGED <<pc, batch, row, tx, note, balance>>
    BY <2>2, <2>3
  <2>4. ASSUME NEW w \in Workers, Execute(w) \/ ReconcileSteps(w) \/ Failure(w)
        PROVE  ClosedVerdict(v)'
    <3>1. Alone(w)
      BY <2>4, WorkerAlone DEF IInv
    <3>2. CASE v # w
      BY <2>2, <3>1, <3>2 DEF Alone
    <3>3. CASE v = w
      BY <2>4, <3>3, OwnClosed
    <3> QED
      BY <3>2, <3>3
  <2> QED
    BY <2>3, <2>4, NobodySteps
<1> QED
  BY <1>1, <1>3, <1>4, <1>5 DEF ClosedInv, Closed

\* Sums of amount_units.
LEMMA UnitsType ==
    ASSUME NEW S, S \subseteq Orders
    PROVE  Units(S) \in Nat /\ IsFiniteSet(S)
<1>1. IsFiniteSet(S) /\ \A o \in S : Amount[o] \in Nat
  BY OrdersAssumption, AmountAssumption, FS_Subset
<1> QED
  BY <1>1, SumType DEF Units

\* Fewer orders, fewer units.
LEMMA UnitsMono ==
    ASSUME NEW T, T \subseteq Orders, NEW S, S \subseteq T
    PROVE  Units(S) <= Units(T)
<1>1. IsFiniteSet(T) /\ \A o \in T : Amount[o] \in Nat
  BY UnitsType, AmountAssumption
<1> QED
  BY <1>1, SumMono DEF Units

\* One more order.
LEMMA UnitsAdd ==
    ASSUME NEW S, S \subseteq Orders, NEW o \in Orders, o \notin S
    PROVE  Units(S \cup {o}) = Units(S) + Amount[o]
<1>1. IsFiniteSet(S) /\ \A p \in S \cup {o} : Amount[p] \in Nat
  BY UnitsType, AmountAssumption
<1> QED
  BY <1>1, SumAdd DEF Units

\* The wallet covers what is promised and what checkBalance has let through.
MoneyInv == CoverInv /\ NoOverCommit

\* NoOverCommit in terms of the orders not yet paid.
LEMMA Covered == NoOverCommit <=> Units(UnpaidOrders) <= hot
  BY DEF NoOverCommit, UnpaidOrders

\* The numbers are natural.
LEMMA MoneyType ==
    ASSUME TypeOK
    PROVE  /\ UnpaidOrders \subseteq OpenOrders /\ OpenOrders \subseteq Orders
           /\ Units(UnpaidOrders) \in Nat /\ Units(OpenOrders) \in Nat
           /\ Units(UnpaidOrders) <= Units(OpenOrders)
           /\ hot \in Nat /\ \A w \in Workers : balance[w] \in Nat
<1>1. UnpaidOrders \subseteq OpenOrders /\ OpenOrders \subseteq Orders
  BY DEF UnpaidOrders, OpenOrders
<1>2. UnpaidOrders \subseteq Orders
  BY <1>1
<1> QED
  BY <1>1, <1>2, UnitsType, UnitsMono DEF TypeOK

\* The same in the next state.
LEMMA MoneyTypeNext ==
    ASSUME TypeOK'
    PROVE  /\ UnpaidOrders' \subseteq Orders /\ OpenOrders' \subseteq Orders
           /\ Units(UnpaidOrders') \in Nat /\ Units(OpenOrders') \in Nat
           /\ Units(UnpaidOrders') <= Units(OpenOrders')
           /\ hot' \in Nat
<1>1. UnpaidOrders' \subseteq OpenOrders' /\ OpenOrders' \subseteq Orders
  BY DEF UnpaidOrders, OpenOrders
<1>2. UnpaidOrders' \subseteq Orders
  BY <1>1
<1> QED
  BY <1>1, <1>2, UnitsType, UnitsMono DEF TypeOK

\* What a worker holds while it relies on the balance it has read.
Relying == {"inflight", "energy", "build", "commit"}

\* A step after which no worker relies on a balance, and nothing more is promised.
LEMMA NobodyRelies ==
    ASSUME IInv, IInv', MoneyInv, UnpaidOrders' \subseteq UnpaidOrders, hot' = hot,
           \A w \in Workers : pc'[w] \notin Relying
    PROVE  MoneyInv'
<1>1. Units(UnpaidOrders) <= hot
  BY Covered DEF MoneyInv
<1>2. /\ Units(UnpaidOrders) \in Nat /\ Units(UnpaidOrders') \in Nat /\ hot \in Nat
      /\ UnpaidOrders \subseteq Orders
  BY MoneyType, MoneyTypeNext DEF IInv
<1>3. Units(UnpaidOrders') <= Units(UnpaidOrders)
  BY <1>2, UnitsMono
<1>4. Units(UnpaidOrders') <= hot'
  BY <1>1, <1>2, <1>3
<1>5. NoOverCommit'
  BY <1>4 DEF NoOverCommit, UnpaidOrders
<1>6. CoverInv'
  BY DEF CoverInv, Relying
<1> QED
  BY <1>5, <1>6 DEF MoneyInv

\* A step of the world that leaves as much between the wallet and the unpaid
\* orders as there was.
LEMMA WorldKeeps ==
    ASSUME IInv, IInv', MoneyInv, UNCHANGED <<pc, row, balance>>, OpenOrders' = OpenOrders,
           hot' + Units(UnpaidOrders) >= hot + Units(UnpaidOrders')
    PROVE  MoneyInv'
<1>1. /\ Units(UnpaidOrders) \in Nat /\ Units(UnpaidOrders') \in Nat
      /\ Units(OpenOrders) \in Nat /\ hot \in Nat /\ hot' \in Nat
      /\ \A w \in Workers : balance[w] \in Nat
  BY MoneyType, MoneyTypeNext DEF IInv
<1>2. Units(UnpaidOrders) <= hot
  BY Covered DEF MoneyInv
<1>3. Units(UnpaidOrders') <= hot'
  BY <1>1, <1>2
<1>4. NoOverCommit'
  BY <1>3 DEF NoOverCommit, UnpaidOrders
<1>5. ASSUME NEW w \in Workers, pc[w] = "inflight"
      PROVE  balance[w] + Units(UnpaidOrders') <= hot' + Units(OpenOrders)
  <2>1. balance[w] + Units(UnpaidOrders) <= hot + Units(OpenOrders)
    BY <1>5 DEF MoneyInv, CoverInv
  <2> QED
    BY <1>1, <2>1
<1>6. ASSUME NEW w \in Workers, pc[w] \in {"energy", "build", "commit"}
      PROVE  Amount[row[w].id] + Units(UnpaidOrders') <= hot'
  <2>1. Amount[row[w].id] + Units(UnpaidOrders) <= hot
    BY <1>6 DEF MoneyInv, CoverInv
  <2>2. Amount[row[w].id] \in Nat
    BY <1>6, RowFields, AmountAssumption DEF IInv, LocalInv, RowInv, Executing
  <2> QED
    BY <1>1, <2>1, <2>2
<1>7. CoverInv'
  BY <1>5, <1>6 DEF CoverInv
<1> QED
  BY <1>4, <1>7 DEF MoneyInv

\* A transaction on its way belongs to the row that names it, and to no other.
LEMMA PendingIsRecorded ==
    ASSUME IInv, NEW t \in Txs, net[t] \in {"pool", "block"}
    PROVE  /\ owner[t] \in Orders /\ txid[owner[t]] = t
           /\ \A o \in Orders : txid[o] = t => o = owner[t]
<1>1. owner[t] \in Orders /\ txid[owner[t]] = t /\ t # NoTx
  BY TxAssumption DEF IInv, GlobalInv, NetInv, SentIsRecorded, NoTx
<1>2. \A o \in Orders : txid[o] = t => o = owner[t]
  BY <1>1 DEF IInv, GlobalInv, TxidInv
<1> QED
  BY <1>1, <1>2

\* The order of a transaction a block may take is still open.
LEMMA PendingIsOpen ==
    ASSUME IInv, ClosedInv, NEW t \in Txs, net[t] = "pool", ~dead[t]
    PROVE  status[owner[t]] \in Open
<1>1. owner[t] \in Orders /\ txid[owner[t]] = t /\ t # NoTx
  BY PendingIsRecorded, TxAssumption DEF NoTx
<1>2. ~Closed(t)
  BY DEF Closed
<1>3. status[owner[t]] \notin {"absent", "created", "rejected", "failed", "confirmed"}
  BY <1>1, <1>2 DEF IInv, GlobalInv, TxidInv, ConfirmedIsPaid, ClosedInv
<1> QED
  BY <1>1, <1>3 DEF IInv, TypeOK, Statuses, Open

\* A block that pays moves the units of an open order out of the wallet.
LEMMA IncludeMoney ==
    ASSUME IInv, IInv', ClosedInv, MoneyInv, NEW t \in Txs, Include(t)
    PROVE  MoneyInv'
<1> DEFINE o == owner[t]
<1>1. o \in Orders /\ txid[o] = t /\ status[o] \in Open /\ \A p \in Orders : txid[p] = t => p = o
  BY PendingIsRecorded, PendingIsOpen DEF Include
<1>2. /\ UNCHANGED <<status, txid, pc, row, balance>> /\ result[t] = "none"
  BY DEF Include, db, local, ClosedInv, ResultInv
<1>3. PICK out \in Outcomes :
         /\ result' = [result EXCEPT ![t] = out]
         /\ hot' = IF out = "paid" THEN hot - Amount[o] ELSE hot
  BY DEF Include
<1>4. result'[t] = out /\ \A u \in Txs : u # t => result'[u] = result[u]
  BY <1>3 DEF IInv, TypeOK
<1>5. \A p \in Orders : status[p] \in Open => txid[p] \in Txs
  BY DEF IInv, TypeOK, GlobalInv, TxidInv
<1>6. OpenOrders' = OpenOrders
  BY <1>2 DEF OpenOrders
<1>7. Units(UnpaidOrders) \in Nat /\ Units(UnpaidOrders') \in Nat /\ hot \in Nat
      /\ UnpaidOrders' \subseteq Orders /\ Amount[o] \in Nat
  BY <1>1, MoneyType, MoneyTypeNext, AmountAssumption DEF IInv
<1>8. CASE out = "paid"
  <2>1. o \notin UnpaidOrders' /\ UnpaidOrders = UnpaidOrders' \cup {o}
    BY <1>1, <1>2, <1>4, <1>5, <1>8 DEF UnpaidOrders
  <2>2. Units(UnpaidOrders) = Units(UnpaidOrders') + Amount[o]
    BY <1>1, <1>7, <2>1, UnitsAdd
  <2>3. hot' + Units(UnpaidOrders) >= hot + Units(UnpaidOrders')
    BY <1>3, <1>7, <1>8, <2>2
  <2> QED
    BY <1>2, <1>6, <2>3, WorldKeeps
<1>9. CASE out # "paid"
  <2>1. UnpaidOrders = UnpaidOrders'
    BY <1>1, <1>2, <1>4, <1>5, <1>9 DEF UnpaidOrders
  <2>2. hot' + Units(UnpaidOrders) >= hot + Units(UnpaidOrders')
    BY <1>3, <1>7, <1>9, <2>1
  <2> QED
    BY <1>2, <1>6, <2>2, WorldKeeps
<1> QED
  BY <1>8, <1>9

\* A fork gives the units back and makes the order unpaid again if it is still
\* open; the units of an order that was failed too early stay in the wallet.
LEMMA ForkMoney ==
    ASSUME IInv, IInv', ClosedInv, MoneyInv, NEW t \in Txs, Fork(t)
    PROVE  MoneyInv'
<1> DEFINE o == owner[t]
<1>1. o \in Orders /\ txid[o] = t /\ \A p \in Orders : txid[p] = t => p = o
  BY PendingIsRecorded DEF Fork
<1>2. /\ UNCHANGED <<status, txid, pc, row, balance>>
      /\ hot' = IF result[t] = "paid" THEN hot + Amount[o] ELSE hot
  BY DEF Fork, db, local
<1>3. result'[t] = "none" /\ \A u \in Txs : u # t => result'[u] = result[u]
  BY DEF Fork, IInv, TypeOK
<1>4. \A p \in Orders : status[p] \in Open => txid[p] \in Txs
  BY DEF IInv, TypeOK, GlobalInv, TxidInv
<1>5. OpenOrders' = OpenOrders
  BY <1>2 DEF OpenOrders
<1>6. Units(UnpaidOrders) \in Nat /\ Units(UnpaidOrders') \in Nat /\ hot \in Nat
      /\ UnpaidOrders \subseteq Orders /\ Amount[o] \in Nat
  BY <1>1, MoneyType, MoneyTypeNext, AmountAssumption DEF IInv
<1>7. CASE result[t] = "paid" /\ status[o] \in Open
  <2>1. o \notin UnpaidOrders /\ UnpaidOrders' = UnpaidOrders \cup {o}
    BY <1>1, <1>2, <1>3, <1>4, <1>7 DEF UnpaidOrders
  <2>2. Units(UnpaidOrders') = Units(UnpaidOrders) + Amount[o]
    BY <1>1, <1>6, <2>1, UnitsAdd
  <2>3. hot' + Units(UnpaidOrders) >= hot + Units(UnpaidOrders')
    BY <1>2, <1>6, <1>7, <2>2
  <2> QED
    BY <1>2, <1>5, <2>3, WorldKeeps
<1>8. CASE result[t] # "paid" \/ status[o] \notin Open
  <2>1. UnpaidOrders' = UnpaidOrders
    BY <1>1, <1>2, <1>3, <1>4, <1>8 DEF UnpaidOrders
  <2>2. hot' + Units(UnpaidOrders) >= hot + Units(UnpaidOrders')
    BY <1>2, <1>6, <1>8, <2>1
  <2> QED
    BY <1>2, <1>5, <2>2, WorldKeeps
<1> QED
  BY <1>7, <1>8

\* Nothing else outside the worker takes units out of the wallet.
LEMMA EnvironmentMoney ==
    ASSUME IInv, IInv', MoneyInv,
           \/ \E o \in Orders : CreateWithdraw(o) \/ LockExpires(o) \/ LocalExpires(o)
           \/ \E t \in Txs : Solidify(t) \/ Evict(t) \/ ChainExpires(t)
           \/ Refill \/ UNCHANGED vars
    PROVE  MoneyInv'
<1>1. /\ UNCHANGED <<pc, row, balance, result, txid>> /\ (hot' = hot \/ hot' = hot + RefillUnits)
  BY DEF CreateWithdraw, LockExpires, LocalExpires, Solidify, Evict, ChainExpires, Refill, vars,
     db, chain, local
<1>2. /\ \A o \in Orders : status'[o] \in Open <=> status[o] \in Open
  <2>1. CASE \E o \in Orders : CreateWithdraw(o)
    BY <2>1 DEF CreateWithdraw, IInv, TypeOK, Open
  <2>2. CASE UNCHANGED status
    BY <2>2
  <2> QED
    BY <2>1, <2>2 DEF LockExpires, LocalExpires, Solidify, Evict, ChainExpires, Refill, vars, db
<1>3. OpenOrders' = OpenOrders /\ UnpaidOrders' = UnpaidOrders
  BY <1>1, <1>2 DEF OpenOrders, UnpaidOrders
<1>4. Units(UnpaidOrders) \in Nat /\ hot \in Nat /\ RefillUnits \in Nat
  BY MoneyType, EnvironmentAssumption DEF IInv
<1>5. hot' + Units(UnpaidOrders) >= hot + Units(UnpaidOrders')
  BY <1>1, <1>3, <1>4
<1> QED
  BY <1>1, <1>3, <1>5, WorldKeeps

\* The steps of the only worker that lead from the balance it reads to the
\* transaction it commits to.
LEMMA RelyingMoney ==
    ASSUME \A v, w \in Workers : v = w,
           IInv, IInv', ClosedInv, MoneyInv, NEW w \in Workers,
           ReadBalance(w) \/ CheckInflight(w) \/ AcquireEnergy(w) \/ BuildAndSign(w)
           \/ CommitSigned(w)
    PROVE  MoneyInv'
<1> USE DEF IInv
<1>0. /\ Units(UnpaidOrders) \in Nat /\ Units(UnpaidOrders') \in Nat
      /\ Units(OpenOrders) \in Nat /\ hot \in Nat
      /\ Units(UnpaidOrders) <= Units(OpenOrders) /\ UnpaidOrders \subseteq Orders
      /\ balance[w] \in Nat /\ Units(UnpaidOrders) <= hot
  BY MoneyType, MoneyTypeNext, Covered DEF MoneyInv
<1>r. pc[w] \in Executing => row[w].id \in Orders /\ Amount[row[w].id] \in Nat
  BY RowFields, AmountAssumption DEF LocalInv, RowInv
<1>1. CASE ~CommitSigned(w)
  <2>1. UNCHANGED <<status, txid, result, hot>>
    BY <1>1 DEF ReadBalance, CheckInflight, AcquireEnergy, BuildAndSign, db, chain
  <2>2. UnpaidOrders' = UnpaidOrders /\ OpenOrders' = OpenOrders
    BY <2>1 DEF UnpaidOrders, OpenOrders
  <2>3. NoOverCommit'
    BY <2>1 DEF MoneyInv, NoOverCommit
  <2>4. CASE ReadBalance(w)
    <3>1. pc'[w] = "inflight" /\ balance'[w] = hot
      BY <2>4, Goes DEF ReadBalance, TypeOK
    <3>2. hot + Units(UnpaidOrders) <= hot + Units(OpenOrders)
      BY <1>0
    <3>3. CoverInv'
      BY <2>1, <2>2, <3>1, <3>2 DEF CoverInv
    <3> QED
      BY <2>3, <3>3 DEF MoneyInv
  <2>5. CASE CheckInflight(w)
    <3>1. /\ pc[w] = "inflight" /\ row' = row
          /\ pc'[w] = IF balance[w] >= Amount[row[w].id] + Units(OpenOrders)
                      THEN "energy" ELSE "halt"
      BY <2>5, Goes DEF CheckInflight, Keep, Inflight, OpenOrders
    <3>2. balance[w] + Units(UnpaidOrders) <= hot + Units(OpenOrders)
      BY <3>1 DEF MoneyInv, CoverInv
    <3>3. pc'[w] = "energy" => Amount[row[w].id] + Units(UnpaidOrders) <= hot
      BY <1>0, <1>r, <3>1, <3>2 DEF Executing
    <3>4. CoverInv'
      BY <2>1, <2>2, <3>1, <3>3 DEF CoverInv
    <3> QED
      BY <2>3, <3>4 DEF MoneyInv
  <2>6. CASE AcquireEnergy(w) \/ BuildAndSign(w)
    <3>1. /\ pc[w] \in {"energy", "build"}
          /\ \/ row' = row /\ pc'[w] \in {"build", "commit"}
             \/ pc'[w] \in {"halt", "created"}
      BY <2>6, Goes DEF AcquireEnergy, BuildAndSign, Keep, Release
    <3>2. Amount[row[w].id] + Units(UnpaidOrders) <= hot
      BY <3>1 DEF MoneyInv, CoverInv
    <3>3. CoverInv'
      BY <2>1, <2>2, <3>1, <3>2 DEF CoverInv
    <3> QED
      BY <2>3, <3>3 DEF MoneyInv
  <2> QED
    BY <1>1, <2>4, <2>5, <2>6
<1>2. CASE CommitSigned(w)
  <2> DEFINE o == row[w].id
             t == tx[w]
  <2>1. /\ pc[w] = "commit" /\ hot' = hot /\ result' = result /\ o \in Orders
        /\ Amount[o] \in Nat
    BY <1>2, <1>r DEF CommitSigned, chain, Executing
  <2>2. Amount[o] + Units(UnpaidOrders) <= hot
    BY <2>1 DEF MoneyInv, CoverInv
  <2>3. pc'[w] \in {"send", "created"}
    BY <1>2, Goes DEF CommitSigned, Release
  <2>4. CoverInv'
    BY <2>3 DEF CoverInv
  <2>5. CASE status[o] = "created"
    <3>1. status'[o] = "signed" /\ txid'[o] = t
      BY <1>2, <2>1, <2>5 DEF CommitSigned, TypeOK
    <3>2. \A p \in Orders : p # o => status'[p] = status[p] /\ txid'[p] = txid[p]
      BY <1>2, <2>1, <2>5 DEF CommitSigned, TypeOK
    <3>3. t \in Txs /\ owner[t] = o /\ \A p \in Orders : txid[p] # t
      BY <2>1 DEF LocalInv, BuiltInv, FreshInv
    <3>4. net[t] = "nowhere"
      BY <2>1, <3>3 DEF GlobalInv, NetInv, SentIsRecorded, TypeOK
    <3>5. result[t] = "none"
      BY <3>3, <3>4 DEF ClosedInv, ResultInv
    <3>6. o \notin UnpaidOrders /\ UnpaidOrders' = UnpaidOrders \cup {o}
      BY <2>1, <2>5, <3>1, <3>2, <3>5 DEF UnpaidOrders, Open
    <3>7. Units(UnpaidOrders') = Units(UnpaidOrders) + Amount[o]
      BY <1>0, <2>1, <3>6, UnitsAdd
    <3>8. Units(UnpaidOrders') <= hot'
      BY <1>0, <2>1, <2>2, <3>7
    <3>9. NoOverCommit'
      BY <3>8 DEF NoOverCommit, UnpaidOrders
    <3> QED
      BY <2>4, <3>9 DEF MoneyInv
  <2>6. CASE status[o] # "created"
    <3>1. UNCHANGED <<status, txid>>
      BY <1>2, <2>6 DEF CommitSigned
    <3>2. NoOverCommit'
      BY <2>1, <3>1 DEF MoneyInv, NoOverCommit
    <3> QED
      BY <2>4, <3>2 DEF MoneyInv
  <2> QED
    BY <2>5, <2>6
<1> QED
  BY <1>1, <1>2

\* Every other step of the only worker leaves it relying on no balance.
LEMMA RestMoney ==
    ASSUME \A v, w \in Workers : v = w,
           IInv, IInv', MoneyInv, NEW w \in Workers,
           Execute(w) \/ ReconcileSteps(w) \/ Failure(w),
           ~(ReadBalance(w) \/ CheckInflight(w) \/ AcquireEnergy(w) \/ BuildAndSign(w)
             \/ CommitSigned(w))
    PROVE  MoneyInv'
<1>1. pc'[w] \notin Relying
  <2> USE Goes DEF IInv, Release, Relying
  <2>1. CASE ProcessCreated(w) \/ RiskCheck(w) \/ Halt(w) \/ Send(w) \/ Record(w)
    BY <2>1 DEF ProcessCreated, RiskCheck, Halt, Send, Record
  <2>2. CASE TakeLock(w)
    <3>1. pc[w] = "created" /\ (pc' = pc \/ Goto(w, "risk"))
      BY <2>2 DEF TakeLock
    <3> QED
      BY <3>1
  <2>3. CASE Reconcile(w) \/ EndRound(w) \/ Judge(w) \/ Rebroadcast(w)
    BY <2>3 DEF Reconcile, EndRound, Judge, Rebroadcast
  <2>4. CASE ReadReceipt(w)
    <3>1. pc[w] = "settle" /\ (pc' = pc \/ \E l \in {"final", "judge"} : Goto(w, l))
      BY <2>4 DEF ReadReceipt
    <3> QED
      BY <3>1
  <2>5. CASE FinalInfo(w) \/ Finish(w) \/ Failure(w)
    BY <2>5 DEF FinalInfo, Finish, Failure, ExecuteError, ReconcileError, Crash
  <2> QED
    BY <2>1, <2>2, <2>3, <2>4, <2>5 DEF Execute, ReconcileSteps
<1>2. UNCHANGED <<txid, result, hot>>
  BY DEF Execute, ProcessCreated, TakeLock, RiskCheck, Halt, Send, Record, ReconcileSteps,
     Reconcile, EndRound, ReadReceipt, Judge, Rebroadcast, FinalInfo, Finish, Failure,
     ExecuteError, ReconcileError, Crash, db, chain
<1>3. \A o \in Orders : status'[o] \in Open => status[o] \in Open
  <2> USE DEF IInv, TypeOK, SettleIf, Open
  <2>1. CASE RiskCheck(w) \/ Halt(w)
    BY <2>1 DEF RiskCheck, Halt
  <2>2. CASE Record(w)
    BY <2>2 DEF Record
  <2>3. CASE Finish(w)
    BY <2>3 DEF Finish
  <2>4. CASE UNCHANGED status
    BY <2>4
  <2> QED
    BY <2>1, <2>2, <2>3, <2>4 DEF Execute, ProcessCreated, TakeLock, Send, ReconcileSteps,
       Reconcile, EndRound, ReadReceipt, Judge, Rebroadcast, FinalInfo, Failure,
       ExecuteError, ReconcileError, Crash, db
<1>4. UnpaidOrders' \subseteq UnpaidOrders
  BY <1>2, <1>3 DEF UnpaidOrders
<1> QED
  BY <1>1, <1>2, <1>4, NobodyRelies

\* Every step of a system with one worker preserves MoneyInv.
LEMMA NextMoneyInv ==
    ASSUME \A v, w \in Workers : v = w, IInv, IInv', ClosedInv, MoneyInv, [Next]_vars
    PROVE  MoneyInv'
  BY IncludeMoney, ForkMoney, EnvironmentMoney, RelyingMoney, RestMoney DEF Next, Chain

\* The hot wallet of a single worker always covers what its signed and broadcast
\* orders still have to move, whatever blocks, forks and refills come between
\* the two halves of checkBalance and before the transaction is committed, and
\* even if a late lookup fails an order whose transaction is packed.
THEOREM WalletIsNotOverCommitted ==
    ASSUME \A v, w \in Workers : v = w,
           "lostAnswer" \notin Hazards
    PROVE  Spec => []NoOverCommit
<1>1. Init => ClosedInv /\ MoneyInv
  <2> SUFFICES ASSUME Init PROVE ClosedInv /\ MoneyInv
    OBVIOUS
  <2>1. ClosedInv
    BY DEF Init, ClosedInv, ResultInv, ExpiryInv, ClosedVerdict
  <2>2. CoverInv
    BY DEF Init, CoverInv
  <2>3. UnpaidOrders = {}
    BY DEF Init, UnpaidOrders, Open
  <2>4. Units(UnpaidOrders) = 0
    BY <2>3, SumEmpty DEF Units
  <2>5. hot \in Nat
    BY EnvironmentAssumption DEF Init
  <2>6. Units(UnpaidOrders) <= hot
    BY <2>4, <2>5
  <2>7. NoOverCommit
    BY <2>6, Covered
  <2> QED
    BY <2>1, <2>2, <2>7 DEF MoneyInv
<1>2. IInv /\ IInv' /\ ClosedInv /\ MoneyInv /\ [Next]_vars => ClosedInv' /\ MoneyInv'
  BY NextClosedInv, NextMoneyInv
<1>3. MoneyInv => NoOverCommit
  BY DEF MoneyInv
<1> QED
  BY <1>1, <1>2, <1>3, Invariance, PTL DEF Spec

-----------------------------------------------------------------------------
(* No order is given up before it was halted often enough.                 *)

\* Only halt and failHalted write halt_count, and the history counts them.
LEMMA HaltWrites ==
    ASSUME [Next]_vars
    PROVE  UNCHANGED <<haltCount, halts>> \/ \E w \in Workers : Halt(w)
<1>1. CASE \E o \in Orders : CreateWithdraw(o) \/ LockExpires(o) \/ LocalExpires(o)
  BY <1>1 DEF CreateWithdraw, LockExpires, LocalExpires, db
<1>2. ASSUME NEW w \in Workers, Execute(w), ~Halt(w)
      PROVE  UNCHANGED <<haltCount, halts>>
  BY <1>2 DEF Execute, ProcessCreated, TakeLock, RiskCheck, ReadBalance, CheckInflight,
     AcquireEnergy, BuildAndSign, CommitSigned, Send, Record, db
<1>3. ASSUME NEW w \in Workers, ReconcileSteps(w)
      PROVE  UNCHANGED <<haltCount, halts>>
  BY <1>3 DEF ReconcileSteps, Reconcile, EndRound, ReadReceipt, Judge, Rebroadcast,
     FinalInfo, Finish, db
<1>4. ASSUME NEW w \in Workers, Failure(w)
      PROVE  UNCHANGED <<haltCount, halts>>
  BY <1>4 DEF Failure, ExecuteError, ReconcileError, Crash, db
<1>5. ASSUME NEW t \in Txs, Chain(t)
      PROVE  UNCHANGED <<haltCount, halts>>
  BY <1>5 DEF Chain, Include, Fork, Solidify, Evict, ChainExpires, db
<1>6. CASE Refill \/ UNCHANGED vars
  BY <1>6 DEF Refill, vars, db
<1> QED
  BY <1>1, <1>2, <1>3, <1>4, <1>5, <1>6 DEF Next

\* What a halt writes: the snapshot's count and one, or nothing, and one more
\* halt of the order.
LEMMA HaltRow ==
    ASSUME IInv, NEW w \in Workers, Halt(w)
    PROVE  /\ row[w] \in Row /\ row[w].id \in Orders /\ row[w].halt \in Nat
           /\ \A o \in Orders : o # row[w].id =>
                 haltCount'[o] = haltCount[o] /\ halts'[o] = halts[o]
           /\ haltCount'[row[w].id] \in {row[w].halt + 1, haltCount[row[w].id]}
           /\ halts'[row[w].id] = IF halts[row[w].id] < HaltMaxRetries
                                  THEN halts[row[w].id] + 1 ELSE halts[row[w].id]
<1>1. row[w] \in Row /\ row[w].id \in Orders /\ row[w].halt \in Nat
  BY RowFields DEF IInv, LocalInv, RowInv, Executing, Halt
<1>2. /\ haltCount' = [haltCount EXCEPT ![row[w].id] =
                          IF status[row[w].id] = "created" THEN row[w].halt + 1 ELSE @]
      /\ halts' = [halts EXCEPT ![row[w].id] = IF @ < HaltMaxRetries THEN @ + 1 ELSE @]
  BY DEF Halt, Attempt
<1> QED
  BY <1>1, <1>2 DEF IInv, TypeOK

\* Halts are never uncounted.
LEMMA HaltsGrow ==
    ASSUME IInv, [Next]_vars
    PROVE  \A o \in Orders : /\ halts[o] \in Nat /\ halts'[o] \in Nat
                             /\ halts'[o] >= halts[o]
<1>1. \A o \in Orders : halts[o] \in Nat
  BY DEF IInv, TypeOK
<1>2. ASSUME NEW w \in Workers, Halt(w), NEW o \in Orders
      PROVE  halts'[o] \in Nat /\ halts'[o] >= halts[o]
  <2>1. halts'[o] \in {halts[o], halts[o] + 1}
    BY <1>2, HaltRow
  <2> QED
    BY <1>1, <2>1
<1> QED
  BY <1>1, <1>2, HaltWrites

\* A count that was not ahead of the halts stays so.
LEMMA CountStays ==
    ASSUME IInv, [Next]_vars, NEW o \in Orders, NEW n \in Nat, CountsAtMost(o, n)
    PROVE  CountsAtMost(o, n)'
BY HaltsGrow, LimitAssumption DEF CountsAtMost

\* Only failHalted, at the limit, gives an order up as halted.
LEMMA GivenUp ==
    ASSUME IInv, [Next]_vars, NEW o \in Orders,
           status'[o] = "failed", reason'[o] = "halted"
    PROVE  \/ status[o] = "failed" /\ reason[o] = "halted"
           \/ \E w \in Workers : Halt(w) /\ row[w].id = o /\ Attempt(w) >= HaltMaxRetries
<1>1. CASE \/ \E p \in Orders : CreateWithdraw(p) \/ LockExpires(p) \/ LocalExpires(p)
           \/ Refill \/ UNCHANGED vars \/ \E t \in Txs : Chain(t)
  BY <1>1 DEF CreateWithdraw, LockExpires, LocalExpires, Refill, vars, Chain, Include, Fork,
     Solidify, Evict, ChainExpires, db, IInv, TypeOK
<1>2. ASSUME NEW w \in Workers,
             \/ ProcessCreated(w) \/ TakeLock(w) \/ ReadBalance(w) \/ CheckInflight(w)
             \/ AcquireEnergy(w) \/ BuildAndSign(w) \/ CommitSigned(w) \/ Send(w)
      PROVE  status[o] = "failed" /\ reason[o] = "halted"
  BY <1>2 DEF ProcessCreated, TakeLock, ReadBalance, CheckInflight, AcquireEnergy,
     BuildAndSign, CommitSigned, Send, db, IInv, TypeOK
<1>3. ASSUME NEW w \in Workers, RiskCheck(w) \/ Record(w)
      PROVE  status[o] = "failed" /\ reason[o] = "halted"
  BY <1>3 DEF RiskCheck, Record, SettleIf, IInv, TypeOK
<1>4. ASSUME NEW w \in Workers, Halt(w)
      PROVE  \/ status[o] = "failed" /\ reason[o] = "halted"
             \/ row[w].id = o /\ Attempt(w) >= HaltMaxRetries
  <2>1. row[w].id \in Orders
    BY <1>4, HaltRow
  <2>2. CASE Attempt(w) >= HaltMaxRetries
    BY <1>4, <2>1, <2>2 DEF Halt, SettleIf, IInv, TypeOK
  <2>3. CASE ~(Attempt(w) >= HaltMaxRetries)
    <3>1. /\ status' = status
          /\ reason' = [reason EXCEPT ![row[w].id] =
                          IF status[row[w].id] = "created" THEN "halted" ELSE @]
      BY <1>4, <2>3 DEF Halt
    <3> QED
      BY <2>1, <3>1 DEF IInv, TypeOK
  <2> QED
    BY <2>2, <2>3
<1>5. ASSUME NEW w \in Workers, Reconcile(w) \/ EndRound(w) \/ ReadReceipt(w) \/ Judge(w)
                                \/ Rebroadcast(w) \/ FinalInfo(w) \/ Failure(w)
      PROVE  status[o] = "failed" /\ reason[o] = "halted"
  BY <1>5 DEF Reconcile, EndRound, ReadReceipt, Judge, Rebroadcast, FinalInfo, Failure,
     ExecuteError, ReconcileError, Crash, db
<1>6. ASSUME NEW w \in Workers, Finish(w)
      PROVE  status[o] = "failed" /\ reason[o] = "halted"
  <2>1. note[w] # "halted"
    BY <1>6 DEF Finish, IInv, LocalInv, VerdictInv, Verdicts, Outcomes
  <2> QED
    BY <1>6, <2>1 DEF Finish, SettleIf, IInv, TypeOK
<1> QED
  BY <1>1, <1>2, <1>3, <1>4, <1>5, <1>6 DEF Next, Execute, ReconcileSteps

\* The limit was reached by real halts.
LEMMA NextHaltLimit ==
    ASSUME IInv, HaltCountInv, [Next]_vars
    PROVE  HaltLimitKept'
<1> SUFFICES ASSUME NEW o \in Orders, status'[o] = "failed", reason'[o] = "halted"
             PROVE  halts'[o] >= HaltMaxRetries
  BY DEF HaltLimitKept
<1>1. CASE status[o] = "failed" /\ reason[o] = "halted"
  BY <1>1, HaltsGrow, LimitAssumption DEF HaltCountInv, HaltLimitKept
<1>2. ASSUME NEW w \in Workers, Halt(w), row[w].id = o, Attempt(w) >= HaltMaxRetries
      PROVE  halts'[o] >= HaltMaxRetries
  <2>1. CountsAtMost(o, row[w].halt)
    BY <1>2, HaltRow DEF HaltCountInv
  <2>2. row[w].halt \in Nat /\ halts[o] \in Nat /\ row[w].halt + 1 >= HaltMaxRetries
    BY <1>2, HaltRow, HaltsGrow DEF Attempt
  <2>3. halts'[o] = IF halts[o] < HaltMaxRetries THEN halts[o] + 1 ELSE halts[o]
    BY <1>2, HaltRow
  <2> QED
    BY <2>1, <2>2, <2>3, LimitAssumption DEF CountsAtMost
<1> QED
  BY <1>1, <1>2, GivenUp

\* Every count in a row is backed by halts.
LEMMA NextRowCounts ==
    ASSUME IInv, HaltCountInv, [Next]_vars, NEW o \in Orders
    PROVE  CountsAtMost(o, haltCount[o])'
<1>1. haltCount[o] \in Nat /\ CountsAtMost(o, haltCount[o])
  BY DEF IInv, TypeOK, HaltCountInv
<1>2. CASE haltCount'[o] = haltCount[o]
  BY <1>1, <1>2, HaltsGrow, LimitAssumption DEF CountsAtMost
<1>3. ASSUME NEW w \in Workers, Halt(w), row[w].id = o, haltCount'[o] = row[w].halt + 1
      PROVE  CountsAtMost(o, haltCount[o])'
  <2>1. CountsAtMost(o, row[w].halt)
    BY <1>3, HaltRow DEF HaltCountInv
  <2>2. row[w].halt \in Nat /\ halts[o] \in Nat
    BY <1>3, HaltRow, HaltsGrow
  <2>3. halts'[o] = IF halts[o] < HaltMaxRetries THEN halts[o] + 1 ELSE halts[o]
    BY <1>3, HaltRow
  <2> QED
    BY <1>3, <2>1, <2>2, <2>3, LimitAssumption DEF CountsAtMost
<1> QED
  BY <1>2, <1>3, HaltWrites, HaltRow

\* A row that a worker holds came from its batch, and its batch from a query.
LEMMA SnapshotSource ==
    ASSUME IInv, IInv', [Next]_vars, NEW w \in Workers
    PROVE  /\ \A r \in batch'[w] :
                 r \in Row /\ (r \in batch[w] \/ r.halt = haltCount[r.id])
           /\ row'[w] \in Row => row'[w] = row[w] \/ row'[w] \in batch[w]
<1>1. batch'[w] \subseteq Row /\ NoRow \notin Row
  BY OrdersAssumption DEF IInv, TypeOK, Row, NoRow
<1>2. CASE \/ \E o \in Orders : CreateWithdraw(o) \/ LockExpires(o) \/ LocalExpires(o)
           \/ \E t \in Txs : Chain(t)
           \/ Refill \/ UNCHANGED vars
  <2>1. UNCHANGED <<batch, row>>
    BY <1>2 DEF CreateWithdraw, LockExpires, LocalExpires, Chain, Include, Fork, Solidify,
       Evict, ChainExpires, Refill, vars, local
  <2> QED
    BY <1>1, <2>1
<1>3. ASSUME NEW v \in Workers, ProcessCreated(v) \/ Reconcile(v)
      PROVE  /\ UNCHANGED row
             /\ batch'[w] = batch[w] \/ \E S, n : batch'[w] = Query(S, n)
  BY <1>3 DEF ProcessCreated, Reconcile, Keep, IInv, TypeOK
<1>4. ASSUME NEW v \in Workers, TakeLock(v) \/ ReadReceipt(v)
      PROVE  batch'[w] \subseteq batch[w] /\ (row'[w] = row[w] \/ row'[w] \in batch[w])
  BY <1>4 DEF TakeLock, ReadReceipt, IInv, TypeOK
<1>5. ASSUME NEW v \in Workers, Execute(v) \/ ReconcileSteps(v) \/ Failure(v),
             ~ProcessCreated(v), ~Reconcile(v), ~TakeLock(v), ~ReadReceipt(v)
      PROVE  batch'[w] \subseteq batch[w] /\ row'[w] \in {row[w], NoRow}
  <2> USE DEF IInv, TypeOK
  <2>1. CASE RiskCheck(v) \/ ReadBalance(v) \/ CheckInflight(v) \/ AcquireEnergy(v)
    BY <2>1 DEF RiskCheck, ReadBalance, CheckInflight, AcquireEnergy, Keep, Release, Leave
  <2>2. CASE Halt(v) \/ BuildAndSign(v) \/ CommitSigned(v) \/ Send(v) \/ Record(v)
    BY <2>2 DEF Halt, BuildAndSign, CommitSigned, Send, Record, Keep, Release, Leave
  <2>3. CASE EndRound(v) \/ Judge(v) \/ Rebroadcast(v) \/ FinalInfo(v) \/ Finish(v)
    BY <2>3 DEF EndRound, Judge, Rebroadcast, FinalInfo, Finish, Keep, Leave
  <2>4. CASE Failure(v)
    BY <2>4 DEF Failure, ExecuteError, ReconcileError, Crash, Release, Leave
  <2> QED
    BY <1>5, <2>1, <2>2, <2>3, <2>4 DEF Execute, ReconcileSteps
<1>6. ASSUME NEW S, NEW n, batch'[w] = Query(S, n), NEW r \in batch'[w]
      PROVE  r.halt = haltCount[r.id]
  BY <1>6, QueryFields
<1> QED
  BY <1>1, <1>2, <1>3, <1>4, <1>5, <1>6 DEF Next, Execute, ReconcileSteps

\* Every step of any number of workers preserves HaltCountInv.
LEMMA NextHaltCountInv ==
    ASSUME IInv, IInv', HaltCountInv, [Next]_vars
    PROVE  HaltCountInv'
<1>1. ASSUME NEW w \in Workers, NEW r \in batch'[w]
      PROVE  CountsAtMost(r.id, r.halt)'
  <2>1. r \in Row /\ (r \in batch[w] \/ r.halt = haltCount[r.id])
    BY <1>1, SnapshotSource
  <2>2. r.id \in Orders /\ r.halt \in Nat
    BY <2>1, RowFields
  <2>3. CountsAtMost(r.id, r.halt)
    BY <2>1, <2>2 DEF HaltCountInv
  <2> QED
    BY <2>2, <2>3, HaltsGrow, LimitAssumption DEF CountsAtMost
<1>2. ASSUME NEW w \in Workers, row'[w] \in Row
      PROVE  CountsAtMost(row[w].id, row[w].halt)'
  <2>1. row'[w] = row[w] \/ row'[w] \in batch[w]
    BY <1>2, SnapshotSource
  <2>2. row'[w].id \in Orders /\ row'[w].halt \in Nat
    BY <1>2, RowFields
  <2>3. CountsAtMost(row'[w].id, row'[w].halt)
    BY <1>2, <2>1 DEF HaltCountInv
  <2> QED
    BY <2>2, <2>3, HaltsGrow, LimitAssumption DEF CountsAtMost
<1>3. HaltLimitKept'
  BY NextHaltLimit
<1>4. \A o \in Orders : CountsAtMost(o, haltCount[o])'
  BY NextRowCounts
<1> QED
  BY <1>1, <1>2, <1>3, <1>4 DEF HaltCountInv

\* No order is given up as halted before it was halted HaltMaxRetries times,
\* for any number of workers, although each counts from a snapshot that others
\* may have outdated, and whatever crashes, errors and lost locks come between
\* the query of processCreated and the halt.
THEOREM HaltedOrdersWereHaltedOften == Spec => []HaltLimitKept
<1>0. NoRow \notin Row
  BY OrdersAssumption DEF Row, NoRow
<1>1. ASSUME Init PROVE HaltCountInv
  <2>1. \A o \in Orders : status[o] = "absent" /\ haltCount[o] = 0 /\ halts[o] = 0
    BY <1>1 DEF Init
  <2>2. \A w \in Workers : batch[w] = {} /\ row[w] \notin Row
    BY <1>0, <1>1 DEF Init
  <2>3. HaltLimitKept
    BY <2>1 DEF HaltLimitKept
  <2>4. \A o \in Orders : CountsAtMost(o, haltCount[o])
    BY <2>1 DEF CountsAtMost
  <2> QED
    BY <2>2, <2>3, <2>4 DEF HaltCountInv
<1>2. IInv /\ IInv' /\ HaltCountInv /\ [Next]_vars => HaltCountInv'
  BY NextHaltCountInv
<1>3. HaltCountInv => HaltLimitKept
  BY DEF HaltCountInv
<1> QED
  BY <1>1, <1>2, <1>3, Invariance, PTL DEF Spec

=============================================================================
