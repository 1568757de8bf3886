---------------------------- MODULE SweepProofs ----------------------------
(***************************************************************************)
(* IInv of Sweep is an invariant for any number of deposits, amounts,      *)
(* sweep processes and faults, whatever nodes answer and however locks and *)
(* clocks behave, as long as no deposit arrives and is confirmed within    *)
(* the few calls between a balance read and the query that relies on it.   *)
(***************************************************************************)
EXTENDS Sweep, TLAPS

USE DEF NoSweep

\* Deposit ids and the column value 0 that stands for none.
LEMMA IdFacts == 0 \in Ids /\ Deposits \subseteq Ids /\ Ids \subseteq Nat
  BY TotalAssumption DEF Ids, Deposits

\* The initial state satisfies the invariant.
LEMMA InitIInv == Init => IInv
<1> SUFFICES ASSUME Init PROVE IInv OBVIOUS
<1>1. TypeOK
  BY IdFacts DEF Init, TypeOK, Pcs, Rpcs, InFlight, Answers
<1>2. BalanceInv /\ ReadInv /\ AmountInv /\ EmptyInv /\ RowsInv /\ ChainInv
  BY TotalAssumption DEF Init, BalanceInv, ReadInv, AmountInv, EmptyInv, RowsInv, ChainInv, Reading
<1>3. SeenInv /\ MaxIdInv /\ SweptWasMoved
  BY DEF Init, SeenInv, MaxIdInv, SweptWasMoved, Reading
<1> QED BY <1>1, <1>2, <1>3 DEF IInv, BackedInv

-----------------------------------------------------------------------------
(* Types.                                                                  *)

\* Types of the variables of the sweepers and of the reconcilers.
RoundTypes ==
    /\ pc \in [Sweepers -> Pcs]
    /\ bal \in [Sweepers -> Nat]
    /\ seen \in [Sweepers -> Ids]
    /\ top \in [Sweepers -> Ids]
    /\ row \in [Sweepers -> Rows \cup {NoSweep}]
    /\ note \in [Sweepers -> Answers \cup {"none"}]
ReconcileTypes ==
    /\ rpc \in [Reconcilers -> Rpcs]
    /\ batch \in [Reconcilers -> SUBSET Rows]
    /\ rrow \in [Reconcilers -> Rows \cup {NoSweep}]

\* Going on keeps the types of the sweepers ...
LEMMA KeepType ==
    ASSUME TypeOK, NEW w \in Sweepers, NEW l \in Pcs, Keep(w, l) PROVE RoundTypes'
  BY DEF TypeOK, RoundTypes, Keep, Goto

\* ... and so does being done with the address.
LEMMA LeaveType ==
    ASSUME TypeOK, NEW w \in Sweepers, Leave(w) PROVE RoundTypes'
  BY IdFacts DEF TypeOK, RoundTypes, Leave, Goto, Pcs

\* Going to the next row keeps the types of the reconcilers ...
LEMMA RNextType ==
    ASSUME TypeOK, NEW r \in Reconcilers, RNext(r) PROVE ReconcileTypes'
  BY DEF TypeOK, ReconcileTypes, RNext, RGoto, Rpcs

\* ... and so does going on with a row.
LEMMA RKeepType ==
    ASSUME TypeOK, NEW r \in Reconcilers, NEW l \in Rpcs, RKeep(r, l) PROVE ReconcileTypes'
  BY DEF TypeOK, ReconcileTypes, RKeep, RGoto

\* Broadcasting keeps the types of what it writes ...
LEMMA BroadcastType ==
    ASSUME TypeOK, NEW k, NEW answer \in Answers, Broadcast(k, answer)
    PROVE  /\ net' \in [Rows -> {"none", "signed", "pool", "packed", "void"}]
           /\ faults' \in Nat
<1>1. PICK where \in {"void", net[k], Taken(k)} : net' = [net EXCEPT ![k] = where]
  BY DEF Broadcast
<1>2. net' \in [Rows -> {"none", "signed", "pool", "packed", "void"}]
  BY <1>1 DEF TypeOK, Taken
<1>3. faults' \in Nat
  BY DEF Broadcast, Fault, TypeOK
<1> QED BY <1>2, <1>3

\* ... and so does failSweep.
LEMMA FailRowType ==
    ASSUME TypeOK, NEW k, FailRow(k)
    PROVE  /\ status' \in [Rows -> InFlight \cup {"absent", "confirmed", "failed"}]
           /\ drained' \in [Rows -> BOOLEAN]
           /\ faults' \in Nat
<1>1. CASE /\ status' = [status EXCEPT ![k] = "failed"]
           /\ drained' = [drained EXCEPT ![k] = FALSE]
           /\ UNCHANGED faults
  BY <1>1 DEF TypeOK
<1>2. CASE Fault /\ UNCHANGED <<status, drained>>
  BY <1>2 DEF TypeOK, Fault
<1> QED BY <1>1, <1>2 DEF FailRow

\* The steps of a round keep the types.
LEMMA TypeRound ==
    ASSUME TypeOK, BalanceInv, NEW w \in Sweepers, RoundSteps(w) PROVE TypeOK'
<1> DEFINE T(l) == Keep(w, l) => RoundTypes'
<1>a. /\ T("poll") /\ T("balance") /\ T("mark") /\ T("lock") /\ T("inflight") /\ T("budget")
      /\ T("unlock") /\ T("top") /\ T("build") /\ T("fail") /\ T("store") /\ T("send")
  BY KeepType DEF Pcs
<1>b. Leave(w) => RoundTypes'
  BY LeaveType
<1> USE DEF TypeOK, RoundTypes, chain, deposits, sweeps, reconcile, Fault
<1> HIDE DEF T
<1>1. CASE Candidates(w) BY <1>1, <1>a DEF Candidates, T
<1>2. CASE TokenBalance(w)
  BY <1>2, TotalAssumption DEF TokenBalance, Held, BalanceInv, Goto, Pcs
<1>3. CASE CountSwept(w) BY <1>3, <1>a, <1>b DEF CountSwept, T
<1>4. CASE MarkSweptEmpty(w) BY <1>4, <1>b DEF MarkSweptEmpty
<1>5. CASE RecordSkip(w)
  <2>1. RoundTypes' BY <1>5, <1>a, <1>b DEF RecordSkip, T
  <2>2. skips' \in Nat BY <1>5 DEF RecordSkip
  <2> QED BY <1>5, <2>1, <2>2 DEF RecordSkip
<1>6. CASE TakeLock(w)
  <2>1. RoundTypes' BY <1>6, <1>a, <1>b DEF TakeLock, T
  <2>2. lock' \in Sweepers \cup {NoSweeper} BY <1>6 DEF TakeLock
  <2> QED BY <1>6, <2>1, <2>2 DEF TakeLock
<1>7. CASE CountInflight(w) BY <1>7, <1>a DEF CountInflight, T
<1>8. CASE CheckBudget(w) BY <1>8, <1>a DEF CheckBudget, T
<1>9. CASE MaxUnsweptDepositID(w)
  BY <1>9, IdFacts DEF MaxUnsweptDepositID, MaxUnswept, Unswept, Goto, Pcs
<1>10. CASE CreateRow(w) BY <1>10 DEF CreateRow, Goto, Pcs, InFlight
<1>11. CASE AcquireEnergy(w)
  <2>1. RoundTypes' /\ faults' \in Nat BY <1>11, <1>a DEF AcquireEnergy, T
  <2>2. status' \in [Rows -> InFlight \cup {"absent", "confirmed", "failed"}]
    BY <1>11 DEF AcquireEnergy, InFlight
  <2> QED BY <1>11, <2>1, <2>2 DEF AcquireEnergy
<1>12. CASE BuildAndSign(w)
  <2>1. RoundTypes' /\ faults' \in Nat BY <1>12, <1>a DEF BuildAndSign, T
  <2>2. net' \in [Rows -> {"none", "signed", "pool", "packed", "void"}]
    BY <1>12 DEF BuildAndSign
  <2> QED BY <1>12, <2>1, <2>2 DEF BuildAndSign
<1>13. CASE StoreSigned(w)
  <2>1. RoundTypes' /\ faults' \in Nat BY <1>13, <1>a DEF StoreSigned, T
  <2>2. txid' \in [Rows -> BOOLEAN] /\ raw' \in [Rows -> BOOLEAN]
    BY <1>13 DEF StoreSigned
  <2> QED BY <1>13, <2>1, <2>2 DEF StoreSigned
<1>14. CASE Send(w)
  <2>1. PICK answer \in Answers :
           Broadcast(row[w], answer) /\ note' = [note EXCEPT ![w] = answer]
    BY <1>14 DEF Send
  <2>2. RoundTypes' BY <1>14, <2>1 DEF Send, Goto, Pcs
  <2> QED BY <1>14, <2>1, <2>2, BroadcastType DEF Send
<1>15. CASE Record(w)
  <2>1. RoundTypes' /\ faults' \in Nat BY <1>15, <1>a DEF Record, T
  <2>2. status' \in [Rows -> InFlight \cup {"absent", "confirmed", "failed"}]
    BY <1>15 DEF Record, InFlight
  <2>3. txid' \in [Rows -> BOOLEAN] /\ drained' \in [Rows -> BOOLEAN]
    BY <1>15 DEF Record
  <2> QED BY <1>15, <2>1, <2>2, <2>3 DEF Record
<1>16. CASE FailSweep(w) BY <1>16, <1>a, FailRowType DEF FailSweep, T
<1>17. CASE Unlock(w) BY <1>17, <1>b DEF Unlock
<1> QED
  BY <1>1, <1>2, <1>3, <1>4, <1>5, <1>6, <1>7, <1>8, <1>9, <1>10, <1>11, <1>12, <1>13, <1>14,
     <1>15, <1>16, <1>17 DEF RoundSteps

\* The steps of a reconciler keep the types.
LEMMA TypeReconcile ==
    ASSUME TypeOK, NEW r \in Reconcilers, ReconcileSteps(r) PROVE TypeOK'
<1>a. RNext(r) => ReconcileTypes' BY RNextType
<1> USE DEF TypeOK, ReconcileTypes, chain, deposits, sweeps, round, Fault
<1>1. CASE Reconcile(r) BY <1>1 DEF Reconcile, RGoto, Rpcs
<1>2. CASE ReadReceipt(r) BY <1>2 DEF ReadReceipt, RGoto, Rpcs
<1>3. CASE EndReconcile(r) BY <1>3, RKeepType DEF EndReconcile, Rpcs
<1>4. CASE SettleAbsent(r)
  <2>1. Judged(rrow[r]) \in Rpcs BY DEF Judged, Rpcs
  <2> QED BY <1>4, <1>a, <2>1, RKeepType DEF SettleAbsent
<1>5. CASE ExpireRow(r)
  <2>1. status' \in [Rows -> InFlight \cup {"absent", "confirmed", "failed"}]
    BY <1>5 DEF ExpireRow
  <2>2. drained' \in [Rows -> BOOLEAN] BY <1>5 DEF ExpireRow
  <2> QED BY <1>5, <1>a, <2>1, <2>2 DEF ExpireRow
<1>6. CASE Rebroadcast(r)
  <2>1. PICK answer \in Answers :
           /\ Broadcast(rrow[r], answer)
           /\ IF answer = "permanent" THEN RKeep(r, "refuse") ELSE RNext(r)
    BY <1>6 DEF Rebroadcast
  <2>2. ReconcileTypes' BY <2>1, <1>a, RKeepType DEF Rpcs
  <2> QED BY <1>6, <2>1, <2>2, BroadcastType DEF Rebroadcast
<1>7. CASE RefuseRow(r) BY <1>7, <1>a, FailRowType DEF RefuseRow
<1>8. CASE FailedOnChain(r)
  <2>1. status' \in [Rows -> InFlight \cup {"absent", "confirmed", "failed"}]
    BY <1>8 DEF FailedOnChain
  <2>2. faults' \in Nat BY <1>8 DEF FailedOnChain
  <2>3. drained' \in [Rows -> BOOLEAN]
    <3>1. PICK b \in BOOLEAN : b = (outcome[rrow[r]] = "outOfEnergy") OBVIOUS
    <3>2. drained' = drained \/ drained' = [drained EXCEPT ![rrow[r]] = b]
      BY <1>8, <3>1 DEF FailedOnChain
    <3> QED BY <3>2
  <2> QED BY <1>8, <1>a, <2>1, <2>2, <2>3 DEF FailedOnChain
<1>9. CASE ConfirmRow(r)
  <2>1. status' \in [Rows -> InFlight \cup {"absent", "confirmed", "failed"}]
    BY <1>9 DEF ConfirmRow
  <2> QED BY <1>9, <1>a, <2>1 DEF ConfirmRow, Covered
<1> QED BY <1>1, <1>2, <1>3, <1>4, <1>5, <1>6, <1>7, <1>8, <1>9 DEF ReconcileSteps

\* Failures, the scanner, the chain and the clock keep the types.
LEMMA TypeRest ==
    ASSUME TypeOK, [Next]_vars,
           ~\E w \in Sweepers : RoundSteps(w), ~\E r \in Reconcilers : ReconcileSteps(r)
    PROVE  TypeOK'
<1> USE DEF TypeOK, Fault, chain, deposits, sweeps, round, reconcile
<1>1. ASSUME NEW w \in Sweepers, RoundError(w) \/ SweepError(w) \/ CrashRound(w) PROVE TypeOK'
  <2>1. RoundTypes'
    BY <1>1, LeaveType, KeepType DEF RoundError, SweepError, CrashRound, Pcs
  <2> QED BY <1>1, <2>1 DEF RoundError, SweepError, CrashRound, RoundTypes
<1>2. ASSUME NEW r \in Reconcilers, ReconcileError(r) \/ CrashReconcile(r) PROVE TypeOK'
  <2>1. ReconcileTypes'
    BY <1>2, RNextType DEF ReconcileError, CrashReconcile, RGoto, ReconcileTypes, Rpcs
  <2> QED BY <1>2, <2>1 DEF ReconcileError, CrashReconcile, ReconcileTypes
<1>3. ASSUME NEW d \in Deposits, ConfirmDeposit(d) PROVE TypeOK'
  BY <1>3 DEF ConfirmDeposit
<1>4. ASSUME NEW k \in Rows, Include(k) PROVE TypeOK'
  <2>1. PICK out \in {"moved", "outOfEnergy", "reverted"} :
           /\ outcome' = [outcome EXCEPT ![k] = out]
           /\ moved' = IF out = "moved" THEN moved + amount[k] ELSE moved
           /\ UNCHANGED faults \/ Fault
    BY <1>4 DEF Include
  <2>2. moved' \in Nat /\ faults' \in Nat BY <2>1
  <2>3. outcome' \in [Rows -> {"none", "moved", "outOfEnergy", "reverted"}] BY <2>1
  <2> QED BY <1>4, <2>2, <2>3 DEF Include
<1>5. ASSUME NEW k \in Rows, Evict(k) PROVE TypeOK' BY <1>5 DEF Evict
<1>9. ASSUME NEW k \in Rows, ChainExpires(k) PROVE TypeOK'
  <2>1. faults' \in Nat BY <1>9 DEF ChainExpires
  <2>2. dead' \in [Rows -> BOOLEAN] BY <1>9 DEF ChainExpires
  <2> QED BY <1>9, <2>1, <2>2 DEF ChainExpires
<1>10. ASSUME NEW k \in Rows, LocalExpires(k) PROVE TypeOK' BY <1>10 DEF LocalExpires
<1>6. CASE Arrive BY <1>6, TotalAssumption DEF Arrive, Ids
<1>7. CASE LockExpires BY <1>7 DEF LockExpires
<1>8. CASE UNCHANGED vars BY <1>8 DEF vars
<1> QED BY <1>1, <1>2, <1>3, <1>4, <1>5, <1>6, <1>7, <1>8, <1>9, <1>10 DEF Next

\* Every step keeps the types.
LEMMA TypeStep == ASSUME BackedInv, [Next]_vars PROVE TypeOK'
  BY TypeRound, TypeReconcile, TypeRest DEF BackedInv

-----------------------------------------------------------------------------
(* What a step leaves alone.                                               *)

\* Only a block that packs a sweep changes what was moved and how transfers ended.
LEMMA WalletKept ==
    ASSUME [Next]_vars PROVE UNCHANGED <<moved, outcome>> \/ \E k \in Rows : Include(k)
<1> USE DEF chain
<1>1. ASSUME NEW w \in Sweepers, RoundSteps(w) PROVE UNCHANGED <<moved, outcome>>
  BY <1>1 DEF RoundSteps, Candidates, TokenBalance, CountSwept, MarkSweptEmpty, RecordSkip, TakeLock,
     CountInflight, CheckBudget, MaxUnsweptDepositID, CreateRow, AcquireEnergy, BuildAndSign,
     StoreSigned, Send, Record, FailSweep, Unlock
<1>2. ASSUME NEW r \in Reconcilers, ReconcileSteps(r) PROVE UNCHANGED <<moved, outcome>>
  BY <1>2 DEF ReconcileSteps, Reconcile, ReadReceipt, EndReconcile, SettleAbsent, ExpireRow,
     Rebroadcast, RefuseRow, FailedOnChain, ConfirmRow
<1> QED
  BY <1>1, <1>2 DEF Next, vars, RoundError, SweepError, CrashRound, ReconcileError, CrashReconcile,
     ConfirmDeposit, Evict, ChainExpires, LocalExpires, Arrive, LockExpires

\* Only a new deposit changes what has arrived.
LEMMA ArrivedKept == ASSUME [Next]_vars PROVE UNCHANGED arrived \/ (Arrive /\ UNCHANGED moved)
<1> USE DEF chain
<1>1. ASSUME NEW w \in Sweepers, RoundSteps(w) PROVE UNCHANGED arrived
  BY <1>1 DEF RoundSteps, Candidates, TokenBalance, CountSwept, MarkSweptEmpty, RecordSkip, TakeLock,
     CountInflight, CheckBudget, MaxUnsweptDepositID, CreateRow, AcquireEnergy, BuildAndSign,
     StoreSigned, Send, Record, FailSweep, Unlock
<1>2. ASSUME NEW r \in Reconcilers, ReconcileSteps(r) PROVE UNCHANGED arrived
  BY <1>2 DEF ReconcileSteps, Reconcile, ReadReceipt, EndReconcile, SettleAbsent, ExpireRow,
     Rebroadcast, RefuseRow, FailedOnChain, ConfirmRow
<1> QED
  BY <1>1, <1>2 DEF Next, vars, RoundError, SweepError, CrashRound, ReconcileError, CrashReconcile,
     ConfirmDeposit, Include, Evict, ChainExpires, LocalExpires, Arrive, LockExpires

\* Only the scanner confirms deposits, and no sweeper moves meanwhile.
LEMMA ConfirmedKept ==
    ASSUME [Next]_vars
    PROVE  UNCHANGED confirmed \/ \E d \in Deposits : ConfirmDeposit(d)
<1> USE DEF deposits
<1>1. ASSUME NEW w \in Sweepers, RoundSteps(w) PROVE UNCHANGED confirmed
  BY <1>1 DEF RoundSteps, Candidates, TokenBalance, CountSwept, MarkSweptEmpty, RecordSkip, TakeLock,
     CountInflight, CheckBudget, MaxUnsweptDepositID, CreateRow, AcquireEnergy, BuildAndSign,
     StoreSigned, Send, Record, FailSweep, Unlock
<1>2. ASSUME NEW r \in Reconcilers, ReconcileSteps(r) PROVE UNCHANGED confirmed
  BY <1>2 DEF ReconcileSteps, Reconcile, ReadReceipt, EndReconcile, SettleAbsent, ExpireRow,
     Rebroadcast, RefuseRow, FailedOnChain, ConfirmRow
<1> QED
  BY <1>1, <1>2 DEF Next, vars, RoundError, SweepError, CrashRound, ReconcileError, CrashReconcile,
     Include, Evict, ChainExpires, LocalExpires, Arrive, LockExpires

\* Only a zero balance and a receipt write deposits off.
LEMMA SweptKept ==
    ASSUME [Next]_vars
    PROVE  \/ UNCHANGED swept
           \/ \E w \in Sweepers : MarkSweptEmpty(w)
           \/ \E r \in Reconcilers : ConfirmRow(r)
<1> USE DEF deposits
<1>1. ASSUME NEW w \in Sweepers, RoundSteps(w) PROVE UNCHANGED swept \/ MarkSweptEmpty(w)
  BY <1>1 DEF RoundSteps, Candidates, TokenBalance, CountSwept, RecordSkip, TakeLock,
     CountInflight, CheckBudget, MaxUnsweptDepositID, CreateRow, AcquireEnergy, BuildAndSign,
     StoreSigned, Send, Record, FailSweep, Unlock
<1>2. ASSUME NEW r \in Reconcilers, ReconcileSteps(r) PROVE UNCHANGED swept \/ ConfirmRow(r)
  BY <1>2 DEF ReconcileSteps, Reconcile, ReadReceipt, EndReconcile, SettleAbsent, ExpireRow,
     Rebroadcast, RefuseRow, FailedOnChain
<1> QED
  BY <1>1, <1>2 DEF Next, vars, RoundError, SweepError, CrashRound, ReconcileError, CrashReconcile,
     ConfirmDeposit, Include, Evict, ChainExpires, LocalExpires, Arrive, LockExpires

\* A step of a sweeper, and one that leaves its variables alone.
Mine(v) == RoundSteps(v) \/ RoundError(v) \/ SweepError(v) \/ CrashRound(v)
Same(v) ==
    /\ pc'[v] = pc[v]
    /\ bal'[v] = bal[v]
    /\ seen'[v] = seen[v]
    /\ top'[v] = top[v]
    /\ row'[v] = row[v]
    /\ note'[v] = note[v]

\* The variables of a sweeper change in its own steps only.
LEMMA OwnRound == ASSUME TypeOK, [Next]_vars, NEW v \in Sweepers PROVE Mine(v) \/ Same(v)
<1>1. ASSUME NEW w \in Sweepers, w # v, NEW l, Keep(w, l) \/ Leave(w) PROVE Same(v)
  BY <1>1 DEF TypeOK, Keep, Leave, Goto, Same
<1>2. ASSUME NEW w \in Sweepers, w # v, RoundSteps(w) PROVE Same(v)
  <2>1. CASE TokenBalance(w) \/ MaxUnsweptDepositID(w) \/ CreateRow(w) \/ Send(w)
    BY <1>2, <2>1 DEF TypeOK, Same, Goto, TokenBalance, MaxUnsweptDepositID, CreateRow, Send
  <2>2. CASE ~(TokenBalance(w) \/ MaxUnsweptDepositID(w) \/ CreateRow(w) \/ Send(w))
    BY <1>1, <1>2, <2>2 DEF RoundSteps, Candidates, CountSwept, MarkSweptEmpty, RecordSkip,
       TakeLock, CountInflight, CheckBudget, AcquireEnergy, BuildAndSign, StoreSigned, Record,
       FailSweep, Unlock
  <2> QED BY <2>1, <2>2
<1>3. ASSUME NEW w \in Sweepers, w # v, RoundError(w) \/ SweepError(w) \/ CrashRound(w) PROVE Same(v)
  BY <1>1, <1>3 DEF RoundError, SweepError, CrashRound
<1>4. ASSUME NEW r \in Reconcilers, ReconcileSteps(r) \/ ReconcileError(r) \/ CrashReconcile(r)
      PROVE  Same(v)
  BY <1>4 DEF ReconcileSteps, Reconcile, ReadReceipt, EndReconcile, SettleAbsent, ExpireRow,
     Rebroadcast, RefuseRow, FailedOnChain, ConfirmRow, ReconcileError, CrashReconcile, round, Same
<1>5. ASSUME NEW d \in Deposits, ConfirmDeposit(d) PROVE Same(v)
  BY <1>5 DEF ConfirmDeposit, round, Same
<1>6. ASSUME NEW k \in Rows, Include(k) \/ Evict(k) \/ ChainExpires(k) \/ LocalExpires(k) PROVE Same(v)
  BY <1>6 DEF Include, Evict, ChainExpires, LocalExpires, round, Same
<1>7. CASE Arrive \/ LockExpires \/ UNCHANGED vars
  BY <1>7 DEF Arrive, LockExpires, vars, round, Same
<1> QED BY <1>2, <1>3, <1>4, <1>5, <1>6, <1>7 DEF Next, Mine

\* How a sweeper comes to where its balance and its row count.
LEMMA SweeperFrame ==
    ASSUME TypeOK, [Next]_vars, NEW v \in Sweepers
    PROVE  /\ pc'[v] \in Reading =>
                 TokenBalance(v) \/ (pc[v] \in Reading /\ seen'[v] = seen[v] /\ bal'[v] = bal[v])
           /\ pc'[v] \in {"empty", "mark"} =>
                 TokenBalance(v) \/ (pc[v] \in {"empty", "mark"} /\ bal'[v] = bal[v])
           /\ pc'[v] = "create" =>
                 /\ seen'[v] = seen[v] /\ bal'[v] = bal[v]
                 /\ MaxUnsweptDepositID(v) \/ (pc[v] = "create" /\ top'[v] = top[v])
           /\ pc'[v] \in {"energy", "build", "store", "send", "record", "fail"} =>
                 \/ CreateRow(v)
                 \/ /\ pc[v] \in {"energy", "build", "store", "send", "record", "fail"}
                    /\ row'[v] = row[v]
<1>1. CASE Same(v) BY <1>1 DEF Same
<1>2. CASE Mine(v)
  <2>1. CASE RoundError(v) \/ SweepError(v) \/ CrashRound(v)
    BY <2>1 DEF TypeOK, RoundError, SweepError, CrashRound, Leave, Keep, Goto, Reading
  <2>2. CASE RoundSteps(v)
    <3>1. CASE TokenBalance(v)
      <4>1. PICK l \in {"empty", "skip", "lock"} : Goto(v, l) BY <3>1 DEF TokenBalance
      <4>2. pc'[v] \in {"empty", "skip", "lock"} BY <4>1 DEF TypeOK, Goto
      <4> QED BY <3>1, <4>2
    <3>2. CASE MaxUnsweptDepositID(v) BY <3>2 DEF TypeOK, MaxUnsweptDepositID, Goto, Reading
    <3>3. CASE CreateRow(v)
      <4>1. pc'[v] = "energy" BY <3>3 DEF TypeOK, CreateRow, Goto
      <4> QED BY <3>3, <4>1 DEF Reading
    <3>4. CASE Candidates(v) \/ CountSwept(v) \/ MarkSweptEmpty(v) \/ RecordSkip(v) \/ TakeLock(v)
      BY <3>4 DEF TypeOK, Candidates, CountSwept, MarkSweptEmpty, RecordSkip, TakeLock, Leave, Keep,
         Goto, Reading
    <3>5. CASE CountInflight(v) \/ CheckBudget(v)
      BY <3>5 DEF TypeOK, CountInflight, CheckBudget, Keep, Goto, Reading
    <3>6. CASE AcquireEnergy(v) \/ BuildAndSign(v) \/ StoreSigned(v) \/ Send(v)
      BY <3>6 DEF TypeOK, AcquireEnergy, BuildAndSign, StoreSigned, Send, Keep, Goto, Reading
    <3>7. CASE Record(v) \/ FailSweep(v) \/ Unlock(v)
      BY <3>7 DEF TypeOK, Record, FailSweep, Unlock, Leave, Keep, Goto, Reading
    <3> QED BY <2>2, <3>1, <3>2, <3>3, <3>4, <3>5, <3>6, <3>7 DEF RoundSteps
  <2> QED BY <1>2, <2>1, <2>2 DEF Mine
<1> QED BY <1>1, <1>2, OwnRound

\* The rows that a sweeper or reconciler writes to exist.
Existing(k) == k \in Rows /\ status[k] # "absent"

\* A row is never deleted, and its amount and deposits never change.
LEMMA RowsKept ==
    ASSUME TypeOK, RowsInv, [Next]_vars, NEW k \in Rows, status[k] # "absent"
    PROVE  /\ status'[k] # "absent"
           /\ amount'[k] = amount[k]
           /\ maxId'[k] = maxId[k]
           /\ covers'[k] = covers[k]
<1> USE DEF sweeps
<1>1. ASSUME UNCHANGED <<amount, maxId, covers>>,
             \/ UNCHANGED status
             \/ \E j, x : status' = [status EXCEPT ![j] = x] /\ x # "absent"
      PROVE  /\ status'[k] # "absent"
             /\ amount'[k] = amount[k]
             /\ maxId'[k] = maxId[k]
             /\ covers'[k] = covers[k]
  BY <1>1 DEF TypeOK
<1>2. ASSUME NEW w \in Sweepers, RoundSteps(w), ~CreateRow(w)
      PROVE  /\ UNCHANGED <<amount, maxId, covers>>
             /\ \/ UNCHANGED status
                \/ \E j, x : status' = [status EXCEPT ![j] = x] /\ x # "absent"
  BY <1>2 DEF RoundSteps, Candidates, TokenBalance, CountSwept, MarkSweptEmpty, RecordSkip, TakeLock,
     CountInflight, CheckBudget, MaxUnsweptDepositID, AcquireEnergy, BuildAndSign,
     StoreSigned, Send, Record, FailSweep, FailRow, Unlock
<1>3. ASSUME NEW w \in Sweepers, CreateRow(w)
      PROVE  /\ status'[k] # "absent"
             /\ amount'[k] = amount[k]
             /\ maxId'[k] = maxId[k]
             /\ covers'[k] = covers[k]
  BY <1>3 DEF TypeOK, CreateRow
<1>4. ASSUME NEW r \in Reconcilers, ReconcileSteps(r), ~ConfirmRow(r)
      PROVE  /\ UNCHANGED <<amount, maxId, covers>>
             /\ \/ UNCHANGED status
                \/ \E j, x : status' = [status EXCEPT ![j] = x] /\ x # "absent"
  BY <1>4 DEF ReconcileSteps, Reconcile, ReadReceipt, EndReconcile, SettleAbsent, ExpireRow,
     Rebroadcast, RefuseRow, FailRow, FailedOnChain
<1>5. ASSUME NEW r \in Reconcilers, ConfirmRow(r)
      PROVE  /\ status'[k] # "absent"
             /\ amount'[k] = amount[k]
             /\ maxId'[k] = maxId[k]
             /\ covers'[k] = covers[k]
  BY <1>5 DEF TypeOK, ConfirmRow
<1>6. CASE ~(\E w \in Sweepers : RoundSteps(w)) /\ ~(\E r \in Reconcilers : ReconcileSteps(r))
  <2>1. UNCHANGED <<status, amount, maxId, covers>>
    BY <1>6 DEF Next, vars, RoundError, SweepError, CrashRound, ReconcileError, CrashReconcile,
       ConfirmDeposit, Include, Evict, ChainExpires, LocalExpires, Arrive, LockExpires
  <2> QED BY <2>1
<1> QED BY <1>1, <1>2, <1>3, <1>4, <1>5, <1>6 DEF Next

\* Only CreateRow makes a row.
LEMMA NewRows ==
    ASSUME TypeOK, RowsInv, [Next]_vars, NEW k \in Rows, status[k] = "absent", status'[k] # "absent"
    PROVE  \E w \in Sweepers : CreateRow(w)
<1> USE DEF sweeps
<1>1. ASSUME NEW j, Existing(j), NEW x, status' = [status EXCEPT ![j] = x] PROVE FALSE
  BY <1>1 DEF TypeOK, Existing
<1>2. ASSUME NEW w \in Sweepers, RoundSteps(w), ~CreateRow(w) PROVE FALSE
  <2>1. CASE AcquireEnergy(w) \/ Record(w) \/ FailSweep(w)
    <3>1. Existing(row[w]) BY <2>1 DEF RowsInv, Existing, AcquireEnergy, Record, FailSweep
    <3> QED BY <1>1, <2>1, <3>1 DEF AcquireEnergy, Record, FailSweep, FailRow
  <2>2. CASE ~(AcquireEnergy(w) \/ Record(w) \/ FailSweep(w))
    BY <1>2, <2>2 DEF RoundSteps, Candidates, TokenBalance, CountSwept, MarkSweptEmpty, RecordSkip,
       TakeLock, CountInflight, CheckBudget, MaxUnsweptDepositID, BuildAndSign, StoreSigned, Send,
       Unlock
  <2> QED BY <2>1, <2>2
<1>3. ASSUME NEW r \in Reconcilers, ReconcileSteps(r) PROVE FALSE
  <2>1. CASE ExpireRow(r) \/ RefuseRow(r) \/ FailedOnChain(r) \/ ConfirmRow(r)
    <3>1. Existing(rrow[r]) BY <2>1 DEF RowsInv, Existing, ExpireRow, RefuseRow, FailedOnChain, ConfirmRow
    <3> QED BY <1>1, <2>1, <3>1 DEF ExpireRow, RefuseRow, FailRow, FailedOnChain, ConfirmRow
  <2>2. CASE ~(ExpireRow(r) \/ RefuseRow(r) \/ FailedOnChain(r) \/ ConfirmRow(r))
    BY <1>3, <2>2 DEF ReconcileSteps, Reconcile, ReadReceipt, EndReconcile, SettleAbsent, Rebroadcast
  <2> QED BY <2>1, <2>2
<1>4. CASE ~(\E w \in Sweepers : RoundSteps(w)) /\ ~(\E r \in Reconcilers : ReconcileSteps(r))
  <2>1. UNCHANGED status
    BY <1>4 DEF Next, vars, RoundError, SweepError, CrashRound, ReconcileError, CrashReconcile,
       ConfirmDeposit, Include, Evict, ChainExpires, LocalExpires, Arrive, LockExpires
  <2> QED BY <2>1
<1> QED BY <1>2, <1>3, <1>4 DEF Next

\* Only the transfer of an existing row comes to be signed.
LEMMA NetKept ==
    ASSUME TypeOK, RowsInv, [Next]_vars, NEW k \in Rows, net'[k] # "none"
    PROVE  net[k] # "none" \/ status[k] # "absent"
<1> SUFFICES ASSUME net[k] = "none", status[k] = "absent" PROVE FALSE OBVIOUS
<1> USE DEF chain
<1>1. ASSUME NEW j, NEW x, net' = [net EXCEPT ![j] = x], Existing(j) \/ net[j] # "none" PROVE FALSE
  BY <1>1 DEF TypeOK, Existing
<1>2. ASSUME NEW w \in Sweepers, RoundSteps(w) PROVE FALSE
  <2>1. CASE BuildAndSign(w) \/ Send(w)
    <3>1. Existing(row[w]) BY <2>1 DEF RowsInv, Existing, BuildAndSign, Send
    <3> QED BY <1>1, <2>1, <3>1 DEF BuildAndSign, Send, Broadcast
  <2>2. CASE ~(BuildAndSign(w) \/ Send(w))
    BY <1>2, <2>2 DEF RoundSteps, Candidates, TokenBalance, CountSwept, MarkSweptEmpty, RecordSkip,
       TakeLock, CountInflight, CheckBudget, MaxUnsweptDepositID, CreateRow, AcquireEnergy,
       StoreSigned, Record, FailSweep, Unlock
  <2> QED BY <2>1, <2>2
<1>3. ASSUME NEW r \in Reconcilers, ReconcileSteps(r) PROVE FALSE
  <2>1. CASE Rebroadcast(r)
    <3>1. Existing(rrow[r]) BY <2>1 DEF RowsInv, Existing, Rebroadcast
    <3> QED BY <1>1, <2>1, <3>1 DEF Rebroadcast, Broadcast
  <2>2. CASE ~Rebroadcast(r)
    BY <1>3, <2>2 DEF ReconcileSteps, Reconcile, ReadReceipt, EndReconcile, SettleAbsent, ExpireRow,
       RefuseRow, FailedOnChain, ConfirmRow
  <2> QED BY <2>1, <2>2
<1>4. ASSUME NEW j \in Rows, Include(j) \/ Evict(j) PROVE FALSE
  <2>1. net[j] # "none" BY <1>4 DEF Include, Evict
  <2> QED BY <1>1, <1>4, <2>1 DEF Include, Evict
<1> QED
  BY <1>2, <1>3, <1>4 DEF Next, vars, RoundError, SweepError, CrashRound, ReconcileError,
     CrashReconcile, ConfirmDeposit, ChainExpires, LocalExpires, Arrive, LockExpires

-----------------------------------------------------------------------------
(* The conjuncts of the invariant, one by one.                             *)

\* Deposits up to a later one bring at least as much.
LEMMA TotalMonotone == ASSUME NEW c \in Ids, NEW d \in Ids, c <= d PROVE Total[c] <= Total[d]
  BY TotalAssumption, IdFacts

\* The finance wallet never loses what a sweep brought.
LEMMA MovedGrows == ASSUME TypeOK, [Next]_vars PROVE moved <= moved' /\ moved' \in Nat
<1>1. CASE UNCHANGED moved BY <1>1 DEF TypeOK
<1>2. ASSUME NEW k \in Rows, Include(k) PROVE moved <= moved' /\ moved' \in Nat
  BY <1>2 DEF TypeOK, Include
<1> QED BY <1>1, <1>2, WalletKept

\* BalanceInv: a transfer that works takes no more than the address holds.
LEMMA BalanceStep == ASSUME BackedInv, [Next]_vars PROVE BalanceInv'
<1> USE DEF BackedInv
<1>1. arrived \in Ids /\ arrived' \in Ids /\ arrived <= arrived'
  BY ArrivedKept, TotalAssumption DEF TypeOK, Arrive, Ids
<1>2. \A d \in confirmed' : d <= arrived'
  <2>1. \A d \in confirmed' : d \in Deposits /\ d <= arrived
    BY ConfirmedKept DEF BalanceInv, ConfirmDeposit, TypeOK
  <2>2. arrived \in Nat /\ arrived' \in Nat BY <1>1, IdFacts
  <2>3. \A d \in Deposits : d \in Nat BY IdFacts
  <2> QED BY <1>1, <2>1, <2>2, <2>3
<1>3. swept' \subseteq confirmed'
  <2>1. CASE UNCHANGED swept BY <2>1, ConfirmedKept DEF BalanceInv, ConfirmDeposit
  <2>2. ASSUME NEW w \in Sweepers, MarkSweptEmpty(w) PROVE swept' \subseteq confirmed'
    BY <2>2 DEF BalanceInv, MarkSweptEmpty
  <2>3. ASSUME NEW r \in Reconcilers, ConfirmRow(r) PROVE swept' \subseteq confirmed'
    BY <2>3 DEF BalanceInv, ConfirmRow, Covered
  <2> QED BY <2>1, <2>2, <2>3, SweptKept
<1>4. moved' <= Total[arrived']
  <2>1. Total[arrived] <= Total[arrived'] BY <1>1, TotalMonotone
  <2>2. Total[arrived] \in Nat /\ Total[arrived'] \in Nat BY <1>1, TotalAssumption
  <2>3. CASE UNCHANGED moved BY <2>1, <2>2, <2>3 DEF BalanceInv, TypeOK
  <2>4. ASSUME NEW k \in Rows, Include(k) PROVE moved' <= Total[arrived']
    <3>1. amount[k] \in Nat /\ moved \in Nat BY DEF TypeOK
    <3>2. moved' = moved \/ (moved' = moved + amount[k] /\ Total[arrived] - moved >= amount[k])
      BY <2>4 DEF Include, Held
    <3> QED BY <2>1, <2>2, <3>1, <3>2 DEF BalanceInv
  <2> QED BY <2>3, <2>4, WalletKept
<1> QED BY <1>2, <1>3, <1>4 DEF BalanceInv

\* ReadInv: a balance is what the deposits on the chain brought, less what was
\* moved, and later sweeps only make up for what it lacks.
LEMMA ReadStep == ASSUME BackedInv, [Next]_vars PROVE ReadInv'
<1> USE DEF BackedInv
<1> SUFFICES ASSUME NEW w \in Sweepers, (pc'[w] \in Reading \cup {"create"})
             PROVE  Total[seen'[w]] <= bal'[w] + moved'
  BY DEF ReadInv
<1>1. CASE TokenBalance(w)
  <2>1. seen'[w] = arrived /\ bal'[w] = Total[arrived] - moved /\ moved' = moved
    BY <1>1 DEF TypeOK, TokenBalance, Held, chain
  <2>2. Total[arrived] \in Nat /\ moved \in Nat BY TotalAssumption DEF TypeOK
  <2> QED BY <2>1, <2>2
<1>2. CASE pc[w] \in Reading \cup {"create"} /\ seen'[w] = seen[w] /\ bal'[w] = bal[w]
  <2>1. Total[seen[w]] <= bal[w] + moved BY <1>2 DEF ReadInv
  <2>2. Total[seen[w]] \in Nat /\ bal[w] \in Nat /\ moved \in Nat BY TotalAssumption DEF TypeOK
  <2> QED BY <1>2, <2>1, <2>2, MovedGrows
<1>3. MaxUnsweptDepositID(w) => pc[w] \in Reading BY DEF MaxUnsweptDepositID, Reading
<1> QED BY <1>1, <1>2, <1>3, SweeperFrame

\* SeenInv: this is where the proof needs that no deposit is confirmed behind the
\* back of a sweeper that relies on its balance.
LEMMA SeenStep == ASSUME IInv, [Next]_vars, "slowRead" \notin Hazards PROVE SeenInv'
<1> USE DEF IInv, BackedInv
<1>1. ASSUME NEW w \in Sweepers, pc'[w] \in Reading, NEW d \in confirmed' PROVE d <= seen'[w]
  <2>1. CASE TokenBalance(w)
    <3>1. seen'[w] = arrived /\ confirmed' = confirmed BY <2>1 DEF TypeOK, TokenBalance, deposits
    <3> QED BY <1>1, <3>1 DEF BalanceInv
  <2>2. CASE pc[w] \in Reading /\ seen'[w] = seen[w]
    <3>1. CASE UNCHANGED confirmed BY <1>1, <2>2, <3>1 DEF SeenInv
    <3>2. ASSUME NEW c \in Deposits, ConfirmDeposit(c) PROVE d <= seen'[w]
      BY <1>1, <2>2, <3>2 DEF SeenInv, ConfirmDeposit
    <3> QED BY <3>1, <3>2, ConfirmedKept
  <2> QED BY <1>1, <2>1, <2>2, SweeperFrame
<1>2. ASSUME NEW w \in Sweepers, pc'[w] = "create" PROVE top'[w] <= seen'[w]
  <2>1. seen'[w] = seen[w] BY <1>2, SweeperFrame
  <2>2. CASE pc[w] = "create" /\ top'[w] = top[w] BY <2>1, <2>2 DEF SeenInv
  <2>3. CASE MaxUnsweptDepositID(w)
    <3>1. top'[w] = 0 \/ top'[w] \in confirmed
      BY <2>3 DEF MaxUnsweptDepositID, MaxUnswept, Unswept, TypeOK
    <3>2. \A d \in confirmed : d <= seen[w] BY <2>3 DEF MaxUnsweptDepositID, SeenInv, Reading
    <3>3. seen[w] \in Ids BY DEF TypeOK
    <3>4. 0 <= seen[w] BY <3>3 DEF Ids
    <3> QED BY <2>1, <3>1, <3>2, <3>4
  <2> QED BY <1>2, <2>2, <2>3, SweeperFrame
<1> QED BY <1>1, <1>2 DEF SeenInv

\* EmptyInv: only a zero balance leads to markSweptEmpty.
LEMMA EmptyStep == ASSUME BackedInv, [Next]_vars PROVE EmptyInv'
<1> USE DEF BackedInv
<1> SUFFICES ASSUME NEW w \in Sweepers, pc'[w] \in {"empty", "mark"} PROVE bal'[w] = 0
  BY DEF EmptyInv
<1>1. CASE TokenBalance(w)
  <2>1. bal'[w] = Held BY <1>1 DEF TypeOK, TokenBalance
  <2>2. pc'[w] = IF Held = 0 THEN "empty" ELSE IF Held < MinUnits THEN "skip" ELSE "lock"
    BY <1>1 DEF TypeOK, TokenBalance, Goto, Pcs
  <2>3. Held # 0 => pc'[w] \in {"skip", "lock"} BY <2>2
  <2> QED BY <2>1, <2>3
<1>2. CASE pc[w] \in {"empty", "mark"} /\ bal'[w] = bal[w] BY <1>2 DEF EmptyInv
<1> QED BY <1>1, <1>2, SweeperFrame

\* AmountInv: a row takes over what its sweeper has read.
LEMMA AmountStep == ASSUME BackedInv, [Next]_vars PROVE AmountInv'
<1> USE DEF BackedInv
<1> SUFFICES ASSUME NEW k \in Rows, status'[k] # "absent"
             PROVE  Total[covers'[k]] <= amount'[k] + moved'
  BY DEF AmountInv
<1>1. CASE status[k] # "absent"
  <2>1. amount'[k] = amount[k] /\ covers'[k] = covers[k] BY <1>1, RowsKept
  <2>2. Total[covers[k]] <= amount[k] + moved BY <1>1 DEF AmountInv
  <2>3. Total[covers[k]] \in Nat /\ amount[k] \in Nat /\ moved \in Nat BY TotalAssumption DEF TypeOK
  <2> QED BY <2>1, <2>2, <2>3, MovedGrows
<1>2. CASE status[k] = "absent"
  <2>1. PICK w \in Sweepers : CreateRow(w) BY <1>2, NewRows
  <2>2. PICK j \in Rows : /\ status' = [status EXCEPT ![j] = "created"]
                          /\ amount' = [amount EXCEPT ![j] = bal[w]]
                          /\ covers' = [covers EXCEPT ![j] = seen[w]]
    BY <2>1 DEF CreateRow
  <2>3. j = k BY <1>2, <2>2 DEF TypeOK
  <2>4. amount'[k] = bal[w] /\ covers'[k] = seen[w] BY <2>2, <2>3 DEF TypeOK
  <2>5. moved' = moved BY <2>1 DEF CreateRow, chain
  <2> QED BY <2>1, <2>4, <2>5 DEF CreateRow, ReadInv
<1> QED BY <1>1, <1>2

\* MaxIdInv: a row names no deposit that its sweeper had not seen.
LEMMA MaxIdStep == ASSUME IInv, [Next]_vars PROVE MaxIdInv'
<1> USE DEF IInv, BackedInv
<1> SUFFICES ASSUME NEW k \in Rows, status'[k] # "absent" PROVE maxId'[k] <= covers'[k]
  BY DEF MaxIdInv
<1>1. CASE status[k] # "absent" BY <1>1, RowsKept DEF MaxIdInv
<1>2. CASE status[k] = "absent"
  <2>1. PICK w \in Sweepers : CreateRow(w) BY <1>2, NewRows
  <2>2. PICK j \in Rows : /\ status' = [status EXCEPT ![j] = "created"]
                          /\ maxId' = [maxId EXCEPT ![j] = top[w]]
                          /\ covers' = [covers EXCEPT ![j] = seen[w]]
    BY <2>1 DEF CreateRow
  <2>3. j = k BY <1>2, <2>2 DEF TypeOK
  <2>4. maxId'[k] = top[w] /\ covers'[k] = seen[w] BY <2>2, <2>3 DEF TypeOK
  <2> QED BY <2>1, <2>4 DEF CreateRow, SeenInv
<1> QED BY <1>1, <1>2

\* A step that leaves the variables of a reconciler alone.
Idle(q) == rpc'[q] = rpc[q] /\ batch'[q] = batch[q] /\ rrow'[q] = rrow[q]

\* The variables of a reconciler change in its own steps only.
LEMMA OwnReconcile ==
    ASSUME TypeOK, [Next]_vars, NEW q \in Reconcilers
    PROVE  \/ ReconcileSteps(q) \/ ReconcileError(q) \/ CrashReconcile(q)
           \/ Idle(q)
<1>1. UNCHANGED reconcile => Idle(q) BY DEF reconcile, Idle
<1>2. ASSUME NEW w \in Sweepers, RoundSteps(w) PROVE UNCHANGED reconcile
  BY <1>2 DEF RoundSteps, Candidates, TokenBalance, CountSwept, MarkSweptEmpty, RecordSkip, TakeLock,
     CountInflight, CheckBudget, MaxUnsweptDepositID, CreateRow, AcquireEnergy, BuildAndSign,
     StoreSigned, Send, Record, FailSweep, Unlock
<1>3. ASSUME NEW r \in Reconcilers, r # q, ReconcileSteps(r) \/ ReconcileError(r) \/ CrashReconcile(r)
      PROVE  Idle(q)
  <2>1. ASSUME NEW l, RKeep(r, l) \/ RNext(r) PROVE Idle(q)
    BY <1>3, <2>1 DEF TypeOK, RKeep, RNext, RGoto, Idle
  <2>2. CASE Reconcile(r) \/ ReadReceipt(r) \/ CrashReconcile(r)
    BY <1>3, <2>2 DEF TypeOK, Reconcile, ReadReceipt, CrashReconcile, RGoto, Idle
  <2>3. CASE ~(Reconcile(r) \/ ReadReceipt(r) \/ CrashReconcile(r))
    BY <1>3, <2>1, <2>3 DEF ReconcileSteps, EndReconcile, SettleAbsent, ExpireRow, Rebroadcast,
       RefuseRow, FailedOnChain, ConfirmRow, ReconcileError
  <2> QED BY <2>2, <2>3
<1>4. CASE ~\E r \in Reconcilers : ReconcileSteps(r) \/ ReconcileError(r) \/ CrashReconcile(r)
  <2>1. UNCHANGED reconcile
    BY <1>2, <1>4 DEF Next, vars, RoundError, SweepError, CrashRound, ConfirmDeposit, Include, Evict,
       ChainExpires, LocalExpires, Arrive, LockExpires
  <2> QED BY <1>1, <2>1
<1> QED BY <1>3, <1>4

\* How a reconciler comes to the rows it holds and to confirming one.
LEMMA ReconcilerFrame ==
    ASSUME TypeOK, [Next]_vars, NEW q \in Reconcilers
    PROVE  /\ \A k \in batch'[q] : k \in batch[q] \/ status[k] # "absent"
           /\ rpc'[q] \notin {"poll", "rows"} =>
                 \/ rpc[q] \notin {"poll", "rows"} /\ rrow'[q] = rrow[q]
                 \/ rrow'[q] \in batch[q]
           /\ rpc'[q] = "confirm" =>
                 \/ rpc[q] = "confirm" /\ rrow'[q] = rrow[q]
                 \/ rrow'[q] \in batch[q] /\ outcome[rrow'[q]] = "moved"
<1>1. CASE Idle(q) BY <1>1 DEF Idle
<1>2. CASE ReconcileError(q) \/ CrashReconcile(q)
  BY <1>2 DEF TypeOK, ReconcileError, CrashReconcile, RNext, RGoto
<1>3. CASE ReconcileSteps(q)
  <2>1. CASE Reconcile(q) BY <2>1 DEF TypeOK, Reconcile, RGoto, Signed
  <2>2. CASE ReadReceipt(q)
    <3>1. PICK k \in batch[q] :
             /\ batch' = [batch EXCEPT ![q] = @ \ {k}]
             /\ rrow' = [rrow EXCEPT ![q] = k]
             /\ RGoto(q, CASE outcome[k] = "none" -> "judge"
                           [] outcome[k] = "moved" -> "confirm"
                           [] OTHER -> "failed")
      BY <2>2 DEF ReadReceipt
    <3>2. batch'[q] = batch[q] \ {k} /\ rrow'[q] = k BY <3>1 DEF TypeOK
    <3>3. rpc'[q] = "confirm" => outcome[k] = "moved" BY <3>1 DEF TypeOK, RGoto
    <3> QED BY <3>2, <3>3
  <2>3. CASE SettleAbsent(q)
    BY <2>3 DEF TypeOK, SettleAbsent, Judged, RNext, RKeep, RGoto
  <2>4. CASE EndReconcile(q) \/ ExpireRow(q) \/ Rebroadcast(q) \/ RefuseRow(q) \/ FailedOnChain(q)
             \/ ConfirmRow(q)
    BY <2>4 DEF TypeOK, EndReconcile, ExpireRow, Rebroadcast, RefuseRow, FailedOnChain, ConfirmRow,
       RNext, RKeep, RGoto
  <2> QED BY <1>3, <2>1, <2>2, <2>3, <2>4 DEF ReconcileSteps
<1> QED BY <1>1, <1>2, <1>3, OwnReconcile

\* RowsInv: rows are never deleted, and a receipt tells what was moved.
LEMMA RowsStep == ASSUME BackedInv, [Next]_vars PROVE RowsInv'
<1> USE DEF BackedInv
<1> DEFINE Rowed == {"energy", "build", "store", "send", "record", "fail"}
<1>1. ASSUME NEW w \in Sweepers, pc'[w] \in Rowed
      PROVE  row'[w] \in Rows /\ status'[row'[w]] # "absent"
  <2>1. CASE CreateRow(w) BY <2>1 DEF TypeOK, CreateRow
  <2>2. CASE pc[w] \in Rowed /\ row'[w] = row[w]
    <3>1. row[w] \in Rows /\ status[row[w]] # "absent" BY <2>2 DEF RowsInv
    <3> QED BY <2>2, <3>1, RowsKept
  <2> QED BY <1>1, <2>1, <2>2, SweeperFrame
<1>2. ASSUME NEW r \in Reconcilers
      PROVE  \A k \in batch[r] : k \in Rows /\ status[k] # "absent" /\ status'[k] # "absent"
  BY RowsKept DEF RowsInv, TypeOK
<1>3. ASSUME NEW r \in Reconcilers, NEW k \in batch'[r] PROVE status'[k] # "absent"
  <2>1. k \in Rows BY ReconcilerFrame, <1>3, TypeStep DEF TypeOK
  <2> QED BY <1>2, <1>3, <2>1, ReconcilerFrame, RowsKept
<1>4. ASSUME NEW r \in Reconcilers, rpc'[r] \notin {"poll", "rows"}
      PROVE  rrow'[r] \in Rows /\ status'[rrow'[r]] # "absent"
  <2>1. CASE rpc[r] \notin {"poll", "rows"} /\ rrow'[r] = rrow[r]
    <3>1. rrow[r] \in Rows /\ status[rrow[r]] # "absent" BY <2>1 DEF RowsInv
    <3> QED BY <2>1, <3>1, RowsKept
  <2>2. CASE rrow'[r] \in batch[r] BY <1>2, <2>2
  <2> QED BY <1>4, <2>1, <2>2, ReconcilerFrame
<1>5. ASSUME NEW r \in Reconcilers, rpc'[r] = "confirm" PROVE Total[covers'[rrow'[r]]] <= moved'
  <2> DEFINE k == rrow'[r]
  <2>1. k \in Rows /\ status[k] # "absent" /\ Total[covers[k]] <= moved
    <3>1. CASE rpc[r] = "confirm" /\ rrow'[r] = rrow[r] BY <3>1 DEF RowsInv
    <3>2. CASE rrow'[r] \in batch[r] /\ outcome[rrow'[r]] = "moved" BY <1>2, <3>2 DEF ChainInv
    <3> QED BY <1>5, <3>1, <3>2, ReconcilerFrame
  <2>2. covers'[k] = covers[k] BY <2>1, RowsKept
  <2>3. Total[covers[k]] \in Nat /\ moved \in Nat BY <2>1, TotalAssumption DEF TypeOK
  <2> QED BY <2>1, <2>2, <2>3, MovedGrows
<1> QED BY <1>1, <1>3, <1>4, <1>5 DEF RowsInv

\* ChainInv: the amount of a row that is moved makes up for what its balance lacked.
LEMMA ChainStep == ASSUME BackedInv, [Next]_vars PROVE ChainInv'
<1> USE DEF BackedInv
<1> SUFFICES ASSUME NEW k \in Rows
             PROVE  /\ net'[k] # "none" => status'[k] # "absent"
                    /\ outcome'[k] = "moved" => status'[k] # "absent" /\ Total[covers'[k]] <= moved'
  BY DEF ChainInv
<1>1. net'[k] # "none" => status'[k] # "absent" BY NetKept, RowsKept DEF ChainInv
<1>2. ASSUME outcome'[k] = "moved" PROVE status'[k] # "absent" /\ Total[covers'[k]] <= moved'
  <2>1. status[k] # "absent" /\ Total[covers[k]] <= moved'
    <3>1. CASE outcome[k] = "moved"
      <4>1. status[k] # "absent" /\ Total[covers[k]] <= moved BY <3>1 DEF ChainInv
      <4>2. Total[covers[k]] \in Nat /\ moved \in Nat BY TotalAssumption DEF TypeOK
      <4> QED BY <4>1, <4>2, MovedGrows
    <3>2. CASE outcome[k] # "moved"
      <4>1. PICK j \in Rows : Include(j) BY <1>2, <3>2, WalletKept
      <4>2. PICK out : /\ outcome' = [outcome EXCEPT ![j] = out]
                       /\ moved' = IF out = "moved" THEN moved + amount[j] ELSE moved
        BY <4>1 DEF Include
      <4>3. j = k /\ out = "moved" BY <1>2, <3>2, <4>2 DEF TypeOK
      <4>4. moved' = moved + amount[k] /\ status[k] # "absent"
        BY <4>1, <4>2, <4>3 DEF Include, ChainInv
      <4>5. amount[k] \in Nat /\ moved \in Nat BY DEF TypeOK
      <4> QED BY <4>4, <4>5 DEF AmountInv
    <3> QED BY <3>1, <3>2
  <2> QED BY <2>1, RowsKept
<1> QED BY <1>1, <1>2

\* SweptWasMoved: markSweptEmpty writes off what a zero balance was seen to cover,
\* and Reconcile writes off deposits up to the id of a row that was moved.
LEMMA SweptStep == ASSUME IInv, [Next]_vars PROVE SweptWasMoved'
<1> USE DEF IInv, BackedInv
<1> SUFFICES ASSUME Bounded', NEW d \in swept' PROVE Total[d] <= moved'
  BY DEF SweptWasMoved
<1>1. Bounded BY RowsKept DEF Bounded
<1>2. d \in Deposits /\ d \in Ids /\ Total[d] \in Nat /\ moved \in Nat
  BY TypeStep, IdFacts, TotalAssumption DEF TypeOK
<1>3. SUFFICES Total[d] <= moved
  BY <1>2, <1>3, MovedGrows
<1>4. CASE d \in swept BY <1>1, <1>4 DEF SweptWasMoved
<1>5. ASSUME NEW w \in Sweepers, MarkSweptEmpty(w), d \notin swept PROVE Total[d] <= moved
  <2>1. pc[w] = "mark" /\ d \in confirmed BY <1>5 DEF MarkSweptEmpty
  <2>2. d <= seen[w] /\ bal[w] = 0 BY <2>1 DEF SeenInv, EmptyInv, Reading
  <2>3. seen[w] \in Ids /\ Total[seen[w]] \in Nat BY TotalAssumption DEF TypeOK
  <2>4. Total[seen[w]] <= bal[w] + moved BY <2>1 DEF ReadInv, Reading
  <2>5. Total[d] <= Total[seen[w]] BY <1>2, <2>2, <2>3, TotalMonotone
  <2> QED BY <1>2, <2>2, <2>3, <2>4, <2>5
<1>6. ASSUME NEW r \in Reconcilers, ConfirmRow(r), d \notin swept PROVE Total[d] <= moved
  <2> DEFINE k == rrow[r]
  <2>1. k \in Rows /\ status[k] # "absent" /\ Total[covers[k]] <= moved
    BY <1>6 DEF ConfirmRow, RowsInv
  <2>2. maxId[k] \in Ids /\ covers[k] \in Ids /\ Total[covers[k]] \in Nat
    BY <2>1, TotalAssumption DEF TypeOK
  <2>3. maxId[k] > 0 BY <1>1, <2>1, <2>2 DEF Bounded, Ids
  <2>4. d <= maxId[k] BY <1>6, <2>3 DEF ConfirmRow, Covered
  <2>5. maxId[k] <= covers[k] BY <2>1 DEF MaxIdInv
  <2>6. d <= covers[k]
    <3>1. d \in Nat /\ maxId[k] \in Nat /\ covers[k] \in Nat BY <1>2, <2>2, IdFacts
    <3> QED BY <2>4, <2>5, <3>1
  <2>7. Total[d] <= Total[covers[k]] BY <1>2, <2>2, <2>6, TotalMonotone
  <2> QED BY <1>2, <2>1, <2>2, <2>7
<1> QED BY <1>4, <1>5, <1>6, SweptKept

-----------------------------------------------------------------------------
(* The theorems.                                                           *)

\* No step of a sweeper, a reconciler, the scanner, the chain or a failure breaks
\* BackedInv, whatever the hazards ...
LEMMA NextBacked == BackedInv /\ [Next]_vars => BackedInv'
<1> SUFFICES ASSUME BackedInv, [Next]_vars PROVE BackedInv' OBVIOUS
<1>1. TypeOK' BY TypeStep
<1>2. BalanceInv' /\ ReadInv' /\ AmountInv' BY BalanceStep, ReadStep, AmountStep
<1>3. EmptyInv' /\ RowsInv' /\ ChainInv' BY EmptyStep, RowsStep, ChainStep
<1> QED BY <1>1, <1>2, <1>3 DEF BackedInv

\* ... nor the inductive invariant, unless a deposit is confirmed too fast.
LEMMA NextIInv == ASSUME "slowRead" \notin Hazards PROVE IInv /\ [Next]_vars => IInv'
<1> SUFFICES ASSUME IInv, [Next]_vars PROVE IInv' OBVIOUS
<1>1. BackedInv' BY NextBacked DEF IInv
<1>2. SeenInv' /\ MaxIdInv' /\ SweptWasMoved' BY SeenStep, MaxIdStep, SweptStep
<1> QED BY <1>1, <1>2 DEF IInv

\* What sweepers and reconcilers remember of balances, rows and receipts is backed
\* by units that are still at the address or already in the finance wallet.
THEOREM AmountsAreBacked == Spec => []BackedInv
<1>1. Init => BackedInv BY InitIInv DEF IInv
<1>2. BackedInv /\ [Next]_vars => BackedInv' BY NextBacked
<1> QED BY <1>1, <1>2, PTL DEF Spec

\* Besides, no row and no sweeper names a deposit beyond what it has seen.
THEOREM Invariance == ASSUME "slowRead" \notin Hazards PROVE Spec => []IInv
<1>1. Init => IInv BY InitIInv
<1>2. IInv /\ [Next]_vars => IInv' BY NextIInv
<1> QED BY <1>1, <1>2, PTL DEF Spec

\* No deposit is written off before its units, and those of every deposit before
\* it, are in the finance wallet, provided that every row recorded a deposit id:
\* for any number of sweep processes, deposits, rows and faults, with or without
\* refusals of bytes that were taken, late receipts and expiring locks.
THEOREM SweptDepositsWereMoved ==
    ASSUME "slowRead" \notin Hazards PROVE Spec => []SweptWasMoved
<1>1. Spec => []IInv BY Invariance
<1>2. IInv => SweptWasMoved BY DEF IInv
<1> QED BY <1>1, <1>2, PTL

-----------------------------------------------------------------------------
(* One live sweep.                                                         *)

\* The lock admits one sweeper.
LEMMA OneHolder ==
    ASSUME LockInv, NEW v \in Sweepers, NEW w \in Sweepers, pc[v] \in Locked, pc[w] \in Locked
    PROVE  v = w
  BY DEF LockInv

\* Where a sweeper goes on.
LEMMA Goes ==
    ASSUME TypeOK, NEW w \in Sweepers, NEW l, Goto(w, l) \/ Keep(w, l) PROVE pc'[w] = l
  BY DEF TypeOK, Goto, Keep

\* A sweeper that is done with the address is back at the start.
LEMMA Leaves == ASSUME TypeOK, NEW w \in Sweepers, Leave(w) PROVE pc'[w] = "poll"
  BY DEF TypeOK, Goto, Leave

\* Bytes that are handed to a node get into the pool, are refused or stay where
\* they are; without a lost answer a refusal for good is the truth.
LEMMA BroadcastMoves ==
    ASSUME TypeOK, NEW k \in Rows, NEW answer \in Answers, Broadcast(k, answer)
    PROVE  /\ \A j \in Rows : j # k => net'[j] = net[j]
           /\ \/ net'[k] = net[k]
              \/ net[k] = "signed" /\ ~dead[k] /\ net'[k] = "pool"
              \/ net[k] = "signed" /\ net'[k] = "void"
           /\ answer = "permanent" /\ "lostAnswer" \notin Hazards => net'[k] = "void"
<1>1. PICK where \in {"void", net[k], Taken(k)} :
           /\ net' = [net EXCEPT ![k] = where]
           /\ where = "void" => net[k] \in {"signed", "void"}
           /\ answer = "permanent" /\ "lostAnswer" \notin Hazards => where = "void"
  BY DEF Broadcast, Answers
<1> QED BY <1>1 DEF TypeOK, Taken

\* Where the bytes of a row can go in one step.
NetMove(k) ==
    \/ net'[k] = net[k]
    \/ /\ net[k] = "none" /\ net'[k] = "signed"
       /\ \E w \in Sweepers : pc[w] = "build" /\ pc'[w] = "store" /\ row[w] = k
    \/ net[k] = "signed" /\ net'[k] = "pool" /\ ~dead[k]
    \/ net[k] = "signed" /\ net'[k] = "void"
    \/ net[k] = "pool" /\ net'[k] \in {"packed", "signed"}

\* The bytes of a row only come to be in BuildAndSign, and nothing brings a refused
\* or a packed transfer back.
LEMMA NetMoves ==
    ASSUME BackedInv, LiveInv, [Next]_vars, NEW k \in Rows PROVE NetMove(k)
<1> USE DEF BackedInv, NetMove
<1>1. ASSUME NEW w \in Sweepers, RoundSteps(w) PROVE NetMove(k)
  <2>1. CASE BuildAndSign(w)
    <3>1. net[row[w]] = "none" /\ row[w] \in Rows /\ pc[w] = "build"
      BY <2>1 DEF BuildAndSign, LiveInv, BytesInv, RowsInv
    <3>2. net' = net \/ (net' = [net EXCEPT ![row[w]] = "signed"] /\ pc'[w] = "store")
      BY <2>1, Goes DEF BuildAndSign
    <3> QED BY <3>1, <3>2 DEF TypeOK
  <2>2. CASE Send(w)
    <3>1. row[w] \in Rows BY <2>2 DEF Send, RowsInv
    <3>2. PICK answer \in Answers : Broadcast(row[w], answer) BY <2>2 DEF Send
    <3> QED BY <3>1, <3>2, BroadcastMoves
  <2>3. CASE ~(BuildAndSign(w) \/ Send(w))
    BY <1>1, <2>3 DEF RoundSteps, Candidates, TokenBalance, CountSwept, MarkSweptEmpty, RecordSkip,
       TakeLock, CountInflight, CheckBudget, MaxUnsweptDepositID, CreateRow, AcquireEnergy,
       StoreSigned, Record, FailSweep, Unlock, chain
  <2> QED BY <2>1, <2>2, <2>3
<1>2. ASSUME NEW r \in Reconcilers, ReconcileSteps(r) PROVE NetMove(k)
  <2>1. CASE Rebroadcast(r)
    <3>1. rrow[r] \in Rows BY <2>1 DEF Rebroadcast, RowsInv
    <3>2. PICK answer \in Answers : Broadcast(rrow[r], answer) BY <2>1 DEF Rebroadcast
    <3> QED BY <3>1, <3>2, BroadcastMoves
  <2>2. CASE ~Rebroadcast(r)
    BY <1>2, <2>2 DEF ReconcileSteps, Reconcile, ReadReceipt, EndReconcile, SettleAbsent, ExpireRow,
       RefuseRow, FailedOnChain, ConfirmRow, chain
  <2> QED BY <2>1, <2>2
<1>3. ASSUME NEW j \in Rows, Include(j) \/ Evict(j) PROVE NetMove(k)
  BY <1>3 DEF TypeOK, Include, Evict
<1> QED
  BY <1>1, <1>2, <1>3 DEF Next, vars, RoundError, SweepError, CrashRound, ReconcileError,
     CrashReconcile, ConfirmDeposit, ChainExpires, LocalExpires, Arrive, LockExpires, chain

\* Block time does not run backwards, nor is a transfer executed outside a block,
\* and the local clock passes expired_at after the chain has passed the expiration.
LEMMA DeadKept ==
    ASSUME BackedInv, LiveInv, [Next]_vars, NEW k \in Rows
    PROVE  /\ dead[k] => dead'[k]
           /\ outcome'[k] # "none" => outcome[k] # "none" \/ net'[k] = "packed"
           /\ expired'[k] => expired[k] \/ dead[k]
<1> USE DEF BackedInv, TypeOK, chain
<1>1. CASE UNCHANGED <<dead, outcome, expired>> BY <1>1
<1>2. ASSUME NEW w \in Sweepers, Mine(w) PROVE UNCHANGED <<dead, outcome, expired>>
  BY <1>2 DEF Mine, RoundSteps, Candidates, TokenBalance, CountSwept, MarkSweptEmpty, RecordSkip,
     TakeLock, CountInflight, CheckBudget, MaxUnsweptDepositID, CreateRow, AcquireEnergy,
     BuildAndSign, StoreSigned, Send, Record, FailSweep, Unlock, RoundError, SweepError, CrashRound
<1>3. ASSUME NEW r \in Reconcilers, ReconcileSteps(r) PROVE UNCHANGED <<dead, outcome, expired>>
  BY <1>3 DEF ReconcileSteps, Reconcile, ReadReceipt, EndReconcile, SettleAbsent, ExpireRow,
     Rebroadcast, RefuseRow, FailedOnChain, ConfirmRow
<1>4. ASSUME NEW j \in Rows, Include(j)
      PROVE  /\ UNCHANGED <<dead, expired>>
             /\ outcome'[k] # "none" => outcome[k] # "none" \/ net'[k] = "packed"
  BY <1>4 DEF Include
<1>5. ASSUME NEW j \in Rows, ChainExpires(j) PROVE UNCHANGED <<outcome, expired>> /\ (dead[k] => dead'[k])
  BY <1>5, Zenon DEF ChainExpires
<1>6. ASSUME NEW j \in Rows, LocalExpires(j)
      PROVE  UNCHANGED <<outcome, dead>> /\ (expired'[k] => expired[k] \/ dead[k])
  BY <1>6 DEF LocalExpires
<1>7. CASE \/ \E r \in Reconcilers : ReconcileError(r) \/ CrashReconcile(r)
           \/ \E d \in Deposits : ConfirmDeposit(d)
           \/ \E j \in Rows : Evict(j)
           \/ Arrive \/ LockExpires \/ UNCHANGED vars
  BY <1>7 DEF ReconcileError, CrashReconcile, ConfirmDeposit, Evict, Arrive, LockExpires, vars
<1> QED BY <1>1, <1>2, <1>3, <1>4, <1>5, <1>6, <1>7 DEF Next, Mine

\* A txid is never lost, and only the sweeper of a row writes it.
LEMMA TxidKept ==
    ASSUME BackedInv, LiveInv, [Next]_vars, NEW k \in Rows
    PROVE  /\ txid[k] => txid'[k]
           /\ txid'[k] => \/ txid[k]
                          \/ \E w \in Sweepers : /\ pc[w] \in {"store", "record"} /\ row[w] = k
                                                 /\ pc'[w] # pc[w]
<1> USE DEF BackedInv, sweeps
<1>1. CASE UNCHANGED txid BY <1>1
<1>2. ASSUME NEW w \in Sweepers, StoreSigned(w) \/ Record(w)
      PROVE  /\ txid[k] => txid'[k]
             /\ txid'[k] => txid[k] \/ row[w] = k
  <2>1. PICK x : txid' = txid \/ (txid' = [txid EXCEPT ![row[w]] = x] /\ (txid[row[w]] => x))
    BY <1>2 DEF StoreSigned, Record
  <2> QED BY <2>1 DEF TypeOK
<1>3. ASSUME NEW w \in Sweepers, Mine(w), ~(StoreSigned(w) \/ Record(w)) PROVE UNCHANGED txid
  BY <1>3 DEF Mine, RoundSteps, Candidates, TokenBalance, CountSwept, MarkSweptEmpty, RecordSkip,
     TakeLock, CountInflight, CheckBudget, MaxUnsweptDepositID, CreateRow, AcquireEnergy,
     BuildAndSign, Send, FailSweep, Unlock, RoundError, SweepError, CrashRound
<1>4. ASSUME NEW r \in Reconcilers, ReconcileSteps(r) PROVE UNCHANGED txid
  BY <1>4 DEF ReconcileSteps, Reconcile, ReadReceipt, EndReconcile, SettleAbsent, ExpireRow,
     Rebroadcast, RefuseRow, FailedOnChain, ConfirmRow
<1>5. CASE ~(\E w \in Sweepers : Mine(w)) /\ ~(\E r \in Reconcilers : ReconcileSteps(r))
  BY <1>5 DEF Next, Mine, vars, ReconcileError, CrashReconcile, ConfirmDeposit, Include, Evict,
     ChainExpires, LocalExpires, Arrive, LockExpires
<1>6. ASSUME NEW w \in Sweepers, StoreSigned(w) \/ Record(w)
      PROVE  pc[w] \in {"store", "record"} /\ pc'[w] # pc[w]
  BY <1>6, Goes DEF StoreSigned, Record
<1> QED BY <1>1, <1>2, <1>3, <1>4, <1>5, <1>6

\* How the status of a row changes: a sweeper creates it or writes to its own row,
\* or it is settled, which only happens to a transfer that is not live.
StatusMove(k) ==
    \/ status'[k] = status[k]
    \/ /\ status'[k] \in InFlight
       /\ \E w \in Sweepers : pc[w] = "create" /\ pc'[w] = "energy" /\ row'[w] = k
    \/ /\ status'[k] \in InFlight
       /\ \E w \in Sweepers : pc[w] \in {"energy", "record"} /\ row[w] = k
    \/ /\ status'[k] \notin InFlight
       /\ ~Live(k) /\ UNCHANGED <<net, dead>>
       /\ txid[k] \/ \E w \in Sweepers : pc[w] = "fail" /\ row[w] = k

\* The status of a row is written by its sweeper, or when its transfer is over.
LEMMA StatusMoves ==
    ASSUME BackedInv, LiveInv, [Next]_vars, NEW k \in Rows PROVE StatusMove(k)
<1> USE DEF BackedInv, StatusMove
<1>1. CASE status'[k] = status[k] BY <1>1
<1>2. ASSUME NEW w \in Sweepers, CreateRow(w) PROVE StatusMove(k)
  <2>1. PICK j \in Rows : /\ status' = [status EXCEPT ![j] = "created"]
                          /\ row' = [row EXCEPT ![w] = j]
    BY <1>2 DEF CreateRow
  <2>2. pc[w] = "create" /\ pc'[w] = "energy" BY <1>2, Goes DEF CreateRow
  <2> QED BY <2>1, <2>2 DEF TypeOK, InFlight
<1>3. ASSUME NEW w \in Sweepers, AcquireEnergy(w) \/ Record(w) PROVE StatusMove(k)
  <2>1. \/ status' = status
        \/ \E x \in InFlight : status' = [status EXCEPT ![row[w]] = x]
    BY <1>3 DEF AcquireEnergy, Record, InFlight
  <2>2. pc[w] \in {"energy", "record"} BY <1>3 DEF AcquireEnergy, Record
  <2> QED BY <2>1, <2>2 DEF TypeOK
<1>4. ASSUME NEW w \in Sweepers, FailSweep(w) PROVE StatusMove(k)
  <2>1. status' = status \/ status' = [status EXCEPT ![row[w]] = "failed"]
    BY <1>4 DEF FailSweep, FailRow
  <2>2. pc[w] = "fail" /\ UNCHANGED <<net, dead>> BY <1>4 DEF FailSweep, chain
  <2>3. ~Live(row[w]) BY <2>2 DEF LiveInv, BytesInv, Live
  <2> QED BY <2>1, <2>2, <2>3 DEF TypeOK, InFlight
<1>5. ASSUME NEW w \in Sweepers, Mine(w),
             ~(CreateRow(w) \/ AcquireEnergy(w) \/ Record(w) \/ FailSweep(w))
      PROVE  UNCHANGED status
  BY <1>5 DEF Mine, RoundSteps, Candidates, TokenBalance, CountSwept, MarkSweptEmpty, RecordSkip,
     TakeLock, CountInflight, CheckBudget, MaxUnsweptDepositID, BuildAndSign, StoreSigned, Send,
     Unlock, RoundError, SweepError, CrashRound, sweeps
<1>6. ASSUME NEW r \in Reconcilers,
             ExpireRow(r) \/ RefuseRow(r) \/ FailedOnChain(r) \/ ConfirmRow(r)
      PROVE  StatusMove(k)
  <2> DEFINE j == rrow[r]
  <2>1. status' = status \/ \E x \in {"failed", "confirmed"} : status' = [status EXCEPT ![j] = x]
    <3>1. CASE ExpireRow(r) \/ RefuseRow(r) \/ FailedOnChain(r)
      BY <3>1 DEF ExpireRow, RefuseRow, FailRow, FailedOnChain
    <3>2. CASE ConfirmRow(r)
      <4>1. status' = [status EXCEPT ![j] = IF @ \in Signed THEN "confirmed" ELSE @]
        BY <3>2 DEF ConfirmRow
      <4>2. status' = [status EXCEPT ![j] = status[j]] => status' = status BY DEF TypeOK
      <4> QED BY <4>1, <4>2
    <3> QED BY <1>6, <3>1, <3>2
  <2>2. UNCHANGED <<net, dead>> BY <1>6 DEF ExpireRow, RefuseRow, FailedOnChain, ConfirmRow, chain
  <2>3. rpc[r] \in {"expire", "refuse", "failed", "confirm"}
    BY <1>6 DEF ExpireRow, RefuseRow, FailedOnChain, ConfirmRow
  <2>4. txid[j] /\ ~Live(j) BY <2>3 DEF LiveInv, ReceiptInv, Live
  <2> QED BY <2>1, <2>2, <2>4 DEF TypeOK, InFlight
<1>7. ASSUME NEW r \in Reconcilers, ReconcileSteps(r),
             ~(ExpireRow(r) \/ RefuseRow(r) \/ FailedOnChain(r) \/ ConfirmRow(r))
      PROVE  UNCHANGED status
  BY <1>7 DEF ReconcileSteps, Reconcile, ReadReceipt, EndReconcile, SettleAbsent, Rebroadcast, sweeps
<1>8. CASE ~(\E w \in Sweepers : Mine(w)) /\ ~(\E r \in Reconcilers : ReconcileSteps(r))
  <2>1. UNCHANGED status
    BY <1>8 DEF Next, Mine, vars, ReconcileError, CrashReconcile, ConfirmDeposit, Include, Evict,
       ChainExpires, LocalExpires, Arrive, LockExpires, sweeps
  <2> QED BY <2>1
<1> QED BY <1>1, <1>2, <1>3, <1>4, <1>5, <1>6, <1>7, <1>8

\* A transfer becomes live only when the sweeper of its row builds it.
LEMMA LiveMoves ==
    ASSUME BackedInv, LiveInv, [Next]_vars, NEW k \in Rows, Live(k)'
    PROVE  Live(k) \/ \E w \in Sweepers : pc[w] = "build" /\ row[w] = k
  BY NetMoves, DeadKept DEF NetMove, Live

\* HeldInv: nothing settles the row of a live transfer.
LEMMA HeldStep == ASSUME BackedInv, LiveInv, [Next]_vars PROVE HeldInv'
<1> SUFFICES ASSUME NEW k \in Rows
             PROVE  /\ Live(k)' => status'[k] \in InFlight
                    /\ txid'[k] => net'[k] # "none"
                    /\ outcome'[k] # "none" => net'[k] = "packed"
                    /\ expired'[k] => dead'[k]
  BY DEF HeldInv
<1>1. ASSUME Live(k)' PROVE status'[k] \in InFlight
  <2>1. CASE Live(k)
    <3>1. status[k] \in InFlight BY <2>1 DEF LiveInv, HeldInv
    <3> QED BY <2>1, <3>1, StatusMoves DEF StatusMove
  <2>2. ASSUME NEW w \in Sweepers, pc[w] = "build", row[w] = k PROVE status'[k] \in InFlight
    <3>1. status[k] \in InFlight /\ ~txid[k] BY <2>2 DEF LiveInv, BytesInv
    <3>2. \A v \in Sweepers : pc[v] # "fail"
      BY <2>2, OneHolder DEF LiveInv, Locked
    <3> QED BY <3>1, <3>2, StatusMoves DEF StatusMove
  <2> QED BY <1>1, <2>1, <2>2, LiveMoves
<1>2. ASSUME txid'[k] PROVE net'[k] # "none"
  <2>1. net[k] # "none" BY <1>2, TxidKept DEF LiveInv, HeldInv, BytesInv
  <2> QED BY <2>1, NetMoves DEF NetMove
<1>3. ASSUME outcome'[k] # "none" PROVE net'[k] = "packed"
  BY <1>3, NetMoves, DeadKept DEF LiveInv, HeldInv, NetMove
<1>4. ASSUME expired'[k] PROVE dead'[k] BY <1>4, DeadKept DEF LiveInv, HeldInv
<1> QED BY <1>1, <1>2, <1>3, <1>4

\* LockInv: a lock that does not run out under a sweep stays with its holder.
LEMMA LockStep ==
    ASSUME "slowSweep" \notin Hazards, BackedInv, LiveInv, [Next]_vars PROVE LockInv'
<1> USE DEF BackedInv
<1> SUFFICES ASSUME NEW v \in Sweepers, pc'[v] \in Locked PROVE lock' = v
  BY DEF LockInv
<1>1. CASE TakeLock(v)
  <2>1. pc'[v] = "poll" \/ lock' = v BY <1>1, Leaves DEF TakeLock
  <2> QED BY <2>1 DEF Locked
<1>2. CASE ~TakeLock(v)
  <2>1. pc[v] \in Locked
    <3>1. CASE Same(v) BY <3>1 DEF Same
    <3>2. CASE RoundError(v) \/ CrashRound(v)
      <4>1. pc'[v] = "poll" BY <3>2, Leaves DEF RoundError, CrashRound
      <4> QED BY <4>1 DEF Locked
    <3>3. CASE SweepError(v) BY <3>3 DEF SweepError, Locked
    <3>4. CASE RoundSteps(v)
      <4>1. CASE pc[v] \in Locked BY <4>1
      <4>2. CASE pc[v] \notin Locked
        <5>1. pc'[v] \in {"poll", "balance", "mark", "lock", "empty", "skip"}
          <6>1. CASE TokenBalance(v)
            <7>1. PICK l \in {"empty", "skip", "lock"} : Goto(v, l) BY <6>1 DEF TokenBalance
            <7> QED BY <7>1, Goes
          <6>2. CASE Candidates(v) \/ CountSwept(v)
            <7>1. Leave(v) \/ \E l \in {"balance", "poll", "mark"} : Keep(v, l)
              BY <6>2 DEF Candidates, CountSwept
            <7> QED BY <7>1, Goes, Leaves
          <6>3. CASE MarkSweptEmpty(v) \/ RecordSkip(v)
            BY <6>3, Goes, Leaves DEF MarkSweptEmpty, RecordSkip
          <6> QED
            BY <1>2, <3>4, <4>2, <6>1, <6>2, <6>3 DEF RoundSteps, CountInflight, CheckBudget,
               MaxUnsweptDepositID, CreateRow, AcquireEnergy, BuildAndSign, StoreSigned, Send,
               Record, FailSweep, Unlock, Locked
        <5> QED BY <5>1 DEF Locked
      <4> QED BY <4>1, <4>2
    <3> QED BY <3>1, <3>2, <3>3, <3>4, OwnRound DEF Mine
  <2>2. lock = v BY <2>1 DEF LiveInv, LockInv
  <2>3. ASSUME NEW w \in Sweepers, TakeLock(w) PROVE lock' = v
    BY <2>2, <2>3, SweeperAssumption DEF TakeLock
  <2>4. ASSUME NEW w \in Sweepers, Unlock(w) PROVE FALSE
    <3>1. w = v BY <2>1, <2>4, OneHolder DEF Unlock, Locked, LiveInv
    <3>2. pc'[v] = "poll" BY <2>4, <3>1, Leaves DEF Unlock
    <3> QED BY <3>2 DEF Locked
  <2>5. ~LockExpires BY <2>1, <2>2 DEF LockExpires
  <2>6. ASSUME NEW w \in Sweepers, Mine(w), ~(TakeLock(w) \/ Unlock(w)) PROVE UNCHANGED lock
    BY <2>6 DEF Mine, RoundSteps, Candidates, TokenBalance, CountSwept, MarkSweptEmpty, RecordSkip,
       CountInflight, CheckBudget, MaxUnsweptDepositID, CreateRow, AcquireEnergy, BuildAndSign,
       StoreSigned, Send, Record, FailSweep, RoundError, SweepError, CrashRound
  <2>7. ASSUME NEW r \in Reconcilers, ReconcileSteps(r) PROVE UNCHANGED lock
    BY <2>7 DEF ReconcileSteps, Reconcile, ReadReceipt, EndReconcile, SettleAbsent, ExpireRow,
       Rebroadcast, RefuseRow, FailedOnChain, ConfirmRow
  <2>8. CASE ~(\E w \in Sweepers : Mine(w)) /\ ~(\E r \in Reconcilers : ReconcileSteps(r))
    BY <2>2, <2>5, <2>8 DEF Next, Mine, vars, ReconcileError, CrashReconcile, ConfirmDeposit,
       Include, Evict, ChainExpires, LocalExpires, Arrive
  <2> QED BY <2>2, <2>3, <2>4, <2>6, <2>7, <2>8
<1> QED BY <1>1, <1>2

\* How a sweeper comes to the steps between the in-flight check and its new row.
LEMMA ClearFrame ==
    ASSUME TypeOK, [Next]_vars, NEW v \in Sweepers, pc'[v] \in {"budget", "top", "create"}
    PROVE  \/ pc[v] \in {"budget", "top", "create"}
           \/ pc[v] = "inflight" /\ Blocking = {} /\ UNCHANGED status
<1>1. CASE Same(v) BY <1>1 DEF Same
<1>2. CASE RoundError(v) \/ SweepError(v) \/ CrashRound(v)
  BY <1>2, Goes, Leaves DEF RoundError, SweepError, CrashRound
<1>3. CASE RoundSteps(v)
  <2>1. CASE CountInflight(v) BY <2>1, Goes DEF CountInflight, sweeps
  <2>2. CASE CheckBudget(v) \/ MaxUnsweptDepositID(v) BY <2>2 DEF CheckBudget, MaxUnsweptDepositID
  <2>3. CASE CreateRow(v) \/ AcquireEnergy(v) \/ BuildAndSign(v) \/ StoreSigned(v) \/ Send(v)
    BY <2>3, Goes DEF CreateRow, AcquireEnergy, BuildAndSign, StoreSigned, Send
  <2>4. CASE Record(v) \/ FailSweep(v) \/ Unlock(v)
    BY <2>4, Goes, Leaves DEF Record, FailSweep, Unlock
  <2>5. CASE Candidates(v) \/ CountSwept(v)
    <3>1. Leave(v) \/ \E l \in {"balance", "poll", "mark"} : Keep(v, l)
      BY <2>5 DEF Candidates, CountSwept
    <3> QED BY <3>1, Goes, Leaves
  <2>6. CASE TokenBalance(v)
    <3>1. PICK l \in {"empty", "skip", "lock"} : Goto(v, l) BY <2>6 DEF TokenBalance
    <3> QED BY <3>1, Goes
  <2>7. CASE MarkSweptEmpty(v) \/ RecordSkip(v) \/ TakeLock(v)
    BY <2>7, Goes, Leaves DEF MarkSweptEmpty, RecordSkip, TakeLock
  <2> QED BY <1>3, <2>1, <2>2, <2>3, <2>4, <2>5, <2>6, <2>7 DEF RoundSteps
<1> QED BY <1>1, <1>2, <1>3, OwnRound DEF Mine

\* A row that a step puts in flight belongs to the holder of the lock, which has
\* just created it while none was in flight, or was working on it already.
LEMMA OpenedRow ==
    ASSUME BackedInv, LiveInv, [Next]_vars, NEW k \in Rows,
           status'[k] \in InFlight, status[k] \notin InFlight
    PROVE  \E w \in Sweepers :
              \/ pc[w] = "create" /\ pc'[w] = "energy" /\ row'[w] = k
              \/ pc[w] \in {"energy", "record"} /\ row[w] = k
  BY StatusMoves DEF StatusMove

\* FlightInv: the check of CountInflight stays true under the lock.
LEMMA FlightStep == ASSUME BackedInv, LiveInv, [Next]_vars PROVE FlightInv'
<1> USE DEF BackedInv
<1>a. FlightInv /\ LockInv BY DEF LiveInv
<1>b. /\ {"budget", "top", "create", "energy", "record", "inflight"} \subseteq Locked
      /\ Working \subseteq Locked /\ {"energy", "record"} \subseteq Working
  BY DEF Locked, Working
<1>1. ASSUME NEW j \in Rows, NEW k \in Rows, status'[j] \in InFlight, status'[k] \in InFlight
      PROVE  j = k
  <2>1. CASE status[j] \in InFlight /\ status[k] \in InFlight BY <1>a, <2>1 DEF FlightInv
  <2>2. ASSUME NEW x \in Rows, NEW y \in Rows, status'[x] \in InFlight, status[x] \notin InFlight,
               status'[y] \in InFlight
        PROVE  x = y
    <3>1. PICK w \in Sweepers : \/ pc[w] = "create" /\ pc'[w] = "energy" /\ row'[w] = x
                                \/ pc[w] \in {"energy", "record"} /\ row[w] = x
      BY <2>2, OpenedRow
    <3>2. CASE status[y] \in InFlight BY <1>a, <1>b, <3>1, <3>2 DEF FlightInv
    <3>3. CASE status[y] \notin InFlight
      <4>1. PICK v \in Sweepers : \/ pc[v] = "create" /\ pc'[v] = "energy" /\ row'[v] = y
                                  \/ pc[v] \in {"energy", "record"} /\ row[v] = y
        BY <2>2, <3>3, OpenedRow
      <4>2. v = w BY <1>a, <1>b, <3>1, <4>1, OneHolder
      <4> QED BY <3>1, <4>1, <4>2
    <3> QED BY <3>2, <3>3
  <2> QED BY <1>1, <2>1, <2>2
<1>2. ASSUME NEW v \in Sweepers, NEW k \in Rows, status'[k] \in InFlight,
             pc'[v] \in {"budget", "top", "create"}
      PROVE  FALSE
  <2>1. CASE pc[v] = "inflight" /\ Blocking = {} /\ UNCHANGED status
    BY <1>2, <2>1 DEF Blocking
  <2>2. CASE pc[v] \in {"budget", "top", "create"}
    <3>1. status[k] \notin InFlight BY <1>a, <2>2 DEF FlightInv
    <3>2. PICK w \in Sweepers : \/ pc[w] = "create" /\ pc'[w] = "energy" /\ row'[w] = k
                                \/ pc[w] \in {"energy", "record"} /\ row[w] = k
      BY <1>2, <3>1, OpenedRow
    <3>3. v = w BY <1>a, <1>b, <2>2, <3>2, OneHolder
    <3> QED BY <1>2, <2>2, <3>2, <3>3
  <2> QED BY <1>2, <2>1, <2>2, ClearFrame
<1>3. ASSUME NEW v \in Sweepers, NEW k \in Rows, status'[k] \in InFlight, pc'[v] \in Working
      PROVE  row'[v] = k
  <2>1. CASE CreateRow(v)
    <3>1. PICK j \in Rows : /\ status' = [status EXCEPT ![j] = "created"]
                            /\ row' = [row EXCEPT ![v] = j]
      BY <2>1 DEF CreateRow
    <3>2. status[k] \notin InFlight BY <1>a, <2>1 DEF FlightInv, CreateRow
    <3> QED BY <1>3, <3>1, <3>2 DEF TypeOK
  <2>2. CASE pc[v] \in Working /\ row'[v] = row[v]
    <3>1. CASE status[k] \in InFlight BY <1>a, <2>2, <3>1 DEF FlightInv
    <3>2. CASE status[k] \notin InFlight
      <4>1. PICK w \in Sweepers : \/ pc[w] = "create" /\ pc'[w] = "energy" /\ row'[w] = k
                                  \/ pc[w] \in {"energy", "record"} /\ row[w] = k
        BY <1>3, <3>2, OpenedRow
      <4>2. v = w BY <1>a, <1>b, <2>2, <4>1, OneHolder
      <4> QED BY <2>2, <4>1, <4>2 DEF Working
    <3> QED BY <3>1, <3>2
  <2> QED BY <1>3, <2>1, <2>2, SweeperFrame DEF Working
<1> QED BY <1>1, <1>2, <1>3 DEF FlightInv

\* What every step leaves of the bytes of a row that another one works on.
LEMMA RowUntouched ==
    ASSUME BackedInv, LiveInv, [Next]_vars, NEW v \in Sweepers, pc[v] \in Working, Same(v)
    PROVE  /\ net[row[v]] = "none" => net'[row[v]] = "none"
           /\ ~txid[row[v]] => ~txid'[row[v]]
           /\ ~txid[row[v]] /\ pc[v] # "fail" /\ status[row[v]] \in InFlight =>
                 status'[row[v]] \in InFlight
<1> DEFINE k == row[v]
<1>1. k \in Rows BY DEF BackedInv, RowsInv, Working
<1>2. LockInv BY DEF LiveInv
<1>3. pc[v] \in Locked BY DEF Working, Locked
<1>4. ASSUME NEW w \in Sweepers, pc[w] \in {"build", "store", "record", "fail"} PROVE w = v
  BY <1>2, <1>3, <1>4, OneHolder DEF Locked
<1> HIDE DEF k
<1>5. net[k] = "none" => net'[k] = "none"
  BY <1>1, <1>4, NetMoves DEF NetMove, Same
<1>6. ~txid[k] => ~txid'[k]
  BY <1>1, <1>4, TxidKept DEF Same
<1>7. ~txid[k] /\ pc[v] # "fail" /\ status[k] \in InFlight => status'[k] \in InFlight
  BY <1>1, <1>4, StatusMoves DEF StatusMove
<1> QED BY <1>5, <1>6, <1>7 DEF k

\* Refused, packed and built bytes stay so.
LEMMA NetStays ==
    ASSUME BackedInv, LiveInv, [Next]_vars, NEW k \in Rows
    PROVE  /\ net[k] # "none" => net'[k] # "none"
           /\ net[k] \in {"void", "packed"} => net'[k] = net[k]
  BY NetMoves DEF NetMove

\* BytesInv: what a sweeper knows of its bytes stays true while others move ...
LEMMA BytesSame ==
    ASSUME BackedInv, LiveInv, [Next]_vars, NEW v \in Sweepers, Same(v) PROVE BytesInv(v)'
<1> DEFINE k == row[v]
<1>1. BytesInv(v) BY DEF LiveInv
<1>2. CASE pc[v] \notin Working BY <1>2 DEF BytesInv, Same, Working
<1>3. CASE pc[v] \in Working
  <2>1. k \in Rows BY <1>3 DEF BackedInv, RowsInv, Working
  <2>2. /\ net[k] = "none" => net'[k] = "none"
        /\ ~txid[k] => ~txid'[k]
        /\ ~txid[k] /\ pc[v] # "fail" /\ status[k] \in InFlight => status'[k] \in InFlight
    BY <1>3, RowUntouched
  <2>3. /\ net[k] # "none" => net'[k] # "none"
        /\ net[k] = "void" => net'[k] = "void"
    BY <2>1, NetStays
  <2>4. pc'[v] = pc[v] /\ row'[v] = k /\ note'[v] = note[v] BY DEF Same
  <2> HIDE DEF k
  <2>5. /\ pc[v] \in {"energy", "build", "store"} => status[k] \in InFlight /\ ~txid[k]
        /\ pc[v] \in {"energy", "build"} => net[k] = "none"
        /\ pc[v] \in {"store", "send", "record"} => net[k] # "none"
        /\ pc[v] = "record" /\ note[v] = "permanent" => net[k] = "void"
        /\ pc[v] = "fail" => net[k] \in {"none", "void"}
    BY <1>1 DEF BytesInv, k
  <2> QED BY <2>2, <2>3, <2>4, <2>5 DEF BytesInv
<1> QED BY <1>2, <1>3

\* ... and while it works itself.
LEMMA BytesMine ==
    ASSUME "lostAnswer" \notin Hazards, BackedInv, LiveInv, [Next]_vars, NEW v \in Sweepers, Mine(v)
    PROVE  BytesInv(v)'
<1> USE DEF BackedInv
<1> DEFINE k == row[v]
<1>1. BytesInv(v) BY DEF LiveInv
<1>2. CASE CreateRow(v)
  <2>1. PICK j \in Rows : /\ status[j] = "absent" /\ status' = [status EXCEPT ![j] = "created"]
                          /\ row' = [row EXCEPT ![v] = j]
    BY <1>2 DEF CreateRow
  <2>2. pc'[v] = "energy" /\ UNCHANGED <<net, txid>> BY <1>2, Goes DEF CreateRow, chain
  <2>3. net[j] = "none" BY <2>1 DEF ChainInv
  <2>4. ~txid[j] BY <2>1, <2>3 DEF LiveInv, HeldInv
  <2>5. row'[v] = j /\ status'[j] \in InFlight BY <2>1 DEF TypeOK, InFlight
  <2> QED BY <2>2, <2>3, <2>4, <2>5 DEF BytesInv
<1>3. CASE AcquireEnergy(v)
  <2>1. k \in Rows /\ status[k] \in InFlight /\ ~txid[k] /\ net[k] = "none"
    BY <1>1, <1>3 DEF AcquireEnergy, BytesInv, RowsInv
  <2>2. status' = status \/ status' = [status EXCEPT ![k] = "energyOK"] BY <1>3 DEF AcquireEnergy
  <2>3. status'[k] \in InFlight BY <2>1, <2>2 DEF TypeOK, InFlight
  <2>4. pc'[v] \in {"build", "fail"} /\ row'[v] = k /\ UNCHANGED <<net, txid>>
    BY <1>3, Goes DEF AcquireEnergy, Keep, chain
  <2> QED BY <2>1, <2>3, <2>4 DEF BytesInv
<1>4. CASE BuildAndSign(v)
  <2>1. k \in Rows /\ status[k] \in InFlight /\ ~txid[k] /\ net[k] = "none"
    BY <1>1, <1>4 DEF BuildAndSign, BytesInv, RowsInv
  <2>2. \/ net'[k] = "signed" /\ pc'[v] = "store"
        \/ UNCHANGED net /\ pc'[v] = "fail"
    BY <1>4, <2>1, Goes DEF BuildAndSign, TypeOK
  <2>3. row'[v] = k /\ UNCHANGED <<status, txid>> BY <1>4 DEF BuildAndSign, Keep, sweeps
  <2> QED BY <2>1, <2>2, <2>3 DEF BytesInv
<1>5. CASE StoreSigned(v)
  <2>1. pc'[v] = "send" /\ row'[v] = k /\ UNCHANGED net BY <1>5, Goes DEF StoreSigned, Keep, chain
  <2>2. net[k] # "none" BY <1>1, <1>5 DEF StoreSigned, BytesInv
  <2> QED BY <2>1, <2>2 DEF BytesInv
<1>6. CASE Send(v)
  <2>1. k \in Rows /\ net[k] # "none" BY <1>1, <1>6 DEF Send, BytesInv, RowsInv
  <2>2. PICK answer \in Answers : Broadcast(k, answer) /\ note' = [note EXCEPT ![v] = answer]
    BY <1>6 DEF Send
  <2>3. pc'[v] = "record" /\ row'[v] = k BY <1>6, Goes DEF Send
  <2>4. note'[v] = answer BY <2>2 DEF TypeOK
  <2>5. net'[k] # "none" BY <2>1, NetStays
  <2>6. answer = "permanent" => net'[k] = "void" BY <2>1, <2>2, BroadcastMoves
  <2> QED BY <2>3, <2>4, <2>5, <2>6 DEF BytesInv
<1>7. CASE Record(v)
  <2>1. row'[v] = k /\ UNCHANGED net BY <1>7 DEF Record, Keep, chain
  <2>2. pc'[v] = "unlock" \/ (pc'[v] = "fail" /\ note[v] = "permanent")
    BY <1>7, Goes DEF Record
  <2>3. note[v] = "permanent" => net[k] = "void" BY <1>1, <1>7 DEF Record, BytesInv
  <2> QED BY <2>1, <2>2, <2>3 DEF BytesInv
<1>8. CASE ~(CreateRow(v) \/ AcquireEnergy(v) \/ BuildAndSign(v) \/ StoreSigned(v) \/ Send(v)
             \/ Record(v))
  <2>1. pc'[v] \notin Working
    <3>1. CASE RoundError(v) \/ SweepError(v) \/ CrashRound(v)
      BY <3>1, Goes, Leaves DEF RoundError, SweepError, CrashRound, Working
    <3>2. CASE FailSweep(v) \/ Unlock(v) \/ MarkSweptEmpty(v) \/ RecordSkip(v) \/ TakeLock(v)
      BY <3>2, Goes, Leaves DEF FailSweep, Unlock, MarkSweptEmpty, RecordSkip, TakeLock, Working
    <3>3. CASE Candidates(v) \/ CountSwept(v) \/ CountInflight(v) \/ CheckBudget(v)
      <4>1. Leave(v) \/ \E l \in {"balance", "poll", "mark", "budget", "unlock", "top"} : Keep(v, l)
        BY <3>3 DEF Candidates, CountSwept, CountInflight, CheckBudget
      <4> QED BY <4>1, Goes, Leaves DEF Working
    <3>4. CASE TokenBalance(v) \/ MaxUnsweptDepositID(v)
      <4>1. PICK l \in {"empty", "skip", "lock", "create"} : Goto(v, l)
        BY <3>4 DEF TokenBalance, MaxUnsweptDepositID
      <4> QED BY <4>1, Goes DEF Working
    <3> QED BY <1>8, <3>1, <3>2, <3>3, <3>4 DEF Mine, RoundSteps
  <2> QED BY <2>1 DEF BytesInv, Working
<1> QED BY <1>2, <1>3, <1>4, <1>5, <1>6, <1>7, <1>8

\* ReceiptInv: receipts, refusals and expirations that a reconciler has read do
\* not change any more.
LEMMA ReceiptStep ==
    ASSUME "lostAnswer" \notin Hazards, BackedInv, LiveInv, [Next]_vars, NEW q \in Reconcilers
    PROVE  ReceiptInv(q)'
<1> USE DEF BackedInv
<1>a. ReceiptInv(q) /\ HeldInv BY DEF LiveInv
<1>b. \A k \in Rows : /\ txid[k] => txid'[k]
                      /\ dead[k] => dead'[k]
                      /\ net[k] \in {"void", "packed"} => net'[k] = net[k]
  BY TxidKept, DeadKept, NetStays
<1>c. batch[q] \subseteq Rows BY DEF TypeOK
<1>d. rpc[q] \notin {"poll", "rows"} => rrow[q] \in Rows BY DEF RowsInv
<1>1. CASE Idle(q) BY <1>1, <1>a, <1>b, <1>c, <1>d DEF Idle, ReceiptInv
<1>2. CASE Reconcile(q)
  <2>1. batch'[q] = {k \in Rows : status[k] \in Signed /\ txid[k]} BY <1>2 DEF Reconcile, TypeOK
  <2>2. rpc'[q] \in {"poll", "rows"} BY <1>2 DEF Reconcile, RGoto, TypeOK
  <2> QED BY <1>b, <2>1, <2>2 DEF ReceiptInv
<1>3. CASE ReadReceipt(q)
  <2>1. PICK k \in batch[q] :
             /\ batch' = [batch EXCEPT ![q] = @ \ {k}]
             /\ rrow' = [rrow EXCEPT ![q] = k]
             /\ RGoto(q, CASE outcome[k] = "none" -> "judge"
                           [] outcome[k] = "moved" -> "confirm"
                           [] OTHER -> "failed")
    BY <1>3 DEF ReadReceipt
  <2>2. batch'[q] = batch[q] \ {k} /\ rrow'[q] = k BY <2>1 DEF TypeOK
  <2>3. /\ rpc'[q] \in {"judge", "confirm", "failed"}
        /\ rpc'[q] \in {"failed", "confirm"} => outcome[k] # "none"
    BY <2>1 DEF TypeOK, RGoto
  <2>4. k \in Rows /\ txid[k] BY <1>a, <1>c DEF ReceiptInv
  <2>5. rpc'[q] \in {"failed", "confirm"} => net[k] = "packed" BY <1>a, <2>3, <2>4 DEF HeldInv
  <2>6. \A j \in batch'[q] : txid'[j] BY <1>a, <1>b, <1>c, <2>2 DEF ReceiptInv
  <2> QED BY <1>b, <2>2, <2>3, <2>4, <2>5, <2>6 DEF ReceiptInv
<1>4. CASE SettleAbsent(q)
  <2>1. rpc[q] = "judge" /\ rrow[q] \in Rows /\ txid[rrow[q]] /\ batch' = batch
    BY <1>4, <1>a, <1>d DEF SettleAbsent, ReceiptInv, RNext, RKeep
  <2>2. \/ rpc'[q] = "rows"
        \/ rpc'[q] = "resend" /\ rrow' = rrow
        \/ rpc'[q] = "expire" /\ rrow' = rrow /\ expired[rrow[q]]
    BY <1>4 DEF SettleAbsent, Judged, RNext, RKeep, RGoto, TypeOK
  <2>3. expired[rrow[q]] => dead[rrow[q]] BY <1>a, <2>1 DEF HeldInv
  <2>4. \A j \in batch'[q] : txid'[j] BY <1>a, <1>b, <1>c, <2>1 DEF ReceiptInv
  <2> QED BY <1>b, <2>1, <2>2, <2>3, <2>4 DEF ReceiptInv
<1>5. CASE Rebroadcast(q)
  <2>1. rrow[q] \in Rows /\ txid[rrow[q]] /\ batch' = batch
    BY <1>5, <1>a, <1>d DEF Rebroadcast, ReceiptInv, RNext, RKeep
  <2>2. PICK answer \in Answers :
             /\ Broadcast(rrow[q], answer)
             /\ IF answer = "permanent" THEN RKeep(q, "refuse") ELSE RNext(q)
    BY <1>5 DEF Rebroadcast
  <2>3. \/ rpc'[q] = "rows"
        \/ rpc'[q] = "refuse" /\ rrow' = rrow /\ answer = "permanent"
    BY <2>2 DEF RNext, RKeep, RGoto, TypeOK
  <2>4. answer = "permanent" => net'[rrow[q]] = "void" BY <2>1, <2>2, BroadcastMoves
  <2>5. \A j \in batch'[q] : txid'[j] BY <1>a, <1>b, <1>c, <2>1 DEF ReceiptInv
  <2> QED BY <1>b, <2>1, <2>3, <2>4, <2>5 DEF ReceiptInv
<1>6. CASE \/ EndReconcile(q) \/ ExpireRow(q) \/ RefuseRow(q) \/ FailedOnChain(q) \/ ConfirmRow(q)
           \/ ReconcileError(q) \/ CrashReconcile(q)
  <2>1. rpc'[q] \in {"poll", "rows"} /\ (batch'[q] = batch[q] \/ batch'[q] = {})
    BY <1>6 DEF TypeOK, EndReconcile, ExpireRow, RefuseRow, FailedOnChain, ConfirmRow,
       ReconcileError, CrashReconcile, RNext, RKeep, RGoto
  <2>2. \A j \in batch'[q] : txid'[j] BY <1>a, <1>b, <1>c, <2>1 DEF ReceiptInv
  <2> QED BY <2>1, <2>2 DEF ReceiptInv
<1> QED BY <1>1, <1>2, <1>3, <1>4, <1>5, <1>6, OwnReconcile DEF ReconcileSteps

\* No second transfer is built while one can still be included, for any number of
\* sweep processes, reconcilers, rows and faults and through every crash, failed
\* write and reopened row, as long as no node denies bytes that another one has
\* taken and the lock outlives the sweep that took it.
THEOREM OneSweepAtATime ==
    ASSUME "lostAnswer" \notin Hazards, "slowSweep" \notin Hazards
    PROVE  Spec => []OneLiveSweep
<1>1. Init => LiveInv
  <2> SUFFICES ASSUME Init PROVE LiveInv OBVIOUS
  <2>1. LockInv /\ FlightInv BY DEF Init, LockInv, FlightInv, Locked, Working, InFlight
  <2>2. HeldInv BY DEF Init, HeldInv, Live
  <2>3. \A w \in Sweepers : BytesInv(w) BY DEF Init, BytesInv
  <2>4. \A r \in Reconcilers : ReceiptInv(r) BY DEF Init, ReceiptInv
  <2> QED BY <2>1, <2>2, <2>3, <2>4 DEF LiveInv
<1>2. ASSUME BackedInv, LiveInv, [Next]_vars PROVE LiveInv'
  <2>1. LockInv' /\ FlightInv' /\ HeldInv' BY <1>2, LockStep, FlightStep, HeldStep
  <2>2. \A w \in Sweepers : BytesInv(w)'
    BY <1>2, BytesSame, BytesMine, OwnRound DEF BackedInv
  <2>3. \A r \in Reconcilers : ReceiptInv(r)' BY <1>2, ReceiptStep
  <2> QED BY <2>1, <2>2, <2>3 DEF LiveInv
<1>3. LiveInv => OneLiveSweep BY DEF LiveInv, HeldInv, FlightInv, OneLiveSweep
<1> QED BY <1>1, <1>2, <1>3, AmountsAreBacked, PTL DEF Spec

=============================================================================
