---------------------------- MODULE TopupProofs ----------------------------
(***************************************************************************)
(* TLAPS proofs about Topup: the inductive invariant, and from it that two *)
(* refills are never on their way at once, that the record agrees with the *)
(* chain and that the daily caps hold, for every number of processes,      *)
(* rows, days and faults and for every configuration of the watermarks and *)
(* caps.                                                                   *)
(***************************************************************************)
EXTENDS Topup, SumLemmas

RowType ==
    [status : Statuses, amount : Nat, trigger : Nat, day : Nat, sent : BOOLEAN]

\* What the three writes of a row's columns leave: the status written, a row of
\* the type, and every other row as it was.
Wrote(i, s) ==
    /\ rows' \in [Ids -> RowType]
    /\ rows'[i].status = s
    /\ \A j \in Ids : j # i => rows'[j] = rows[j]

LEMMA StatusWrite ==
  ASSUME TypeOK, NEW i \in Ids, NEW s \in Statuses,
         rows' = [rows EXCEPT ![i].status = s]
  PROVE  Wrote(i, s)
<1>1. rows \in [Ids -> RowType] /\ rows[i] \in RowType
  BY DEF TypeOK, RowType
<1>2. [rows[i] EXCEPT !.status = s] \in RowType
  BY <1>1 DEF RowType
<1>3. rows' = [rows EXCEPT ![i] = [rows[i] EXCEPT !.status = s]]
  OBVIOUS
<1> HIDE DEF RowType
<1>4. rows' \in [Ids -> RowType] /\ rows'[i] = [rows[i] EXCEPT !.status = s]
  BY <1>1, <1>2, <1>3
<1>5. rows'[i].status = s
  BY <1>1, <1>4 DEF RowType
<1>6. \A j \in Ids : j # i => rows'[j] = rows[j]
  BY <1>1, <1>3
<1> QED
  BY <1>4, <1>5, <1>6 DEF Wrote

LEMMA SentWrite ==
  ASSUME TypeOK, NEW i \in Ids,
         rows' = [rows EXCEPT ![i].status = "broadcast", ![i].sent = TRUE]
  PROVE  Wrote(i, "broadcast")
<1> DEFINE r == [[rows[i] EXCEPT !.status = "broadcast"] EXCEPT !.sent = TRUE]
<1>1. rows \in [Ids -> RowType] /\ rows[i] \in RowType
  BY DEF TypeOK, RowType
<1>2. r \in RowType /\ r.status = "broadcast"
  BY <1>1 DEF RowType, Statuses, Open
<1>3. rows' = [rows EXCEPT ![i] = r]
  BY <1>1
<1> HIDE DEF r
<1>4. rows' \in [Ids -> RowType] /\ rows'[i] = r
  BY <1>1, <1>2, <1>3
<1>5. \A j \in Ids : j # i => rows'[j] = rows[j]
  BY <1>1, <1>3
<1> QED
  BY <1>2, <1>4, <1>5 DEF Wrote

LEMMA InitIInv == Init => IInv
<1> SUFFICES ASSUME Init PROVE IInv
  OBVIOUS
<1> USE AmountAssumption, ProcessAssumption DEF Init, NoRow, NoSnap, Ids
<1>1. TypeOK
  BY DEF TypeOK, Statuses, Open
<1>2. LockInv /\ AtInv /\ SnapInv
  BY DEF LockInv, AtInv, SnapInv, Sending
<1>3. OpenInv /\ RecordIsTrue
  BY DEF OpenInv, RecordIsTrue
<1> QED
  BY <1>1, <1>2, <1>3 DEF IInv

LEMMA CheckKeeps ==
  ASSUME IInv, NEW p \in Processes, Check(p)
  PROVE  IInv'
<1> USE AmountAssumption, BoundAssumption, ProcessAssumption DEF IInv, Check, world, checks, recons
<1>1. TypeOK'
  BY DEF TypeOK
<1>2. LockInv'
  BY DEF TypeOK, LockInv, Sending
<1>3. AtInv'
  BY DEF TypeOK, LockInv, AtInv, OpenInv, Sending
<1>4. OpenInv'
  BY DEF TypeOK, OpenInv
<1>5. SnapInv'
  BY DEF TypeOK, SnapInv
<1>6. RecordIsTrue'
  BY DEF TypeOK, RecordIsTrue
<1> QED
  BY <1>1, <1>2, <1>3, <1>4, <1>5, <1>6 DEF IInv

LEMMA TakeLockKeeps ==
  ASSUME IInv, NEW p \in Processes, TakeLock(p)
  PROVE  IInv'
<1> USE ProcessAssumption DEF IInv, world, recons
<1>1. UNCHANGED <<rows, day, world, recons, faults>> /\ pc[p] = "lock"
  BY DEF TakeLock
<1>2. CASE /\ lock = NoProcess
           /\ lock' = p
           /\ pc' = [pc EXCEPT ![p] = "guard"]
           /\ UNCHANGED <<seen, at>>
  <2>1. TypeOK'
    BY <1>1, <1>2 DEF TypeOK
  <2>2. LockInv'
    BY <1>1, <1>2 DEF TypeOK, LockInv, Sending
  <2>3. AtInv' /\ OpenInv' /\ SnapInv' /\ RecordIsTrue'
    BY <1>1, <1>2 DEF TypeOK, AtInv, OpenInv, SnapInv, RecordIsTrue, Sending
  <2> QED
    BY <2>1, <2>2, <2>3
<1>3. CASE Leave(p) /\ UNCHANGED lock
  <2>1. TypeOK'
    BY <1>1, <1>3 DEF Leave, TypeOK
  <2>2. LockInv'
    BY <1>1, <1>3 DEF Leave, TypeOK, LockInv, Sending
  <2>3. AtInv' /\ OpenInv' /\ SnapInv' /\ RecordIsTrue'
    BY <1>1, <1>3 DEF Leave, TypeOK, AtInv, OpenInv, SnapInv, RecordIsTrue, Sending
  <2> QED
    BY <2>1, <2>2, <2>3
<1> QED
  BY <1>2, <1>3 DEF TakeLock

\* What leaving the check loop under the lock does to the loop's own state.
LEMMA UnlockKeeps ==
  ASSUME TypeOK, LockInv, NEW p \in Processes, pc[p] \in {"guard"} \cup Sending, Unlock(p)
  PROVE  /\ lock' \in Processes \cup {NoProcess}
         /\ pc' \in [Processes -> {"idle", "lock", "guard", "build", "send", "record"}]
         /\ seen' \in [Processes -> Nat]
         /\ at' \in [Processes -> Ids \cup {0}]
         /\ \A q \in Processes : pc'[q] \notin {"guard"} \cup Sending
<1>1. \A q \in Processes : q # p => pc[q] \notin {"guard"} \cup Sending
  BY DEF LockInv
<1>2. \A q \in Processes : q # p => pc'[q] = pc[q]
  BY DEF Unlock, Leave, TypeOK
<1>3. pc'[p] = "idle"
  BY DEF Unlock, Leave, TypeOK
<1>4. \A q \in Processes : pc'[q] \notin {"guard"} \cup Sending
  BY <1>1, <1>2, <1>3 DEF Sending
<1> QED
  BY <1>4 DEF Unlock, Leave, TypeOK

\* Writing a row that no process is about to send: the conjuncts about rows.
LEMMA InsertKeeps ==
  ASSUME IInv, NEW i \in Ids, Wrote(i, "created"), rows[i].status = "none",
         ~GuardPending, tx' = tx
  PROVE  OpenInv' /\ RecordIsTrue'
<1>1. \A j \in Ids : rows[j].status \notin Open
  BY DEF GuardPending
<1>2. \A j \in Ids : j # i => rows'[j] = rows[j] /\ rows'[j].status \notin Open
  BY <1>1 DEF Wrote
<1>3. rows'[i].status = "created" /\ tx[i] = "none"
  BY DEF Wrote, IInv, OpenInv
<1>4. OpenInv'
  BY <1>2, <1>3 DEF OpenInv, IInv, Open
<1>5. RecordIsTrue'
  BY <1>2, <1>3 DEF RecordIsTrue, IInv
<1> QED
  BY <1>4, <1>5

LEMMA RefillKeeps ==
  ASSUME IInv, NEW p \in Processes, Refill(p)
  PROVE  IInv'
<1> DEFINE amount == Capped(Target - seen[p])
<1>1. UNCHANGED <<day, prepaid, tx, booked, step, snap, faults>> /\ pc[p] = "guard"
  BY DEF Refill, world, recons
<1>2. CASE Unlock(p) /\ UNCHANGED rows
  <2>1. TypeOK' /\ \A q \in Processes : pc'[q] \notin {"guard"} \cup Sending
    BY <1>1, <1>2, UnlockKeeps DEF IInv, TypeOK
  <2>2. LockInv' /\ AtInv'
    BY <2>1 DEF LockInv, AtInv
  <2>3. OpenInv' /\ SnapInv' /\ RecordIsTrue'
    BY <1>1, <1>2 DEF IInv, OpenInv, SnapInv, RecordIsTrue
  <2> QED
    BY <2>1, <2>2, <2>3 DEF IInv
<1>3. CASE ~(Unlock(p) /\ UNCHANGED rows)
  <2> DEFINE new == [status |-> "created", amount |-> amount, trigger |-> seen[p],
                     day |-> day, sent |-> FALSE]
  <2>1. PICK i \in Ids :
          /\ ~GuardPending
          /\ amount > 0
          /\ rows[i].status = "none"
          /\ rows' = [rows EXCEPT ![i] = new]
          /\ at' = [at EXCEPT ![p] = i]
          /\ pc' = [pc EXCEPT ![p] = "build"]
          /\ UNCHANGED <<lock, seen>>
    BY <1>3 DEF Refill
  <2>2. new \in RowType /\ new.status = "created"
    <3>1. seen[p] \in Nat /\ day \in Nat /\ Target \in Nat /\ MaxSingle \in Nat
      BY AmountAssumption DEF IInv, TypeOK
    <3>2. amount \in Nat
      BY <3>1, <2>1 DEF Capped
    <3> QED
      BY <3>1, <3>2 DEF RowType, Statuses, Open
  <2> HIDE DEF new, amount
  <2>3. Wrote(i, "created")
    <3>1. rows \in [Ids -> RowType]
      BY DEF IInv, TypeOK, RowType
    <3> QED
      BY <2>1, <2>2, <3>1 DEF Wrote
  <2>4. OpenInv' /\ RecordIsTrue'
    BY <1>1, <2>1, <2>3, InsertKeeps
  <2>5. TypeOK'
    <3>1. rows' \in [Ids -> RowType]
      BY <2>3 DEF Wrote
    <3>2. lock' \in Processes \cup {NoProcess} /\ seen' \in [Processes -> Nat]
      BY <2>1 DEF IInv, TypeOK
    <3>3. /\ pc' \in [Processes -> {"idle", "lock", "guard", "build", "send", "record"}]
          /\ at' \in [Processes -> Ids \cup {0}]
      BY <2>1 DEF IInv, TypeOK
    <3> QED
      BY <1>1, <3>1, <3>2, <3>3 DEF IInv, TypeOK, RowType
  <2>6. \A q \in Processes : q # p => pc'[q] = pc[q] /\ pc'[q] \notin {"guard"} \cup Sending
    BY <1>1, <2>1 DEF IInv, TypeOK, LockInv
  <2>7. pc'[p] = "build" /\ at'[p] = i /\ lock' = p /\ tx[i] = "none"
    BY <1>1, <2>1 DEF IInv, TypeOK, LockInv, OpenInv
  <2>8. LockInv'
    BY <2>6, <2>7 DEF LockInv
  <2>9. AtInv'
    BY <1>1, <2>3, <2>6, <2>7 DEF AtInv, Wrote
  <2>10. SnapInv'
    <3> SUFFICES ASSUME NEW q \in Processes, step[q] # "query"
                 PROVE  /\ snap[q].id \in Ids
                        /\ rows'[snap[q].id].status \notin {"none", "created"}
                        /\ step[q] = "balance" => tx[snap[q].id] = "ok"
      BY <1>1 DEF SnapInv
    <3>1. /\ snap[q].id \in Ids
          /\ rows[snap[q].id].status \notin {"none", "created"}
          /\ step[q] = "balance" => tx[snap[q].id] = "ok"
      BY DEF IInv, SnapInv
    <3>2. snap[q].id # i
      BY <2>1, <3>1
    <3> QED
      BY <2>3, <3>1, <3>2 DEF Wrote
  <2> QED
    BY <2>4, <2>5, <2>8, <2>9, <2>10 DEF IInv
<1> QED
  BY <1>2, <1>3

\* The process leaves, with the row it was sending written to s or left alone.
LEMMA LeaveRowKeeps ==
  ASSUME IInv, NEW p \in Processes, pc[p] \in Sending, Unlock(p),
         UNCHANGED <<day, prepaid, tx, booked, step, snap>>, faults' \in Nat,
         NEW s \in Statuses, s \notin {"none", "created", "confirmed", "credited"},
         s = "failed" => tx[at[p]] = "none",
         rows' = rows \/ Wrote(at[p], s)
  PROVE  IInv'
<1>1. at[p] \in Ids /\ rows[at[p]].status = "created"
  BY DEF IInv, AtInv
<1>2. rows' \in [Ids -> RowType]
  BY DEF IInv, TypeOK, RowType, Wrote
<1>3. TypeOK' /\ \A q \in Processes : pc'[q] \notin {"guard"} \cup Sending
  BY <1>2, UnlockKeeps DEF IInv, TypeOK, RowType
<1>4. LockInv' /\ AtInv'
  BY <1>3 DEF LockInv, AtInv
<1>5. CASE rows' = rows
  <2>1. OpenInv' /\ SnapInv' /\ RecordIsTrue'
    BY <1>5 DEF IInv, OpenInv, SnapInv, RecordIsTrue
  <2> QED
    BY <1>3, <1>4, <2>1 DEF IInv
<1>6. CASE Wrote(at[p], s)
  <2>1. /\ rows'[at[p]].status = s
        /\ \A j \in Ids : j # at[p] => rows'[j] = rows[j]
    BY <1>6 DEF Wrote
  <2>2. OpenInv'
    BY <1>1, <2>1 DEF IInv, OpenInv
  <2>3. RecordIsTrue'
    BY <1>1, <2>1 DEF IInv, RecordIsTrue
  <2>4. SnapInv'
    BY <1>1, <2>1 DEF IInv, SnapInv
  <2> QED
    BY <1>3, <1>4, <2>2, <2>3, <2>4 DEF IInv
<1> QED
  BY <1>5, <1>6

LEMMA BuildAndSignKeeps ==
  ASSUME IInv, NEW p \in Processes, BuildAndSign(p)
  PROVE  IInv'
<1>1. UNCHANGED <<day, prepaid, tx, booked, step, snap>> /\ pc[p] = "build"
  BY DEF BuildAndSign, world, recons
<1>2. CASE pc' = [pc EXCEPT ![p] = "send"] /\ UNCHANGED <<rows, lock, seen, at, faults>>
  <2>1. TypeOK'
    BY <1>1, <1>2 DEF IInv, TypeOK
  <2>2. LockInv'
    BY <1>1, <1>2 DEF IInv, TypeOK, LockInv, Sending
  <2>3. AtInv'
    BY <1>1, <1>2 DEF IInv, TypeOK, AtInv, Sending
  <2>4. OpenInv' /\ SnapInv' /\ RecordIsTrue'
    BY <1>1, <1>2 DEF IInv, OpenInv, SnapInv, RecordIsTrue
  <2> QED
    BY <2>1, <2>2, <2>3, <2>4 DEF IInv
<1>3. CASE /\ \/ rows' = [rows EXCEPT ![at[p]].status = "failed"] /\ UNCHANGED faults
              \/ Fault /\ UNCHANGED rows
           /\ Unlock(p)
  <2>1. at[p] \in Ids /\ tx[at[p]] = "none" /\ pc[p] \in Sending
    BY <1>1 DEF IInv, AtInv, Sending
  <2>2. faults' \in Nat
    BY <1>3 DEF IInv, TypeOK, Fault
  <2>3. rows' = rows \/ Wrote(at[p], "failed")
    BY <1>3, <2>1, StatusWrite DEF IInv, Statuses
  <2>4. "failed" \in Statuses
    BY DEF Statuses
  <2> QED
    BY <1>1, <1>3, <2>1, <2>2, <2>3, <2>4, LeaveRowKeeps
<1> QED
  BY <1>2, <1>3 DEF BuildAndSign

LEMMA SendKeeps ==
  ASSUME IInv, NEW p \in Processes, Send(p)
  PROVE  IInv'
<1>1. /\ UNCHANGED <<rows, lock, day, prepaid, booked, seen, at, step, snap, faults>>
      /\ pc[p] = "send"
      /\ pc' = [pc EXCEPT ![p] = "record"]
  BY DEF Send, recons
<1>2. at[p] \in Ids /\ rows[at[p]].status = "created" /\ tx[at[p]] = "none" /\ lock = p
  BY <1>1 DEF IInv, AtInv, LockInv, Sending
<1>3. /\ tx' \in [Ids -> {"none", "sent", "ok", "reverted", "expired"}]
      /\ \A j \in Ids : j # at[p] => tx'[j] = tx[j]
  BY <1>2 DEF Send, IInv, TypeOK
<1>4. TypeOK'
  BY <1>1, <1>3 DEF IInv, TypeOK
<1>5. pc'[p] = "record" /\ \A q \in Processes : q # p => pc'[q] = pc[q]
  BY <1>1 DEF IInv, TypeOK
<1>6. LockInv'
  BY <1>1, <1>2, <1>5 DEF IInv, LockInv
<1>7. AtInv'
  BY <1>1, <1>2, <1>5 DEF IInv, AtInv, LockInv
<1>8. OpenInv' /\ RecordIsTrue'
  BY <1>1, <1>2, <1>3 DEF IInv, OpenInv, RecordIsTrue
<1>9. SnapInv'
  BY <1>1, <1>2, <1>3 DEF IInv, SnapInv
<1> QED
  BY <1>4, <1>6, <1>7, <1>8, <1>9 DEF IInv

LEMMA RecordKeeps ==
  ASSUME IInv, NEW p \in Processes, Record(p)
  PROVE  IInv'
<1>1. UNCHANGED <<day, prepaid, tx, booked, step, snap>> /\ pc[p] \in Sending /\ Unlock(p)
  BY DEF Record, world, recons, Sending
<1>2. at[p] \in Ids
  BY <1>1 DEF IInv, AtInv
<1>3. faults' \in Nat
  BY DEF IInv, TypeOK, Record, Fault
<1>4. rows' = rows \/ Wrote(at[p], "broadcast")
  BY <1>2, SentWrite DEF Record, IInv
<1>5. "broadcast" \in Statuses
  BY DEF Statuses, Open
<1> QED
  BY <1>1, <1>2, <1>3, <1>4, <1>5, LeaveRowKeeps

LEMMA QueryKeeps ==
  ASSUME IInv, NEW p \in Processes, Query(p)
  PROVE  IInv'
<1>1. /\ UNCHANGED <<rows, lock, day, prepaid, tx, booked, pc, seen, at, faults>>
      /\ step' = [step EXCEPT ![p] = "receipt"]
  BY DEF Query, world, checks
<1>2. PICK i \in Unsettled : snap' = [snap EXCEPT ![p] = [id |-> i, status |-> rows[i].status]]
  BY DEF Query
<1>3. i \in Ids /\ rows[i].status \in {"broadcast", "confirmed"}
  BY <1>2 DEF Unsettled
<1>4. [id |-> i, status |-> rows[i].status] \in [id : Ids \cup {0}, status : Statuses]
  BY <1>3 DEF Statuses, Open
<1>5. TypeOK'
  BY <1>1, <1>2, <1>4 DEF IInv, TypeOK
<1>6. step'[p] = "receipt" /\ snap'[p].id = i
  BY <1>1, <1>2 DEF IInv, TypeOK
<1>7. \A q \in Processes : q # p => step'[q] = step[q] /\ snap'[q] = snap[q]
  BY <1>1, <1>2 DEF IInv, TypeOK
<1>8. SnapInv'
  BY <1>1, <1>3, <1>6, <1>7 DEF IInv, SnapInv
<1>9. LockInv' /\ AtInv' /\ OpenInv' /\ RecordIsTrue'
  BY <1>1 DEF IInv, LockInv, AtInv, OpenInv, RecordIsTrue
<1> QED
  BY <1>5, <1>8, <1>9 DEF IInv

\* The reconcile loop drops its row, or goes on to the balance of one on chain.
GoesOn(p) ==
    \/ step' = [step EXCEPT ![p] = "query"] /\ snap' = [snap EXCEPT ![p] = NoSnap]
    \/ step' = [step EXCEPT ![p] = "balance"] /\ snap' = snap /\ tx[snap[p].id] = "ok"

\* It leaves the row alone or writes what the receipt says.
Settles(p, s) ==
    \/ rows' = rows
    \/ /\ Wrote(snap[p].id, s)
       /\ s \in {"failed", "confirmed", "credited"}
       /\ IF s = "failed" THEN tx[snap[p].id] = "reverted" ELSE tx[snap[p].id] = "ok"

\* The check loop and the chain do not notice a step of the reconcile loop.
LEMMA SettleKeeps ==
  ASSUME IInv, NEW p \in Processes, step[p] # "query",
         UNCHANGED <<lock, day, prepaid, tx, booked, pc, seen, at>>, faults' \in Nat,
         NEW s, GoesOn(p), Settles(p, s)
  PROVE  IInv'
<1>1. snap[p].id \in Ids /\ rows[snap[p].id].status \notin {"none", "created"}
  BY DEF IInv, SnapInv
<1>2. /\ \A j \in Ids : j # snap[p].id => rows'[j] = rows[j]
      /\ \/ rows' = rows
         \/ s = "failed" /\ rows'[snap[p].id].status = s /\ tx[snap[p].id] = "reverted"
         \/ /\ s \in {"confirmed", "credited"}
            /\ rows'[snap[p].id].status = s
            /\ tx[snap[p].id] = "ok"
  BY DEF Settles, Wrote
<1>3. TypeOK'
  <2>1. rows' \in [Ids -> RowType]
    BY DEF IInv, TypeOK, RowType, Settles, Wrote
  <2>2. step' \in [Processes -> {"query", "receipt", "balance"}]
    BY DEF IInv, TypeOK, GoesOn
  <2>3. NoSnap \in [id : Ids \cup {0}, status : Statuses]
    BY DEF NoSnap, Statuses
  <2>4. snap' \in [Processes -> [id : Ids \cup {0}, status : Statuses]]
    BY <2>3 DEF IInv, TypeOK, GoesOn
  <2> QED
    BY <2>1, <2>2, <2>4 DEF IInv, TypeOK, RowType
<1>4. LockInv'
  BY DEF IInv, LockInv
<1>5. AtInv'
  BY <1>1, <1>2 DEF IInv, AtInv
<1>6. OpenInv'
  BY <1>1, <1>2 DEF IInv, OpenInv
<1>7. RecordIsTrue'
  BY <1>1, <1>2 DEF IInv, RecordIsTrue
<1>8. SnapInv'
  <2> SUFFICES ASSUME NEW q \in Processes, step'[q] # "query"
               PROVE  /\ snap'[q].id \in Ids
                      /\ rows'[snap'[q].id].status \notin {"none", "created"}
                      /\ step'[q] = "balance" => tx'[snap'[q].id] = "ok"
    BY DEF SnapInv
  <2>1. snap'[q] = snap[q] /\ step[q] # "query"
    BY DEF IInv, TypeOK, GoesOn
  <2>2. step'[q] = "balance" => step[q] = "balance" \/ tx[snap[q].id] = "ok"
    BY DEF IInv, TypeOK, GoesOn
  <2>3. /\ snap[q].id \in Ids
        /\ rows[snap[q].id].status \notin {"none", "created"}
        /\ step[q] = "balance" => tx[snap[q].id] = "ok"
    BY <2>1 DEF IInv, SnapInv
  <2> QED
    BY <1>1, <1>2, <2>1, <2>2, <2>3
<1> QED
  BY <1>3, <1>4, <1>5, <1>6, <1>7, <1>8 DEF IInv

LEMMA ReadReceiptKeeps ==
  ASSUME IInv, NEW p \in Processes, ReadReceipt(p)
  PROVE  IInv'
<1>1. /\ UNCHANGED <<lock, day, prepaid, tx, booked, pc, seen, at>>
      /\ step[p] # "query"
      /\ GoesOn(p)
  BY DEF ReadReceipt, world, checks, GoesOn, Drop
<1>2. faults' \in Nat
  BY DEF ReadReceipt, Fault, IInv, TypeOK
<1>3. snap[p].id \in Ids /\ {"failed", "confirmed"} \subseteq Statuses
  BY <1>1 DEF IInv, SnapInv, Statuses, Open
<1>4. \/ rows' = rows
      \/ /\ tx[snap[p].id] = "reverted"
         /\ rows' = [rows EXCEPT ![snap[p].id].status = "failed"]
      \/ /\ tx[snap[p].id] = "ok"
         /\ rows' = [rows EXCEPT ![snap[p].id].status = "confirmed"]
  BY DEF ReadReceipt
<1>5. \E s : Settles(p, s)
  <2>1. CASE rows' = rows
    BY <2>1 DEF Settles
  <2>2. CASE /\ tx[snap[p].id] = "reverted"
             /\ rows' = [rows EXCEPT ![snap[p].id].status = "failed"]
    <3>1. Wrote(snap[p].id, "failed")
      BY <1>3, <2>2, StatusWrite DEF IInv
    <3>2. Settles(p, "failed")
      BY <2>2, <3>1 DEF Settles
    <3> QED
      BY <3>2
  <2>3. CASE /\ tx[snap[p].id] = "ok"
             /\ rows' = [rows EXCEPT ![snap[p].id].status = "confirmed"]
    <3>1. Wrote(snap[p].id, "confirmed")
      BY <1>3, <2>3, StatusWrite DEF IInv
    <3>2. Settles(p, "confirmed")
      BY <2>3, <3>1 DEF Settles
    <3> QED
      BY <3>2
  <2> QED
    BY <1>4, <2>1, <2>2, <2>3
<1> QED
  BY <1>1, <1>2, <1>5, SettleKeeps

LEMMA ReadBalanceKeeps ==
  ASSUME IInv, NEW p \in Processes, ReadBalance(p)
  PROVE  IInv'
<1>1. /\ UNCHANGED <<lock, day, prepaid, tx, booked, pc, seen, at>>
      /\ step[p] = "balance" /\ step[p] # "query"
      /\ GoesOn(p)
  BY DEF ReadBalance, world, checks, GoesOn, Drop
<1>2. faults' \in Nat
  BY DEF ReadBalance, Fault, IInv, TypeOK
<1>3. snap[p].id \in Ids /\ tx[snap[p].id] = "ok" /\ "credited" \in Statuses
  BY <1>1 DEF IInv, SnapInv, Statuses
<1>4. rows' = rows \/ rows' = [rows EXCEPT ![snap[p].id].status = "credited"]
  BY DEF ReadBalance
<1>5. rows' = rows \/ Wrote(snap[p].id, "credited")
  BY <1>3, <1>4, StatusWrite DEF IInv
<1>6. Settles(p, "credited")
  BY <1>3, <1>5 DEF Settles
<1> QED
  BY <1>1, <1>2, <1>6, SettleKeeps

LEMMA CrashKeeps ==
  ASSUME IInv, NEW p \in Processes, Crash(p)
  PROVE  IInv'
<1> USE DEF IInv, Crash, Leave, Drop, world
<1>1. TypeOK'
  <2>1. NoSnap \in [id : Ids \cup {0}, status : Statuses]
    BY DEF NoSnap, Statuses
  <2> QED
    BY <2>1 DEF TypeOK, Fault
<1>2. LockInv'
  BY DEF TypeOK, LockInv, Sending
<1>3. AtInv'
  BY DEF TypeOK, AtInv, Sending
<1>4. OpenInv' /\ RecordIsTrue'
  BY DEF OpenInv, RecordIsTrue
<1>5. SnapInv'
  BY DEF TypeOK, SnapInv
<1> QED
  BY <1>1, <1>2, <1>3, <1>4, <1>5

LEMMA LandKeeps ==
  ASSUME IInv, NEW i \in Ids, Land(i)
  PROVE  IInv'
<1>1. UNCHANGED <<rows, lock, day, prepaid, booked, pc, seen, at, step, snap, faults>>
  BY DEF Land, checks, recons
<1>2. /\ tx' \in [Ids -> {"none", "sent", "ok", "reverted", "expired"}]
      /\ tx[i] = "sent"
      /\ \A j \in Ids : j # i => tx'[j] = tx[j]
  BY DEF Land, IInv, TypeOK
<1>3. TypeOK' /\ LockInv'
  BY <1>1, <1>2 DEF IInv, TypeOK, LockInv
<1>4. AtInv'
  BY <1>1, <1>2 DEF IInv, AtInv
<1>5. OpenInv' /\ RecordIsTrue'
  BY <1>1, <1>2 DEF IInv, OpenInv, RecordIsTrue
<1>6. SnapInv'
  BY <1>1, <1>2 DEF IInv, SnapInv
<1> QED
  BY <1>3, <1>4, <1>5, <1>6 DEF IInv

LEMMA BookKeeps ==
  ASSUME IInv, NEW i \in Ids, Book(i)
  PROVE  IInv'
<1>1. /\ UNCHANGED <<rows, lock, day, tx, pc, seen, at, step, snap, faults>>
      /\ booked' = booked \cup {i}
      /\ prepaid' = prepaid + rows[i].amount
  BY DEF Book, checks, recons
<1>2. prepaid' \in Nat /\ booked' \subseteq Ids
  BY <1>1 DEF IInv, TypeOK
<1>3. TypeOK'
  BY <1>1, <1>2 DEF IInv, TypeOK
<1>4. LockInv' /\ AtInv' /\ OpenInv' /\ SnapInv' /\ RecordIsTrue'
  BY <1>1 DEF IInv, LockInv, AtInv, OpenInv, SnapInv, RecordIsTrue
<1> QED
  BY <1>3, <1>4 DEF IInv

LEMMA SpendKeeps ==
  ASSUME IInv, Spend
  PROVE  IInv'
BY DEF IInv, Spend, checks, recons, TypeOK, LockInv, AtInv, OpenInv, SnapInv, RecordIsTrue

LEMMA NextDayKeeps ==
  ASSUME IInv, NextDay
  PROVE  IInv'
BY DEF IInv, NextDay, world, checks, recons, TypeOK, LockInv, AtInv, OpenInv, SnapInv,
       RecordIsTrue

LEMMA LockExpiresKeeps ==
  ASSUME IInv, LockExpires
  PROVE  IInv'
<1>1. /\ UNCHANGED <<rows, day, prepaid, tx, booked, pc, seen, at, step, snap, faults>>
      /\ lock # NoProcess
      /\ pc[lock] \in {"idle", "lock"}
      /\ lock' = NoProcess
  BY DEF LockExpires, world, checks, recons
<1>2. LockInv'
  BY <1>1 DEF IInv, LockInv, Sending
<1>3. TypeOK' /\ AtInv' /\ OpenInv' /\ SnapInv' /\ RecordIsTrue'
  BY <1>1 DEF IInv, TypeOK, AtInv, OpenInv, SnapInv, RecordIsTrue
<1> QED
  BY <1>2, <1>3 DEF IInv

LEMMA StutterKeeps ==
  ASSUME IInv, UNCHANGED vars
  PROVE  IInv'
BY DEF vars, world, checks, recons, IInv, TypeOK, LockInv, AtInv, OpenInv, SnapInv, RecordIsTrue

\* What both loops remember of rows, lock and chain stays true in every step.
THEOREM Invariance == Spec => []IInv
<1>1. ASSUME IInv, [Next]_vars
      PROVE  IInv'
  <2>1. ASSUME NEW p \in Processes, CheckStep(p) \/ ReconcileStep(p) \/ Crash(p)
        PROVE  IInv'
    BY <1>1, <2>1, CheckKeeps, TakeLockKeeps, RefillKeeps, BuildAndSignKeeps, SendKeeps,
       RecordKeeps, QueryKeeps, ReadReceiptKeeps, ReadBalanceKeeps, CrashKeeps
       DEF CheckStep, ReconcileStep
  <2>2. ASSUME NEW i \in Ids, Land(i) \/ Book(i)
        PROVE  IInv'
    BY <1>1, <2>2, LandKeeps, BookKeeps
  <2>3. CASE Spend \/ NextDay \/ LockExpires
    BY <1>1, <2>3, SpendKeeps, NextDayKeeps, LockExpiresKeeps
  <2>4. CASE UNCHANGED vars
    BY <1>1, <2>4, StutterKeeps
  <2> QED
    BY <1>1, <2>1, <2>2, <2>3, <2>4 DEF Next
<1> QED
  BY <1>1, InitIInv, PTL DEF Spec

\* "leave the row broadcast and let reconciliation settle it rather than sending
\* a second transfer": whatever is lost or crashes, two transfers are never on
\* their way at once.
THEOREM NoSecondTransfer == Spec => []OneTransferAtATime
<1>1. IInv => OneTransferAtATime
  BY DEF IInv, TypeOK, OpenInv, RecordIsTrue, OneTransferAtATime, Statuses, Open
<1> QED
  BY <1>1, Invariance, PTL

\* A failed row moved no money and never will, a confirmed one did.
THEOREM RecordsAreTrue == Spec => []RecordIsTrue
<1>1. IInv => RecordIsTrue
  BY DEF IInv
<1> QED
  BY <1>1, Invariance, PTL

-----------------------------------------------------------------------------
(* The daily caps.                                                         *)

\* No row is counted that was not counted before, for more than before or on
\* another day.
NoneAdded ==
    \A i \in Ids : rows'[i].status \notin {"none", "failed"} =>
        /\ rows[i].status \notin {"none", "failed"}
        /\ rows'[i].amount = rows[i].amount
        /\ rows'[i].day = rows[i].day

\* The amounts, and the rows counted for a day, after the step.
AmountsThen == [i \in Ids |-> rows'[i].amount]
CountedThen(d) == {i \in Ids : rows'[i].status \notin {"none", "failed"} /\ rows'[i].day = d}

\* Writing a status counts no row anew, unless it revives a failed one.
LEMMA StatusAdds ==
  ASSUME TypeOK, NEW i \in Ids, NEW s \in Statuses,
         rows' = [rows EXCEPT ![i].status = s],
         s = "failed" \/ rows[i].status \notin {"none", "failed"}
  PROVE  NoneAdded
<1>1. rows \in [Ids -> RowType] /\ rows[i] \in RowType
  BY DEF TypeOK, RowType
<1>2. rows' = [rows EXCEPT ![i] = [rows[i] EXCEPT !.status = s]]
  OBVIOUS
<1>3. /\ [rows[i] EXCEPT !.status = s].status = s
      /\ [rows[i] EXCEPT !.status = s].amount = rows[i].amount
      /\ [rows[i] EXCEPT !.status = s].day = rows[i].day
  BY <1>1 DEF RowType
<1>4. rows'[i] = [rows[i] EXCEPT !.status = s]
  BY <1>1, <1>2
<1>5. \A j \in Ids : j # i => rows'[j] = rows[j]
  BY <1>1, <1>2
<1> QED
  BY <1>3, <1>4, <1>5 DEF NoneAdded

\* Neither does the write that keeps the txid.
LEMMA SentAdds ==
  ASSUME TypeOK, NEW i \in Ids, rows[i].status = "created",
         rows' = [rows EXCEPT ![i].status = "broadcast", ![i].sent = TRUE]
  PROVE  NoneAdded
<1> DEFINE r == [[rows[i] EXCEPT !.status = "broadcast"] EXCEPT !.sent = TRUE]
<1>1. rows \in [Ids -> RowType] /\ rows[i] \in RowType
  BY DEF TypeOK, RowType
<1>2. r.amount = rows[i].amount /\ r.day = rows[i].day
  BY <1>1 DEF RowType
<1>3. rows' = [rows EXCEPT ![i] = r]
  BY <1>1
<1> HIDE DEF r
<1>4. rows'[i] = r /\ \A j \in Ids : j # i => rows'[j] = rows[j]
  BY <1>1, <1>3
<1> QED
  BY <1>2, <1>4 DEF NoneAdded

\* The counted rows of a day are finitely many and have natural amounts.
LEMMA CountedType ==
  ASSUME TypeOK, NEW d
  PROVE  /\ IsFiniteSet(Ids) /\ IsFiniteSet(Counted(d)) /\ Counted(d) \subseteq Ids
         /\ \A i \in Ids : [j \in Ids |-> rows[j].amount][i] \in Nat
<1>1. IsFiniteSet(Ids)
  BY BoundAssumption, FS_Interval DEF Ids
<1>2. Counted(d) \subseteq Ids
  BY DEF Counted
<1>3. \A i \in Ids : rows[i].amount \in Nat
  BY DEF TypeOK
<1> QED
  BY <1>1, <1>2, <1>3, FS_Subset

\* Within the caps it stays so as long as no row is counted anew.
LEMMA NoneAddedKeeps ==
  ASSUME TypeOK, CapInv, NoneAdded
  PROVE  CapInv'
<1> SUFFICES ASSUME NEW d \in 1 .. MaxDays
             PROVE  /\ MaxDaily > 0 => SumFunctionOnSet(AmountsThen, CountedThen(d)) <= MaxDaily
                    /\ MaxDailyCount > 0 => Cardinality(CountedThen(d)) <= MaxDailyCount
  BY DEF CapInv, Total, Counted, AmountsThen, CountedThen
<1> DEFINE f == [i \in Ids |-> rows[i].amount]
           S == Counted(d)
           T == CountedThen(d)
<1>1. T \subseteq S /\ \A i \in T : AmountsThen[i] = f[i]
  BY DEF NoneAdded, Counted, CountedThen, AmountsThen
<1>2. /\ IsFiniteSet(S) /\ IsFiniteSet(T)
      /\ \A i \in S : f[i] \in Nat
  BY <1>1, CountedType, FS_Subset
<1>3. /\ MaxDaily > 0 => SumFunctionOnSet(f, S) <= MaxDaily
      /\ MaxDailyCount > 0 => Cardinality(S) <= MaxDailyCount
  BY DEF CapInv, Total
<1> HIDE DEF f, S, T
<1>4. SumFunctionOnSet(AmountsThen, T) <= SumFunctionOnSet(f, S)
  BY <1>1, <1>2, SumShrinks
<1>5. SumFunctionOnSet(AmountsThen, T) \in Nat /\ SumFunctionOnSet(f, S) \in Nat
  <2>1. \A i \in T : AmountsThen[i] \in Nat
    BY <1>1, <1>2
  <2> QED
    BY <1>2, <2>1, SumType
<1>6. Cardinality(T) <= Cardinality(S) /\ Cardinality(T) \in Nat /\ Cardinality(S) \in Nat
  BY <1>1, <1>2, FS_Subset, FS_CardinalityType
<1>7. MaxDaily \in Nat /\ MaxDailyCount \in Nat
  BY AmountAssumption
<1>8. /\ MaxDaily > 0 => SumFunctionOnSet(AmountsThen, T) <= MaxDaily
      /\ MaxDailyCount > 0 => Cardinality(T) <= MaxDailyCount
  BY <1>3, <1>4, <1>5, <1>6, <1>7
<1> QED
  BY <1>8 DEF T

\* The row that refill inserts fits, because guardDailyLimits has just counted.
LEMMA RefillCaps ==
  ASSUME IInv, CapInv, NEW p \in Processes, Refill(p)
  PROVE  CapInv'
<1> DEFINE amount == Capped(Target - seen[p])
<1>1. CASE UNCHANGED rows
  BY <1>1, NoneAddedKeeps DEF NoneAdded, IInv
<1>2. CASE ~UNCHANGED rows
  <2> DEFINE new == [status |-> "created", amount |-> amount, trigger |-> seen[p],
                     day |-> day, sent |-> FALSE]
  <2>1. PICK i \in Ids :
          /\ amount > 0
          /\ GuardDailyLimits(amount)
          /\ rows[i].status = "none"
          /\ rows' = [rows EXCEPT ![i] = new]
    BY <1>2 DEF Refill
  <2>2. amount \in Nat
    <3>1. seen[p] \in Nat /\ Target \in Nat /\ MaxSingle \in Nat
      BY AmountAssumption DEF IInv, TypeOK
    <3> QED
      BY <3>1, <2>1 DEF Capped
  <2>3. new.status = "created" /\ new.amount = amount /\ new.day = day
    OBVIOUS
  <2> HIDE DEF new, amount
  <2>4. rows'[i] = new /\ \A j \in Ids : j # i => rows'[j] = rows[j]
    BY <2>1 DEF IInv, TypeOK
  <2> SUFFICES ASSUME NEW d \in 1 .. MaxDays
               PROVE  /\ MaxDaily > 0 => SumFunctionOnSet(AmountsThen, CountedThen(d)) <= MaxDaily
                      /\ MaxDailyCount > 0 => Cardinality(CountedThen(d)) <= MaxDailyCount
    BY DEF CapInv, Total, Counted, AmountsThen, CountedThen
  <2> DEFINE f == [j \in Ids |-> rows[j].amount]
             S == Counted(d)
             T == CountedThen(d)
  <2>5. /\ IsFiniteSet(S) /\ i \notin S /\ S \subseteq Ids
        /\ \A j \in Ids : f[j] \in Nat
    BY <2>1, CountedType DEF IInv, Counted
  <2>6. /\ \A j \in S : AmountsThen[j] = f[j]
        /\ AmountsThen[i] = amount
    BY <2>3, <2>4, <2>5 DEF AmountsThen
  <2>7. SumFunctionOnSet(AmountsThen, S) = SumFunctionOnSet(f, S)
    BY <2>5, <2>6, SumSame
  <2>8. CASE d = day
    <3>1. T = S \cup {i}
      BY <2>1, <2>3, <2>4, <2>8 DEF Counted, CountedThen
    <3>2. /\ MaxDaily > 0 => SumFunctionOnSet(f, S) + amount <= MaxDaily
          /\ MaxDailyCount > 0 => Cardinality(S) < MaxDailyCount
      BY <2>1, <2>8 DEF GuardDailyLimits, Today, Total
    <3>3. SumFunctionOnSet(AmountsThen, T) = SumFunctionOnSet(f, S) + amount
      <4> HIDE DEF f, S, T
      <4>1. \A j \in S \cup {i} : AmountsThen[j] \in Nat
        BY <2>2, <2>5, <2>6
      <4>2. SumFunctionOnSet(AmountsThen, S \cup {i}) =
              SumFunctionOnSet(AmountsThen, S) + AmountsThen[i]
        BY <2>5, <4>1, SumAdd
      <4> QED
        BY <2>6, <2>7, <3>1, <4>2
    <3>4. Cardinality(T) = Cardinality(S) + 1 /\ Cardinality(S) \in Nat /\ MaxDailyCount \in Nat
      BY <2>5, <3>1, FS_AddElement, FS_CardinalityType, AmountAssumption
    <3> HIDE DEF f, S, T
    <3>5. /\ MaxDaily > 0 => SumFunctionOnSet(AmountsThen, T) <= MaxDaily
          /\ MaxDailyCount > 0 => Cardinality(T) <= MaxDailyCount
      BY <3>2, <3>3, <3>4
    <3> QED
      BY <3>5 DEF T
  <2>9. CASE d # day
    <3>1. T = S
      BY <2>1, <2>3, <2>4, <2>9 DEF Counted, CountedThen
    <3>2. /\ MaxDaily > 0 => SumFunctionOnSet(f, S) <= MaxDaily
          /\ MaxDailyCount > 0 => Cardinality(S) <= MaxDailyCount
      BY DEF CapInv, Total
    <3> QED
      BY <2>7, <3>1, <3>2
  <2> QED
    BY <2>8, <2>9
<1> QED
  BY <1>1, <1>2

\* No other step counts a row anew; in particular the reconcile loop, which
\* writes by id, never revives a row that has failed.
LEMMA OthersAddNone ==
  ASSUME IInv, [Next]_vars
  PROVE  NoneAdded \/ \E p \in Processes : Refill(p)
<1>1. CASE UNCHANGED rows
  BY <1>1 DEF NoneAdded
<1>2. ASSUME NEW p \in Processes, BuildAndSign(p), ~UNCHANGED rows PROVE NoneAdded
  <2>1. at[p] \in Ids /\ rows' = [rows EXCEPT ![at[p]].status = "failed"]
    BY <1>2 DEF BuildAndSign, IInv, AtInv, Sending
  <2> QED
    BY <2>1, StatusAdds DEF IInv, Statuses
<1>3. ASSUME NEW p \in Processes, Record(p), ~UNCHANGED rows PROVE NoneAdded
  <2>1. /\ at[p] \in Ids /\ rows[at[p]].status = "created"
        /\ rows' = [rows EXCEPT ![at[p]].status = "broadcast", ![at[p]].sent = TRUE]
    BY <1>3 DEF Record, IInv, AtInv, Sending
  <2> QED
    BY <2>1, SentAdds DEF IInv
<1>4. ASSUME NEW p \in Processes, ReadReceipt(p), ~UNCHANGED rows PROVE NoneAdded
  <2>1. snap[p].id \in Ids /\ {"failed", "confirmed"} \subseteq Statuses
    BY <1>4 DEF ReadReceipt, IInv, SnapInv, Statuses, Open
  <2>2. \/ rows' = [rows EXCEPT ![snap[p].id].status = "failed"]
        \/ /\ tx[snap[p].id] = "ok"
           /\ rows' = [rows EXCEPT ![snap[p].id].status = "confirmed"]
    BY <1>4 DEF ReadReceipt
  <2>3. tx[snap[p].id] = "ok" => rows[snap[p].id].status \notin {"none", "failed"}
    BY <2>1 DEF IInv, OpenInv, RecordIsTrue
  <2> QED
    BY <2>1, <2>2, <2>3, StatusAdds DEF IInv
<1>5. ASSUME NEW p \in Processes, ReadBalance(p), ~UNCHANGED rows PROVE NoneAdded
  <2>1. snap[p].id \in Ids /\ tx[snap[p].id] = "ok" /\ "credited" \in Statuses
    BY <1>5 DEF ReadBalance, IInv, SnapInv, Statuses
  <2>2. rows' = [rows EXCEPT ![snap[p].id].status = "credited"]
    BY <1>5 DEF ReadBalance
  <2>3. rows[snap[p].id].status \notin {"none", "failed"}
    BY <2>1 DEF IInv, OpenInv, RecordIsTrue
  <2> QED
    BY <2>1, <2>2, <2>3, StatusAdds DEF IInv
<1>6. \/ UNCHANGED rows
      \/ \E p \in Processes :
            Refill(p) \/ BuildAndSign(p) \/ Record(p) \/ ReadReceipt(p) \/ ReadBalance(p)
  BY DEF Next, CheckStep, ReconcileStep, Check, TakeLock, Send, Query, Crash, Land, Book,
     Spend, NextDay, LockExpires, vars
<1> QED
  BY <1>1, <1>2, <1>3, <1>4, <1>5, <1>6

\* "per day caps stop the loop from draining the gas account": what the refills
\* of one day move or may still move stays under max_daily_topup_trx and
\* max_daily_topup_count.  A transfer that may move money is on a counted row,
\* and the counted rows stay within the caps.
THEOREM CapsHold == Spec => []DailyCapsHold
<1>1. Init => CapInv
  <2> SUFFICES ASSUME Init PROVE CapInv
    OBVIOUS
  <2>1. \A d \in 1 .. MaxDays : Counted(d) = {}
    BY DEF Init, NoRow, Counted
  <2>2. Total({}) = 0 /\ Cardinality({}) = 0
    BY SumEmpty, FS_EmptySet DEF Total
  <2> QED
    BY <2>1, <2>2, AmountAssumption DEF CapInv
<1>2. IInv /\ CapInv /\ [Next]_vars => CapInv'
  BY OthersAddNone, NoneAddedKeeps, RefillCaps DEF IInv
<1>3. IInv /\ CapInv => DailyCapsHold
  <2> SUFFICES ASSUME IInv, CapInv, NEW d \in 1 .. MaxDays, NEW M,
                      M = {i \in Ids : rows[i].day = d /\ tx[i] \in {"sent", "ok"}}
               PROVE  /\ MaxDaily > 0 => Total(M) <= MaxDaily
                      /\ MaxDailyCount > 0 => Cardinality(M) <= MaxDailyCount
    BY DEF DailyCapsHold
  <2> DEFINE f == [i \in Ids |-> rows[i].amount]
             S == Counted(d)
  <2>1. M \subseteq S
    BY DEF IInv, OpenInv, RecordIsTrue, Counted
  <2>2. IsFiniteSet(S) /\ IsFiniteSet(M) /\ \A i \in S : f[i] \in Nat
    BY <2>1, CountedType, FS_Subset DEF IInv
  <2>3. /\ MaxDaily > 0 => SumFunctionOnSet(f, S) <= MaxDaily
        /\ MaxDailyCount > 0 => Cardinality(S) <= MaxDailyCount
        /\ Total(M) = SumFunctionOnSet(f, M)
    BY DEF CapInv, Total
  <2> HIDE DEF f, S
  <2>4. /\ SumFunctionOnSet(f, M) <= SumFunctionOnSet(f, S)
        /\ Cardinality(M) <= Cardinality(S)
    BY <2>1, <2>2, SumMono, FS_Subset
  <2>5. /\ SumFunctionOnSet(f, M) \in Nat /\ SumFunctionOnSet(f, S) \in Nat
        /\ Cardinality(M) \in Nat /\ Cardinality(S) \in Nat
        /\ MaxDaily \in Nat /\ MaxDailyCount \in Nat
    BY <2>1, <2>2, SumType, FS_CardinalityType, AmountAssumption
  <2> QED
    BY <2>3, <2>4, <2>5
<1> QED
  BY <1>1, <1>2, <1>3, Invariance, PTL DEF Spec

=============================================================================
