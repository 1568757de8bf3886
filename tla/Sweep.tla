------------------------------- MODULE Sweep -------------------------------
(***************************************************************************)
(* The sweep of one token from one deposit address                         *)
(* (internal/sweep/sweep.go): rounds that move the whole balance of the    *)
(* address to the finance wallet, and the reconciler that runs beside them *)
(* every 30 seconds, over sweep_record, sweep_skip, deposit_record, the    *)
(* Redis lock of the address and the chain.                                *)
(*                                                                         *)
(* Deposits are numbered by deposit_record.id, in the order in which their *)
(* blocks put them on the chain.  Total[d] is what deposits 1 to d bring   *)
(* together, so the address holds Total[arrived] - moved.                  *)
(***************************************************************************)
EXTENDS Integers, FiniteSets, FiniteSetsExt

CONSTANTS
    LastDeposit,       \* bound: deposits to the address
    Total,             \* Total[d]: token units of the deposits up to d
    Sweepers,          \* round loops, one per sweep process
    Reconcilers,       \* Reconcile loops, one per sweep process
    NoSweeper,         \* nobody holds the lock
    MinUnits,          \* minSweepUnits
    MaxSkips,          \* threshold.max_skip_rounds, 0 switches it off
    MaxEnergyRetries,  \* sweep_server.max_energy_retries
    Hazards,           \* which environment hazards are switched on
    MaxRows,           \* bound: sweep_record rows
    MaxFaults          \* bound: crashes, errors and transfers that do not work

Deposits == 1 .. LastDeposit
Ids == 0 .. LastDeposit  \* a deposit id column
Rows == 1 .. MaxRows
NoSweep == 0

\* "lostAnswer": a node refuses for good bytes that another node has taken.
\* "lateRead"  : the receipt lookup and the clock reading that follows it
\*               straddle the last block that could include the transaction.
\* "slowSweep" : the ten minute lock runs out under a sweep that still works.
\* "slowRead"  : a deposit arrives and reaches its confirmations within the few
\*               calls between tokenBalance and the query that relies on it.
AllHazards == {"lostAnswer", "lateRead", "slowSweep", "slowRead"}

ASSUME TotalAssumption ==
    /\ LastDeposit \in Nat
    /\ Total \in [Ids -> Nat]
    /\ Total[0] = 0
    /\ \A c, d \in Ids : c < d => Total[c] < Total[d]
ASSUME SweeperAssumption == NoSweeper \notin Sweepers
ASSUME SweepBoundAssumption ==
    /\ MinUnits \in Nat
    /\ MaxSkips \in Nat
    /\ MaxEnergyRetries \in Nat \ {0}
    /\ Hazards \subseteq AllHazards
    /\ MaxRows \in Nat
    /\ MaxFaults \in Nat

VARIABLES
    \* --- chain (external)
    arrived,    \* deposits on the chain: 1 to arrived
    moved,      \* units that sweeps brought to the finance wallet
    net,        \* net[k]: where the signed bytes of row k are
    outcome,    \* outcome[k]: what the transfer of row k did in its block
    dead,       \* dead[k]: the chain is past the expiration in those bytes
    \* --- database
    confirmed,  \* deposits with status confirmed
    swept,      \* deposits with the swept flag
    status,     \* status[k]: sweep_record.status, "absent" before the insert
    amount,     \* amount[k]: amount_units
    maxId,      \* maxId[k]: deposit_max_id
    txid,       \* txid[k]: txid is set
    raw,        \* raw[k]: signed_raw and expired_at are set
    drained,    \* drained[k]: fail_code is out_of_energy
    skips,      \* sweep_skip.skip_count, counted up to MaxSkips
    \* --- redis and clock
    lock,       \* the sweeper whose SETNX holds the address
    expired,    \* expired[k]: the local clock is past expired_at
    \* --- round loops
    pc,         \* pc[w]: next step of sweeper w
    bal,        \* bal[w]: the balance it read
    seen,       \* seen[w]: deposits that balance was made of (history)
    top,        \* top[w]: the depositMaxID it read
    row,        \* row[w]: the row it works on
    note,       \* note[w]: the answer of the node
    \* --- reconcilers
    rpc,        \* rpc[r]: next step of reconciler r
    batch,      \* batch[r]: rows of the last query that r has not handled yet
    rrow,       \* rrow[r]: the row it works on
    faults,     \* faults spent, out of MaxFaults
    covers      \* covers[k]: deposits the amount of row k was made of (history)

chain == <<arrived, moved, net, outcome, dead>>
deposits == <<confirmed, swept>>
sweeps == <<status, amount, maxId, txid, raw, drained, covers>>
round == <<pc, bal, seen, top, row, note>>
reconcile == <<rpc, batch, rrow>>
vars == <<chain, deposits, sweeps, skips, lock, expired, round, reconcile, faults>>

InFlight == {"created", "energyOK", "broadcast"}
Signed == {"energyOK", "broadcast"}
Pcs == {"poll", "balance", "empty", "mark", "skip", "lock", "inflight", "budget", "top",
        "create", "energy", "build", "store", "send", "record", "fail", "unlock"}
Rpcs == {"poll", "rows", "judge", "expire", "resend", "refuse", "failed", "confirm"}
Answers == {"ok", "permanent", "transient"}

Init ==
    /\ arrived = 0
    /\ moved = 0
    /\ net = [k \in Rows |-> "none"]
    /\ outcome = [k \in Rows |-> "none"]
    /\ dead = [k \in Rows |-> FALSE]
    /\ confirmed = {}
    /\ swept = {}
    /\ status = [k \in Rows |-> "absent"]
    /\ amount = [k \in Rows |-> 0]
    /\ maxId = [k \in Rows |-> 0]
    /\ txid = [k \in Rows |-> FALSE]
    /\ raw = [k \in Rows |-> FALSE]
    /\ drained = [k \in Rows |-> FALSE]
    /\ covers = [k \in Rows |-> 0]
    /\ skips = 0
    /\ lock = NoSweeper
    /\ expired = [k \in Rows |-> FALSE]
    /\ pc = [w \in Sweepers |-> "poll"]
    /\ bal = [w \in Sweepers |-> 0]
    /\ seen = [w \in Sweepers |-> 0]
    /\ top = [w \in Sweepers |-> 0]
    /\ row = [w \in Sweepers |-> NoSweep]
    /\ note = [w \in Sweepers |-> "none"]
    /\ rpc = [r \in Reconcilers |-> "poll"]
    /\ batch = [r \in Reconcilers |-> {}]
    /\ rrow = [r \in Reconcilers |-> NoSweep]
    /\ faults = 0

-----------------------------------------------------------------------------
(* Helpers shared by the steps.                                            *)

Fault == faults < MaxFaults /\ faults' = faults + 1

\* Sweeper w goes on ...
Goto(w, l) == pc' = [pc EXCEPT ![w] = l]
Keep(w, l) == Goto(w, l) /\ UNCHANGED <<bal, seen, top, row, note>>

\* ... or is done with the address for this round.
Leave(w) ==
    /\ Goto(w, "poll")
    /\ bal' = [bal EXCEPT ![w] = 0]
    /\ seen' = [seen EXCEPT ![w] = 0]
    /\ top' = [top EXCEPT ![w] = 0]
    /\ row' = [row EXCEPT ![w] = NoSweep]
    /\ note' = [note EXCEPT ![w] = "none"]

\* failSweep, an UPDATE by primary key whose error nobody looks at.  No fail_code of its callers is out_of_energy.
FailRow(k) ==
    \/ /\ status' = [status EXCEPT ![k] = "failed"]
       /\ drained' = [drained EXCEPT ![k] = FALSE]
       /\ UNCHANGED faults
    \/ Fault /\ UNCHANGED <<status, drained>>

\* Token balance of the address at the head.
Held == Total[arrived] - moved

\* Confirmed deposits that are not swept yet.
Unswept == confirmed \ swept

-----------------------------------------------------------------------------
(* One round of one address.                                               *)

\* candidates: the address is one while a confirmed deposit of it is not swept.
Candidates(w) ==
    /\ pc[w] = "poll"
    /\ Keep(w, IF Unswept # {} THEN "balance" ELSE "poll")
    /\ UNCHANGED <<chain, deposits, sweeps, skips, lock, expired, reconcile, faults>>

\* tokenBalance, and what roundToken makes of it.
TokenBalance(w) ==
    /\ pc[w] = "balance"
    /\ bal' = [bal EXCEPT ![w] = Held]
    /\ seen' = [seen EXCEPT ![w] = arrived]
    /\ Goto(w, IF Held = 0 THEN "empty" ELSE IF Held < MinUnits THEN "skip" ELSE "lock")
    /\ UNCHANGED <<chain, deposits, sweeps, skips, lock, expired, top, row, note, reconcile,
                   faults>>

\* markSweptEmpty counts the confirmed sweeps of the address ...
CountSwept(w) ==
    /\ pc[w] = "empty"
    /\ IF \E k \in Rows : status[k] = "confirmed" THEN Keep(w, "mark") ELSE Leave(w)
    /\ UNCHANGED <<chain, deposits, sweeps, skips, lock, expired, reconcile, faults>>

\* ... and closes out its deposits.
MarkSweptEmpty(w) ==
    /\ pc[w] = "mark"
    /\ swept' = swept \cup confirmed
    /\ Leave(w)
    /\ UNCHANGED <<chain, confirmed, sweeps, skips, lock, expired, reconcile, faults>>

\* Skipped often enough to be swept below the threshold.
Forced(n) == MaxSkips > 0 /\ n >= MaxSkips

\* recordSkip, whose upsert and read-back count as one, and isStale, which may be
\* true of any address that has an unswept deposit.
RecordSkip(w) ==
    /\ pc[w] = "skip"
    /\ skips' = IF skips < MaxSkips THEN skips + 1 ELSE skips
    /\ \/ (Forced(skips') \/ Unswept # {}) /\ Keep(w, "lock")
       \/ ~Forced(skips') /\ Leave(w)
    /\ UNCHANGED <<chain, deposits, sweeps, lock, expired, reconcile, faults>>

\* sweepOne begins with the lock of the address.
TakeLock(w) ==
    /\ pc[w] = "lock"
    /\ IF lock = NoSweeper
       THEN lock' = w /\ Keep(w, "inflight")
       ELSE UNCHANGED lock /\ Leave(w)
    /\ UNCHANGED <<chain, deposits, sweeps, skips, expired, reconcile, faults>>

\* Mutant: a broadcast sweep is taken for a finished one.
BlockingOpen == {k \in Rows : status[k] \in {"created", "energyOK"}}

\* The sweeps whose outcome a new one has to wait for.
Blocking == {k \in Rows : status[k] \in InFlight}

\* The in-flight check.
CountInflight(w) ==
    /\ pc[w] = "inflight"
    /\ Keep(w, IF Blocking = {} THEN "budget" ELSE "unlock")
    /\ UNCHANGED <<chain, deposits, sweeps, skips, lock, expired, reconcile, faults>>

\* energyFailures: out of energy since the last confirmed sweep.
EnergyFailures ==
    Cardinality({k \in Rows : /\ status[k] = "failed" /\ drained[k]
                              /\ \A j \in Rows : status[j] = "confirmed" => j < k})

\* The retry budget.  The estimate falls back to a worst case, and an address
\* that cannot burn its fee ends the sweep like an error of a query does.
CheckBudget(w) ==
    /\ pc[w] = "budget"
    /\ Keep(w, IF EnergyFailures >= MaxEnergyRetries THEN "unlock" ELSE "top")
    /\ UNCHANGED <<chain, deposits, sweeps, skips, lock, expired, reconcile, faults>>

\* Mutant: deposits that are still to be confirmed count as well.
MaxUnsweptAny == IF arrived \in swept THEN {0} ELSE {arrived}

\* The one element is MAX(id) of the confirmed deposits that are not swept, or 0.
MaxUnswept == IF Unswept = {} THEN {0} ELSE {d \in Unswept : \A c \in Unswept : c <= d}

\* maxUnsweptDepositID
MaxUnsweptDepositID(w) ==
    /\ pc[w] = "top"
    /\ \E d \in MaxUnswept : top' = [top EXCEPT ![w] = d]
    /\ Goto(w, "create")
    /\ UNCHANGED <<chain, deposits, sweeps, skips, lock, expired, bal, seen, row, note,
                   reconcile, faults>>

\* The sweep_record row, with the next primary key.
CreateRow(w) ==
    /\ pc[w] = "create"
    /\ \E k \in Rows :
         /\ status[k] = "absent" /\ \A j \in Rows : j < k => status[j] # "absent"
         /\ status' = [status EXCEPT ![k] = "created"]
         /\ amount' = [amount EXCEPT ![k] = bal[w]]
         /\ maxId' = [maxId EXCEPT ![k] = top[w]]
         /\ covers' = [covers EXCEPT ![k] = seen[w]]
         /\ row' = [row EXCEPT ![w] = k]
    /\ Goto(w, "energy")
    /\ UNCHANGED <<chain, deposits, txid, raw, drained, skips, lock, expired, bal, seen, top,
                   note, reconcile, faults>>

\* AcquireRented or AcquireBurn, and the status after it, a write that may fail
\* without anybody noticing.
AcquireEnergy(w) ==
    /\ pc[w] = "energy"
    /\ \/ status' = [status EXCEPT ![row[w]] = "energyOK"] /\ Keep(w, "build") /\ UNCHANGED faults
       \/ \E l \in {"build", "fail"} : Keep(w, l) /\ Fault /\ UNCHANGED status
    /\ UNCHANGED <<chain, deposits, amount, maxId, txid, raw, drained, covers, skips, lock,
                   expired, reconcile>>

\* BuildTRC20Transfer and Sign.
BuildAndSign(w) ==
    /\ pc[w] = "build"
    /\ \/ net' = [net EXCEPT ![row[w]] = "signed"] /\ Keep(w, "store") /\ UNCHANGED faults
       \/ Fault /\ UNCHANGED net /\ Keep(w, "fail")
    /\ UNCHANGED <<arrived, moved, outcome, dead, deposits, sweeps, skips, lock, expired,
                   reconcile>>

\* txid, signed_raw and expired_at; the sweep goes on when the write fails.
StoreSigned(w) ==
    /\ pc[w] = "store"
    /\ \/ /\ txid' = [txid EXCEPT ![row[w]] = TRUE]
          /\ raw' = [raw EXCEPT ![row[w]] = TRUE]
          /\ UNCHANGED faults
       \/ Fault /\ UNCHANGED <<txid, raw>>
    /\ Keep(w, "send")
    /\ UNCHANGED <<chain, deposits, status, amount, maxId, drained, covers, skips, lock,
                   expired, reconcile>>

\* Where the bytes are after some node took them.
Taken(k) == IF net[k] = "signed" /\ ~dead[k] THEN "pool" ELSE net[k]

\* Gateway.Broadcast: no answer and a refusal that may pass are "transient".  A
\* refusal for good is a fault unless the bytes have expired.
Broadcast(k, answer) ==
    /\ \E where \in {"void", net[k], Taken(k)} :
         /\ net' = [net EXCEPT ![k] = where]
         /\ CASE answer = "ok" -> where = Taken(k) /\ where \in {"pool", "packed"}
              [] answer = "transient" -> where # "void" \/ net[k] = "void"
              [] answer = "permanent" ->
                    \/ where = "void" /\ net[k] \in {"signed", "void"}
                    \/ "lostAnswer" \in Hazards /\ where # "void"
    /\ IF answer = "ok" \/ (answer = "permanent" /\ (dead[k] \/ net[k] = "void"))
       THEN UNCHANGED faults ELSE Fault

Send(w) ==
    /\ pc[w] = "send"
    /\ \E answer \in Answers :
         /\ Broadcast(row[w], answer)
         /\ note' = [note EXCEPT ![w] = answer]
    /\ Goto(w, "record")
    /\ UNCHANGED <<arrived, moved, outcome, dead, deposits, sweeps, skips, lock, expired, bal,
                   seen, top, row, reconcile>>

\* The status after the broadcast, by primary key: it may reopen a row that the
\* reconciler has settled meanwhile.
Record(w) ==
    /\ pc[w] = "record"
    /\ \/ note[w] = "permanent" /\ Keep(w, "fail") /\ UNCHANGED <<status, txid, drained, faults>>
       \/ /\ note[w] # "permanent"
          /\ \/ /\ status' = [status EXCEPT ![row[w]] = "broadcast"]
                /\ txid' = [txid EXCEPT ![row[w]] = @ \/ note[w] = "ok"]
                /\ drained' = [drained EXCEPT ![row[w]] = @ /\ note[w] = "ok"]
                /\ UNCHANGED faults
             \/ Fault /\ UNCHANGED <<status, txid, drained>>
          /\ Keep(w, "unlock")
    /\ UNCHANGED <<chain, deposits, amount, maxId, raw, covers, skips, lock, expired, reconcile>>

\* The sweep ends with failSweep.
FailSweep(w) ==
    /\ pc[w] = "fail"
    /\ FailRow(row[w])
    /\ Keep(w, "unlock")
    /\ UNCHANGED <<chain, deposits, amount, maxId, txid, raw, covers, skips, lock, expired,
                   reconcile>>

\* The deferred unlock: DEL, whoever holds the key by now.
Unlock(w) ==
    /\ pc[w] = "unlock"
    /\ lock' = NoSweeper
    /\ Leave(w)
    /\ UNCHANGED <<chain, deposits, sweeps, skips, expired, reconcile, faults>>

-----------------------------------------------------------------------------
(* Reconcile.                                                              *)

RGoto(r, l) == rpc' = [rpc EXCEPT ![r] = l]
RKeep(r, l) == RGoto(r, l) /\ UNCHANGED <<batch, rrow>>

\* The next row of the batch.
RNext(r) ==
    /\ RGoto(r, "rows")
    /\ rrow' = [rrow EXCEPT ![r] = NoSweep]
    /\ UNCHANGED batch

\* The signed rows: status IN (energy_ready, broadcast) AND txid <> ''
Reconcile(r) ==
    /\ rpc[r] = "poll"
    /\ batch' = [batch EXCEPT ![r] = {k \in Rows : status[k] \in Signed /\ txid[k]}]
    /\ RGoto(r, IF batch'[r] = {} THEN "poll" ELSE "rows")
    /\ UNCHANGED <<chain, deposits, sweeps, skips, lock, expired, round, rrow, faults>>

\* GetTxInfoByID, which answers from the head: the block need not be solid.
ReadReceipt(r) ==
    /\ rpc[r] = "rows"
    /\ \E k \in batch[r] :
         /\ \A j \in batch[r] : k <= j
         /\ batch' = [batch EXCEPT ![r] = @ \ {k}]
         /\ rrow' = [rrow EXCEPT ![r] = k]
         /\ RGoto(r, CASE outcome[k] = "none" -> "judge"
                      [] outcome[k] = "moved" -> "confirm"
                      [] OTHER -> "failed")
    /\ UNCHANGED <<chain, deposits, sweeps, skips, lock, expired, round, faults>>

EndReconcile(r) ==
    /\ rpc[r] = "rows"
    /\ batch[r] = {}
    /\ RKeep(r, "poll")
    /\ UNCHANGED <<chain, deposits, sweeps, skips, lock, expired, round, faults>>

\* Mutant: bytes that expired are sent again and again.
JudgedResend(k) == "resend"

\* settleAbsent: without signed_raw there is nothing to send and no expiration.
Judged(k) == IF ~raw[k] THEN "rows" ELSE IF expired[k] THEN "expire" ELSE "resend"

SettleAbsent(r) ==
    /\ rpc[r] = "judge"
    /\ IF Judged(rrow[r]) = "rows" THEN RNext(r) ELSE RKeep(r, Judged(rrow[r]))
    /\ UNCHANGED <<chain, deposits, sweeps, skips, lock, expired, round, faults>>

\* The row of an expired transaction is released.
ExpireRow(r) ==
    /\ rpc[r] = "expire"
    /\ LET k == rrow[r] IN
         IF status[k] \in Signed
         THEN /\ status' = [status EXCEPT ![k] = "failed"]
              /\ drained' = [drained EXCEPT ![k] = FALSE]
         ELSE UNCHANGED <<status, drained>>
    /\ RNext(r)
    /\ UNCHANGED <<chain, deposits, amount, maxId, txid, raw, covers, skips, lock, expired,
                   round, faults>>

\* rebroadcast: the identical bytes.
Rebroadcast(r) ==
    /\ rpc[r] = "resend"
    /\ \E answer \in Answers :
         /\ Broadcast(rrow[r], answer)
         /\ IF answer = "permanent" THEN RKeep(r, "refuse") ELSE RNext(r)
    /\ UNCHANGED <<arrived, moved, outcome, dead, deposits, sweeps, skips, lock, expired, round>>

\* failSweep after a rebroadcast that was refused for good.
RefuseRow(r) ==
    /\ rpc[r] = "refuse"
    /\ FailRow(rrow[r])
    /\ RNext(r)
    /\ UNCHANGED <<chain, deposits, amount, maxId, txid, raw, covers, skips, lock, expired,
                   round>>

\* The transfer failed on chain: WHERE id = ? alone, and the error is ignored.
FailedOnChain(r) ==
    /\ rpc[r] = "failed"
    /\ \/ /\ status' = [status EXCEPT ![rrow[r]] = "failed"]
          /\ drained' = [drained EXCEPT ![rrow[r]] = outcome[rrow[r]] = "outOfEnergy"]
          /\ UNCHANGED faults
       \/ Fault /\ UNCHANGED <<status, drained>>
    /\ RNext(r)
    /\ UNCHANGED <<chain, deposits, amount, maxId, txid, raw, covers, skips, lock, expired,
                   round>>

\* Mutant: every deposit that is confirmed by now is written off.
CoveredAll(k) == confirmed

\* The deposits a confirmed sweep writes off; no deposit_max_id means all.
Covered(k) == {d \in confirmed : maxId[k] > 0 => d <= maxId[k]}

\* The transfer succeeded: one transaction, whose deposits are marked and whose
\* skip counter is deleted whether the status was updated or not.
ConfirmRow(r) ==
    /\ rpc[r] = "confirm"
    /\ LET k == rrow[r] IN
         /\ status' = [status EXCEPT ![k] = IF @ \in Signed THEN "confirmed" ELSE @]
         /\ swept' = swept \cup Covered(k)
    /\ skips' = 0
    /\ RNext(r)
    /\ UNCHANGED <<chain, confirmed, amount, maxId, txid, raw, drained, covers, lock, expired,
                   round, faults>>

-----------------------------------------------------------------------------
(* Failures.                                                               *)

\* A query or RPC fails: the address is left for a later round.
RoundError(w) ==
    /\ pc[w] \in {"balance", "empty", "mark", "skip"}
    /\ Fault
    /\ Leave(w)
    /\ UNCHANGED <<chain, deposits, sweeps, skips, lock, expired, reconcile>>

\* The same under the lock, or an address that cannot burn its fee.
SweepError(w) ==
    /\ pc[w] \in {"inflight", "budget", "top", "create"}
    /\ Fault
    /\ Keep(w, "unlock")
    /\ UNCHANGED <<chain, deposits, sweeps, skips, lock, expired, reconcile>>

\* The same for one row of Reconcile; a transaction that fails changes nothing.
ReconcileError(r) ==
    /\ rpc[r] \in {"judge", "expire", "resend", "confirm"}
    /\ Fault
    /\ RNext(r)
    /\ UNCHANGED <<chain, deposits, sweeps, skips, lock, expired, round>>

\* The process dies and is restarted; its lock stays until its TTL.
CrashRound(w) ==
    /\ pc[w] # "poll"
    /\ Fault
    /\ Leave(w)
    /\ UNCHANGED <<chain, deposits, sweeps, skips, lock, expired, reconcile>>

CrashReconcile(r) ==
    /\ rpc[r] # "poll"
    /\ Fault
    /\ RGoto(r, "poll")
    /\ batch' = [batch EXCEPT ![r] = {}]
    /\ rrow' = [rrow EXCEPT ![r] = NoSweep]
    /\ UNCHANGED <<chain, deposits, sweeps, skips, lock, expired, round>>

\* A sweeper is under the lock between TakeLock and Unlock.
Locked == {"inflight", "budget", "top", "create", "energy", "build", "store", "send", "record",
           "fail", "unlock"}

\* The TTL of the lock passes.  It is longer than a sweep, so that without
\* "slowSweep" it only runs out on a sweeper that died.
LockExpires ==
    /\ lock # NoSweeper
    /\ "slowSweep" \in Hazards \/ pc[lock] \notin Locked
    /\ lock' = NoSweeper
    /\ UNCHANGED <<chain, deposits, sweeps, skips, expired, round, reconcile, faults>>

-----------------------------------------------------------------------------
(* The chain (external), the scanner and the clock.                        *)

\* The next deposit is on the chain.
Arrive ==
    /\ arrived < LastDeposit
    /\ arrived' = arrived + 1
    /\ UNCHANGED <<moved, net, outcome, dead, deposits, sweeps, skips, lock, expired, round,
                   reconcile, faults>>

\* A sweeper is between tokenBalance and the query that relies on its balance.
Reading == {"empty", "mark", "skip", "lock", "inflight", "budget", "top"}

\* The scanner confirms a deposit, in any order.  Confirmations take longer than
\* the few calls of Reading: without "slowRead" a sweeper that is there has
\* already seen the deposit on chain.
ConfirmDeposit(d) ==
    /\ d <= arrived
    /\ d \notin confirmed
    /\ "slowRead" \notin Hazards => \A w \in Sweepers : pc[w] \in Reading => d <= seen[w]
    /\ confirmed' = confirmed \cup {d}
    /\ UNCHANGED <<chain, swept, sweeps, skips, lock, expired, round, reconcile, faults>>

\* A witness packs the transfer of row k.  One above the balance reverts, and any
\* may run out of energy or revert.
Include(k) ==
    /\ net[k] = "pool"
    /\ ~dead[k]
    /\ net' = [net EXCEPT ![k] = "packed"]
    /\ \E out \in {"moved", "outOfEnergy", "reverted"} :
         /\ outcome' = [outcome EXCEPT ![k] = out]
         /\ out = "moved" => Held >= amount[k]
         /\ moved' = IF out = "moved" THEN moved + amount[k] ELSE moved
         /\ IF out = "moved" \/ (out = "reverted" /\ Held < amount[k])
            THEN UNCHANGED faults ELSE Fault
    /\ UNCHANGED <<arrived, dead, deposits, sweeps, skips, lock, expired, round, reconcile>>

\* The nodes forget a pending transaction.
Evict(k) ==
    /\ net[k] = "pool"
    /\ Fault
    /\ net' = [net EXCEPT ![k] = "signed"]
    /\ UNCHANGED <<arrived, moved, outcome, dead, deposits, sweeps, skips, lock, expired, round,
                   reconcile>>

\* The transfers whose expiration can matter: the ones that are not packed yet
\* and, with "lateRead", one that a lookup has just missed.
Mortal == {"signed", "pool"} \cup IF "lateRead" \in Hazards THEN {"packed"} ELSE {}

\* Block time passes the expiration inside the bytes of row k.
ChainExpires(k) ==
    /\ net[k] \in Mortal
    /\ ~dead[k]
    /\ IF net[k] = "packed" THEN UNCHANGED faults ELSE Fault
    /\ dead' = [dead EXCEPT ![k] = TRUE]
    /\ UNCHANGED <<arrived, moved, net, outcome, deposits, sweeps, skips, lock, expired, round,
                   reconcile>>

\* The local clock passes expired_at, which was set after the bytes were built.
LocalExpires(k) ==
    /\ raw[k] /\ dead[k] /\ ~expired[k]
    /\ expired' = [expired EXCEPT ![k] = TRUE]
    /\ UNCHANGED <<chain, deposits, sweeps, skips, lock, round, reconcile, faults>>

-----------------------------------------------------------------------------
RoundSteps(w) ==
    \/ Candidates(w) \/ TokenBalance(w) \/ CountSwept(w) \/ MarkSweptEmpty(w)
    \/ RecordSkip(w) \/ TakeLock(w) \/ CountInflight(w) \/ CheckBudget(w)
    \/ MaxUnsweptDepositID(w) \/ CreateRow(w) \/ AcquireEnergy(w) \/ BuildAndSign(w)
    \/ StoreSigned(w) \/ Send(w) \/ Record(w) \/ FailSweep(w) \/ Unlock(w)

ReconcileSteps(r) ==
    \/ Reconcile(r) \/ ReadReceipt(r) \/ EndReconcile(r) \/ SettleAbsent(r) \/ ExpireRow(r)
    \/ Rebroadcast(r) \/ RefuseRow(r) \/ FailedOnChain(r) \/ ConfirmRow(r)

Next ==
    \/ \E w \in Sweepers : RoundSteps(w) \/ RoundError(w) \/ SweepError(w) \/ CrashRound(w)
    \/ \E r \in Reconcilers : ReconcileSteps(r) \/ ReconcileError(r) \/ CrashReconcile(r)
    \/ \E d \in Deposits : ConfirmDeposit(d)
    \/ \E k \in Rows : Include(k) \/ Evict(k) \/ ChainExpires(k) \/ LocalExpires(k)
    \/ Arrive
    \/ LockExpires

Spec == Init /\ [][Next]_vars

\* Both loops run on tickers, Redis expires keys, time passes, and the chain packs
\* a pending transfer unless a fault keeps it from doing so.
Fairness ==
    /\ \A w \in Sweepers : WF_vars(RoundSteps(w))
    /\ \A r \in Reconcilers : WF_vars(ReconcileSteps(r))
    /\ \A k \in Rows : WF_vars(Include(k)) /\ WF_vars(LocalExpires(k))
    /\ WF_vars(LockExpires)

FairSpec == Spec /\ Fairness

-----------------------------------------------------------------------------
(* Properties.                                                             *)

\* Every variable keeps its type.
TypeOK ==
    /\ arrived \in Ids
    /\ moved \in Nat
    /\ net \in [Rows -> {"none", "signed", "pool", "packed", "void"}]
    /\ outcome \in [Rows -> {"none", "moved", "outOfEnergy", "reverted"}]
    /\ dead \in [Rows -> BOOLEAN]
    /\ confirmed \subseteq Deposits
    /\ swept \subseteq Deposits
    /\ status \in [Rows -> InFlight \cup {"absent", "confirmed", "failed"}]
    /\ amount \in [Rows -> Nat]
    /\ maxId \in [Rows -> Ids]
    /\ txid \in [Rows -> BOOLEAN]
    /\ raw \in [Rows -> BOOLEAN]
    /\ drained \in [Rows -> BOOLEAN]
    /\ covers \in [Rows -> Ids]
    /\ skips \in Nat
    /\ lock \in Sweepers \cup {NoSweeper}
    /\ expired \in [Rows -> BOOLEAN]
    /\ pc \in [Sweepers -> Pcs]
    /\ bal \in [Sweepers -> Nat]
    /\ seen \in [Sweepers -> Ids]
    /\ top \in [Sweepers -> Ids]
    /\ row \in [Sweepers -> Rows \cup {NoSweep}]
    /\ note \in [Sweepers -> Answers \cup {"none"}]
    /\ rpc \in [Reconcilers -> Rpcs]
    /\ batch \in [Reconcilers -> SUBSET Rows]
    /\ rrow \in [Reconcilers -> Rows \cup {NoSweep}]
    /\ faults \in Nat

\* A transfer of row k can still be included.
Live(k) == net[k] \in {"signed", "pool"} /\ ~dead[k]

\* "building a second transaction while the first one may still be included would
\* sweep the same balance twice" (settleAbsent): of two sweep processes, through
\* crashes, failed writes and reopened rows, no second transfer is built while
\* one can still be included.
OneLiveSweep == \A j, k \in Rows : Live(j) /\ Live(k) => j = k

\* Every row names the deposits it covers.
Bounded == \A k \in Rows : status[k] # "absent" => maxId[k] # 0

\* "Only the deposits this sweep actually covered are written off" (Reconcile) and
\* "a balance that never arrived is not written off" (markSweptEmpty): the units
\* of every swept deposit, and of all deposits before it, are in the finance
\* wallet, as long as every sweep recorded a deposit id.
SweptWasMoved == Bounded => \A d \in swept : Total[d] <= moved

\* What a set of deposits brought to the address.
Units(S) == MapThenSumSet(LAMBDA d : Total[d] - Total[d - 1], S)

\* "a deposit that confirms while the sweep is in flight is not written off with
\* it" (SweepRecord.DepositMaxID), whatever the rows say: the swept deposits bring
\* together no more than the finance wallet has received.
OnlyCoveredAreSwept == Units(swept) <= moved

\* A row no reconciler will ever look at again although it counts as in flight: its
\* sweeper has left it without a txid, or before it was marked as signed.
Abandoned ==
    \E k \in Rows :
        /\ status[k] \in InFlight
        /\ status[k] = "created" \/ ~raw[k]
        /\ \A w \in Sweepers : row[w] # k

\* "so small balances still reach the finance wallet eventually" (roundToken): a
\* confirmed deposit is swept, above the threshold or below it, unless its address
\* has used up its energy retries or a row of it was abandoned.
SweptInTheEnd ==
    \A d \in Deposits :
        d \in confirmed ~>
            d \in swept \/ [](Abandoned) \/ [](EnergyFailures >= MaxEnergyRetries)

-----------------------------------------------------------------------------
(* The inductive invariant.                                                *)

\* Only deposits on the chain are confirmed, and no more was moved than they brought.
BalanceInv == (\A d \in confirmed : d <= arrived) /\ swept \subseteq confirmed /\ moved <= Total[arrived]

\* A balance in hand, and the amount of a row, still reach for everything that
\* was on the chain when it was read: sweeps of others only add to moved.
ReadInv == \A w \in Sweepers : pc[w] \in Reading \cup {"create"} => Total[seen[w]] <= bal[w] + moved
AmountInv ==
    \A k \in Rows : status[k] # "absent" => Total[covers[k]] <= amount[k] + moved

\* Nothing is confirmed that a sweeper in Reading has not seen, and what it found
\* to be the highest deposit it has seen as well.
SeenInv ==
    \A w \in Sweepers :
        /\ pc[w] \in Reading => \A d \in confirmed : d <= seen[w]
        /\ pc[w] = "create" => top[w] <= seen[w]
MaxIdInv == \A k \in Rows : status[k] # "absent" => maxId[k] <= covers[k]

\* Only a zero balance leads to markSweptEmpty.
EmptyInv == \A w \in Sweepers : pc[w] \in {"empty", "mark"} => bal[w] = 0

\* A sweeper that has a row has one that exists, and so has a reconciler, which
\* confirms it only once everything its amount was made of has been moved.
RowsInv ==
    /\ \A w \in Sweepers :
          pc[w] \in {"energy", "build", "store", "send", "record", "fail"} =>
              row[w] \in Rows /\ status[row[w]] # "absent"
    /\ \A r \in Reconcilers :
          /\ \A k \in batch[r] : status[k] # "absent"
          /\ rpc[r] \notin {"poll", "rows"} => rrow[r] \in Rows /\ status[rrow[r]] # "absent"
          /\ rpc[r] = "confirm" => Total[covers[rrow[r]]] <= moved

\* Only the transfer of an existing row is signed, and one that worked has moved
\* everything its amount was made of.
ChainInv ==
    \A k \in Rows :
        /\ net[k] # "none" => status[k] # "absent"
        /\ outcome[k] = "moved" => status[k] # "absent" /\ Total[covers[k]] <= moved

\* What sweepers and reconcilers remember is backed by units that are still at the
\* address or already in the finance wallet, whatever the hazards.
BackedInv ==
    /\ TypeOK /\ BalanceInv /\ ReadInv /\ AmountInv /\ EmptyInv /\ RowsInv /\ ChainInv

\* The inductive invariant: besides, no deposit id reaches beyond what is backed.
IInv == BackedInv /\ SeenInv /\ MaxIdInv /\ SweptWasMoved

-----------------------------------------------------------------------------
(* What else is inductive as long as no answer is lost and no lock runs out *)
(* under a sweep.                                                          *)

\* Whoever is under the lock holds it.
LockInv == \A w \in Sweepers : pc[w] \in Locked => lock = w

\* At most one row is in flight: none while a sweeper is about to create one, and
\* no other than its own while a sweeper works on a row.
Working == {"energy", "build", "store", "send", "record", "fail"}
FlightInv ==
    /\ \A j, k \in Rows : status[j] \in InFlight /\ status[k] \in InFlight => j = k
    /\ \A w \in Sweepers, k \in Rows : status[k] \in InFlight =>
          /\ pc[w] \notin {"budget", "top", "create"}
          /\ pc[w] \in Working => row[w] = k

\* What sweeper w knows of the bytes of its row: not built, built, or refused.
BytesInv(w) ==
    /\ pc[w] \in {"energy", "build", "store"} =>
          status[row[w]] \in InFlight /\ ~txid[row[w]]
    /\ pc[w] \in {"energy", "build"} => net[row[w]] = "none"
    /\ pc[w] \in {"store", "send", "record"} => net[row[w]] # "none"
    /\ pc[w] = "record" /\ note[w] = "permanent" => net[row[w]] = "void"
    /\ pc[w] = "fail" => net[row[w]] \in {"none", "void"}

\* What reconciler r knows of the rows of its batch and of the row at hand.
ReceiptInv(r) ==
    /\ \A k \in batch[r] : txid[k]
    /\ rpc[r] \notin {"poll", "rows"} => txid[rrow[r]]
    /\ rpc[r] \in {"failed", "confirm"} => net[rrow[r]] = "packed"
    /\ rpc[r] = "refuse" => net[rrow[r]] = "void"
    /\ rpc[r] = "expire" => dead[rrow[r]]

\* A transfer that can still be included has its row in flight.
HeldInv ==
    \A k \in Rows :
        /\ Live(k) => status[k] \in InFlight
        /\ txid[k] => net[k] # "none"
        /\ outcome[k] # "none" => net[k] = "packed"
        /\ expired[k] => dead[k]

LiveInv ==
    /\ LockInv /\ FlightInv /\ HeldInv
    /\ \A w \in Sweepers : BytesInv(w)
    /\ \A r \in Reconcilers : ReceiptInv(r)

=============================================================================
