------------------------------ MODULE Withdraw ------------------------------
(***************************************************************************)
(* Withdrawal execution (internal/withdraw/worker.go) over the shared      *)
(* withdraw_record and notify_outbox tables, the Redis order lock, the     *)
(* chain gateway and the chain.                                            *)
(*                                                                         *)
(* Several worker processes run the same loop: processCreated builds,      *)
(* signs and broadcasts the created orders, Reconcile settles the signed   *)
(* and broadcast ones.  Every database statement, RPC and clock read that  *)
(* another process can observe or overtake is a step of its own; a crash   *)
(* may fall between any two of them.                                       *)
(*                                                                         *)
(* One order is one row; order ids are the primary keys the code sorts by. *)
(* Addresses, contracts, texts and fees are abstracted away.               *)
(***************************************************************************)
EXTENDS Integers, FiniteSets, FiniteSetsExt

CONSTANTS
    Orders,          \* primary keys of the withdraw_record rows
    Workers,         \* withdraw processes
    Txs,             \* transactions, numbered as they are built (a bound for TLC)
    NoWorker,        \* nobody holds the lock
    Amount,          \* Amount[o]: amount_units of order o
    DailyMax,        \* withdraw_server.daily_max_units, 0 switches it off
    HaltMaxRetries,  \* withdraw_server.halt_max_retries
    CreatedLimit,    \* LIMIT of the processCreated query (20 in the code)
    ReconcileLimit,  \* LIMIT of the Reconcile query (100 in the code)
    Refused,         \* orders whose transfer cannot be built or signed
    Hazards,         \* which environment hazards are switched on
    InitialFunds,    \* token balance of the hot wallet at the start
    RefillUnits,     \* amount finance adds when it refills the hot wallet
    MaxRefills,      \* bound: refills
    MaxFaults        \* bound: crashes, errors, evictions, forks, lost answers

NoTx == 0  \* an empty txid column

\* "lostAnswer": a node refuses for good bytes that another node has taken.
\* "lateRead"  : the receipt lookup and the clock reading that follows it
\*               straddle the last block that could include the transaction.
\* "halts"     : energy cannot always be rented or burnt.
\* "risk"      : the risk check refuses some orders (blacklist, limits).
\* "unreadSum" : the query that sums the orders of the day may fail.
AllHazards == {"lostAnswer", "lateRead", "halts", "risk", "unreadSum"}

ASSUME OrdersAssumption == Orders \subseteq Nat \ {0} /\ IsFiniteSet(Orders)
ASSUME AmountAssumption == Amount \in [Orders -> Nat \ {0}]
ASSUME TxAssumption == Txs \subseteq Nat \ {0}
ASSUME WorkerAssumption == NoWorker \notin Workers
ASSUME LimitAssumption ==
    /\ DailyMax \in Nat
    /\ HaltMaxRetries \in Nat \ {0}
    /\ CreatedLimit \in Nat \ {0}
    /\ ReconcileLimit \in Nat \ {0}
ASSUME EnvironmentAssumption ==
    /\ Refused \subseteq Orders
    /\ Hazards \subseteq AllHazards
    /\ InitialFunds \in Nat
    /\ RefillUnits \in Nat
    /\ MaxRefills \in Nat
    /\ MaxFaults \in Nat

VARIABLES
    \* --- database
    status,     \* status[o]: withdraw_record.status, "absent" before the insert
    txid,       \* txid[o]: withdraw_record.txid (and signed_raw)
    haltCount,  \* haltCount[o]: withdraw_record.halt_count
    reason,     \* reason[o]: withdraw_record.fail_reason, as a class
    outbox,     \* notify_outbox rows of type withdraw_result
    \* --- redis
    lock,       \* lock[o]: worker whose SETNX holds "withdraw:"+order_no
    \* --- clock
    expired,    \* expired[o]: the local clock is past withdraw_record.expired_at
    \* --- chain and nodes (external)
    owner,      \* owner[t]: the order t was built for, 0 while t is not built
    net,        \* net[t]: where the signed bytes of t are
    result,     \* result[t]: what executing t in its block did
    dead,       \* dead[t]: the chain is past the expiration inside t
    hot,        \* token balance of the hot wallet at the head
    refills,    \* refills so far
    \* --- workers
    pc,         \* pc[w]: next step of worker w
    batch,      \* batch[w]: rows of the last query that w has not handled yet
    row,        \* row[w]: the row (a snapshot) w is handling
    tx,         \* tx[w]: the transaction w built
    note,       \* note[w]: answer or verdict w carries to its next step
    balance,    \* balance[w]: the hot wallet balance w read
    faults,     \* faults spent, out of MaxFaults
    \* --- history, read by properties only
    sent,       \* transactions whose bytes were handed to a node
    halts       \* halts[o]: halts of order o by any worker, up to HaltMaxRetries

db == <<status, txid, haltCount, reason, outbox>>
chain == <<owner, net, result, dead, hot, refills>>
local == <<pc, batch, row, tx, note, balance>>
vars == <<db, lock, expired, chain, local, faults, sent, halts>>

Statuses == {"absent", "created", "signed", "broadcast", "confirmed",
             "failed", "rejected"}
Open == {"signed", "broadcast"}
Settled == {"confirmed", "failed", "rejected"}
Reasons == {"", "blocked", "dailyLimit", "halted", "node", "refused", "expired",
            "reverted", "noTransfer"}
Pcs == {"poll", "created", "risk", "balance", "inflight", "halt", "energy", "build",
        "commit", "send", "record", "settle", "judge", "resend", "final", "finish"}
Answers == {"ok", "permanent", "transient"}
Outcomes == {"paid", "reverted", "noTransfer"}
Verdicts == Outcomes \cup {"expired", "refused"}
Notes == {""} \cup Answers \cup Verdicts

\* The outcome reported for a settled status.
Result(s) == CASE s = "confirmed" -> "success"
               [] s = "rejected" -> "rejected"
               [] OTHER -> "failed"

Row == [id : Orders, halt : Nat, txid : Txs \cup {NoTx}]
NoRow == [id |-> 0, halt |-> 0, txid |-> NoTx]

Init ==
    /\ status = [o \in Orders |-> "absent"]
    /\ txid = [o \in Orders |-> NoTx]
    /\ haltCount = [o \in Orders |-> 0]
    /\ reason = [o \in Orders |-> ""]
    /\ outbox = {}
    /\ lock = [o \in Orders |-> NoWorker]
    /\ expired = [o \in Orders |-> FALSE]
    /\ owner = [t \in Txs |-> 0]
    /\ net = [t \in Txs |-> "nowhere"]
    /\ result = [t \in Txs |-> "none"]
    /\ dead = [t \in Txs |-> FALSE]
    /\ hot = InitialFunds
    /\ refills = 0
    /\ pc = [w \in Workers |-> "poll"]
    /\ batch = [w \in Workers |-> {}]
    /\ row = [w \in Workers |-> NoRow]
    /\ tx = [w \in Workers |-> NoTx]
    /\ note = [w \in Workers |-> ""]
    /\ balance = [w \in Workers |-> 0]
    /\ faults = 0
    /\ sent = {}
    /\ halts = [o \in Orders |-> 0]

-----------------------------------------------------------------------------
(* Helpers shared by the steps.                                            *)

\* Worker w goes on with the row at hand ...
Goto(w, l) == pc' = [pc EXCEPT ![w] = l]
Keep(w, l) == Goto(w, l) /\ UNCHANGED <<row, tx, note, balance>>

\* ... or is done with it, and its local variables go out of scope.
Leave(w, l) ==
    /\ Goto(w, l)
    /\ row' = [row EXCEPT ![w] = NoRow]
    /\ tx' = [tx EXCEPT ![w] = NoTx]
    /\ note' = [note EXCEPT ![w] = ""]
    /\ balance' = [balance EXCEPT ![w] = 0]

\* The deferred unlock of execute: an unconditional DEL of the key, whoever
\* holds it by now.
Release(w) ==
    /\ lock' = [lock EXCEPT ![row[w].id] = NoWorker]
    /\ Leave(w, "created")

\* ORDER BY id ASC LIMIT n
FirstById(S, n) == {o \in S : Cardinality({p \in S : p < o}) < n}

\* The rows of S a query returns, as they are now.
Query(S, n) == {[id |-> o, halt |-> haltCount[o], txid |-> txid[o]] : o \in FirstById(S, n)}

\* The next row of the batch, in id order.
IsNextRow(w, r) == r \in batch[w] /\ \A q \in batch[w] : r.id <= q.id

\* store.EnqueueOutbox inside the caller's transaction, ON CONFLICT DO NOTHING
EnqueueOutbox(o, res) ==
    outbox' = IF \E e \in outbox : e.order = o
              THEN outbox
              ELSE outbox \cup {[order |-> o, result |-> res]}

\* Mutant: WHERE id = o only.
SettleIfUnguarded(o, from, to, why) ==
    /\ status' = [status EXCEPT ![o] = to]
    /\ reason' = [reason EXCEPT ![o] = why]
    /\ EnqueueOutbox(o, Result(to))

\* Mutant: RowsAffected is not looked at.
SettleIfUnchecked(o, from, to, why) ==
    /\ status' = [status EXCEPT ![o] = IF @ \in from THEN to ELSE @]
    /\ reason' = [reason EXCEPT ![o] = IF status[o] \in from THEN why ELSE @]
    /\ EnqueueOutbox(o, Result(to))

\* UPDATE ... WHERE id = o AND status IN from, and the outbox row in the same
\* transaction when a row was affected.
SettleIf(o, from, to, why) ==
    IF status[o] \in from
    THEN /\ status' = [status EXCEPT ![o] = to]
         /\ reason' = [reason EXCEPT ![o] = why]
         /\ EnqueueOutbox(o, Result(to))
    ELSE UNCHANGED <<status, reason, outbox>>

\* Sum of amount_units over a set of rows.
Units(S) == SumFunctionOnSet(Amount, S)

-----------------------------------------------------------------------------
(* API: createWithdraw inserts the row; order_no is unique, so a repeated  *)
(* submission changes nothing.                                             *)

CreateWithdraw(o) ==
    /\ status[o] = "absent"
    /\ status' = [status EXCEPT ![o] = "created"]
    /\ UNCHANGED <<txid, haltCount, reason, outbox, lock, expired, chain, local,
                   faults, sent, halts>>

-----------------------------------------------------------------------------
(* processCreated and execute.                                             *)

\* An error of this query, of Reconcile's or of the lock is a round without that
\* row, which a row created a moment too late has as well.
ProcessCreated(w) ==
    /\ pc[w] = "poll"
    /\ batch' = [batch EXCEPT ![w] =
           Query({o \in Orders : status[o] = "created"}, CreatedLimit)]
    /\ Keep(w, "created")
    /\ UNCHANGED <<db, lock, expired, chain, faults, sent, halts>>

\* execute begins with the order lock; a row whose lock is taken is skipped.
TakeLock(w) ==
    /\ pc[w] = "created"
    /\ \E r \in batch[w] :
          /\ IsNextRow(w, r)
          /\ batch' = [batch EXCEPT ![w] = @ \ {r}]
          /\ IF lock[r.id] = NoWorker
             THEN /\ lock' = [lock EXCEPT ![r.id] = w]
                  /\ row' = [row EXCEPT ![w] = r]
                  /\ Goto(w, "risk")
             ELSE UNCHANGED <<lock, row, pc>>
    /\ UNCHANGED <<db, expired, chain, tx, note, balance, faults, sent, halts>>

\* The daily limit counts every order of the day that is not failed or
\* rejected, the order under check among them, and adds its amount once more.
OverDailyLimit(o) ==
    LET today == {p \in Orders : status[p] \notin {"absent", "failed", "rejected"}}
    IN  DailyMax > 0 /\ Units(today) + Amount[o] > DailyMax

\* riskCheck, and reject when it finds a reason.  An error of the query that sums
\* the day is ignored, and the order passes.
RiskCheck(w) ==
    /\ pc[w] = "risk"
    /\ LET o == row[w].id IN
         \/ /\ ~OverDailyLimit(o) \/ "unreadSum" \in Hazards
            /\ Keep(w, "balance")
            /\ UNCHANGED <<status, reason, outbox, lock>>
         \/ \E why \in {"blocked", "dailyLimit"} :
            /\ IF why = "blocked" THEN "risk" \in Hazards ELSE OverDailyLimit(o)
            /\ SettleIf(o, {"created"}, "rejected", why)
            /\ Release(w)
    /\ UNCHANGED <<txid, haltCount, expired, chain, batch, faults, sent, halts>>

\* checkBalance, first half: balanceOf on a node.
ReadBalance(w) ==
    /\ pc[w] = "balance"
    /\ balance' = [balance EXCEPT ![w] = hot]
    /\ Goto(w, "inflight")
    /\ UNCHANGED <<db, lock, expired, chain, batch, row, tx, note, faults, sent, halts>>

\* Mutant: only broadcast orders are still going to leave the wallet.
InflightBroadcast == Units({o \in Orders : status[o] = "broadcast"})

\* inflightUnits
Inflight == Units({o \in Orders : status[o] \in Open})

\* checkBalance, second half: inflightUnits and the comparison.
CheckInflight(w) ==
    /\ pc[w] = "inflight"
    /\ Keep(w, IF balance[w] >= Amount[row[w].id] + Inflight THEN "energy" ELSE "halt")
    /\ UNCHANGED <<db, lock, expired, chain, batch, faults, sent, halts>>

\* Energy: the pool covers it, it is rented, or the hot wallet burns TRX.
\* Whichever way is configured, running out of it halts the order.
AcquireEnergy(w) ==
    /\ pc[w] = "energy"
    /\ \/ Keep(w, "build")
       \/ "halts" \in Hazards /\ Keep(w, "halt")
    /\ UNCHANGED <<db, lock, expired, chain, batch, faults, sent, halts>>

\* Mutant: failHalted without its status condition.
HaltUnguarded(w) ==
    /\ pc[w] = "halt"
    /\ LET o == row[w].id IN
         /\ SettleIf(o, Statuses, "failed", "halted")
         /\ haltCount' = [haltCount EXCEPT ![o] = row[w].halt + 1]
    /\ Release(w)
    /\ UNCHANGED <<txid, expired, chain, batch, faults, sent, halts>>

\* Mutant: counted from one too many.
AttemptEager(w) == row[w].halt + 2

\* attempt := row.HaltCount + 1, from the snapshot the query of processCreated
\* took and not from the row.
Attempt(w) == row[w].halt + 1

\* halt and failHalted: both write only to an order that is still created.
Halt(w) ==
    /\ pc[w] = "halt"
    /\ LET o == row[w].id IN
         /\ IF Attempt(w) >= HaltMaxRetries
            THEN SettleIf(o, {"created"}, "failed", "halted")
            ELSE /\ reason' = [reason EXCEPT ![o] =
                                  IF status[o] = "created" THEN "halted" ELSE @]
                 /\ UNCHANGED <<status, outbox>>
         /\ haltCount' = [haltCount EXCEPT ![o] =
                             IF status[o] = "created" THEN Attempt(w) ELSE @]
         /\ halts' = [halts EXCEPT ![o] = IF @ < HaltMaxRetries THEN @ + 1 ELSE @]
    /\ Release(w)
    /\ UNCHANGED <<txid, expired, chain, batch, faults, sent>>

\* BuildTRC20Transfer and Sign: a fresh transaction, or an error that leaves
\* the order created for a later round.
BuildAndSign(w) ==
    /\ pc[w] = "build"
    /\ LET fresh == {t \in Txs : owner[t] = 0} IN
         \/ /\ row[w].id \notin Refused
            /\ \E t \in fresh :
                 /\ \A u \in fresh : t <= u
                 /\ owner' = [owner EXCEPT ![t] = row[w].id]
                 /\ tx' = [tx EXCEPT ![w] = t]
            /\ Goto(w, "commit")
            /\ UNCHANGED <<lock, row, note, balance>>
         \/ /\ row[w].id \in Refused \/ fresh = {}
            /\ Release(w)
            /\ UNCHANGED owner
    /\ UNCHANGED <<db, expired, net, result, dead, hot, refills, batch, faults, sent, halts>>

\* Mutant: WHERE id = o only.
CommitSignedUnguarded(w) ==
    /\ pc[w] = "commit"
    /\ status' = [status EXCEPT ![row[w].id] = "signed"]
    /\ txid' = [txid EXCEPT ![row[w].id] = tx[w]]
    /\ Keep(w, "send")
    /\ UNCHANGED <<haltCount, reason, outbox, lock, expired, chain, batch, faults, sent, halts>>

\* The compare-and-swap created -> signed that records txid and signed_raw.
CommitSigned(w) ==
    /\ pc[w] = "commit"
    /\ LET o == row[w].id IN
         IF status[o] = "created"
         THEN /\ status' = [status EXCEPT ![o] = "signed"]
              /\ txid' = [txid EXCEPT ![o] = tx[w]]
              /\ Keep(w, "send")
              /\ UNCHANGED lock
         ELSE Release(w) /\ UNCHANGED <<status, txid>>
    /\ UNCHANGED <<haltCount, reason, outbox, expired, chain, batch, faults, sent, halts>>

-----------------------------------------------------------------------------
(* Gateway.Broadcast: identical bytes go to node after node until one      *)
(* answers.  No answer (timeout, decode error) or a refusal that           *)
(* ClassifyBroadcast does not know as permanent is "transient"; the bytes  *)
(* may have been taken all the same.                                       *)

\* Where the bytes are after some node took them: the pool, once and not
\* past their expiration.
Taken(t) == IF net[t] = "nowhere" /\ ~dead[t] THEN "pool" ELSE net[t]

Broadcast(t, answer) ==
    /\ sent' = sent \cup {t}
    /\ \E where \in {"void", net[t], Taken(t)} :
         /\ net' = [net EXCEPT ![t] = where]
         /\ CASE answer = "ok" -> where = Taken(t) /\ where \notin {"nowhere", "void"}
              [] answer = "transient" -> where # "void" \/ net[t] = "void"
              [] answer = "permanent" ->
                    \/ where = "void" /\ net[t] \in {"nowhere", "void"}
                    \/ "lostAnswer" \in Hazards /\ where # "void"
    /\ faults' = IF answer = "transient" THEN faults + 1 ELSE faults
    /\ faults' <= MaxFaults

\* broadcast, the RPC.
Send(w) ==
    /\ pc[w] = "send"
    /\ \E answer \in Answers :
         /\ Broadcast(tx[w], answer)
         /\ note' = [note EXCEPT ![w] = answer]
    /\ Goto(w, "record")
    /\ UNCHANGED <<db, lock, expired, owner, result, dead, hot, refills, batch, row, tx,
                   balance, halts>>

\* Mutant: signed -> broadcast without the compare-and-swap.
RecordUnguarded(w) ==
    /\ pc[w] = "record"
    /\ status' = [status EXCEPT ![row[w].id] = "broadcast"]
    /\ Release(w)
    /\ UNCHANGED <<reason, outbox, txid, haltCount, expired, chain, batch, faults, sent, halts>>

\* broadcast, the bookkeeping after the answer: a permanent refusal settles
\* the order, everything else moves signed -> broadcast.
Record(w) ==
    /\ pc[w] = "record"
    /\ LET o == row[w].id IN
         IF note[w] = "permanent"
         THEN SettleIf(o, Open, "failed", "refused")
         ELSE IF status[o] = "signed"
         THEN /\ status' = [status EXCEPT ![o] = "broadcast"]
              /\ reason' = [reason EXCEPT ![o] = IF note[w] = "ok" THEN "" ELSE "node"]
              /\ UNCHANGED outbox
         ELSE UNCHANGED <<status, reason, outbox>>
    /\ Release(w)
    /\ UNCHANGED <<txid, haltCount, expired, chain, batch, faults, sent, halts>>

-----------------------------------------------------------------------------
(* Reconcile and reconcileOne; no lock is taken.                           *)

Reconcile(w) ==
    /\ pc[w] = "created"
    /\ batch[w] = {}
    /\ batch' = [batch EXCEPT ![w] =
           Query({o \in Orders : status[o] \in Open}, ReconcileLimit)]
    /\ Keep(w, "settle")
    /\ UNCHANGED <<db, lock, expired, chain, faults, sent, halts>>

\* The round is over; the ticker starts the next one.
EndRound(w) ==
    /\ pc[w] = "settle"
    /\ batch[w] = {}
    /\ Keep(w, "poll")
    /\ UNCHANGED <<db, lock, expired, chain, batch, faults, sent, halts>>

\* GetTxInfoByID on a full node, which serves unsolidified blocks too.
ReadReceipt(w) ==
    /\ pc[w] = "settle"
    /\ \E r \in batch[w] :
          /\ IsNextRow(w, r)
          /\ batch' = [batch EXCEPT ![w] = @ \ {r}]
          /\ IF r.txid = NoTx
             THEN UNCHANGED <<row, pc>>
             ELSE /\ row' = [row EXCEPT ![w] = r]
                  /\ Goto(w, IF net[r.txid] \in {"block", "final"} THEN "final" ELSE "judge")
    /\ UNCHANGED <<db, lock, expired, chain, tx, note, balance, faults, sent, halts>>

\* Mutant: rebroadcast for ever, no matter what the clock says.
JudgeResend(w) ==
    /\ pc[w] = "judge"
    /\ Goto(w, "resend")
    /\ UNCHANGED <<db, lock, expired, chain, batch, row, tx, note, balance, faults, sent, halts>>

\* Mutant: absent from the chain is taken for expired.
JudgeAbsent(w) ==
    /\ pc[w] = "judge"
    /\ note' = [note EXCEPT ![w] = "expired"]
    /\ Goto(w, "finish")
    /\ UNCHANGED <<db, lock, expired, chain, batch, row, tx, balance, faults, sent, halts>>

\* The lookup found nothing: the clock decides.
Judge(w) ==
    /\ pc[w] = "judge"
    /\ IF expired[row[w].id]
       THEN note' = [note EXCEPT ![w] = "expired"] /\ Goto(w, "finish")
       ELSE Goto(w, "resend") /\ UNCHANGED note
    /\ UNCHANGED <<db, lock, expired, chain, batch, row, tx, balance, faults, sent, halts>>

\* rebroadcast: the very same bytes, signed again.
Rebroadcast(w) ==
    /\ pc[w] = "resend"
    /\ \E answer \in Answers :
         /\ Broadcast(row[w].txid, answer)
         /\ IF answer = "permanent"
            THEN /\ note' = [note EXCEPT ![w] = "refused"]
                 /\ Goto(w, "finish")
                 /\ UNCHANGED <<row, tx, balance>>
            ELSE Leave(w, "settle")
    /\ UNCHANGED <<db, lock, expired, owner, result, dead, hot, refills, batch, halts>>

\* Mutant: any receipt will do.
IsFinalReceipt(t) == net[t] \in {"block", "final"}

\* The solidity node only serves solidified blocks.
IsFinal(t) == net[t] = "final"

\* finalInfo from the solidity node: only solidified receipts.
FinalInfo(w) ==
    /\ pc[w] = "final"
    /\ IF IsFinal(row[w].txid)
       THEN /\ note' = [note EXCEPT ![w] = result[row[w].txid]]
            /\ Goto(w, "finish")
            /\ UNCHANGED <<row, tx, balance>>
       ELSE Leave(w, "settle")
    /\ UNCHANGED <<db, lock, expired, chain, batch, faults, sent, halts>>

\* finish: only a signed or broadcast order can be settled here.
Finish(w) ==
    /\ pc[w] = "finish"
    /\ IF note[w] = "paid"
       THEN SettleIf(row[w].id, Open, "confirmed", "")
       ELSE SettleIf(row[w].id, Open, "failed", note[w])
    /\ Leave(w, "settle")
    /\ UNCHANGED <<txid, haltCount, lock, expired, chain, batch, faults, sent, halts>>

-----------------------------------------------------------------------------
(* Failures.                                                               *)

\* A query, RPC or transaction of execute fails: the order is left for a
\* later round and the lock is given back.
ExecuteError(w) ==
    /\ pc[w] \in {"risk", "balance", "inflight", "energy", "halt", "build", "commit", "record"}
    /\ faults < MaxFaults
    /\ faults' = faults + 1
    /\ Release(w)
    /\ UNCHANGED <<db, expired, chain, batch, sent, halts>>

\* The same for one row of Reconcile.
ReconcileError(w) ==
    /\ pc[w] \in {"judge", "resend", "final", "finish"}
    /\ faults < MaxFaults
    /\ faults' = faults + 1
    /\ Leave(w, "settle")
    /\ UNCHANGED <<db, lock, expired, chain, batch, sent, halts>>

\* The process dies and is restarted; the lock it held stays until its TTL.
Crash(w) ==
    /\ pc[w] # "poll"
    /\ faults < MaxFaults
    /\ faults' = faults + 1
    /\ batch' = [batch EXCEPT ![w] = {}]
    /\ Leave(w, "poll")
    /\ UNCHANGED <<db, lock, expired, chain, sent, halts>>

\* The five minute TTL of the lock passes, whether its holder is done or not.
\* Without Redis every lock is granted, which is no worse.
LockExpires(o) ==
    /\ lock[o] # NoWorker
    /\ lock' = [lock EXCEPT ![o] = NoWorker]
    /\ UNCHANGED <<db, expired, chain, local, faults, sent, halts>>

-----------------------------------------------------------------------------
(* The chain (external), and the clock.                                    *)

\* A witness packs t into a block.  A transfer above the balance reverts.
Include(t) ==
    /\ net[t] = "pool"
    /\ ~dead[t]
    /\ net' = [net EXCEPT ![t] = "block"]
    /\ \E out \in Outcomes :
         /\ out = "paid" => hot >= Amount[owner[t]]
         /\ result' = [result EXCEPT ![t] = out]
         /\ hot' = IF out = "paid" THEN hot - Amount[owner[t]] ELSE hot
    /\ UNCHANGED <<db, lock, expired, owner, dead, refills, local, faults, sent, halts>>

\* A fork replaces the block of t; t is pending again.
Fork(t) ==
    /\ net[t] = "block"
    /\ faults < MaxFaults
    /\ faults' = faults + 1
    /\ net' = [net EXCEPT ![t] = "pool"]
    /\ result' = [result EXCEPT ![t] = "none"]
    /\ hot' = IF result[t] = "paid" THEN hot + Amount[owner[t]] ELSE hot
    /\ UNCHANGED <<db, lock, expired, owner, dead, refills, local, sent, halts>>

Solidify(t) ==
    /\ net[t] = "block"
    /\ net' = [net EXCEPT ![t] = "final"]
    /\ UNCHANGED <<db, lock, expired, owner, result, dead, hot, refills, local, faults, sent, halts>>

\* The nodes forget a pending transaction (restart, full pool).
Evict(t) ==
    /\ net[t] = "pool"
    /\ faults < MaxFaults
    /\ faults' = faults + 1
    /\ net' = [net EXCEPT ![t] = "nowhere"]
    /\ UNCHANGED <<db, lock, expired, owner, result, dead, hot, refills, local, sent, halts>>

\* Block time passes the expiration the node wrote into t.
ChainExpires(t) ==
    /\ owner[t] # 0
    /\ ~dead[t]
    /\ dead' = [dead EXCEPT ![t] = TRUE]
    /\ UNCHANGED <<db, lock, expired, owner, net, result, hot, refills, local, faults, sent, halts>>

\* The local clock passes expired_at.  It was set from the local clock after
\* the transaction was built, so the chain is past the expiration by then.
\* Without "lateRead" the gap between the two is longer than a receipt lookup:
\* no lookup that began before the chain expiration is still unanswered.
LocalExpires(o) ==
    /\ txid[o] # NoTx
    /\ ~expired[o]
    /\ dead[txid[o]]
    /\ "lateRead" \notin Hazards =>
          \A w \in Workers : ~(pc[w] = "judge" /\ row[w].id = o)
    /\ expired' = [expired EXCEPT ![o] = TRUE]
    /\ UNCHANGED <<db, lock, chain, local, faults, sent, halts>>

\* Finance refills the hot wallet.
Refill ==
    /\ refills < MaxRefills
    /\ refills' = refills + 1
    /\ hot' = hot + RefillUnits
    /\ UNCHANGED <<db, lock, expired, owner, net, result, dead, local, faults, sent, halts>>

-----------------------------------------------------------------------------
Execute(w) ==
    \/ ProcessCreated(w) \/ TakeLock(w) \/ RiskCheck(w) \/ ReadBalance(w)
    \/ CheckInflight(w) \/ AcquireEnergy(w) \/ Halt(w) \/ BuildAndSign(w)
    \/ CommitSigned(w) \/ Send(w) \/ Record(w)

ReconcileSteps(w) ==
    \/ Reconcile(w) \/ EndRound(w) \/ ReadReceipt(w) \/ Judge(w)
    \/ Rebroadcast(w) \/ FinalInfo(w) \/ Finish(w)

Failure(w) == ExecuteError(w) \/ ReconcileError(w) \/ Crash(w)

Chain(t) ==
    Include(t) \/ Fork(t) \/ Solidify(t) \/ Evict(t) \/ ChainExpires(t)

Next ==
    \/ \E o \in Orders : CreateWithdraw(o) \/ LockExpires(o) \/ LocalExpires(o)
    \/ \E w \in Workers : Execute(w) \/ ReconcileSteps(w) \/ Failure(w)
    \/ \E t \in Txs : Chain(t)
    \/ Refill

Spec == Init /\ [][Next]_vars

\* Scheduling the code justifies: a live process keeps taking steps (its loop
\* has no blocking wait besides the ticker), Redis expires keys, time passes and
\* the chain solidifies its blocks.  The clock runs on during a lookup, which
\* only excludes LocalExpires while it lasts; hence strong fairness for it.
\* Faults are bounded by MaxFaults.
Fairness ==
    /\ \A w \in Workers : WF_vars(Execute(w) \/ ReconcileSteps(w))
    /\ \A o \in Orders : WF_vars(LockExpires(o)) /\ SF_vars(LocalExpires(o))
    /\ \A t \in Txs : WF_vars(ChainExpires(t)) /\ WF_vars(Solidify(t))

FairSpec == Spec /\ Fairness

-----------------------------------------------------------------------------
(* Properties.                                                             *)

\* Every variable keeps its type.
TypeOK ==
    /\ status \in [Orders -> Statuses]
    /\ txid \in [Orders -> Txs \cup {NoTx}]
    /\ haltCount \in [Orders -> Nat]
    /\ reason \in [Orders -> Reasons]
    /\ outbox \subseteq [order : Orders, result : {"success", "failed", "rejected"}]
    /\ lock \in [Orders -> Workers \cup {NoWorker}]
    /\ expired \in [Orders -> BOOLEAN]
    /\ owner \in [Txs -> Orders \cup {0}]
    /\ net \in [Txs -> {"nowhere", "pool", "block", "final", "void"}]
    /\ result \in [Txs -> Outcomes \cup {"none"}]
    /\ dead \in [Txs -> BOOLEAN]
    /\ hot \in Nat
    /\ refills \in Nat
    /\ pc \in [Workers -> Pcs]
    /\ batch \in [Workers -> SUBSET Row]
    /\ row \in [Workers -> Row \cup {NoRow}]
    /\ tx \in [Workers -> Txs \cup {NoTx}]
    /\ note \in [Workers -> Notes]
    /\ balance \in [Workers -> Nat]
    /\ faults \in Nat
    /\ sent \subseteq Txs
    /\ halts \in [Orders -> Nat]

\* "one order_no results in at most one on-chain transfer" (package comment):
\* whatever the number of workers, expired locks and crashes, at most one of
\* the transactions built for an order is ever handed to a node.
AtMostOneTransfer ==
    \A t, u \in sent : owner[t] = owner[u] => t = u

\* A transaction handed to a node is the one its order's row records, so the
\* reconciler can always find the transfer again from the database.
SentIsRecorded ==
    \A t \in sent : owner[t] \in Orders /\ txid[owner[t]] = t

\* An order reported as paid was paid by a solidified transfer: neither a fork
\* nor a receipt without its Transfer event is ever taken for a payment.
ConfirmedIsPaid ==
    \A o \in Orders : status[o] = "confirmed" =>
        /\ txid[o] # NoTx
        /\ net[txid[o]] = "final"
        /\ result[txid[o]] = "paid"

\* "nothing was ever signed, so no transfer can be in flight" (failHalted), and
\* the same for a rejected order: no transaction of theirs ever left.
RefusedNeverSent ==
    \A o \in Orders :
        status[o] = "rejected" \/ (status[o] = "failed" /\ reason[o] = "halted")
            => \A t \in sent : owner[t] # o

\* "notifies the business system exactly once per order" (Reconcile): a settled
\* order has exactly one outbox event and it carries the order's own outcome; an
\* order that is not settled has none.
ReportMatchesOutcome ==
    \A o \in Orders :
        {e \in outbox : e.order = o} =
            IF status[o] \in Settled THEN {[order |-> o, result |-> Result(status[o])]}
                                     ELSE {}

\* A settled order never changes again: a late answer, a stale batch or a
\* second worker cannot reopen it or turn a failure into a payment.
SettledIsFinal ==
    [][\A o \in Orders : status[o] \in Settled =>
          /\ status'[o] = status[o]
          /\ txid'[o] = txid[o]
          /\ reason'[o] = reason[o]]_vars

\* "Expired and absent from the chain: it can never be included now" and
\* "These bytes will never be accepted": an order failed back to the business
\* system, which refunds the user, is not paid on chain as well.
FailedIsUnpaid ==
    \A o \in Orders : status[o] = "failed" =>
        \A t \in Txs : owner[t] = o => result[t] # "paid"

\* checkBalance keeps the promises within the balance: what the signed and
\* broadcast orders still have to move is covered by the hot wallet.
NoOverCommit ==
    Units({o \in Orders : status[o] \in Open /\ result[txid[o]] # "paid"}) <= hot

\* "once it reaches withdraw_server.halt_max_retries the order is failed" (halt)
\* and not before: an order given up as halted was really halted that often,
\* although two workers count from snapshots that are stale by then.
HaltLimitKept ==
    \A o \in Orders : status[o] = "failed" /\ reason[o] = "halted" =>
        halts[o] >= HaltMaxRetries

\* "its final outcome is always reported": every submitted order is settled.
AlwaysReported ==
    \A o \in Orders : status[o] = "created" ~> status[o] \in Settled

-----------------------------------------------------------------------------
(* The inductive invariant.  The compare-and-swaps act on what a worker    *)
(* remembers from earlier steps; these parts say how far it may be trusted. *)

Executing == {"risk", "balance", "inflight", "halt", "energy", "build", "commit", "send",
              "record"}
Settling == {"judge", "resend", "final", "finish"}

\* A worker in the middle of a row holds one.
RowInv == \A w \in Workers : pc[w] \in Executing \cup Settling => row[w] \in Row

\* The transaction a worker built is for the order at hand.
BuiltInv ==
    \A w \in Workers : pc[w] \in {"commit", "send", "record"} =>
        tx[w] \in Txs /\ owner[tx[w]] = row[w].id

\* Before the compare-and-swap nobody else knows the transaction.
FreshInv ==
    \A w \in Workers : pc[w] = "commit" =>
        /\ \A o \in Orders : txid[o] # tx[w]
        /\ \A v \in Workers : v # w /\ pc[v] = "commit" => tx[v] # tx[w]

\* After it the row names the transaction, whatever happened to the lock.
BoundInv ==
    \A w \in Workers : pc[w] \in {"send", "record"} => txid[row[w].id] = tx[w]

\* A txid in a snapshot is still the row's txid, however stale the snapshot.
SnapshotInv ==
    \A w \in Workers :
        /\ \A r \in batch[w] : r.txid # NoTx => txid[r.id] = r.txid
        /\ pc[w] \in Settling => row[w].txid \in Txs /\ txid[row[w].id] = row[w].txid

\* A row's transaction was built for it, and a status tells whether there is one.
TxidInv ==
    \A o \in Orders :
        /\ txid[o] # NoTx => owner[txid[o]] = o
        /\ status[o] \in {"absent", "created", "rejected"} => txid[o] = NoTx
        /\ status[o] = "failed" /\ reason[o] = "halted" => txid[o] = NoTx
        /\ status[o] \in Open \cup {"confirmed"} => txid[o] # NoTx

\* Only bytes that were handed to a node are in the pool or on the chain, and
\* a packed transaction has an outcome.
NetInv ==
    \A t \in Txs :
        /\ net[t] # "nowhere" => t \in sent
        /\ net[t] \in {"block", "final"} => result[t] \in Outcomes

\* A verdict of success was read from a solidified block.
VerdictInv ==
    \A w \in Workers : pc[w] = "finish" =>
        /\ note[w] \in Verdicts
        /\ note[w] = "paid" =>
              net[row[w].txid] = "final" /\ result[row[w].txid] = "paid"

\* What the workers remember, what the database and the chain hold.
LocalInv ==
    RowInv /\ BuiltInv /\ FreshInv /\ BoundInv /\ SnapshotInv /\ VerdictInv
GlobalInv ==
    TxidInv /\ NetInv /\ SentIsRecorded /\ ConfirmedIsPaid /\ ReportMatchesOutcome

\* The inductive invariant: every answer, snapshot and transaction a worker
\* still holds agrees with the rows and the chain, whatever happened meanwhile.
IInv == TypeOK /\ LocalInv /\ GlobalInv

-----------------------------------------------------------------------------
(* What else is inductive as long as no answer is lost and no lookup is    *)
(* late, or with a single worker.                                          *)

\* The transaction cannot pay any more: a node refused its bytes, it expired off
\* the chain, or its solidified block did something else.
Unpayable(t) ==
    \/ net[t] = "void"
    \/ dead[t] /\ net[t] \notin {"block", "final"}
    \/ net[t] = "final" /\ result[t] # "paid"

\* Only a block executes a transaction.
ResultInv == \A t \in Txs : net[t] \notin {"block", "final"} => result[t] = "none"

\* The local clock passes expired_at after the chain has passed the expiration.
ExpiryInv == \A o \in Orders : expired[o] => txid[o] # NoTx /\ dead[txid[o]]

\* Everything worker w is about to fail an order for is true for good.
JudgedInv(w) ==
    /\ pc[w] = "judge" /\ expired[row[w].id] => Unpayable(row[w].txid)
    /\ pc[w] = "finish" /\ note[w] # "paid" => Unpayable(row[w].txid)
    /\ pc[w] = "record" /\ note[w] = "permanent" => Unpayable(tx[w])

\* The transaction of a failed order cannot pay any more.
FailedInv ==
    \A o \in Orders : status[o] = "failed" => txid[o] = NoTx \/ Unpayable(txid[o])

FailInv == ResultInv /\ ExpiryInv /\ FailedInv /\ \A w \in Workers : JudgedInv(w)

\* No block will take the transaction any more, whatever a lookup saw of it.
Closed(t) == net[t] \in {"void", "final"} \/ dead[t]

\* Everything worker w is about to fail an order for has closed its transaction.
ClosedVerdict(w) ==
    /\ pc[w] = "finish" /\ note[w] # "paid" => Closed(row[w].txid)
    /\ pc[w] = "record" /\ note[w] = "permanent" => Closed(tx[w])

\* What of FailInv survives a lookup that is late.
ClosedInv ==
    /\ ResultInv
    /\ ExpiryInv
    /\ \A o \in Orders : status[o] = "failed" => txid[o] = NoTx \/ Closed(txid[o])
    /\ \A w \in Workers : ClosedVerdict(w)

\* The orders inflightUnits counts, and those whose units are still in the wallet.
OpenOrders == {o \in Orders : status[o] \in Open}
UnpaidOrders == {o \in Orders : status[o] \in Open /\ result[txid[o]] # "paid"}

\* What checkBalance has read and concluded covers the units not yet moved, even
\* though blocks move them while it looks.
CoverInv ==
    \A w \in Workers :
        /\ pc[w] = "inflight" => balance[w] + Units(UnpaidOrders) <= hot + Units(OpenOrders)
        /\ pc[w] \in {"energy", "build", "commit"} =>
              Amount[row[w].id] + Units(UnpaidOrders) <= hot

\* No count, in a row or in a snapshot, is ahead of the halts that happened (of
\* which the history keeps no more than the limit).
CountsAtMost(o, n) == n <= halts[o] \/ halts[o] >= HaltMaxRetries

HaltCountInv ==
    /\ HaltLimitKept
    /\ \A o \in Orders : CountsAtMost(o, haltCount[o])
    /\ \A w \in Workers :
          /\ \A r \in batch[w] : CountsAtMost(r.id, r.halt)
          /\ row[w] \in Row => CountsAtMost(row[w].id, row[w].halt)

-----------------------------------------------------------------------------
(* Refinement.                                                             *)

Phase(s) == CASE s = "absent" -> "absent"
              [] s \in Settled -> "settled"
              [] OTHER -> "open"

Promise == INSTANCE Settlement WITH
    phase <- [o \in Orders |-> Phase(status[o])],
    transfer <- txid,
    launched <- sent,
    reports <- outbox

\* The workers implement the promise of Settlement: every step of theirs is a
\* step of it or leaves its state alone.
ImplementsSettlement == Promise!Spec

=============================================================================
