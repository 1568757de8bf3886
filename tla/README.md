# A TLA+ model of the TRC20 wallet services

The repository is a custodial wallet for TRC20 tokens on TRON: it hands deposit
addresses to users, scans the chain for deposits, sweeps them into a finance
wallet, pays withdrawals from a hot wallet, rents the energy the transfers need,
and tells merchants about all of it. The services are separate processes. They
share MySQL tables, Redis locks and the chain, and they all meet the same
difficulty: a step that moves money (a broadcast) and the row that records it
can never be written together.

The modules here model those services at the grain at which they can interfere:
every database statement or transaction, every RPC and every clock reading is a
step, and other processes, crashes, forks and failures may come between any two
of them. Data that no property tells apart (addresses, texts, fees, encodings)
is left out.

## 1. Inventory

| Component | State | Operations | What is hard | What makes it correct |
|---|---|---|---|---|
| Withdraw worker (`internal/withdraw`) | `withdraw_record`, lock per order | `processCreated`, `execute`, `halt`, `Reconcile`, `finish` | several workers, locks that expire, crashes around the broadcast, stale batches, forks, late answers | one transfer per order; the halt limit fails no order early; a settled order is final and reported once with its own outcome; every order is settled |
| Outbox dispatcher (`internal/outbox`) | `notify_outbox` | `drainOnce`, `deliver`, publishers, `backoff` | no lock between dispatchers, status written by primary key from a snapshot | at-least-once; no early dead letter; every event settles |
| Deposit scanner (`internal/scanner`) | `chain_cursor`, `block_snapshot`, `deposit_record` | `tick`, `fetchRange`, `scanBlock`, `confirmUpTo`, `handleReorg` | forks between any two calls, crashes between scan and cursor, prefetch | no block is skipped; one event per confirmed deposit; confirmed is final; what was pushed stays on the chain; deposits are notified |
| Sweep service (`internal/sweep`) | `sweep_record`, `sweep_skip`, lock per address | `roundToken`, `sweepOne`, `Reconcile`, `settleAbsent`, `rebroadcast`, `markSweptEmpty` | a round works on a balance and a deposit id read at different times, beside a reconciler and other processes | no second transfer while one may be packed; no deposit is written off that was not moved; every deposit is swept |
| Energy rental manager (`internal/energy/manager.go`, `provider.go`, the provider packages) | `energy_rent_order` | `BestQuote`, `acquire`, `wait`, `markDelegated`, `ReconcilePending`, `abandon` | a platform that answers late or not at all, request ids used again, energy shared by concurrent orders, a caller and a reconciler on one row | what a platform took is not written off; what a platform is known to have charged stays in the row; no rental succeeds on energy that was there before; every row is settled |
| Provider top-up (`topup.go`) | `topup_record`, lock per provider | `check`, `refill`, `guardPending`, `guardDailyLimits`, `Reconcile` | a balance read before the lock, a broadcast that fails with the transfer in a node, rentals that spend a refill before it is noticed | one transfer at a time; the daily caps bound what really moved; the record agrees with the chain; a credited refill is settled |
| Address allocation (`api`, `store`) | `wallet_index_allocator`, `user_wallet` | `createAddress`, `NextAddressIndex` | two first allocations; two requests for one account | one index per request, one row per account |
| Address filter (`internal/bloom`) | the scanner's filter, `maxID`, `syncedAt` | `Init`, `Add`, `Sync`, `syncUpdated`, `rebuild`, `Notify` | rows that become visible out of id order, lost pushes, a rebuild racing with new addresses | what is not in the filter the next `Sync` reads; in the end every address is in it |
| Energy pool (`pool.go`) | none of its own | calls `AcquireRented` on a ticker | | |
| Chain gateway (`internal/chain`) | cooldowns, rate limiter | failover, `Broadcast`, `ClassifyBroadcast` | the same bytes go to several nodes and answers get lost | an answer means what the callers take it for |
| Others | | merchant signatures, signer, HD derivation, TRON codec, pricing, configuration, logging | no state of their own, or plain I/O | |

How they interact: the API inserts `withdraw_record` and merchants; the worker
and the scanner write `notify_outbox` rows in the transaction that settles an
order or confirms a deposit; the dispatcher in every API process delivers them;
the scanner's confirmed, unswept deposits are the sweep's input; withdraw and
sweep call the energy manager and the signer and share `Gateway.Broadcast`; the
sweep process refills the platforms the manager orders from; the API pushes each
new address to the scanner, whose filter decides which transfers are deposits;
Redis locks (`store.Lock`: SETNX with a TTL, an unconditional DEL) guard orders
and addresses. `PROJECT.json` lists every component and every hazard at its line.

## 2. Modules

| Module | Models |
|---|---|
| `Withdraw` | the withdraw workers over tables, locks, nodes and chain |
| `Settlement` | the promise to the business system, which `Withdraw` implements |
| `Outbox` | the dispatchers and their publishers |
| `Scanner` | the scanner over a chain that grows and forks |
| `Sweep` | the sweep of one token of one address, rounds and reconcilers |
| `Energy` | callers of `acquire` and reconcilers over the rent orders, the platforms and the energy of one address |
| `Topup` | the refills of one platform, check and reconcile loops |
| `AddrFilter` | address allocation, the push, and the scanner's filter |
| `MCWithdraw`, `MCOutbox`, `MCScanner`, `MCSweep`, `MCEnergy`, `MCTopup`, `MCAddrFilter` | instances for TLC (model values, symmetry) |
| `WithdrawProofs`, `OutboxProofs`, `ScannerProofs`, `SweepProofs`, `EnergyProofs`, `TopupProofs`, `AddrFilterProofs` | theorems and their proofs |
| `SumLemmas` | what the proofs need of sums over finite sets |

In each module a process has a `pc` that names its next step, and one variable
for each local of the Go function that lives across steps. Rows of a batch are
snapshots, as in the code: `Withdraw.row` holds the status of the query, the
compare-and-swap tests the table. Actions carry the names of the Go functions or
of what a part of one does (`TakeLock`, `CommitSigned`, `StoreSigned`); a
function whose guard or result is worth a mutant of its own is a separate
operator (`IsFinal`, `Fits`, `Covered`). "Mutant" operators are wrong versions of
the operator after them, used to see that a property can fail.

**Withdraw.** `ProcessCreated` .. `Record` follow `execute`, `Reconcile` ..
`Finish` follow `reconcileOne`. A transaction is in no node, in the pool, in a
block or in a solid block; a fork takes a block back and the same bytes may be
packed again with another result. `Hazards` switches the environment's
nastiness: `lostAnswer` (a node refuses for good what another node has taken),
`lateRead` (the lookup and the clock straddle the expiration), `halts`, `risk`,
`unreadSum`. `Refused` are orders the node or the signer refuses.

**Outbox.** `DrainOnce` takes a batch, `Publish` offers the row to one publisher
after the other, `Record` writes the status by primary key. `SwitchMerchant` is the
API switching a merchant on or off meanwhile. `offered` is history.

**Scanner.** `main` is the canonical chain; `Mine` and `Fork` change it at any
time, moving, dropping or bringing transactions. A block and its receipts are
two fetches. `origin` is where `loadCursor` last placed the cursor and `forked`
the deposits some fork touched, both history.

**Sweep.** Deposits are numbered by id, in arrival order; `Total[d]` are the units
deposits 1 to d brought, and the balance is `Total[arrived] - moved`. `covers[k]`
remembers which deposits the amount of row k was made of (history). Hazards:
`lostAnswer` and `lateRead` as above, `slowSweep` (the ten minute lock runs out
under a live sweep) and `slowRead` (a deposit arrives and confirms between the
balance read and the query that relies on it).

**Energy.** `Acquire` is `acquire` up to the insert of the row (or the reuse of an
earlier attempt's), with any quotes the platforms may give; `Ensure`, `StoreOrder`
and `FailRow` the order and what is written of it; `WaitPoll` and `WaitTimeout` the
rounds of `wait`; `Mark` is `markDelegated`. `PickRow` and `SettleRow` are the query
and the per-row work of `ReconcilePending`, whose writes are guarded by
`status = 'created'`. gasstation recognises a request id it has seen, tronenergyrent
does not (`Polled`, `Place`). The energy of the address is used up and recovers at any time.
An answer may name no price: gasstation drops the error of parsing the amount, and
`markDelegated` writes the price only if it is positive, so `Named` is the price of the
order or 0. `rise` (history) is what the address gained since a caller's baseline,
`priced` (history) the ids for which a price was written; `lost` marks an order whose
answer never came.

**Topup.** `Check` reads the balance, `TakeLock` and `Refill` the lock, the guards
and the insert in the code's order, `BuildAndSign`, `Send`, `Record` the transfer;
`Query`, `ReadReceipt`, `ReadBalance` one row of `Reconcile`. `Land`, `Book` and
`Spend` are the chain and the platform: a transfer is packed, reverts or expires,
the platform credits it later, and rentals use the balance.

**AddrFilter.** `CreateAddress` .. `Commit` follow `createAddress` with
`NextAddressIndex` in between, `Notify` is the push and its one retry. `Start`,
`SyncPage`, `SyncUpdated`, `LoadAll`, `LoadNew` and `Swap` are the registry, a page
of `load` per step. Time is kept as the set of rows that
`updated_at >= syncedAt - updateSkew` selects (`window`, and `late` for the one
being prepared).

## 3. What the runs check

| Run | Instance | Shows |
|---|---|---|
| `withdraw_safety` | 2 workers, 1 order, 2 transactions, 2 faults, all hazards | at most one transfer is ever handed to a node; an order reported paid was paid in a solid block; a rejected or halted order was never sent; an order failed by the halt limit was halted that often; one report per settled order; settled is final; the workers implement `Settlement` |
| `withdraw_live` | 1 worker, 2 orders, funds for both only after a refill, batch limits of 1, 1 fault, fair | a failed order is not paid; promises stay within the balance; every order is reported |
| `outbox` | 2 dispatchers, 2 events, both publishers, 2 attempts, fair | sent was offered everywhere, no early dead letter, settles in the end |
| `scanner` | 2 deposits (1 internal), heights 3 to 6, 1 fork as deep as the confirmations, 2 faults, fair | nothing skipped, one event per confirmed deposit, confirmed is final and stays on the chain, untouched deposits are notified |
| `scanner_moved` | 1 fork, fair, no faults | **violation**: a deposit that a fork moved stays orphaned |
| `sweep` | 2 sweepers, 1 reconciler, 2 deposits, 3 rows, 1 fault | never two transfers that may both be packed; nothing is written off that was not moved |
| `sweep_live` | 1 sweeper, 4 rows, 1 fault, fair | every confirmed deposit is swept, small ones too |
| `sweep_written_off` | the same, `Spec` only | **violation**: a sweep without a deposit id writes off a later deposit |
| `energy` | 1 request id used twice, 1 caller, 1 reconciler, all providers, 2 prices or none, 1 order, 1 fault, fair | paid orders are tracked, a rental is booked only if delivered and keeps the charged price once an answer named it, a rental that succeeds was delivered, delegated is final, every row is settled |
| `topup` | 2 processes, 2 rows, 2 days, 1 fault, fair | one transfer at a time, the daily cap holds for what moved, the record is true, a credited refill is settled unless spent |
| `addr_filter` | 2 requests, 2 accounts, 2 rows, pages of 2, a rebuild, 2 faults, fair | indexes and accounts are not given twice; what the filter misses the next `Sync` reads; it converges |
| `filter_forgets` | the same | **violation**: a rebuild drops an address pushed while it was loading |

The violations are the project's findings; `PROJECT.json` quotes the comment or
document each one contradicts.

*Bounds.* The races listed as hazards are between two actors, so the runs have two
of those that race; the theorems of section 4 hold for any number. `energy` is the
exception: with a second caller its states do not fit, so one caller uses one id
twice beside the reconciler, and callers that share the address are left to the
theorems of `EnergyProofs` (in TLC `EnergyDrops` and `EnergyRecovers` stand for them). Two orders or deposits are enough for one to
starve, hide or be written off with the other. One or two faults let a failure
hit each step once, and a second one hit its recovery. In the fair runs
`Txs` and `MaxRows` allow more retries than the faults can force, or the liveness
properties would fail there; in the others two transactions per order and three
sweep rows are enough for a second and a retried attempt. `MaxHeight` leaves room for the
confirmations after the last fork, and `SnapshotsKept` is smaller than the code's
`ReorgDepth * 10` so that pruning happens. `Need` is 20 because the
code accepts 95 percent of an order, which smaller numbers would round to all of it,
and `MaxEnergy` is 30, so that an address may have energy of its own and still gain what
was ordered. One platform order is enough in `energy`: a second one arises only when an
id is used again, which the properties about orders exempt, and the energy it would
bring is covered by `EnergyRecovers`;
`MaxDaily` is less than two refills of `MaxSingle`, so that the cap on the amount bites;
the cap on the count cannot be exceeded by two rows (a third takes the temporal check
beyond reach) and is left to theorem `CapsHold`.
`Expected` and `MaxCapacity` let the second address overload the filter. The skip counter and the failure
counts are counted up to the limit they are compared with.

*Deadlock* is checked in every run.

*Fairness.* Worker, dispatcher, scanner, round and reconcile loops run on tickers
(`Run` of each, `cmd/sweep/main.go`), so each loop takes steps while it can.
Redis expires keys, clocks and block times advance, a backoff ends. `Withdraw`
assumes that a packed transaction solidifies and that transactions expire, not
that they are packed; `Sweep` assumes that a pending transfer is packed unless a
fault evicts or outlives it; the scanner that blocks keep coming up to
`MaxHeight`. `Energy` assumes the reconcile loop and that rows grow older, and
nothing of callers, platforms or the chain. `Topup` assumes its reconcile loop only;
strongly for the query of each row, because every tick queries the oldest unsettled
rows and so returns to a row that is unsettled again and again. `AddrFilter`
assumes that `RunSync` ticks and that a dead scanner is started again, nothing of
pushes or requests. No fairness is put on faults, forks, crashes or deposits.

*Where a property needs an assumption.* `FailedIsUnpaid` fails with `lostAnswer`
or `lateRead`, `NoOverCommit` with two workers and with
`lostAnswer`. `HaltLimitKept` is one direction only: two workers that halt an order from
the same snapshot leave one count, so an order may be halted more often than
`halt_max_retries`, although the comment of `halt` has every halt counted. `SentWasOffered`
says that every publisher received or skipped a sent event, no more: with both shipped
configurations (rocketmq disabled, the HTTP publisher commented out in
`cmd/api/main.go`) an event whose merchant has no callback is skipped by the only
publisher there is and marked sent, although the comment of `callbackURL` expects the
platform wide publishers to deliver it. `OneLiveSweep` fails with `slowSweep` (the second transfer then
reverts) and with `lostAnswer`; `SweptInTheEnd` with `lateRead`, because an
address emptied by a transfer that was judged expired has no confirmed sweep and
`markSweptEmpty` leaves it alone; `SweptWasMoved` with `slowRead`. It also says
"if every row recorded a deposit id", since `sweep_written_off` shows what a row
without one does. `SweptInTheEnd` exempts an address whose energy retries are used
up, which the code hands to an operator, and one with an abandoned row, which a
crash between the insert and the txid leaves in flight for ever.
`DepositsAreNotified` exempts deposits a fork touched (`scanner_moved` shows why). It needs
a start that lies deeper than any fork: there is no snapshot at the height where
`loadCursor` puts the cursor, so a fork that replaces the first block scanned after it
makes `handleReorg` stop for manual intervention, tick after tick.
`NothingSkipped` counts from `origin`: after an outage longer than the reorg depth
`loadCursor` puts the cursor near the head again. `NotTakenBack` is about deposits no
fork had touched when they were confirmed, and forks no deeper than `Confirmations`: a
deposit that a fork moved up may be confirmed with fewer confirmations than
configured, and then be taken back.
`AlwaysReported` has no order that the signer refuses (`Refused`): such an order is
halted and retried for ever.

A delegated row keeps the quote until an answer names the price (`CostIsCharged` says so
by `priced`). `PaidIsTracked`, `CostIsCharged` and `DelegatedIsFinal` are about an id that was used
once: a retried id goes on with its old row and may be paid twice. They exempt an
order whose answer `Ensure` lost, which `acquire` fails at once, and
`ServedIsDelivered` a call that could not read its baseline. `Topup` takes the ten
minute lock to outlive a refill; `SettledUnlessSpent` ends with a refill of which
rentals used up more than a tenth before the reconciler looked, whose row then
stays open and blocks the next refill. `NothingOverlooked` and `FilterConverges`
need an INSERT to commit, and a rebuild to load, within `updateSkew`.

## 4. What is proved

TLAPS checks the theorems below for every value of the constants, under the
named assumptions of the modules (types and positivity of limits and counts, a
strictly increasing `Total`). Some have a hypothesis of their own: that a hazard is
switched off, that there is one worker, or how deep a fork is. Without it the property fails; section 3 says how.

* `WithdrawProofs`: `Invariance`, and from it `TypeCorrect`, `NoDoublePayment`,
  `ConfirmedOrdersArePaid`, `OneReportPerOrder`, `RefusedOrdersNeverSent`.
  `AtMostOneTransfer` is not inductive: a worker about to commit, send or record
  holds a transaction and a stale row. `FreshInv` (nobody else knows a transaction
  before the compare-and-swap), `BoundInv` (after it the row names it) and
  `SnapshotInv` (a txid in a snapshot is still the row's) carry it;
  `VerdictInv` ties a success verdict to a solid block. No hazard is assumed away.
  `SettledOrdersAreFinal` and `Refinement` (every step is a step of `Settlement` or
  leaves its state alone) follow from the same invariant.
* `FailedOrdersAreUnpaid` (in `WithdrawProofs`), for any number of workers, with
  `lostAnswer` and `lateRead` off. `Unpayable` is what a failure may rest on: refused
  bytes, an expiration that found the transaction off the chain, a solid block that
  did something else. No step undoes it, forks included, and `JudgedInv` says
  that whatever a worker is about to fail an order for is `Unpayable` already.
* `WalletIsNotOverCommitted`, for one worker with `lostAnswer` off. `checkBalance`
  reads the balance first and sums the open orders afterwards, while blocks, forks
  and refills move units between the two. `CoverInv` is the quantity that survives
  them: what was read plus what is unpaid is at most what the wallet holds plus what
  is open. A block takes the same amount from both sides of `NoOverCommit`, a fork
  gives it back, and a settled order leaves the sum. A late lookup may fail an order
  that is paid; `ClosedInv` says that its transaction is at least past its expiration,
  so no later block pays on behalf of an order that is no longer counted. With two workers both may pass
  the check on the same balance, which the code accepts (the lock is per order).
* `HaltedOrdersWereHaltedOften`, for any number of workers, no hazard assumed away:
  `halt` writes the count of a snapshot plus one, and `HaltCountInv` says that neither
  the row nor any snapshot counts more halts than there were. Workers may overwrite each
  other's count, which only delays the limit.
* `OutboxProofs`: `Invariance`, `SentEventsWereOffered`, `DeadEventsFailedOften`, for any
  set of registered publishers. `ProgressInv` says what publishers before the current
  one did, `CountInv` that every retry count, also in a snapshot, is at most the failures so far.
* `ScannerProofs`: `Invariance`, `OneEventPerDeposit`, `CursorSkipsNothing`,
  `ConfirmedDepositsAreFinal`, `ConfirmedDepositsAreBuried`, for forks of any depth, and
  `PushedStaysOnChain` for forks no deeper than `Confirmations`. The invariant states, for the cursor,
  the tick's copy of it, each snapshot and each prefetched block: if that block is
  still on the chain, everything up to it is recorded. A fork makes such a
  statement vacuous, never false. `BuriedInv` follows one deposit that no fork has
  touched: prefetched receipts, the record, the query by depth and the receipt read for
  the confirmation are of different moments, and all name the one block it is in.
* `SweepProofs`: `AmountsAreBacked` for every hazard; `Invariance` and
  `SweptDepositsWereMoved` with `slowRead` off. The argument is about one quantity: a balance read when
  deposits up to s were on the chain satisfies `Total[s] <= bal + moved`, and since
  `moved` only grows this survives every other step (`ReadInv`), passes to the row
  (`AmountInv`), and becomes `Total[covers] <= moved` when the transfer is packed
  (`ChainInv`). `SeenInv` and `MaxIdInv` put the deposit id of the row below s.
* `OneSweepAtATime` (in `SweepProofs`), with `lostAnswer` and `slowSweep` off, for any
  number of sweep processes and reconcilers. `LiveInv` strengthens it: a live transfer
  has its row in flight (`HeldInv`), and at most one row is in flight (`FlightInv`),
  although the sweeper and the reconciler write a row by primary key and may reopen
  it. The lock keeps the in-flight check true until the row exists (`LockInv`), the row
  stays out of the reconciler's reach until it has a txid (`BytesInv`), and a
  receipt, refusal or expiration that a reconciler acts on is final (`ReceiptInv`).
  `lateRead` and `slowRead` need not be excluded.
* `EnergyProofs`: `Invariance`, `PaidOrdersAreTracked`, `ChargedPriceIsBooked`,
  `ServedMeansDelivered`, `DelegatedStaysDelegated`. The three state properties are
  not inductive, since a caller between two calls, or a reconciler with an old
  copy of a row, may still write. `UsedInv` and `OnceInv` say that a single use of
  an id has one caller, one order and one provider; `KeyInv` that an order number in
  a row, a snapshot or a caller names an order of that id; `OrderInv`, `FailInv` and
  `MarkInv` what is known of the order, and of the price its answer named, at the steps
  that write. `RiseInv` bounds the
  energy above a baseline by what the address gained, whoever used it meanwhile.
* `TopupProofs`: `Invariance`, `NoSecondTransfer`, `RecordsAreTrue`, `CapsHold`. `LockInv` keeps
  the check loops apart, `AtInv` holds the row being sent as it was inserted, and
  `OpenInv` allows one row whose fate is unknown; `SnapInv` is what a reconciler with
  an old copy can still rely on when it writes by id. `CapInv` is the cap over the
  rows `guardDailyLimits` counts: a row joins them once, under the lock, and leaves them
  when it fails, which `RecordsAreTrue` allows only when nothing was moved.
* `AddrFilterProofs`: `Invariance`, `IndexesAreDistinct`, `AccountsHaveOneRow`,
  `SyncReachesAll`. One half is about the tables (`RowInv`, `RequestInv`, `IndexInv`);
  the other about the registry: `WindowInv`, a row not yet committed is in every
  window to come, and `LoadInv`, a row that `load` has passed is in the filter being
  filled or in the window that the running `Sync` leaves behind.

* `SumLemmas`: `SumFunctionOnSet` takes the elements of a set one by one in an order
  that CHOOSE fixes. `SumByAny` shows that any order gives the same sum; `SumAdd`,
  `SumRemove`, `SumMono` and `SumSame` are what `NoOverCommit` and `DailyCapsHold` rest
  on. The library's induction theorems take a predicate, which the provers cannot
  instantiate; here the induction is over the set of subsets that have the property
  (`SubsetInduction`), from the well-foundedness of strict inclusion.

Only model-checked: everything about fairness (`AlwaysReported`, `EventuallySettled`,
`DepositsAreNotified`, `SweptInTheEnd`, `OrdersSettle`, `SettledUnlessSpent`,
`FilterConverges`), which this prover does not do. Every invariant and action
property of a passing run has its theorem.

## 5. What is not modelled

* Withdraw: the `confirm_blocks` fallback without a solidity node, and `preflight`,
  which only logs.
* Scanner: the adoption of a cursor from before network namespacing, the LIMIT of
  500 confirmations per tick, lookups in the address filter, receipts of a lagging
  node that are empty rather than an error.
* Sweep: other addresses and tokens, so the LIMITs of its queries; internal
  deposits; forks under the receipt it reads, which need not be solid; balances
  read from a lagging node.
* Both senders take the local expiration to be no earlier than the one in the
  bytes, as `configs/config.yaml` asks of `tx_expiration_sec`. A missing Redis
  behaves like a lock that expires at once.
* A query that fails at the start of a round is a round that finds nothing.
* Energy: `EstimateEnergy` and `BurnCostSun`, which only compute numbers; addresses
  other than the shared one. The pool is a ticker that calls `AcquireRented` with
  new ids and is one of the callers.
* Top-up: `checkGasAccount`, which only logs; other platforms, which have a lock and
  rows of their own.
* Filter: false positives, which cost a database lookup and change nothing.
* Chain gateway: the order in which nodes are tried and their cooldowns, and the
  rate limiter, which delays a call and never drops one. The models let every call
  answer, fail, or fail after it took effect.
* Sweep pricing: floating point arithmetic behind one threshold (`MinUnits`).
* Merchant signatures, the signer's policy check, HD derivation, the TRON codec,
  HTTP, configuration and logging: no protocol state.

## 6. Plan

1. Abstract specifications for `Outbox` and `Sweep`, and their refinement.
2. `Scanner`: a record is orphaned only if some fork touched its deposit, the safety
   half of `DepositsAreNotified`. TLC finds no counterexample; the proof needs to know
   which snapshots `pruneSnapshots` may have dropped below a pending record.
3. `Gateway`: failover, cooldowns and classification as the source of the answers
   that `Withdraw` and `Sweep` now choose freely; the rate limiter and amount
   formatting as pure algorithms against reference definitions.
4. Forks in `Sweep`, and a composition of `Scanner` and `Sweep` over one chain.
