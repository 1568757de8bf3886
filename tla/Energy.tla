------------------------------- MODULE Energy -------------------------------
(***************************************************************************)
(* Energy rental (internal/energy/manager.go and the providers).  A caller *)
(* that needs energy on an address quotes the platforms, writes an         *)
(* energy_rent_order row, places and pays the order, and waits until the   *)
(* platform and the chain both show the energy.  A reconciler in every     *)
(* process settles the rows that a caller left in the created state.       *)
(*                                                                         *)
(* All requests are for one address (the hot wallet, which shares its      *)
(* energy between concurrent orders); energy is counted in small units and *)
(* prices are members of Costs.                                            *)
(***************************************************************************)
EXTENDS Integers, FiniteSets

CONSTANTS
    Requests,    \* request ids: energy_rent_order.request_id is unique
    Attempts,    \* Attempts[r]: how often callers use r (a halted withdrawal
                 \*   comes back with the same id, sweep and pool ids are new)
    Rented,      \* requests made through AcquireRented (no burn fallback)
    Callers,     \* threads that call acquire: withdraw workers, sweepers, the pool
    Reconcilers, \* processes running RunReconcile
    Providers,   \* the enabled providers
    RentalOn,    \* config RentalOn
    Mode,        \* energy.mode
    Fixed,       \* energy.fixed, for that mode
    Costs,       \* prices
    Need,        \* billed units of an order
    MaxEnergy,   \* bound: energy of the address
    MaxOrders,   \* bound: orders placed with the platforms
    MaxFaults    \* bound: crashes, failed writes, unread baselines, lost answers

Names == {"gasstation", "tronenergyrent", "trx_burn"}

ASSUME RequestAssumption ==
    /\ "none" \notin Requests
    /\ Attempts \in [Requests -> Nat]
    /\ Rented \subseteq Requests
ASSUME ProviderAssumption ==
    /\ Providers \subseteq Names
    /\ RentalOn \in BOOLEAN
    /\ Mode \in {"fixed", "priority", "cheapest"}
    /\ Fixed \in Names
    /\ Costs \subseteq Nat \ {0}
ASSUME BoundAssumption ==
    /\ Need \in Nat \ {0}
    /\ MaxEnergy \in Nat
    /\ MaxOrders \in Nat
    /\ MaxFaults \in Nat

VARIABLES
    \* --- database
    row,       \* row[r]: the energy_rent_order row of request r
    age,       \* age[r]: "new", past pending_grace, or past pending_timeout
    \* --- platforms and chain
    orders,    \* orders[o]: an order as its platform knows it
    energy,    \* energy the address can spend
    \* --- callers
    pc,        \* pc[c]: next step of acquire in c
    call,      \* call[c]: its local variables
    used,      \* used[r]: calls made with request id r
    \* --- reconcilers
    recon,     \* recon[k]: the row k works on and what the platform said
    faults,    \* faults spent, out of MaxFaults
    \* --- history, read by properties only
    rise,      \* rise[c]: energy gained since c read its baseline, up to Need
    priced     \* requests whose row was marked delegated at a price the answer named

table == <<row, age>>
world == <<orders, energy>>
callers == <<pc, call, used, rise>>
vars == <<table, world, callers, recon, faults, priced>>

Orders == 1 .. MaxOrders
Delivered == {"delegated", "partial"}

NoRow == [status |-> "none", prov |-> "none", key |-> 0, cost |-> 0]
NoOrder == [state |-> "none", prov |-> "none", req |-> "none", cost |-> 0, lost |-> FALSE]
NoCall == [req |-> "none", prov |-> "none", order |-> 0, cost |-> 0,
           baseline |-> 0, blind |-> TRUE]
NoRecon == [req |-> "none", prov |-> "none", key |-> 0, expired |-> FALSE]

Init ==
    /\ row = [r \in Requests |-> NoRow]
    /\ age = [r \in Requests |-> "new"]
    /\ orders = [o \in Orders |-> NoOrder]
    /\ energy \in {0, Need}
    /\ pc = [c \in Callers |-> "idle"]
    /\ call = [c \in Callers |-> NoCall]
    /\ used = [r \in Requests |-> 0]
    /\ recon = [k \in Reconcilers |-> NoRecon]
    /\ faults = 0
    /\ rise = [c \in Callers |-> 0]
    /\ priced = {}

Fault == faults < MaxFaults /\ faults' = faults + 1

-----------------------------------------------------------------------------
(* BestQuote.                                                              *)

\* orderedNames: by name, the burn fallback last.
Rank == [gasstation |-> 1, tronenergyrent |-> 2, trx_burn |-> 3]

\* Each provider answers with a price (a fresh one or, through quoteOne, one it
\* gave earlier) or not at all: out of stock, over its largest order,
\* unreachable.  Burning always has a price.
NoQuote == 0
Quotes == {q \in [Providers -> Costs \cup {NoQuote}] :
              "trx_burn" \in Providers => q["trx_burn"] # NoQuote}

Candidates(q, excludeBurn) ==
    {p \in Providers : /\ q[p] # NoQuote
                       /\ excludeBurn => p # "trx_burn"
                       /\ Mode = "fixed" => p = Fixed}

\* The provider BestQuote settles on, if any.
BestQuote(q, excludeBurn) ==
    LET from == Candidates(q, excludeBurn)
        before(a, b) == \/ Mode # "priority" /\ q[a] < q[b]
                        \/ (Mode = "priority" \/ q[a] = q[b]) /\ Rank[a] < Rank[b]
    IN {p \in from : \A other \in from \ {p} : before(p, other)}

-----------------------------------------------------------------------------
(* acquire.                                                                *)

Return(c) ==
    /\ pc' = [pc EXCEPT ![c] = "idle"]
    /\ call' = [call EXCEPT ![c] = NoCall]
    /\ rise' = [rise EXCEPT ![c] = 0]

Goto(c, step) == pc' = [pc EXCEPT ![c] = step] /\ UNCHANGED <<call, rise>>

\* Begin a call.  Nothing of it can be seen from outside before the row is
\* written, so the quote, the baseline and the row are one step.
Use(c, r) ==
    /\ pc[c] = "idle"
    /\ used[r] < Attempts[r]
    /\ used' = [used EXCEPT ![r] = @ + 1]

\* The row is written before the platform is asked.  A request id that has a row
\* already goes on with that row as it is.
CreateRow(r, p, cost) ==
    row' = IF row[r].status # "none" THEN row
           ELSE [row EXCEPT ![r] = [status |-> "created", prov |-> p, key |-> 0,
                                    cost |-> cost]]

\* availableEnergy: an unread baseline counts as zero.
Baseline == {[units |-> energy, blind |-> FALSE], [units |-> 0, blind |-> TRUE]}

\* Mutant: a burn is ordered like a rental.
OrderAlways(p) == "order"

\* A burn needs no order, only the record of its cost.
FirstStep(p) == IF p = "trx_burn" THEN "mark" ELSE "order"

\* The row gets the quote; cost is the price the call itself can name so far.
Enter(c, r, p, quote, cost) ==
    \E b \in Baseline :
        /\ IF b.blind THEN Fault ELSE UNCHANGED faults
        /\ call' = [call EXCEPT ![c] = [req |-> r, prov |-> p, order |-> 0,
                                        cost |-> cost, baseline |-> b.units, blind |-> b.blind]]
        /\ pc' = [pc EXCEPT ![c] = FirstStep(p)]
        /\ CreateRow(r, p, quote)

\* acquire: no quote is an error for the caller, and so is a row that cannot be
\* written.
Acquire(c, r) ==
    /\ Use(c, r)
    /\ \E q \in Quotes :
         LET best == BestQuote(q, RentalOn /\ r \in Rented)
         IN \/ \E p \in best : Enter(c, r, p, q[p], 0)
            \/ best = {} /\ UNCHANGED <<row, pc, call, faults>>
            \/ Fault /\ UNCHANGED <<row, pc, call>>
    /\ UNCHANGED <<age, world, recon, rise, priced>>

\* burnCostTRX: nothing when the fallback is not built.
BurnCosts == IF "trx_burn" \in Providers THEN Costs ELSE {0}

\* AcquireBurn asks no platform, and names its cost also to a row it finds.
AcquireBurn(c, r) ==
    /\ r \notin Rented
    /\ Use(c, r)
    /\ \E cost \in BurnCosts : Enter(c, r, "trx_burn", cost, cost)
    /\ UNCHANGED <<age, world, recon, rise, priced>>

-----------------------------------------------------------------------------
(* The platforms.                                                          *)

\* gasstation knows orders by request id, tronenergyrent by its own number.
OrdersOf(p, r) == {o \in Orders : orders[o].prov = p /\ orders[o].req = r}
Polled(p, r, key) == IF p = "gasstation" THEN OrdersOf(p, r) ELSE {key} \ {0}

\* The price in an answer about order o: what the platform charged, or none (an
\* amount that does not parse; a price not filled in).
Named(o) == {0, orders[o].cost}

\* A platform takes the order and the prepaid TRX, at the price of the moment.
\* gasstation refuses a request id it has seen; tronenergyrent has no such key.
Place(c, lost) ==
    \E o \in Orders, cost \in Costs :
        /\ orders[o].state = "none"
        /\ \A p \in Orders : p < o => orders[p].state # "none"
        /\ call[c].prov = "gasstation" => OrdersOf("gasstation", call[c].req) = {}
        /\ orders' = [orders EXCEPT ![o] =
               [state |-> "pending", prov |-> call[c].prov, req |-> call[c].req,
                cost |-> cost, lost |-> lost]]
        /\ call' = [call EXCEPT ![c].order = IF lost THEN 0 ELSE o]

\* provider.Ensure: placed; placed although the answer is lost; refused; or, at
\* gasstation, known already and polled, which finds the order or fails.
Ensure(c) ==
    /\ pc[c] = "order"
    /\ \/ /\ Place(c, FALSE)
          /\ pc' = [pc EXCEPT ![c] = "store"]
          /\ UNCHANGED faults
       \/ /\ Fault
          /\ Place(c, TRUE)
          /\ pc' = [pc EXCEPT ![c] = "fail"]
       \/ /\ pc' = [pc EXCEPT ![c] = "fail"]
          /\ UNCHANGED <<orders, call, faults>>
       \/ /\ call[c].prov = "gasstation"
          /\ \E o \in OrdersOf("gasstation", call[c].req) :
                call' = [call EXCEPT ![c].order = o]
          /\ pc' = [pc EXCEPT ![c] = "store"]
          /\ UNCHANGED <<orders, faults>>
    /\ UNCHANGED <<table, energy, used, recon, rise, priced>>

\* The energy an order brings, for every caller that watches the address.
Gain(units) ==
    /\ energy + units <= MaxEnergy
    /\ energy' = energy + units
    /\ rise' = [c \in Callers |->
          IF pc[c] = "idle" \/ call[c].blind THEN rise[c]
          ELSE IF rise[c] + units < Need THEN rise[c] + units ELSE Need]

\* A platform delegates, in full or (gasstation) in part, or fails the order.
Deliver(o) ==
    /\ orders[o].state = "pending"
    /\ \/ /\ orders' = [orders EXCEPT ![o].state = "delegated"]
          /\ Gain(Need)
       \/ /\ orders[o].prov = "gasstation"
          /\ orders' = [orders EXCEPT ![o].state = "partial"]
          /\ Gain(Need \div 2)
       \/ /\ orders' = [orders EXCEPT ![o].state = "failed"]
          /\ UNCHANGED <<energy, rise>>
    /\ UNCHANGED <<table, pc, call, used, recon, faults, priced>>

\* Transfers use energy up, leases end; staked energy comes back by itself.
EnergyDrops ==
    /\ energy >= Need \div 2
    /\ energy' = energy - Need \div 2
    /\ UNCHANGED <<table, orders, callers, recon, faults, priced>>

EnergyRecovers ==
    /\ Gain(Need \div 2)
    /\ UNCHANGED <<table, orders, pc, call, used, recon, faults, priced>>

-----------------------------------------------------------------------------
(* The outcome of Ensure, and wait.                                        *)

\* provider_order_id; a failed write is ignored, wait has the id in memory.
StoreOrder(c) ==
    /\ pc[c] = "store"
    /\ \/ row' = [row EXCEPT ![call[c].req].key = call[c].order] /\ UNCHANGED faults
       \/ Fault /\ UNCHANGED row
    /\ Goto(c, "wait")
    /\ UNCHANGED <<age, world, used, recon, priced>>

\* An error of Ensure, and a failed or cancelled order, fail the row by id.
FailRow(c) ==
    /\ pc[c] = "fail"
    /\ \/ row' = [row EXCEPT ![call[c].req].status = "failed"] /\ UNCHANGED faults
       \/ Fault /\ UNCHANGED row
    /\ Return(c)
    /\ UNCHANGED <<age, world, used, recon, priced>>

\* Platforms round, so 95 percent of the order will do.
Enough == (Need * 95) \div 100

\* Mutant: any energy the address has passes for the delegation.
Absolute(c) == energy >= Enough

\* confirmOnChain
ConfirmOnChain(c) == energy - call[c].baseline >= Enough

\* wait, one poll that ends it: the platform says delegated (in part too) and
\* the chain shows the energy, or the platform says failed.
WaitPoll(c) ==
    /\ pc[c] = "wait"
    /\ \E o \in Polled(call[c].prov, call[c].req, call[c].order) :
         \/ /\ orders[o].state \in Delivered
            /\ ConfirmOnChain(c)
            /\ pc' = [pc EXCEPT ![c] = "mark"]
            /\ \E cost \in Named(o) :
                  call' = [call EXCEPT ![c].order = o, ![c].cost = cost]
         \/ /\ orders[o].state = "failed"
            /\ pc' = [pc EXCEPT ![c] = "fail"]
            /\ UNCHANGED call
    /\ UNCHANGED <<table, world, used, recon, faults, rise, priced>>

\* Mutant: a wait that gave up fails the row.
TimeoutFails(c) ==
    /\ pc[c] = "wait"
    /\ row' = [row EXCEPT ![call[c].req].status = "failed"]
    /\ Return(c)
    /\ UNCHANGED <<age, world, used, recon, faults, priced>>

\* energy.wait_timeout: the row is left to the reconciler.
WaitTimeout(c) ==
    /\ pc[c] = "wait"
    /\ Return(c)
    /\ UNCHANGED <<table, world, used, recon, faults, priced>>

\* Mutant: the price is written whether or not the answer names one.
DelegatedUnpriced(r, cost) == [row EXCEPT ![r].status = "delegated", ![r].cost = cost]

\* markDelegated, by id: the status and, when the answer named one, the price.
MarkDelegated(r, cost) ==
    [row EXCEPT ![r].status = "delegated",
                ![r].cost = IF cost > 0 THEN cost ELSE @]

Book(r, cost) ==
    /\ row' = MarkDelegated(r, cost)
    /\ priced' = IF cost > 0 THEN priced \cup {r} ELSE priced

\* acquire succeeds.
Mark(c) ==
    /\ pc[c] = "mark"
    /\ \/ Book(call[c].req, call[c].cost) /\ UNCHANGED faults
       \/ Fault /\ UNCHANGED <<row, priced>>
    /\ Return(c)
    /\ UNCHANGED <<age, world, used, recon>>

-----------------------------------------------------------------------------
(* ReconcilePending.                                                       *)

\* PendingOrders: created and older than pending_grace.
Pending(r) == row[r].status = "created" /\ age[r] # "new"

\* The query takes a snapshot of the row.
PickRow(k, r) ==
    /\ recon[k] = NoRecon
    /\ Pending(r)
    /\ recon' = [recon EXCEPT ![k] = [req |-> r, prov |-> row[r].prov, key |-> row[r].key,
                                      expired |-> (age[r] = "expired")]]
    /\ UNCHANGED <<table, world, callers, faults, priced>>

\* Mutant: the status is not compared before it is overwritten.
WriteAnyway(r, s) == [row EXCEPT ![r].status = s]

\* WHERE id = r AND status = created
SettleIfCreated(r, s) == [row EXCEPT ![r].status = IF @ = "created" THEN s ELSE @]

\* Mutant: an unresolved order is only logged.
AbandonNever(r, expired) == row

\* abandon: pending until pending_timeout, then left to the operator.
Abandon(r, expired) == IF expired THEN SettleIfCreated(r, "abandoned") ELSE row

\* reconcileOne: the outcome the platform knows, or abandon when there is none:
\* no order id to ask for, a platform that is unreachable or switched off, or an
\* order that is still pending.  A burn row has no order id.
SettleRow(k) ==
    LET rec == recon[k] IN
    /\ rec # NoRecon
    /\ \/ row' = Abandon(rec.req, rec.expired) /\ UNCHANGED priced
       \/ \E o \in Polled(rec.prov, rec.req, rec.key) :
            \/ /\ orders[o].state \in Delivered
               /\ \E cost \in Named(o) : Book(rec.req, cost)
            \/ /\ orders[o].state = "failed"
               /\ row' = SettleIfCreated(rec.req, "failed")
               /\ UNCHANGED priced
    /\ recon' = [recon EXCEPT ![k] = NoRecon]
    /\ UNCHANGED <<age, world, callers, faults>>

-----------------------------------------------------------------------------
(* Time and crashes.                                                       *)

\* created_at falls behind pending_grace, then behind pending_timeout.
GrowOlder(r) ==
    /\ row[r].status # "none"
    /\ age[r] # "expired"
    /\ age' = [age EXCEPT ![r] = IF @ = "new" THEN "grace" ELSE "expired"]
    /\ UNCHANGED <<row, world, callers, recon, faults, priced>>

\* A process stops; what its threads were doing is lost.
CrashCaller(c) ==
    /\ pc[c] # "idle"
    /\ Fault
    /\ Return(c)
    /\ UNCHANGED <<table, world, used, recon, priced>>

CrashReconciler(k) ==
    /\ recon[k] # NoRecon
    /\ Fault
    /\ recon' = [recon EXCEPT ![k] = NoRecon]
    /\ UNCHANGED <<table, world, callers, priced>>

-----------------------------------------------------------------------------
AcquireStep(c) ==
    \/ Ensure(c) \/ StoreOrder(c) \/ FailRow(c)
    \/ WaitPoll(c) \/ WaitTimeout(c) \/ Mark(c)

Next ==
    \/ \E c \in Callers, r \in Requests : Acquire(c, r) \/ AcquireBurn(c, r)
    \/ \E c \in Callers : AcquireStep(c) \/ CrashCaller(c)
    \/ \E k \in Reconcilers, r \in Requests : PickRow(k, r)
    \/ \E k \in Reconcilers : SettleRow(k) \/ CrashReconciler(k)
    \/ \E o \in Orders : Deliver(o)
    \/ \E r \in Requests : GrowOlder(r)
    \/ EnergyDrops \/ EnergyRecovers

Spec == Init /\ [][Next]_vars

\* The reconcile loop runs for ever and handles every row its query returns;
\* time passes.  Nothing is assumed of callers, platforms or the chain.
Fairness ==
    /\ \A k \in Reconcilers : WF_vars(SettleRow(k))
    /\ \A k \in Reconcilers, r \in Requests : WF_vars(PickRow(k, r))
    /\ \A r \in Requests : WF_vars(GrowOlder(r))

FairSpec == Spec /\ Fairness

-----------------------------------------------------------------------------
(* Types.                                                                  *)

Statuses == {"none", "created", "delegated", "failed", "abandoned"}
States == {"none", "pending", "delegated", "partial", "failed"}
Steps == {"idle", "order", "store", "fail", "wait", "mark"}
Ids == Requests \cup {"none"}
Platforms == Names \cup {"none"}
Keys == Orders \cup {0}
Prices == Costs \cup {0}
Rows == [status : Statuses, prov : Platforms, key : Keys, cost : Prices]
Placed == [state : States, prov : Platforms, req : Ids, cost : Prices, lost : BOOLEAN]
Calls == [req : Ids, prov : Platforms, order : Keys, cost : Prices,
          baseline : Nat, blind : BOOLEAN]
Recons == [req : Ids, prov : Platforms, key : Keys, expired : BOOLEAN]

\* Every variable holds values of its column, order or local variable.
TypeOK ==
    /\ row \in [Requests -> Rows]
    /\ age \in [Requests -> {"new", "grace", "expired"}]
    /\ orders \in [Orders -> Placed]
    /\ energy \in Nat
    /\ pc \in [Callers -> Steps]
    /\ call \in [Callers -> Calls]
    /\ used \in [Requests -> Nat]
    /\ recon \in [Reconcilers -> Recons]
    /\ faults \in Nat
    /\ rise \in [Callers -> Nat]
    /\ priced \subseteq Requests

-----------------------------------------------------------------------------
(* Properties.                                                             *)

\* The id was not used a second time yet (a sweep's and the pool's never are).
Once(r) == used[r] <= 1

\* "the local row is written before the provider call ... On timeout the row
\* lets us reconcile": money a platform took under an id that was used once is
\* never written off as failed, whatever the wait, the reconciler and a crash
\* made of the row, unless Ensure itself lost the answer (then acquire fails
\* the row at once and nobody looks again).
PaidIsTracked ==
    \A o \in Orders :
        /\ orders[o].state \in {"pending"} \cup Delivered
        /\ ~orders[o].lost
        /\ Once(orders[o].req)
        => row[orders[o].req].status \in {"created", "delegated", "abandoned"}

\* "The row is settled so the cost lands in the rental accounting": a rental is
\* booked only for an order that was delivered, and once an answer named what the
\* platform charged, that is the price of the row for good: no answer without a
\* price, the caller's or the reconciler's, and no quote takes its place.  (A row
\* that no answer ever priced keeps the quote.)
CostIsCharged ==
    \A r \in Requests : Once(r) /\ row[r].prov # "trx_burn" =>
        /\ row[r].status = "delegated" =>
              \E o \in Orders : orders[o].req = r /\ orders[o].state \in Delivered
        /\ r \in priced =>
              \E o \in Orders : /\ orders[o].req = r
                                /\ orders[o].state \in Delivered
                                /\ orders[o].cost = row[r].cost

\* "comparing the absolute amount would accept an address that was simply
\* topped up before": a rental only succeeds once the address has gained the
\* energy since the baseline was read, however the energy is shared with other
\* orders and used meanwhile; an unread baseline is the one exception.
ServedIsDelivered ==
    \A c \in Callers :
        pc[c] = "mark" /\ call[c].prov # "trx_burn" /\ ~call[c].blind => rise[c] >= Enough

\* A rental that was settled as delegated is not taken out of the accounting
\* again by a caller or a reconciler that looked at it earlier.  (An acquire
\* whose Ensure lost the answer fails the row even then.)
DelegatedIsFinal ==
    [][\A r \in Requests :
          /\ Once(r)
          /\ row[r].status = "delegated"
          /\ \A o \in Orders : orders[o].req = r => ~orders[o].lost
          => row'[r].status = "delegated"]_vars

\* "gives it a terminal status": no row stays created for ever, although its
\* caller may have crashed and its order id may never have been stored.
OrdersSettle ==
    \A r \in Requests : row[r].status = "created" ~> row[r].status # "created"

-----------------------------------------------------------------------------
(* The inductive invariant.  While an id was used once, its row, its order *)
(* and its caller belong together.                                         *)

Active(c, r) == pc[c] # "idle" /\ call[c].req = r
OrderFor(o, r) == orders[o].state # "none" /\ orders[o].req = r

\* What exists for an id was made by a use of it.
UsedInv ==
    /\ \A c \in Callers : pc[c] # "idle" =>
          call[c].req \in Requests /\ row[call[c].req].status # "none"
    /\ \A k \in Reconcilers : recon[k] # NoRecon =>
          recon[k].req \in Requests /\ row[recon[k].req].status # "none"
    /\ \A o \in Orders :
          IF orders[o].state = "none" THEN orders[o].req = "none"
          ELSE orders[o].req \in Requests /\ row[orders[o].req].status # "none"
    /\ \A r \in Requests : row[r].status # "none" => used[r] > 0
    /\ \A r \in priced : row[r].status # "none"

\* One use is one caller and one order, at the provider of the row.
OnceInv ==
    \A r \in Requests : Once(r) =>
        /\ \A c, d \in Callers : Active(c, r) /\ Active(d, r) => c = d
        /\ \A o, p \in Orders : OrderFor(o, r) /\ OrderFor(p, r) => o = p
        /\ \A c \in Callers : Active(c, r) => row[r].prov = call[c].prov

\* Order numbers in rows, snapshots and callers name an order of the id.
KeyInv ==
    /\ \A r \in Requests : row[r].key # 0 => OrderFor(row[r].key, r)
    /\ \A k \in Reconcilers : recon[k].key # 0 => OrderFor(recon[k].key, recon[k].req)
    /\ \A c \in Callers : call[c].order # 0 => OrderFor(call[c].order, call[c].req)

\* Before Ensure nothing was ordered, and nobody can have settled the row but
\* by giving up on it.
OrderInv ==
    \A c \in Callers : pc[c] = "order" /\ Once(call[c].req) =>
        /\ row[call[c].req].status \in {"created", "abandoned"}
        /\ \A o \in Orders : ~OrderFor(o, call[c].req)

\* A caller about to fail the row has no order that is alive and known.
FailInv ==
    \A c \in Callers : pc[c] = "fail" /\ Once(call[c].req) =>
        \A o \in Orders : OrderFor(o, call[c].req) =>
            orders[o].lost \/ orders[o].state = "failed"

\* A burn only passes through "mark"; any other success has a delivered order.
MarkInv ==
    \A c \in Callers :
        /\ pc[c] \in {"order", "store", "fail", "wait"} => call[c].prov # "trx_burn"
        /\ pc[c] = "mark" /\ call[c].prov # "trx_burn" =>
              /\ call[c].order # 0 /\ orders[call[c].order].state \in Delivered
              /\ call[c].cost \in Named(call[c].order)

\* The energy of the address is never further above a baseline than it rose.
RiseInv ==
    \A c \in Callers :
        /\ pc[c] = "idle" => rise[c] = 0
        /\ pc[c] # "idle" /\ ~call[c].blind =>
              rise[c] >= Enough \/ energy - call[c].baseline <= rise[c]

\* The inductive invariant, with the three state properties it is for.
IInv ==
    /\ TypeOK
    /\ UsedInv /\ OnceInv /\ KeyInv /\ OrderInv /\ FailInv /\ MarkInv /\ RiseInv
    /\ PaidIsTracked /\ CostIsCharged /\ ServedIsDelivered

=============================================================================
