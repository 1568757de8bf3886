---------------------------- MODULE EnergyProofs ----------------------------
(***************************************************************************)
(* TLAPS proofs about Energy: the inductive invariant, and from it that    *)
(* paid orders are tracked, delegated rows keep the price that was named and *)
(* stay delegated, and rentals succeed only when the energy has arrived,   *)
(* for every number of callers, reconcilers, requests, attempts, orders    *)
(* and faults and every set of providers, prices and energy amounts.       *)
(***************************************************************************)
EXTENDS Energy, TLAPS

\* The arithmetic of orders: nine and a half tenths, and a half.
LEMMA Amounts ==
  /\ Need \in Nat /\ Enough \in Nat /\ Enough <= Need
  /\ Need \div 2 \in Nat
BY BoundAssumption DEF Enough

LEMMA NullValues ==
  /\ NoRow \in Rows /\ NoOrder \in Placed /\ NoCall \in Calls /\ NoRecon \in Recons
  /\ NoRow.status = "none" /\ NoRow.key = 0
  /\ NoOrder.state = "none" /\ NoOrder.req = "none"
  /\ NoCall.order = 0 /\ NoRecon.key = 0
BY DEF NoRow, NoOrder, NoCall, NoRecon, Rows, Placed, Calls, Recons, Statuses, States, Ids,
       Platforms, Keys, Prices

LEMMA FaultType ==
  ASSUME TypeOK, Fault \/ UNCHANGED faults
  PROVE  faults' \in Nat
BY DEF TypeOK, Fault

\* Prices are numbers, and a named price is positive.
LEMMA PriceFacts ==
  /\ Prices \subseteq Nat /\ 0 \in Prices
  /\ \A x \in Prices : x > 0 <=> x # 0
<1>1. Costs \subseteq Nat \ {0}
  BY ProviderAssumption
<1> QED
  BY <1>1 DEF Prices

LEMMA InitIInv == Init => IInv
<1> SUFFICES ASSUME Init PROVE IInv
  OBVIOUS
<1>1. TypeOK
  <2>1. energy \in Nat
    BY Amounts DEF Init
  <2>2. "idle" \in Steps
    BY DEF Steps
  <2> QED
    BY <2>1, <2>2, NullValues DEF Init, TypeOK
<1>2. /\ priced = {}
      /\ \A r \in Requests : row[r] = NoRow
      /\ \A o \in Orders : orders[o] = NoOrder
      /\ \A c \in Callers : pc[c] = "idle" /\ call[c] = NoCall /\ rise[c] = 0
      /\ \A k \in Reconcilers : recon[k] = NoRecon
  BY DEF Init
<1>3. UsedInv
  BY <1>2, NullValues DEF UsedInv
<1>4. OnceInv
  BY <1>2, NullValues DEF OnceInv, Active, OrderFor
<1>5. KeyInv
  BY <1>2, NullValues DEF KeyInv
<1>6. OrderInv /\ FailInv /\ MarkInv /\ RiseInv /\ ServedIsDelivered
  BY <1>2 DEF OrderInv, FailInv, MarkInv, RiseInv, ServedIsDelivered
<1>7. PaidIsTracked /\ CostIsCharged
  BY <1>2, NullValues DEF PaidIsTracked, CostIsCharged, Delivered
<1> QED
  BY <1>1, <1>3, <1>4, <1>5, <1>6, <1>7 DEF IInv

-----------------------------------------------------------------------------
(* Writes of a row.                                                        *)

\* The columns of row r after a write, and every other row as it was.
RowWrote(r, s, k, x) ==
    /\ row' \in [Requests -> Rows]
    /\ row'[r].status = s /\ row'[r].key = k /\ row'[r].cost = x
    /\ row'[r].prov = row[r].prov
    /\ \A q \in Requests : q # r => row'[q] = row[q]

LEMMA RowFields ==
  ASSUME TypeOK, NEW r \in Requests
  PROVE  /\ row \in [Requests -> Rows] /\ row[r] \in Rows
         /\ row[r].status \in Statuses /\ row[r].prov \in Platforms
         /\ row[r].key \in Keys /\ row[r].cost \in Prices
BY DEF TypeOK, Rows

LEMMA AnyWrite ==
  ASSUME TypeOK, NEW r \in Requests, NEW w \in Rows, w.prov = row[r].prov,
         row' = [row EXCEPT ![r] = w]
  PROVE  RowWrote(r, w.status, w.key, w.cost)
BY RowFields DEF RowWrote

LEMMA NoWrite ==
  ASSUME TypeOK, NEW r \in Requests, row' = row
  PROVE  RowWrote(r, row[r].status, row[r].key, row[r].cost)
BY RowFields DEF RowWrote

LEMMA StatusWrite ==
  ASSUME TypeOK, NEW r \in Requests, NEW s \in Statuses,
         row' = [row EXCEPT ![r].status = s]
  PROVE  RowWrote(r, s, row[r].key, row[r].cost)
<1> DEFINE w == [row[r] EXCEPT !.status = s]
<1>1. /\ w \in Rows /\ w.prov = row[r].prov
      /\ w.status = s /\ w.key = row[r].key /\ w.cost = row[r].cost
  BY RowFields DEF Rows
<1>2. row' = [row EXCEPT ![r] = w]
  OBVIOUS
<1> HIDE DEF w
<1>3. RowWrote(r, w.status, w.key, w.cost)
  BY <1>1, <1>2, AnyWrite
<1> QED
  BY <1>1, <1>3

LEMMA KeyWrite ==
  ASSUME TypeOK, NEW r \in Requests, NEW k \in Keys,
         row' = [row EXCEPT ![r].key = k]
  PROVE  RowWrote(r, row[r].status, k, row[r].cost)
<1> DEFINE w == [row[r] EXCEPT !.key = k]
<1>1. /\ w \in Rows /\ w.prov = row[r].prov
      /\ w.status = row[r].status /\ w.key = k /\ w.cost = row[r].cost
  BY RowFields DEF Rows
<1>2. row' = [row EXCEPT ![r] = w]
  OBVIOUS
<1> HIDE DEF w
<1>3. RowWrote(r, w.status, w.key, w.cost)
  BY <1>1, <1>2, AnyWrite
<1> QED
  BY <1>1, <1>3

LEMMA DelegatedWrite ==
  ASSUME TypeOK, NEW r \in Requests, NEW x \in Prices, row' = MarkDelegated(r, x)
  PROVE  RowWrote(r, "delegated", row[r].key, IF x > 0 THEN x ELSE row[r].cost)
<1> DEFINE y == IF x > 0 THEN x ELSE row[r].cost
           w == [[row[r] EXCEPT !.status = "delegated"] EXCEPT !.cost = y]
<1>1. y \in Prices
  BY RowFields
<1>2. row' = [row EXCEPT ![r] = w]
  <2>1. row \in [Requests -> Rows] /\ row[r] \in Rows
    BY RowFields
  <2> QED
    BY <2>1 DEF MarkDelegated, Rows
<1> HIDE DEF y
<1>3. /\ w \in Rows /\ w.prov = row[r].prov
      /\ w.status = "delegated" /\ w.key = row[r].key /\ w.cost = y
  BY <1>1, RowFields DEF Rows, Statuses
<1> HIDE DEF w
<1>4. RowWrote(r, w.status, w.key, w.cost)
  BY <1>2, <1>3, AnyWrite
<1> QED
  BY <1>3, <1>4 DEF y

LEMMA SettleWrite ==
  ASSUME TypeOK, NEW r \in Requests, NEW s \in Statuses, row' = SettleIfCreated(r, s)
  PROVE  RowWrote(r, IF row[r].status = "created" THEN s ELSE row[r].status,
                  row[r].key, row[r].cost)
<1> DEFINE t == IF row[r].status = "created" THEN s ELSE row[r].status
<1>1. t \in Statuses
  BY RowFields
<1>2. row' = [row EXCEPT ![r].status = t]
  BY RowFields DEF SettleIfCreated
<1> HIDE DEF t
<1>3. RowWrote(r, t, row[r].key, row[r].cost)
  BY <1>1, <1>2, StatusWrite
<1> QED
  BY <1>3 DEF t

\* No order of the id is alive and known to its caller.
NoLiveOrder(r) ==
    \A o \in Orders : OrderFor(o, r) => orders[o].lost \/ orders[o].state = "failed"

\* An order of the id was delivered; it was, at the price x.
Served(r) == \E o \in Orders : OrderFor(o, r) /\ orders[o].state \in Delivered
DeliveredAt(r, x) ==
    \E o \in Orders : OrderFor(o, r) /\ orders[o].state \in Delivered /\ orders[o].cost = x

\* CostIsCharged says nothing of the row.
Exempt(r) == ~Once(r) \/ row[r].prov = "trx_burn"

\* A write that keeps the row in accord with the orders of its id.
GoodWrite(r, s, k, x) ==
    /\ RowWrote(r, s, k, x)
    /\ r \in Requests /\ row[r].status # "none" /\ s # "none"
    /\ s \in {"created", "delegated", "failed", "abandoned"}
    /\ k # 0 => OrderFor(k, r)
    /\ s = "failed" => row[r].status = "failed" \/ ~Once(r) \/ NoLiveOrder(r)
    /\ s = "delegated" => row[r].status = "delegated" \/ Exempt(r) \/ Served(r)
    /\ \/ x = row[r].cost /\ priced' = priced
       \/ (Exempt(r) \/ DeliveredAt(r, x)) /\ priced' \in {priced, priced \cup {r}}

\* What such a write means for the rest of the invariant.
RowsKept ==
    /\ row' \in [Requests -> Rows]
    /\ \A q \in priced' : q \in Requests /\ row'[q].status # "none"
    /\ \A q \in Requests :
         /\ row'[q].prov = row[q].prov
         /\ row[q].status # "none" <=> row'[q].status # "none"
         /\ row'[q].key # 0 => OrderFor(row'[q].key, q)

LEMMA GoodWriteKeeps ==
  ASSUME IInv, NEW r, NEW s, NEW k, NEW x, GoodWrite(r, s, k, x), UNCHANGED <<orders, used>>
  PROVE  RowsKept /\ PaidIsTracked' /\ CostIsCharged'
<1>1. /\ row' \in [Requests -> Rows]
      /\ row'[r].status = s /\ row'[r].key = k /\ row'[r].cost = x
      /\ row'[r].prov = row[r].prov
      /\ \A q \in Requests : q # r => row'[q] = row[q]
      /\ r \in Requests
  BY DEF GoodWrite, RowWrote
<1>2. RowsKept
  <2>1. \A q \in priced' : q \in Requests /\ row'[q].status # "none"
    BY <1>1 DEF GoodWrite, IInv, TypeOK, UsedInv
  <2> QED
    BY <1>1, <2>1 DEF GoodWrite, RowsKept, IInv, KeyInv
<1>3. PaidIsTracked'
  <2> SUFFICES ASSUME NEW o \in Orders,
                      orders[o].state \in {"pending"} \cup Delivered,
                      ~orders[o].lost,
                      Once(orders[o].req)
               PROVE  row'[orders[o].req].status \in {"created", "delegated", "abandoned"}
    BY DEF PaidIsTracked, Once
  <2>1. orders[o].state # "none" /\ orders[o].state # "failed"
    BY DEF Delivered
  <2>2. orders[o].req \in Requests
    BY <2>1 DEF IInv, UsedInv
  <2>3. row[orders[o].req].status \in {"created", "delegated", "abandoned"}
    BY DEF IInv, PaidIsTracked
  <2>4. CASE orders[o].req # r
    BY <1>1, <2>2, <2>3, <2>4
  <2>5. CASE orders[o].req = r
    <3>1. OrderFor(o, r) /\ ~NoLiveOrder(r)
      BY <2>1, <2>5 DEF OrderFor, NoLiveOrder
    <3>2. s # "failed"
      BY <2>3, <2>5, <3>1 DEF GoodWrite
    <3> QED
      BY <1>1, <2>5, <3>2 DEF GoodWrite
  <2> QED
    BY <2>4, <2>5
<1>4. CostIsCharged'
  <2> SUFFICES ASSUME NEW q \in Requests, Once(q), row'[q].prov # "trx_burn"
               PROVE  /\ row'[q].status = "delegated" =>
                            \E o \in Orders : orders[o].req = q /\ orders[o].state \in Delivered
                      /\ q \in priced' =>
                            \E o \in Orders : /\ orders[o].req = q
                                              /\ orders[o].state \in Delivered
                                              /\ orders[o].cost = row'[q].cost
    BY DEF CostIsCharged, Once
  <2>1. CASE q # r
    <3>1. row'[q] = row[q] /\ (q \in priced' => q \in priced)
      BY <1>1, <2>1 DEF GoodWrite
    <3> QED
      BY <3>1 DEF IInv, CostIsCharged
  <2>2. CASE q = r
    <3>1. ~Exempt(r)
      BY <1>1, <2>2 DEF Exempt
    <3>2. row'[q].status = "delegated" => Served(r)
      BY <1>1, <2>2, <3>1 DEF GoodWrite, IInv, CostIsCharged, Exempt, Served, OrderFor,
         Delivered
    <3>3. q \in priced' => DeliveredAt(r, x)
      BY <2>2, <3>1 DEF GoodWrite, IInv, CostIsCharged, Exempt, DeliveredAt, OrderFor,
         Delivered
    <3> QED
      BY <1>1, <2>2, <3>2, <3>3 DEF Served, DeliveredAt, OrderFor
  <2> QED
    BY <2>1, <2>2
<1> QED
  BY <1>2, <1>3, <1>4

-----------------------------------------------------------------------------
(* Steps that end a call.                                                  *)

LEMMA ReturnFacts ==
  ASSUME TypeOK, NEW c \in Callers, Return(c)
  PROVE  /\ pc' \in [Callers -> Steps] /\ call' \in [Callers -> Calls]
         /\ rise' \in [Callers -> Nat]
         /\ pc'[c] = "idle" /\ call'[c] = NoCall /\ rise'[c] = 0
         /\ \A d \in Callers : d # c =>
              pc'[d] = pc[d] /\ call'[d] = call[d] /\ rise'[d] = rise[d]
BY NullValues DEF TypeOK, Return, Steps

LEMMA ReturnKeeps ==
  ASSUME IInv, NEW c \in Callers, pc[c] # "idle", Return(c),
         UNCHANGED <<age, orders, energy, used, recon>>, faults' \in Nat,
         NEW s, NEW k, NEW x, GoodWrite(call[c].req, s, k, x)
  PROVE  IInv'
<1> DEFINE r == call[c].req
<1>1. RowsKept /\ PaidIsTracked' /\ CostIsCharged'
  BY GoodWriteKeeps
<1>2. /\ pc' \in [Callers -> Steps] /\ call' \in [Callers -> Calls]
      /\ rise' \in [Callers -> Nat]
      /\ pc'[c] = "idle" /\ call'[c] = NoCall /\ rise'[c] = 0
      /\ \A d \in Callers : d # c =>
           pc'[d] = pc[d] /\ call'[d] = call[d] /\ rise'[d] = rise[d]
  BY ReturnFacts DEF IInv
<1>3. TypeOK'
  BY <1>1, <1>2 DEF IInv, TypeOK, RowsKept
<1>4. UsedInv'
  BY <1>1, <1>2 DEF IInv, UsedInv, RowsKept
<1>5. OnceInv'
  BY <1>1, <1>2 DEF IInv, OnceInv, Active, OrderFor, Once, RowsKept
<1>6. KeyInv'
  BY <1>1, <1>2, NullValues DEF IInv, KeyInv, OrderFor, RowsKept
<1>7. \A d \in Callers : pc'[d] = "order" /\ Once(call[d].req) =>
         row'[call[d].req] = row[call[d].req]
  <2> SUFFICES ASSUME NEW d \in Callers, pc'[d] = "order", Once(call[d].req)
               PROVE  row'[call[d].req] = row[call[d].req]
    OBVIOUS
  <2>1. d # c /\ pc[d] = "order"
    BY <1>2
  <2>2. call[d].req \in Requests /\ r \in Requests
    BY <2>1 DEF IInv, UsedInv
  <2>3. call[d].req # r
    BY <2>1, <2>2 DEF IInv, OnceInv, Active
  <2> QED
    BY <2>2, <2>3 DEF GoodWrite, RowWrote
<1>8. OrderInv'
  BY <1>2, <1>7 DEF IInv, OrderInv, OrderFor, Once
<1>9. FailInv' /\ MarkInv' /\ RiseInv' /\ ServedIsDelivered'
  BY <1>2 DEF IInv, FailInv, MarkInv, Named, RiseInv, ServedIsDelivered, OrderFor, Once
<1> QED
  BY <1>1, <1>3, <1>4, <1>5, <1>6, <1>8, <1>9 DEF IInv

\* Leaving without a write is a special case.
LEMMA SameWrite ==
  ASSUME IInv, NEW r \in Requests, row[r].status # "none",
         UNCHANGED <<row, priced>>
  PROVE  GoodWrite(r, row[r].status, row[r].key, row[r].cost)
<1>1. TypeOK
  BY DEF IInv
<1>2. RowWrote(r, row[r].status, row[r].key, row[r].cost)
  BY <1>1, NoWrite
<1>3. row[r].status \in Statuses
  BY <1>1, RowFields
<1>4. row[r].key # 0 => OrderFor(row[r].key, r)
  BY DEF IInv, KeyInv
<1> QED
  BY <1>2, <1>3, <1>4 DEF GoodWrite, Statuses

LEMMA ActiveRow ==
  ASSUME IInv, NEW c \in Callers, pc[c] # "idle"
  PROVE  call[c].req \in Requests /\ row[call[c].req].status # "none"
BY DEF IInv, UsedInv

LEMMA LeaveKeeps ==
  ASSUME IInv, NEW c \in Callers, pc[c] # "idle", Return(c), row' = row,
         UNCHANGED <<age, orders, energy, used, recon, priced>>, faults' \in Nat
  PROVE  IInv'
BY ActiveRow, SameWrite, ReturnKeeps

LEMMA WaitTimeoutKeeps ==
  ASSUME IInv, NEW c \in Callers, WaitTimeout(c)
  PROVE  IInv'
<1>1. /\ pc[c] # "idle" /\ Return(c) /\ row' = row
      /\ UNCHANGED <<age, orders, energy, used, recon, priced>>
      /\ faults' \in Nat
  BY DEF WaitTimeout, table, world, IInv, TypeOK
<1> QED
  BY <1>1, LeaveKeeps

LEMMA CrashCallerKeeps ==
  ASSUME IInv, NEW c \in Callers, CrashCaller(c)
  PROVE  IInv'
<1>1. /\ pc[c] # "idle" /\ Return(c) /\ row' = row
      /\ UNCHANGED <<age, orders, energy, used, recon, priced>>
  BY DEF CrashCaller, table, world
<1>2. faults' \in Nat
  BY FaultType DEF CrashCaller, IInv
<1> QED
  BY <1>1, <1>2, LeaveKeeps

LEMMA FailRowKeeps ==
  ASSUME IInv, NEW c \in Callers, FailRow(c)
  PROVE  IInv'
<1>1. /\ pc[c] # "idle" /\ pc[c] = "fail" /\ Return(c)
      /\ UNCHANGED <<age, orders, energy, used, recon, priced>>
  BY DEF FailRow, world
<1>2. faults' \in Nat /\ TypeOK
  BY FaultType DEF FailRow, IInv
<1>3. CASE row' = row
  BY <1>1, <1>2, <1>3, LeaveKeeps
<1>4. CASE row' = [row EXCEPT ![call[c].req].status = "failed"]
  <2> DEFINE r == call[c].req
  <2>1. r \in Requests /\ row[r].status # "none"
    BY <1>1, ActiveRow
  <2>2. RowWrote(r, "failed", row[r].key, row[r].cost)
    BY <1>2, <1>4, <2>1, StatusWrite DEF Statuses
  <2>3. Once(r) => NoLiveOrder(r)
    BY <1>1 DEF IInv, FailInv, NoLiveOrder
  <2>4. row[r].key # 0 => OrderFor(row[r].key, r)
    BY <2>1 DEF IInv, KeyInv
  <2>5. GoodWrite(r, "failed", row[r].key, row[r].cost)
    BY <1>1, <2>1, <2>2, <2>3, <2>4 DEF GoodWrite
  <2> QED
    BY <1>1, <1>2, <2>5, ReturnKeeps
<1> QED
  BY <1>3, <1>4 DEF FailRow

\* The price given to markDelegated is none or that of a delivered order.
LEMMA BookIsGood ==
  ASSUME IInv, NEW r \in Requests, row[r].status # "none", NEW x \in Prices, Book(r, x),
         Exempt(r) \/ Served(r),
         x # 0 => Exempt(r) \/ DeliveredAt(r, x)
  PROVE  GoodWrite(r, "delegated", row[r].key, IF x > 0 THEN x ELSE row[r].cost)
<1> DEFINE y == IF x > 0 THEN x ELSE row[r].cost
<1>1. TypeOK
  BY DEF IInv
<1>2. RowWrote(r, "delegated", row[r].key, y)
  BY <1>1, DelegatedWrite DEF Book
<1>3. row[r].key # 0 => OrderFor(row[r].key, r)
  BY DEF IInv, KeyInv
<1>4. \/ y = row[r].cost /\ priced' = priced
      \/ (Exempt(r) \/ DeliveredAt(r, y)) /\ priced' \in {priced, priced \cup {r}}
  <2>1. CASE x > 0
    BY <2>1, PriceFacts DEF Book
  <2>2. CASE ~(x > 0)
    BY <2>2 DEF Book
  <2> QED
    BY <2>1, <2>2
<1> HIDE DEF y
<1>5. GoodWrite(r, "delegated", row[r].key, y)
  BY <1>2, <1>3, <1>4 DEF GoodWrite
<1> QED
  BY <1>5 DEF y

LEMMA MarkKeeps ==
  ASSUME IInv, NEW c \in Callers, Mark(c)
  PROVE  IInv'
<1>1. /\ pc[c] # "idle" /\ pc[c] = "mark" /\ Return(c)
      /\ UNCHANGED <<age, orders, energy, used, recon>>
  BY DEF Mark, world
<1>2. faults' \in Nat /\ TypeOK
  BY FaultType DEF Mark, IInv
<1>3. CASE UNCHANGED <<row, priced>>
  BY <1>1, <1>2, <1>3, LeaveKeeps
<1>4. CASE Book(call[c].req, call[c].cost)
  <2> DEFINE r == call[c].req
             o == call[c].order
             x == call[c].cost
  <2>1. r \in Requests /\ row[r].status # "none"
    BY <1>1, ActiveRow
  <2>2. o \in Keys /\ x \in Prices
    BY <1>2 DEF TypeOK, Calls
  <2>3. ASSUME ~Exempt(r)
        PROVE  Served(r) /\ (x # 0 => DeliveredAt(r, x))
    <3>1. call[c].prov # "trx_burn"
      BY <1>1, <2>1, <2>3 DEF IInv, OnceInv, Active, Exempt
    <3>2. o # 0 /\ orders[o].state \in Delivered /\ x \in {0, orders[o].cost}
      BY <1>1, <3>1 DEF IInv, MarkInv, Named
    <3>3. o \in Orders /\ OrderFor(o, r)
      BY <2>2, <3>2 DEF IInv, KeyInv, Keys
    <3> QED
      BY <3>2, <3>3 DEF DeliveredAt, Served
  <2>4. Exempt(r) \/ Served(r)
    BY <2>3
  <2>5. x # 0 => Exempt(r) \/ DeliveredAt(r, x)
    BY <2>3
  <2>6. GoodWrite(r, "delegated", row[r].key, IF x > 0 THEN x ELSE row[r].cost)
    BY <1>4, <2>1, <2>2, <2>4, <2>5, BookIsGood
  <2> QED
    BY <1>1, <1>2, <2>6, ReturnKeeps
<1> QED
  BY <1>3, <1>4 DEF Mark

-----------------------------------------------------------------------------
(* The other steps of a call.                                              *)

LEMMA StoreOrderKeeps ==
  ASSUME IInv, NEW c \in Callers, StoreOrder(c)
  PROVE  IInv'
<1> DEFINE r == call[c].req
<1>1. /\ pc[c] = "store" /\ pc' = [pc EXCEPT ![c] = "wait"]
      /\ UNCHANGED <<age, orders, energy, used, recon, call, rise, priced>>
  BY DEF StoreOrder, Goto, world
<1>2. faults' \in Nat /\ TypeOK
  BY FaultType DEF StoreOrder, IInv
<1>3. r \in Requests /\ row[r].status # "none"
  BY <1>1, ActiveRow
<1>4. \E s, k, x : GoodWrite(r, s, k, x)
  <2>1. CASE row' = row
    BY <1>1, <1>3, <2>1, SameWrite
  <2>2. CASE row' = [row EXCEPT ![r].key = call[c].order]
    <3>1. call[c].order \in Keys
      BY <1>2 DEF TypeOK, Calls
    <3>2. RowWrote(r, row[r].status, call[c].order, row[r].cost)
      BY <1>2, <1>3, <2>2, <3>1, KeyWrite
    <3>3. call[c].order # 0 => OrderFor(call[c].order, r)
      BY DEF IInv, KeyInv
    <3>4. row[r].status \in Statuses
      BY <1>2, <1>3, RowFields
    <3>5. GoodWrite(r, row[r].status, call[c].order, row[r].cost)
      BY <1>1, <1>3, <3>2, <3>3, <3>4 DEF GoodWrite, Statuses
    <3> QED
      BY <3>5
  <2> QED
    BY <2>1, <2>2 DEF StoreOrder
<1>5. PICK s, k, x : GoodWrite(r, s, k, x)
  BY <1>4
<1>6. RowsKept /\ PaidIsTracked' /\ CostIsCharged'
  BY <1>1, <1>5, GoodWriteKeeps
<1>7. \A q \in Requests : row'[q].status = row[q].status
  BY <1>2, RowFields DEF StoreOrder, Rows, TypeOK
<1>8. /\ pc' \in [Callers -> Steps] /\ pc'[c] = "wait"
      /\ \A d \in Callers : d # c => pc'[d] = pc[d]
  BY <1>1, <1>2 DEF TypeOK, Steps
<1>9. TypeOK'
  BY <1>1, <1>2, <1>6, <1>8 DEF TypeOK, RowsKept
<1>10. UsedInv'
  BY <1>1, <1>6, <1>8 DEF IInv, UsedInv, RowsKept
<1>11. OnceInv'
  BY <1>1, <1>6, <1>8 DEF IInv, OnceInv, Active, OrderFor, Once, RowsKept
<1>12. KeyInv'
  BY <1>1, <1>6 DEF IInv, KeyInv, OrderFor, RowsKept
<1>13. OrderInv'
  <2>1. \A d \in Callers : pc'[d] = "order" =>
           row'[call[d].req].status = row[call[d].req].status
    BY <1>7, <1>8 DEF IInv, UsedInv
  <2> QED
    BY <1>1, <1>8, <2>1 DEF IInv, OrderInv, OrderFor, Once
<1>14. FailInv' /\ MarkInv' /\ RiseInv' /\ ServedIsDelivered'
  BY <1>1, <1>8 DEF IInv, FailInv, MarkInv, Named, RiseInv, ServedIsDelivered, OrderFor, Once
<1> QED
  BY <1>6, <1>9, <1>10, <1>11, <1>12, <1>13, <1>14 DEF IInv

\* The orders a platform is asked about are orders of the id.
LEMMA PolledFacts ==
  ASSUME IInv, NEW p, NEW r \in Requests, NEW k \in Keys, k # 0 => OrderFor(k, r),
         NEW o \in Polled(p, r, k)
  PROVE  o \in Orders /\ o # 0 /\ OrderFor(o, r)
<1>1. CASE o \in OrdersOf("gasstation", r)
  <2>1. o \in Orders /\ orders[o].req = r
    BY <1>1 DEF OrdersOf
  <2>2. orders[o].state # "none"
    BY <2>1, RequestAssumption DEF IInv, UsedInv
  <2>3. o # 0
    BY <2>1, BoundAssumption DEF Orders
  <2> QED
    BY <2>1, <2>2, <2>3 DEF OrderFor
<1>2. CASE o = k /\ o # 0
  BY <1>2 DEF Keys
<1> QED
  BY <1>1, <1>2 DEF Polled

\* The caller learns of an order, and of a price.
CallGot(c, o, x) ==
    /\ call' \in [Callers -> Calls]
    /\ call'[c].order = o /\ call'[c].cost = x
    /\ call'[c].req = call[c].req /\ call'[c].prov = call[c].prov
    /\ call'[c].baseline = call[c].baseline /\ call'[c].blind = call[c].blind
    /\ \A d \in Callers : d # c => call'[d] = call[d]

LEMMA CallOrderCost ==
  ASSUME TypeOK, NEW c \in Callers, NEW o \in Keys, NEW x \in Prices,
         call' = [call EXCEPT ![c].order = o, ![c].cost = x]
  PROVE  CallGot(c, o, x)
<1> DEFINE w == [[call[c] EXCEPT !.order = o] EXCEPT !.cost = x]
<1>1. call \in [Callers -> Calls] /\ call[c] \in Calls
  BY DEF TypeOK
<1>2. /\ w \in Calls /\ w.order = o /\ w.cost = x
      /\ w.req = call[c].req /\ w.prov = call[c].prov
      /\ w.baseline = call[c].baseline /\ w.blind = call[c].blind
  BY <1>1 DEF Calls
<1>3. call' = [call EXCEPT ![c] = w]
  BY <1>1 DEF Calls
<1> HIDE DEF w
<1> QED
  BY <1>1, <1>2, <1>3 DEF CallGot

LEMMA CallOrder ==
  ASSUME TypeOK, NEW c \in Callers, NEW o \in Keys, call' = [call EXCEPT ![c].order = o]
  PROVE  call[c].cost \in Prices /\ CallGot(c, o, call[c].cost)
<1> DEFINE w == [call[c] EXCEPT !.order = o]
<1>1. call \in [Callers -> Calls] /\ call[c] \in Calls
  BY DEF TypeOK
<1>2. /\ w \in Calls /\ w.order = o /\ w.cost = call[c].cost
      /\ w.req = call[c].req /\ w.prov = call[c].prov
      /\ w.baseline = call[c].baseline /\ w.blind = call[c].blind
  BY <1>1 DEF Calls
<1>3. call' = [call EXCEPT ![c] = w]
  OBVIOUS
<1>4. call[c].cost \in Prices
  BY <1>1 DEF Calls
<1> HIDE DEF w
<1> QED
  BY <1>1, <1>2, <1>3, <1>4 DEF CallGot

\* The part of a call that does not change once it has begun.
SameCalls ==
    \A d \in Callers :
        /\ call'[d].req = call[d].req /\ call'[d].prov = call[d].prov
        /\ call'[d].baseline = call[d].baseline /\ call'[d].blind = call[d].blind

\* A caller goes on, knowing the order o of its id, and nothing else changes.
LEMMA GoOnKeeps ==
  ASSUME IInv, NEW c \in Callers, pc[c] \in {"order", "wait"},
         NEW s \in {"store", "fail", "mark"}, pc' = [pc EXCEPT ![c] = s],
         UNCHANGED <<row, age, orders, energy, used, recon, rise, priced>>, faults' \in Nat,
         NEW o \in Keys, NEW x \in Prices, CallGot(c, o, x),
         o # 0 => OrderFor(o, call[c].req),
         s = "fail" /\ Once(call[c].req) => NoLiveOrder(call[c].req),
         s = "mark" => o # 0 /\ orders[o].state \in Delivered /\ x \in Named(o),
         s = "mark" /\ ~call[c].blind => rise[c] >= Enough
  PROVE  IInv'
<1>1. TypeOK
  BY DEF IInv
<1>2. /\ call' \in [Callers -> Calls]
      /\ call'[c].order = o /\ call'[c].cost = x
      /\ call'[c].req = call[c].req /\ call'[c].prov = call[c].prov
      /\ call'[c].baseline = call[c].baseline /\ call'[c].blind = call[c].blind
      /\ \A d \in Callers : d # c => call'[d] = call[d]
  BY DEF CallGot
<1>3. SameCalls
  BY <1>2 DEF SameCalls
<1>4. /\ pc' \in [Callers -> Steps] /\ pc'[c] = s
      /\ \A d \in Callers : d # c => pc'[d] = pc[d]
  BY <1>1 DEF TypeOK, Steps
<1>5. \A d \in Callers : pc'[d] = "idle" <=> pc[d] = "idle"
  BY <1>4
<1>6. TypeOK'
  BY <1>1, <1>2, <1>4 DEF TypeOK
<1>7. UsedInv'
  BY <1>3, <1>5 DEF IInv, UsedInv, SameCalls
<1>8. OnceInv'
  BY <1>3, <1>5 DEF IInv, OnceInv, Active, OrderFor, Once, SameCalls
<1>9. KeyInv'
  BY <1>2 DEF IInv, KeyInv, OrderFor
<1>10. OrderInv'
  BY <1>2, <1>4 DEF IInv, OrderInv, OrderFor, Once
<1>11. FailInv'
  BY <1>2, <1>4 DEF IInv, FailInv, OrderFor, Once, NoLiveOrder
<1>12. MarkInv'
  BY <1>2, <1>4 DEF IInv, MarkInv, Named
<1>13. RiseInv' /\ ServedIsDelivered'
  BY <1>2, <1>3, <1>4, <1>5 DEF IInv, RiseInv, ServedIsDelivered, SameCalls
<1>14. PaidIsTracked' /\ CostIsCharged'
  BY DEF IInv, PaidIsTracked, CostIsCharged, Once
<1> QED
  BY <1>6, <1>7, <1>8, <1>9, <1>10, <1>11, <1>12, <1>13, <1>14 DEF IInv

\* An assignment of the order that the caller has already.
LEMMA SameOrder ==
  ASSUME TypeOK, NEW c \in Callers, call' = call
  PROVE  /\ call[c].order \in Keys /\ call[c].cost \in Prices
         /\ CallGot(c, call[c].order, call[c].cost)
<1>1. call \in [Callers -> Calls] /\ call[c] \in Calls
  BY DEF TypeOK
<1>2. call[c].order \in Keys /\ call[c].cost \in Prices
  BY <1>1 DEF Calls
<1> QED
  BY <1>1, <1>2 DEF CallGot

LEMMA WaitPollKeeps ==
  ASSUME IInv, NEW c \in Callers, WaitPoll(c)
  PROVE  IInv'
<1>1. /\ pc[c] = "wait" /\ pc[c] \in {"order", "wait"}
      /\ UNCHANGED <<row, age, orders, energy, used, recon, rise, priced>>
  BY DEF WaitPoll, table, world
<1>2. TypeOK /\ faults' \in Nat
  BY DEF WaitPoll, IInv, TypeOK
<1>3. call[c].req \in Requests /\ call[c].order \in Keys
  BY <1>1, <1>2, ActiveRow DEF TypeOK, Calls
<1>4. call[c].order # 0 => OrderFor(call[c].order, call[c].req)
  BY DEF IInv, KeyInv
<1>5. PICK o \in Polled(call[c].prov, call[c].req, call[c].order) :
         \/ /\ orders[o].state \in Delivered
            /\ ConfirmOnChain(c)
            /\ pc' = [pc EXCEPT ![c] = "mark"]
            /\ \E cost \in Named(o) :
                  call' = [call EXCEPT ![c].order = o, ![c].cost = cost]
         \/ /\ orders[o].state = "failed"
            /\ pc' = [pc EXCEPT ![c] = "fail"]
            /\ UNCHANGED call
  BY DEF WaitPoll
<1>6. o \in Orders /\ o # 0 /\ OrderFor(o, call[c].req) /\ o \in Keys
  BY <1>3, <1>4, <1>5, PolledFacts DEF Keys
<1>7. CASE /\ orders[o].state \in Delivered
           /\ ConfirmOnChain(c)
           /\ pc' = [pc EXCEPT ![c] = "mark"]
           /\ \E cost \in Named(o) :
                 call' = [call EXCEPT ![c].order = o, ![c].cost = cost]
  <2>1. ~call[c].blind => rise[c] >= Enough
    <3>1. /\ energy \in Nat /\ rise[c] \in Nat /\ call[c].baseline \in Nat
          /\ energy - call[c].baseline >= Enough
      BY <1>2, <1>7 DEF TypeOK, Calls, ConfirmOnChain
    <3>2. ~call[c].blind => rise[c] >= Enough \/ energy - call[c].baseline <= rise[c]
      BY <1>1 DEF IInv, RiseInv
    <3> QED
      BY <3>1, <3>2, Amounts
  <2>2. PICK x \in Named(o) : call' = [call EXCEPT ![c].order = o, ![c].cost = x]
    BY <1>7
  <2>3. x \in Prices
    BY <1>2, <1>6, PriceFacts DEF Named, TypeOK, Placed
  <2>4. CallGot(c, o, x)
    BY <1>2, <1>6, <2>2, <2>3, CallOrderCost
  <2> QED
    BY <1>1, <1>2, <1>6, <1>7, <2>1, <2>3, <2>4, GoOnKeeps
<1>8. CASE /\ orders[o].state = "failed"
           /\ pc' = [pc EXCEPT ![c] = "fail"]
           /\ UNCHANGED call
  <2>1. Once(call[c].req) => NoLiveOrder(call[c].req)
    BY <1>3, <1>6, <1>8 DEF IInv, OnceInv, NoLiveOrder
  <2>2. call[c].cost \in Prices /\ CallGot(c, call[c].order, call[c].cost)
    BY <1>2, <1>8, SameOrder
  <2> QED
    BY <1>1, <1>2, <1>3, <1>4, <1>8, <2>1, <2>2, GoOnKeeps
<1> QED
  BY <1>5, <1>7, <1>8

\* OrderFor after the step.
NowFor(o, r) == orders'[o].state # "none" /\ orders'[o].req = r

\* A platform takes an order.
LEMMA PlaceKeeps ==
  ASSUME IInv, NEW c \in Callers, pc[c] = "order", NEW lost \in BOOLEAN, Place(c, lost),
         pc' = [pc EXCEPT ![c] = IF lost THEN "fail" ELSE "store"],
         UNCHANGED <<row, age, energy, used, recon, rise, priced>>, faults' \in Nat
  PROVE  IInv'
<1> DEFINE r == call[c].req
<1>1. TypeOK
  BY DEF IInv
<1>2. r \in Requests /\ row[r].status # "none" /\ call[c].prov \in Platforms
  BY <1>1, ActiveRow DEF TypeOK, Calls
<1>3. PICK o \in Orders, cost \in Costs :
        /\ orders[o].state = "none"
        /\ orders' = [orders EXCEPT ![o] =
               [state |-> "pending", prov |-> call[c].prov, req |-> call[c].req,
                cost |-> cost, lost |-> lost]]
        /\ call' = [call EXCEPT ![c].order = IF lost THEN 0 ELSE o]
  BY DEF Place
<1> DEFINE new == [state |-> "pending", prov |-> call[c].prov, req |-> call[c].req,
                   cost |-> cost, lost |-> lost]
           k == IF lost THEN 0 ELSE o
           s == IF lost THEN "fail" ELSE "store"
<1>4. new \in Placed /\ new.state = "pending" /\ new.req = r /\ new.lost = lost
  BY <1>2 DEF Placed, States, Ids, Prices
<1> HIDE DEF new
<1>5. /\ orders' \in [Orders -> Placed]
      /\ orders'[o] = new
      /\ \A p \in Orders : p # o => orders'[p] = orders[p]
  BY <1>1, <1>3, <1>4 DEF TypeOK, new
<1>6. k \in Keys /\ s \in Steps /\ s \in {"fail", "store"}
  BY DEF Keys, Steps
<1>7. /\ call' \in [Callers -> Calls]
      /\ call'[c].order = k
      /\ call'[c].req = call[c].req /\ call'[c].prov = call[c].prov
      /\ call'[c].baseline = call[c].baseline /\ call'[c].blind = call[c].blind
      /\ \A d \in Callers : d # c => call'[d] = call[d]
  BY <1>1, <1>3, <1>6, CallOrder DEF CallGot
<1>8. SameCalls
  BY <1>7 DEF SameCalls
<1>9. /\ pc' \in [Callers -> Steps] /\ pc'[c] = s
      /\ \A d \in Callers : d # c => pc'[d] = pc[d]
  BY <1>1, <1>6 DEF TypeOK
<1>10. \A d \in Callers : pc'[d] = "idle" <=> pc[d] = "idle"
  BY <1>6, <1>9
<1>11. Once(r) => row[r].status \in {"created", "abandoned"} /\ \A p \in Orders : ~OrderFor(p, r)
  BY DEF IInv, OrderInv
<1>12. \A d \in Callers : d # c /\ Once(r) => ~Active(d, r)
  BY <1>2 DEF IInv, OnceInv, Active
<1>13. \A p \in Orders, q \in Requests :
         NowFor(p, q) <=> OrderFor(p, q) \/ (p = o /\ q = r)
  <2>1. \A q \in Requests : ~OrderFor(o, q)
    BY <1>3 DEF OrderFor
  <2> QED
    BY <1>4, <1>5, <2>1 DEF OrderFor, NowFor
<1>14. TypeOK'
  BY <1>1, <1>5, <1>7, <1>9 DEF TypeOK
<1>15. UsedInv'
  BY <1>2, <1>4, <1>5, <1>8, <1>10 DEF IInv, UsedInv, SameCalls
<1>16. OnceInv'
  <2> SUFFICES ASSUME NEW q \in Requests, Once(q)
               PROVE  /\ \A d, e \in Callers : Active(d, q)' /\ Active(e, q)' => d = e
                      /\ \A p1, p2 \in Orders : NowFor(p1, q) /\ NowFor(p2, q) => p1 = p2
                      /\ \A d \in Callers : Active(d, q)' => row[q].prov = call'[d].prov
    BY DEF OnceInv, Once, OrderFor, NowFor
  <2>1. \A d \in Callers : Active(d, q)' <=> Active(d, q)
    BY <1>8, <1>10 DEF Active, SameCalls
  <2>2. \A p1, p2 \in Orders : NowFor(p1, q) /\ NowFor(p2, q) => p1 = p2
    BY <1>11, <1>13 DEF IInv, OnceInv
  <2> QED
    BY <1>8, <2>1, <2>2 DEF IInv, OnceInv, SameCalls
<1>17. KeyInv'
  <2>1. \A p \in Orders, q \in Requests : OrderFor(p, q) => NowFor(p, q)
    BY <1>13
  <2>2. ASSUME NEW q \in Requests, row[q].key # 0
        PROVE  NowFor(row[q].key, q)
    <3>1. row[q].key \in Orders
      BY <1>1, <2>2, RowFields DEF Keys
    <3> QED
      BY <2>1, <2>2, <3>1 DEF IInv, KeyInv
  <2>3. ASSUME NEW j \in Reconcilers, recon[j].key # 0
        PROVE  NowFor(recon[j].key, recon[j].req)
    <3>1. recon[j].key \in Orders /\ recon[j].req \in Requests
      BY <1>1, <2>3, NullValues DEF TypeOK, Recons, Keys, IInv, UsedInv
    <3> QED
      BY <2>1, <2>3, <3>1 DEF IInv, KeyInv
  <2>4. ASSUME NEW d \in Callers, call'[d].order # 0
        PROVE  NowFor(call'[d].order, call'[d].req)
    <3>1. CASE d = c
      BY <1>2, <1>7, <1>13, <2>4, <3>1
    <3>2. CASE d # c
      <4>1. call'[d] = call[d] /\ call[d].order \in Orders
        BY <1>1, <1>7, <2>4, <3>2 DEF TypeOK, Calls, Keys
      <4>2. OrderFor(call[d].order, call[d].req)
        BY <2>4, <4>1 DEF IInv, KeyInv
      <4>3. call[d].req \in Requests
        BY <4>1, <4>2 DEF OrderFor, IInv, UsedInv
      <4> QED
        BY <2>1, <4>1, <4>2, <4>3
    <3> QED
      BY <3>1, <3>2
  <2> QED
    BY <2>2, <2>3, <2>4 DEF KeyInv, OrderFor, NowFor
<1>18. OrderInv'
  <2> SUFFICES ASSUME NEW d \in Callers, pc'[d] = "order", Once(call'[d].req)
               PROVE  /\ row[call'[d].req].status \in {"created", "abandoned"}
                      /\ \A p \in Orders : ~NowFor(p, call'[d].req)
    BY DEF OrderInv, Once, OrderFor, NowFor
  <2>1. d # c /\ pc[d] = "order" /\ call'[d] = call[d] /\ call[d].req \in Requests
    BY <1>6, <1>7, <1>9 DEF IInv, UsedInv
  <2>2. call[d].req # r
    BY <1>12, <2>1 DEF Active
  <2> QED
    BY <1>13, <2>1, <2>2 DEF IInv, OrderInv
<1>19. FailInv'
  <2> SUFFICES ASSUME NEW d \in Callers, pc'[d] = "fail", Once(call'[d].req),
                      NEW p \in Orders, NowFor(p, call'[d].req)
               PROVE  orders'[p].lost \/ orders'[p].state = "failed"
    BY DEF FailInv, Once, OrderFor, NowFor
  <2>1. CASE d = c
    <3>1. lost /\ call'[d].req = r
      BY <1>7, <1>9, <2>1
    <3>2. p = o
      BY <1>2, <1>11, <1>13, <2>1, <3>1
    <3> QED
      BY <1>4, <1>5, <3>1, <3>2
  <2>2. CASE d # c
    <3>1. pc[d] = "fail" /\ call'[d] = call[d] /\ call[d].req \in Requests
      BY <1>7, <1>9, <2>2 DEF IInv, UsedInv
    <3>2. call[d].req # r
      BY <1>12, <2>2, <3>1 DEF Active
    <3>3. OrderFor(p, call[d].req) /\ p # o
      BY <1>3, <1>13, <3>1, <3>2 DEF OrderFor
    <3> QED
      BY <1>5, <3>1, <3>3 DEF IInv, FailInv
  <2> QED
    BY <2>1, <2>2
<1>20. MarkInv'
  <2> SUFFICES ASSUME NEW d \in Callers
               PROVE  /\ pc'[d] \in {"order", "store", "fail", "wait"} =>
                           call'[d].prov # "trx_burn"
                      /\ pc'[d] = "mark" /\ call'[d].prov # "trx_burn" =>
                           /\ call'[d].order # 0
                           /\ orders'[call'[d].order].state \in Delivered
                           /\ call'[d].cost \in {0, orders'[call'[d].order].cost}
    BY DEF MarkInv, Named
  <2>1. CASE d = c
    BY <1>6, <1>7, <1>9, <2>1 DEF IInv, MarkInv
  <2>2. CASE d # c
    <3>1. call'[d] = call[d] /\ pc'[d] = pc[d]
      BY <1>7, <1>9, <2>2
    <3>2. ASSUME pc[d] = "mark", call[d].prov # "trx_burn"
          PROVE  /\ call[d].order # 0 /\ orders'[call[d].order].state \in Delivered
                 /\ call[d].cost \in {0, orders'[call[d].order].cost}
      <4>1. /\ call[d].order # 0 /\ orders[call[d].order].state \in Delivered
            /\ call[d].cost \in {0, orders[call[d].order].cost}
        BY <3>2 DEF IInv, MarkInv, Named
      <4>2. call[d].order \in Orders /\ call[d].order # o
        BY <1>1, <1>3, <4>1 DEF TypeOK, Calls, Keys, Delivered
      <4> QED
        BY <1>5, <4>1, <4>2
    <3> QED
      BY <3>1, <3>2 DEF IInv, MarkInv
  <2> QED
    BY <2>1, <2>2
<1>21. RiseInv' /\ ServedIsDelivered'
  BY <1>6, <1>8, <1>9, <1>10 DEF IInv, RiseInv, ServedIsDelivered, SameCalls
<1>22. PaidIsTracked'
  BY <1>4, <1>5, <1>11 DEF IInv, PaidIsTracked, Once
<1>23. CostIsCharged'
  <2>1. \A p \in Orders : orders[p].state \in Delivered => orders'[p] = orders[p]
    BY <1>3, <1>5 DEF Delivered
  <2> QED
    BY <2>1 DEF IInv, CostIsCharged, Once
<1> QED
  BY <1>14, <1>15, <1>16, <1>17, <1>18, <1>19, <1>20, <1>21, <1>22, <1>23 DEF IInv

LEMMA EnsureKeeps ==
  ASSUME IInv, NEW c \in Callers, Ensure(c)
  PROVE  IInv'
<1>1. /\ pc[c] = "order" /\ pc[c] \in {"order", "wait"}
      /\ UNCHANGED <<row, age, energy, used, recon, rise, priced>>
  BY DEF Ensure, table
<1>2. TypeOK /\ faults' \in Nat
  BY FaultType DEF Ensure, IInv
<1>3. CASE Place(c, FALSE) /\ pc' = [pc EXCEPT ![c] = "store"]
  BY <1>1, <1>2, <1>3, PlaceKeeps
<1>4. CASE Place(c, TRUE) /\ pc' = [pc EXCEPT ![c] = "fail"]
  BY <1>1, <1>2, <1>4, PlaceKeeps
<1>5. CASE pc' = [pc EXCEPT ![c] = "fail"] /\ UNCHANGED <<orders, call, faults>>
  <2>1. /\ call[c].order \in Keys /\ call[c].cost \in Prices
        /\ CallGot(c, call[c].order, call[c].cost)
    BY <1>2, <1>5, SameOrder
  <2>2. call[c].order # 0 => OrderFor(call[c].order, call[c].req)
    BY DEF IInv, KeyInv
  <2>3. Once(call[c].req) => NoLiveOrder(call[c].req)
    BY <1>1 DEF IInv, OrderInv, NoLiveOrder
  <2> QED
    BY <1>1, <1>2, <1>5, <2>1, <2>2, <2>3, GoOnKeeps
<1>6. CASE /\ call[c].prov = "gasstation"
           /\ \E o \in OrdersOf("gasstation", call[c].req) :
                call' = [call EXCEPT ![c].order = o]
           /\ pc' = [pc EXCEPT ![c] = "store"]
           /\ UNCHANGED <<orders, faults>>
  <2>1. PICK o \in OrdersOf("gasstation", call[c].req) : call' = [call EXCEPT ![c].order = o]
    BY <1>6
  <2>2. o \in Polled("gasstation", call[c].req, 0) /\ call[c].req \in Requests /\ 0 \in Keys
    BY <1>1, <2>1, ActiveRow DEF Polled, Keys
  <2>3. o \in Keys /\ OrderFor(o, call[c].req)
    BY <2>2, PolledFacts DEF Keys
  <2>4. call[c].cost \in Prices /\ CallGot(c, o, call[c].cost)
    BY <1>2, <2>1, <2>3, CallOrder
  <2> QED
    BY <1>1, <1>2, <1>6, <2>3, <2>4, GoOnKeeps
<1> QED
  BY <1>3, <1>4, <1>5, <1>6 DEF Ensure

-----------------------------------------------------------------------------
(* The beginning of a call.                                                *)

LEMMA UseFacts ==
  ASSUME IInv, NEW c \in Callers, NEW r \in Requests, Use(c, r)
  PROVE  /\ pc[c] = "idle" /\ used' \in [Requests -> Nat] /\ used'[r] > 0
         /\ \A q \in Requests : used'[q] >= used[q] /\ (used[q] > 0 => used'[q] > 0)
         /\ \A q \in Requests : used'[q] <= 1 => Once(q)
         /\ \A q \in Requests : q # r => used'[q] = used[q]
         /\ used'[r] <= 1 => /\ row[r].status = "none"
                             /\ \A o \in Orders : ~OrderFor(o, r)
                             /\ \A d \in Callers : ~Active(d, r)
<1>1. used \in [Requests -> Nat] /\ pc[c] = "idle" /\ used' = [used EXCEPT ![r] = used[r] + 1]
  BY DEF IInv, TypeOK, Use
<1>2. /\ used' \in [Requests -> Nat] /\ used'[r] = used[r] + 1 /\ used[r] \in Nat
      /\ \A q \in Requests : q # r => used'[q] = used[q]
      /\ \A q \in Requests : used[q] \in Nat
  BY <1>1
<1>3. used'[r] <= 1 => row[r].status = "none"
  BY <1>2 DEF IInv, UsedInv
<1>4. row[r].status = "none" => \A o \in Orders : ~OrderFor(o, r)
  BY DEF IInv, UsedInv, OrderFor
<1>5. row[r].status = "none" => \A d \in Callers : ~Active(d, r)
  BY DEF IInv, UsedInv, Active
<1> QED
  BY <1>1, <1>2, <1>3, <1>4, <1>5 DEF Once

\* A call that ends before its row is written.
LEMMA NoEntryKeeps ==
  ASSUME IInv, NEW c \in Callers, NEW r \in Requests, Use(c, r),
         UNCHANGED <<row, age, orders, energy, pc, call, recon, rise, priced>>, faults' \in Nat
  PROVE  IInv'
<1>1. /\ used' \in [Requests -> Nat]
      /\ \A q \in Requests : used[q] > 0 => used'[q] > 0
      /\ \A q \in Requests : used'[q] <= 1 => Once(q)
  BY UseFacts
<1>2. TypeOK' /\ UsedInv'
  BY <1>1 DEF IInv, TypeOK, UsedInv
<1>3. OnceInv'
  BY <1>1 DEF IInv, OnceInv, Active, OrderFor, Once
<1>4. KeyInv' /\ MarkInv' /\ RiseInv' /\ ServedIsDelivered'
  BY DEF IInv, KeyInv, MarkInv, Named, RiseInv, ServedIsDelivered, OrderFor
<1>5. OrderInv' /\ FailInv'
  <2>1. \A d \in Callers : pc[d] # "idle" /\ used'[call[d].req] <= 1 => Once(call[d].req)
    BY <1>1 DEF IInv, UsedInv
  <2> QED
    BY <2>1 DEF IInv, OrderInv, FailInv, OrderFor, Once
<1>6. PaidIsTracked' /\ CostIsCharged'
  <2>1. \A o \in Orders : orders[o].state # "none" /\ used'[orders[o].req] <= 1 =>
           Once(orders[o].req)
    BY <1>1 DEF IInv, UsedInv
  <2> QED
    BY <1>1, <2>1 DEF IInv, PaidIsTracked, CostIsCharged, Once, Delivered
<1> QED
  BY <1>2, <1>3, <1>4, <1>5, <1>6 DEF IInv

LEMMA EnterKeeps ==
  ASSUME IInv, NEW c \in Callers, NEW r \in Requests, Use(c, r),
         NEW p \in Names, NEW quote \in Prices, NEW cost \in Prices,
         Enter(c, r, p, quote, cost),
         UNCHANGED <<age, orders, energy, recon, rise, priced>>
  PROVE  IInv'
<1>1. TypeOK
  BY DEF IInv
<1>2. /\ pc[c] = "idle" /\ used' \in [Requests -> Nat] /\ used'[r] > 0
      /\ \A q \in Requests : used'[q] >= used[q] /\ (used[q] > 0 => used'[q] > 0)
      /\ \A q \in Requests : used'[q] <= 1 => Once(q)
      /\ \A q \in Requests : q # r => used'[q] = used[q]
      /\ used'[r] <= 1 => /\ row[r].status = "none"
                          /\ \A o \in Orders : ~OrderFor(o, r)
                          /\ \A d \in Callers : ~Active(d, r)
  BY UseFacts
<1>3. PICK b \in Baseline :
        /\ IF b.blind THEN Fault ELSE UNCHANGED faults
        /\ call' = [call EXCEPT ![c] = [req |-> r, prov |-> p, order |-> 0,
                                        cost |-> cost, baseline |-> b.units,
                                        blind |-> b.blind]]
        /\ pc' = [pc EXCEPT ![c] = FirstStep(p)]
        /\ CreateRow(r, p, quote)
  BY DEF Enter
<1>4. b.units \in Nat /\ b.blind \in BOOLEAN /\ (~b.blind => b.units = energy)
  <2>1. energy \in Nat
    BY <1>1 DEF TypeOK
  <2>2. CASE b = [units |-> energy, blind |-> FALSE]
    <3>1. b.units = energy /\ b.blind = FALSE
      BY <2>2
    <3> QED
      BY <2>1, <3>1
  <2>3. CASE b = [units |-> 0, blind |-> TRUE]
    <3>1. b.units \in Nat
      BY <2>3
    <3>2. b.blind = TRUE
      BY <2>3
    <3> QED
      BY <3>1, <3>2, Zenon
  <2> QED
    BY <2>2, <2>3 DEF Baseline
<1>5. faults' \in Nat
  BY <1>1, <1>3, FaultType
<1> DEFINE new == [req |-> r, prov |-> p, order |-> 0, cost |-> cost,
                   baseline |-> b.units, blind |-> b.blind]
<1>6. /\ new \in Calls /\ new.req = r /\ new.prov = p /\ new.order = 0
      /\ new.baseline = b.units /\ new.blind = b.blind
  BY <1>4 DEF Calls, Ids, Platforms, Keys
<1> HIDE DEF new
<1>7. /\ call' \in [Callers -> Calls] /\ call'[c] = new
      /\ \A d \in Callers : d # c => call'[d] = call[d]
  BY <1>1, <1>3, <1>6 DEF TypeOK, new
<1>8. /\ pc' \in [Callers -> Steps] /\ pc'[c] = FirstStep(p)
      /\ \A d \in Callers : d # c => pc'[d] = pc[d]
  BY <1>1, <1>3 DEF TypeOK, Steps, FirstStep
<1>9. /\ pc'[c] \in {"mark", "order"}
      /\ pc'[c] = "mark" <=> p = "trx_burn"
  BY <1>8 DEF FirstStep
<1>10. /\ row' \in [Requests -> Rows]
       /\ \A q \in Requests : q # r => row'[q] = row[q]
       /\ row[r].status # "none" => row' = row
       /\ row[r].status = "none" =>
            row'[r].status = "created" /\ row'[r].prov = p /\ row'[r].key = 0
  <2> DEFINE w == [status |-> "created", prov |-> p, key |-> 0, cost |-> quote]
  <2>1. w \in Rows /\ w.status = "created" /\ w.prov = p /\ w.key = 0
    BY DEF Rows, Statuses, Platforms, Keys
  <2>2. row' = IF row[r].status # "none" THEN row ELSE [row EXCEPT ![r] = w]
    BY <1>3 DEF CreateRow
  <2>3. row \in [Requests -> Rows]
    BY <1>1 DEF TypeOK
  <2> HIDE DEF w
  <2> QED
    BY <2>1, <2>2, <2>3
<1>11. \A q \in Requests : row[q].status # "none" => row'[q] = row[q]
  BY <1>10
<1>12. row'[r].status # "none"
  BY <1>10
<1>13. TypeOK'
  BY <1>1, <1>2, <1>5, <1>7, <1>8, <1>10 DEF TypeOK
<1>14. UsedInv'
  <2>1. \A d \in Callers : pc'[d] # "idle" =>
           call'[d].req \in Requests /\ row'[call'[d].req].status # "none"
    BY <1>6, <1>7, <1>8, <1>11, <1>12 DEF IInv, UsedInv
  <2>2. \A k \in Reconcilers : recon[k] # NoRecon =>
           recon[k].req \in Requests /\ row'[recon[k].req].status # "none"
    BY <1>11 DEF IInv, UsedInv
  <2>3. \A o \in Orders :
           IF orders[o].state = "none" THEN orders[o].req = "none"
           ELSE orders[o].req \in Requests /\ row'[orders[o].req].status # "none"
    BY <1>11 DEF IInv, UsedInv
  <2>4. \A q \in Requests : row'[q].status # "none" => used'[q] > 0
    BY <1>2, <1>10 DEF IInv, UsedInv
  <2>5. \A q \in priced : row'[q].status # "none"
    BY <1>1, <1>11 DEF IInv, UsedInv, TypeOK
  <2> QED
    BY <2>1, <2>2, <2>3, <2>4, <2>5 DEF UsedInv
<1>15. OnceInv'
  <2> SUFFICES ASSUME NEW q \in Requests, used'[q] <= 1
               PROVE  /\ \A d, e \in Callers : Active(d, q)' /\ Active(e, q)' => d = e
                      /\ \A o1, o2 \in Orders : OrderFor(o1, q) /\ OrderFor(o2, q) => o1 = o2
                      /\ \A d \in Callers : Active(d, q)' => row'[q].prov = call'[d].prov
    BY DEF OnceInv, Once, OrderFor
  <2>1. CASE q = r
    <3>1. \A d \in Callers : Active(d, r)' => d = c
      BY <1>2, <1>7, <1>8, <2>1 DEF Active
    <3> QED
      BY <1>2, <1>6, <1>7, <1>10, <2>1, <3>1
  <2>2. CASE q # r
    <3>1. \A d \in Callers : Active(d, q)' => d # c /\ Active(d, q) /\ call'[d] = call[d]
      BY <1>6, <1>7, <1>8, <2>2 DEF Active
    <3>2. Once(q) /\ row'[q] = row[q]
      BY <1>2, <1>10, <2>2
    <3> QED
      BY <3>1, <3>2 DEF IInv, OnceInv
  <2> QED
    BY <2>1, <2>2
<1>16. KeyInv'
  BY <1>6, <1>7, <1>10 DEF IInv, KeyInv, OrderFor
<1>17. \A d \in Callers : d # c /\ pc[d] # "idle" /\ used'[call[d].req] <= 1 =>
         /\ Once(call[d].req) /\ call[d].req # r /\ call[d].req \in Requests
         /\ row'[call[d].req] = row[call[d].req]
  BY <1>2, <1>10 DEF IInv, UsedInv, Active
<1>18. OrderInv'
  <2> SUFFICES ASSUME NEW d \in Callers, pc'[d] = "order", used'[call'[d].req] <= 1
               PROVE  /\ row'[call'[d].req].status \in {"created", "abandoned"}
                      /\ \A o \in Orders : ~OrderFor(o, call'[d].req)
    BY DEF OrderInv, Once, OrderFor
  <2>1. CASE d = c
    BY <1>2, <1>6, <1>7, <1>10, <2>1
  <2>2. CASE d # c
    BY <1>7, <1>8, <1>17, <2>2 DEF IInv, OrderInv
  <2> QED
    BY <2>1, <2>2
<1>19. FailInv'
  BY <1>7, <1>8, <1>9, <1>17 DEF IInv, FailInv, OrderFor, Once
<1>20. MarkInv'
  BY <1>6, <1>7, <1>8, <1>9 DEF IInv, MarkInv, Named
<1>21. RiseInv'
  <2>1. rise[c] = 0 /\ energy \in Nat
    BY <1>1, <1>2 DEF IInv, RiseInv, TypeOK
  <2>2. ~b.blind => energy - b.units <= rise[c]
    BY <1>4, <2>1
  <2> QED
    BY <1>6, <1>7, <1>8, <1>9, <2>2 DEF IInv, RiseInv, Enough
<1>22. ServedIsDelivered'
  BY <1>6, <1>7, <1>8, <1>9 DEF IInv, ServedIsDelivered, Enough
<1>23. PaidIsTracked'
  <2> SUFFICES ASSUME NEW o \in Orders, orders[o].state \in {"pending"} \cup Delivered,
                      ~orders[o].lost, used'[orders[o].req] <= 1
               PROVE  row'[orders[o].req].status \in {"created", "delegated", "abandoned"}
    BY DEF PaidIsTracked, Once
  <2>1. orders[o].req \in Requests /\ row[orders[o].req].status # "none"
    BY DEF IInv, UsedInv, Delivered
  <2> QED
    BY <1>2, <1>11, <2>1 DEF IInv, PaidIsTracked
<1>24. CostIsCharged'
  <2> SUFFICES ASSUME NEW q \in Requests, used'[q] <= 1, row'[q].prov # "trx_burn"
               PROVE  /\ row'[q].status = "delegated" =>
                            \E o \in Orders : orders[o].req = q /\ orders[o].state \in Delivered
                      /\ q \in priced =>
                            \E o \in Orders : /\ orders[o].req = q
                                              /\ orders[o].state \in Delivered
                                              /\ orders[o].cost = row'[q].cost
    BY DEF CostIsCharged, Once
  <2>1. CASE q # r
    BY <1>2, <1>10, <2>1 DEF IInv, CostIsCharged
  <2>2. CASE q = r
    <3>1. row'[q].status = "created" /\ row[q].status = "none"
      BY <1>2, <1>10, <2>2
    <3> QED
      BY <3>1, <2>2 DEF IInv, UsedInv
  <2> QED
    BY <2>1, <2>2
<1> QED
  BY <1>13, <1>14, <1>15, <1>16, <1>18, <1>19, <1>20, <1>21, <1>22, <1>23, <1>24 DEF IInv

LEMMA AcquireKeeps ==
  ASSUME IInv, NEW c \in Callers, NEW r \in Requests, Acquire(c, r)
  PROVE  IInv'
<1>1. Use(c, r) /\ UNCHANGED <<age, orders, energy, recon, rise, priced>>
  BY DEF Acquire, world
<1>2. PICK q \in Quotes :
        LET best == BestQuote(q, RentalOn /\ r \in Rented)
        IN \/ \E p \in best : Enter(c, r, p, q[p], 0)
           \/ best = {} /\ UNCHANGED <<row, pc, call, faults>>
           \/ Fault /\ UNCHANGED <<row, pc, call>>
  BY DEF Acquire
<1>3. CASE \E p \in BestQuote(q, RentalOn /\ r \in Rented) : Enter(c, r, p, q[p], 0)
  <2>1. PICK p \in BestQuote(q, RentalOn /\ r \in Rented) : Enter(c, r, p, q[p], 0)
    BY <1>3
  <2>2. p \in Providers
    BY <2>1 DEF BestQuote, Candidates
  <2>3. p \in Names /\ q[p] \in Prices
    BY <1>2, <2>2, ProviderAssumption DEF Quotes, NoQuote, Prices
  <2> QED
    BY <1>1, <2>1, <2>3, PriceFacts, EnterKeeps
<1>4. CASE UNCHANGED <<row, pc, call>> /\ (Fault \/ UNCHANGED faults)
  <2>1. faults' \in Nat
    BY <1>4, FaultType DEF IInv
  <2> QED
    BY <1>1, <1>4, <2>1, NoEntryKeeps
<1> QED
  BY <1>2, <1>3, <1>4

LEMMA AcquireBurnKeeps ==
  ASSUME IInv, NEW c \in Callers, NEW r \in Requests, AcquireBurn(c, r)
  PROVE  IInv'
<1>1. Use(c, r) /\ UNCHANGED <<age, orders, energy, recon, rise, priced>>
  BY DEF AcquireBurn, world
<1>2. PICK cost \in BurnCosts : Enter(c, r, "trx_burn", cost, cost)
  BY DEF AcquireBurn
<1>3. cost \in Prices /\ "trx_burn" \in Names
  BY DEF BurnCosts, Prices, Names
<1> QED
  BY <1>1, <1>2, <1>3, EnterKeeps

-----------------------------------------------------------------------------
(* The platforms and the chain.                                            *)

LEMMA GainKeeps ==
  ASSUME IInv, NEW u \in Nat, Gain(u), UNCHANGED <<pc, call>>
  PROVE  energy' \in Nat /\ rise' \in [Callers -> Nat] /\ RiseInv' /\ ServedIsDelivered'
<1>1. /\ energy \in Nat /\ energy' = energy + u
      /\ \A c \in Callers : rise[c] \in Nat /\ call[c].baseline \in Nat
  BY DEF IInv, TypeOK, Calls, Gain
<1>2. rise' \in [Callers -> Nat]
  BY <1>1, Amounts DEF Gain
<1>3. \A c \in Callers :
        IF pc[c] = "idle" \/ call[c].blind THEN rise'[c] = rise[c]
        ELSE rise'[c] = IF rise[c] + u < Need THEN rise[c] + u ELSE Need
  BY DEF Gain
<1>4. ASSUME NEW c \in Callers, pc[c] # "idle", ~call[c].blind
      PROVE  /\ rise[c] >= Enough => rise'[c] >= Enough
             /\ rise'[c] >= Enough \/ energy' - call[c].baseline <= rise'[c]
  <2>1. rise'[c] = IF rise[c] + u < Need THEN rise[c] + u ELSE Need
    BY <1>3, <1>4
  <2>2. rise[c] >= Enough \/ energy - call[c].baseline <= rise[c]
    BY <1>4 DEF IInv, RiseInv
  <2> QED
    BY <1>1, <2>1, <2>2, Amounts
<1>5. RiseInv'
  <2>1. \A c \in Callers : pc[c] = "idle" => rise'[c] = 0
    BY <1>3 DEF IInv, RiseInv
  <2> QED
    BY <1>4, <2>1 DEF RiseInv, Enough
<1>6. ServedIsDelivered'
  BY <1>4 DEF IInv, ServedIsDelivered, Enough
<1> QED
  BY <1>1, <1>2, <1>5, <1>6

LEMMA DeliverKeeps ==
  ASSUME IInv, NEW o \in Orders, Deliver(o)
  PROVE  IInv'
<1>1. TypeOK /\ UNCHANGED <<row, age, pc, call, used, recon, faults, priced>>
        /\ orders[o].state = "pending"
  BY DEF IInv, Deliver, table
<1>2. PICK s \in {"delegated", "partial", "failed"} : orders' = [orders EXCEPT ![o].state = s]
  BY DEF Deliver
<1>3. energy' \in Nat /\ rise' \in [Callers -> Nat] /\ RiseInv' /\ ServedIsDelivered'
  <2>1. CASE UNCHANGED <<energy, rise>>
    BY <1>1, <2>1 DEF IInv, TypeOK, RiseInv, ServedIsDelivered, Enough
  <2>2. CASE Gain(Need)
    BY <1>1, <2>2, GainKeeps, Amounts
  <2>3. CASE Gain(Need \div 2)
    BY <1>1, <2>3, GainKeeps, Amounts
  <2> QED
    BY <2>1, <2>2, <2>3 DEF Deliver
<1>4. /\ orders' \in [Orders -> Placed]
      /\ orders'[o].state = s /\ orders'[o].req = orders[o].req
      /\ orders'[o].cost = orders[o].cost /\ orders'[o].lost = orders[o].lost
      /\ \A p \in Orders : p # o => orders'[p] = orders[p]
  <2> DEFINE w == [orders[o] EXCEPT !.state = s]
  <2>1. orders \in [Orders -> Placed] /\ orders[o] \in Placed
    BY <1>1 DEF TypeOK
  <2>2. /\ w \in Placed /\ w.state = s /\ w.req = orders[o].req
        /\ w.cost = orders[o].cost /\ w.lost = orders[o].lost
    BY <2>1 DEF Placed, States
  <2>3. orders' = [orders EXCEPT ![o] = w]
    BY <1>2
  <2> HIDE DEF w
  <2> QED
    BY <2>1, <2>2, <2>3
<1>5. \A p \in Orders : /\ orders'[p].req = orders[p].req
                        /\ orders'[p].cost = orders[p].cost
                        /\ orders'[p].lost = orders[p].lost
                        /\ orders'[p].state = "none" <=> orders[p].state = "none"
                        /\ orders[p].state \notin {"none", "pending"} =>
                               orders'[p].state = orders[p].state
  BY <1>1, <1>4
<1>6. \A p \in Orders : \A q : OrderFor(p, q) <=> NowFor(p, q)
  BY <1>5 DEF OrderFor, NowFor
<1>7. TypeOK'
  BY <1>1, <1>3, <1>4 DEF TypeOK
<1>8. UsedInv'
  <2>1. \A p \in Orders :
           IF orders'[p].state = "none" THEN orders'[p].req = "none"
           ELSE orders'[p].req \in Requests /\ row[orders'[p].req].status # "none"
    BY <1>5 DEF IInv, UsedInv
  <2> QED
    BY <1>1, <2>1 DEF IInv, UsedInv
<1>9. OnceInv'
  <2> SUFFICES ASSUME NEW q \in Requests, Once(q)
               PROVE  /\ \A c, d \in Callers : Active(c, q) /\ Active(d, q) => c = d
                      /\ \A p1, p2 \in Orders : NowFor(p1, q) /\ NowFor(p2, q) => p1 = p2
                      /\ \A c \in Callers : Active(c, q) => row[q].prov = call[c].prov
    BY <1>1 DEF OnceInv, Once, OrderFor, NowFor, Active
  <2> QED
    BY <1>6 DEF IInv, OnceInv
<1>10. KeyInv'
  <2>1. /\ \A q \in Requests : row[q].key \in Keys
        /\ \A k \in Reconcilers : recon[k].key \in Keys
        /\ \A d \in Callers : call[d].order \in Keys
    BY <1>1 DEF TypeOK, Rows, Recons, Calls
  <2>2. /\ \A q \in Requests : row[q].key # 0 => NowFor(row[q].key, q)
        /\ \A k \in Reconcilers : recon[k].key # 0 => NowFor(recon[k].key, recon[k].req)
        /\ \A d \in Callers : call[d].order # 0 => NowFor(call[d].order, call[d].req)
    BY <1>6, <2>1 DEF IInv, KeyInv, Keys
  <2> QED
    BY <1>1, <2>2 DEF KeyInv, OrderFor, NowFor
<1>11. OrderInv'
  BY <1>1, <1>5 DEF IInv, OrderInv, OrderFor, Once
<1>12. FailInv'
  BY <1>1, <1>5 DEF IInv, FailInv, OrderFor, Once
<1>13. MarkInv'
  <2> SUFFICES ASSUME NEW d \in Callers, pc[d] = "mark", call[d].prov # "trx_burn"
               PROVE  /\ call[d].order # 0 /\ orders'[call[d].order].state \in Delivered
                      /\ call[d].cost \in {0, orders'[call[d].order].cost}
    BY <1>1 DEF MarkInv, IInv, Named
  <2>1. /\ call[d].order # 0 /\ orders[call[d].order].state \in Delivered
        /\ call[d].cost \in {0, orders[call[d].order].cost}
    BY DEF IInv, MarkInv, Named
  <2>2. call[d].order \in Orders
    BY <1>1, <2>1 DEF TypeOK, Calls, Keys
  <2> QED
    BY <1>5, <2>1, <2>2 DEF Delivered
<1>14. PaidIsTracked'
  <2> SUFFICES ASSUME NEW p \in Orders, orders'[p].state \in {"pending"} \cup Delivered,
                      ~orders'[p].lost, Once(orders'[p].req)
               PROVE  row[orders'[p].req].status \in {"created", "delegated", "abandoned"}
    BY <1>1 DEF PaidIsTracked, Once
  <2>1. orders[p].state \in {"pending"} \cup Delivered
    BY <1>1, <1>4 DEF Delivered
  <2> QED
    BY <1>5, <2>1 DEF IInv, PaidIsTracked
<1>15. CostIsCharged'
  <2>1. \A p \in Orders : orders[p].state \in Delivered =>
           /\ orders'[p].req = orders[p].req /\ orders'[p].state \in Delivered
           /\ orders'[p].cost = orders[p].cost
    BY <1>5 DEF Delivered
  <2> QED
    BY <1>1, <2>1 DEF IInv, CostIsCharged, Once
<1> QED
  BY <1>3, <1>7, <1>8, <1>9, <1>10, <1>11, <1>12, <1>13, <1>14, <1>15 DEF IInv

\* Everything but RiseInv and ServedIsDelivered ignores energy and rise.
LEMMA EnergyFrame ==
  ASSUME IInv, UNCHANGED <<row, age, orders, pc, call, used, recon, faults, priced>>,
         energy' \in Nat, rise' \in [Callers -> Nat], RiseInv', ServedIsDelivered'
  PROVE  IInv'
<1>1. TypeOK' /\ UsedInv'
  BY DEF IInv, TypeOK, UsedInv
<1>2. OnceInv' /\ KeyInv'
  BY DEF IInv, OnceInv, KeyInv, Active, OrderFor, Once
<1>3. OrderInv' /\ FailInv' /\ MarkInv'
  BY DEF IInv, OrderInv, FailInv, MarkInv, Named, OrderFor, Once
<1>4. PaidIsTracked' /\ CostIsCharged'
  BY DEF IInv, PaidIsTracked, CostIsCharged, Once
<1> QED
  BY <1>1, <1>2, <1>3, <1>4 DEF IInv

LEMMA EnergyDropsKeeps ==
  ASSUME IInv, EnergyDrops
  PROVE  IInv'
<1>1. UNCHANGED <<row, age, orders, pc, call, used, recon, faults, rise, priced>>
  BY DEF EnergyDrops, table, callers
<1>2. /\ energy \in Nat /\ energy' \in Nat /\ energy' <= energy
      /\ rise' \in [Callers -> Nat]
      /\ \A c \in Callers : rise[c] \in Nat /\ call[c].baseline \in Nat
  BY <1>1, Amounts DEF EnergyDrops, IInv, TypeOK, Calls
<1>3. \A c \in Callers : energy - call[c].baseline <= rise[c] =>
                           energy' - call[c].baseline <= rise[c]
  BY <1>2
<1>4. RiseInv' /\ ServedIsDelivered'
  BY <1>1, <1>3 DEF IInv, RiseInv, ServedIsDelivered, Enough
<1> QED
  BY <1>1, <1>2, <1>4, EnergyFrame

LEMMA EnergyRecoversKeeps ==
  ASSUME IInv, EnergyRecovers
  PROVE  IInv'
<1>1. UNCHANGED <<row, age, orders, pc, call, used, recon, faults, priced>> /\ Gain(Need \div 2)
  BY DEF EnergyRecovers, table
<1> QED
  BY <1>1, Amounts, GainKeeps, EnergyFrame

-----------------------------------------------------------------------------
(* The reconciler and time.                                                *)

\* A step of reconcilers that leaves the rows alone.
LEMMA ReconKeeps ==
  ASSUME IInv, UNCHANGED <<row, orders, energy, pc, call, used, rise, priced>>, faults' \in Nat,
         age' \in [Requests -> {"new", "grace", "expired"}],
         recon' \in [Reconcilers -> Recons],
         \A k \in Reconcilers : recon'[k] # NoRecon =>
            recon'[k].req \in Requests /\ row[recon'[k].req].status # "none",
         \A k \in Reconcilers : recon'[k].key # 0 => OrderFor(recon'[k].key, recon'[k].req)
  PROVE  IInv'
<1>1. TypeOK' /\ UsedInv'
  BY DEF IInv, TypeOK, UsedInv
<1>2. OnceInv'
  BY DEF IInv, OnceInv, Active, OrderFor, Once
<1>3. KeyInv'
  BY DEF IInv, KeyInv, OrderFor
<1>4. OrderInv' /\ FailInv' /\ MarkInv' /\ RiseInv' /\ ServedIsDelivered'
  BY DEF IInv, OrderInv, FailInv, MarkInv, Named, RiseInv, ServedIsDelivered, OrderFor, Once, Enough
<1>5. PaidIsTracked' /\ CostIsCharged'
  BY DEF IInv, PaidIsTracked, CostIsCharged, Once
<1> QED
  BY <1>1, <1>2, <1>3, <1>4, <1>5 DEF IInv

LEMMA PickRowKeeps ==
  ASSUME IInv, NEW k \in Reconcilers, NEW r \in Requests, PickRow(k, r)
  PROVE  IInv'
<1> DEFINE new == [req |-> r, prov |-> row[r].prov, key |-> row[r].key,
                   expired |-> (age[r] = "expired")]
<1>1. /\ UNCHANGED <<row, age, orders, energy, pc, call, used, rise, faults, priced>>
      /\ recon' = [recon EXCEPT ![k] = new]
      /\ row[r].status = "created"
  BY DEF PickRow, table, world, callers, Pending
<1>2. TypeOK
  BY DEF IInv
<1>3. new \in Recons /\ new.req = r /\ new.key = row[r].key
  <2>1. row[r].prov \in Platforms /\ row[r].key \in Keys
    BY <1>2, RowFields
  <2>2. r \in Ids /\ (age[r] = "expired") \in BOOLEAN
    BY DEF Ids
  <2> QED
    BY <2>1, <2>2 DEF Recons
<1> HIDE DEF new
<1>4. /\ recon' \in [Reconcilers -> Recons] /\ recon'[k] = new
      /\ \A j \in Reconcilers : j # k => recon'[j] = recon[j]
  BY <1>1, <1>2, <1>3 DEF TypeOK
<1>5. \A j \in Reconcilers : recon'[j] # NoRecon =>
         recon'[j].req \in Requests /\ row[recon'[j].req].status # "none"
  BY <1>1, <1>3, <1>4 DEF IInv, UsedInv
<1>6. \A j \in Reconcilers : recon'[j].key # 0 => OrderFor(recon'[j].key, recon'[j].req)
  BY <1>3, <1>4 DEF IInv, KeyInv
<1>7. faults' \in Nat /\ age' \in [Requests -> {"new", "grace", "expired"}]
  BY <1>1, <1>2 DEF TypeOK
<1> QED
  BY <1>1, <1>4, <1>5, <1>6, <1>7, ReconKeeps

LEMMA DropRecon ==
  ASSUME IInv, NEW k \in Reconcilers, recon' = [recon EXCEPT ![k] = NoRecon]
  PROVE  /\ recon' \in [Reconcilers -> Recons]
         /\ \A j \in Reconcilers : recon'[j] # NoRecon => recon'[j] = recon[j]
         /\ \A j \in Reconcilers : recon'[j].key # 0 => recon'[j] = recon[j]
BY NullValues DEF IInv, TypeOK

LEMMA CrashReconcilerKeeps ==
  ASSUME IInv, NEW k \in Reconcilers, CrashReconciler(k)
  PROVE  IInv'
<1>1. /\ UNCHANGED <<row, age, orders, energy, pc, call, used, rise, priced>>
      /\ recon' = [recon EXCEPT ![k] = NoRecon]
  BY DEF CrashReconciler, table, world, callers
<1>2. faults' \in Nat /\ age' \in [Requests -> {"new", "grace", "expired"}]
  BY <1>1, FaultType DEF CrashReconciler, IInv, TypeOK
<1>3. /\ recon' \in [Reconcilers -> Recons]
      /\ \A j \in Reconcilers : recon'[j] # NoRecon => recon'[j] = recon[j]
      /\ \A j \in Reconcilers : recon'[j].key # 0 => recon'[j] = recon[j]
  BY <1>1, DropRecon
<1>4. /\ \A j \in Reconcilers : recon'[j] # NoRecon =>
            recon'[j].req \in Requests /\ row[recon'[j].req].status # "none"
      /\ \A j \in Reconcilers : recon'[j].key # 0 => OrderFor(recon'[j].key, recon'[j].req)
  BY <1>3 DEF IInv, UsedInv, KeyInv
<1> QED
  BY <1>1, <1>2, <1>3, <1>4, ReconKeeps

LEMMA GrowOlderKeeps ==
  ASSUME IInv, NEW r \in Requests, GrowOlder(r)
  PROVE  IInv'
<1>1. UNCHANGED <<row, orders, energy, pc, call, used, rise, recon, faults, priced>>
  BY DEF GrowOlder, world, callers
<1>2. faults' \in Nat /\ age' \in [Requests -> {"new", "grace", "expired"}]
        /\ recon' \in [Reconcilers -> Recons]
  BY <1>1 DEF GrowOlder, IInv, TypeOK
<1>3. /\ \A j \in Reconcilers : recon'[j] # NoRecon =>
            recon'[j].req \in Requests /\ row[recon'[j].req].status # "none"
      /\ \A j \in Reconcilers : recon'[j].key # 0 => OrderFor(recon'[j].key, recon'[j].req)
  BY <1>1 DEF IInv, UsedInv, KeyInv
<1> QED
  BY <1>1, <1>2, <1>3, ReconKeeps

\* What SettleRow writes: nothing, abandoned, or the outcome of an order.
LEMMA SettleIsGood ==
  ASSUME IInv, NEW k \in Reconcilers, SettleRow(k)
  PROVE  \E s, key, x :
           /\ GoodWrite(recon[k].req, s, key, x)
           /\ \/ s = row[recon[k].req].status
              \/ s = "abandoned" /\ row[recon[k].req].status = "created"
              \/ \E o \in Orders : OrderFor(o, recon[k].req)
           /\ row[recon[k].req].status = "delegated" => s = "delegated"
<1> DEFINE r == recon[k].req
<1>1. TypeOK /\ r \in Requests /\ row[r].status # "none" /\ recon[k].key \in Keys
  BY DEF IInv, UsedInv, SettleRow, TypeOK, Recons
<1>2. recon[k].key # 0 => OrderFor(recon[k].key, r)
  BY DEF IInv, KeyInv
<1>3. row[r].key # 0 => OrderFor(row[r].key, r)
  BY <1>1 DEF IInv, KeyInv
<1>4. row[r].status \in Statuses
  BY <1>1, RowFields
<1>5. CASE UNCHANGED <<row, priced>>
  <2>1. GoodWrite(r, row[r].status, row[r].key, row[r].cost)
    BY <1>1, <1>5, SameWrite
  <2> QED
    BY <2>1
<1>6. CASE row' = SettleIfCreated(r, "abandoned") /\ priced' = priced
  <2> DEFINE s == IF row[r].status = "created" THEN "abandoned" ELSE row[r].status
  <2>1. RowWrote(r, s, row[r].key, row[r].cost)
    BY <1>1, <1>6, SettleWrite DEF Statuses
  <2>2. GoodWrite(r, s, row[r].key, row[r].cost)
    BY <1>1, <1>3, <1>4, <1>6, <2>1 DEF GoodWrite, Statuses
  <2>3. /\ s = row[r].status \/ (s = "abandoned" /\ row[r].status = "created")
        /\ row[r].status = "delegated" => s = "delegated"
    OBVIOUS
  <2> HIDE DEF s
  <2> QED
    BY <2>2, <2>3
<1>7. ASSUME NEW o \in Polled(recon[k].prov, r, recon[k].key),
             \/ orders[o].state \in Delivered /\ \E cost \in Named(o) : Book(r, cost)
             \/ /\ orders[o].state = "failed" /\ row' = SettleIfCreated(r, "failed")
                /\ priced' = priced
      PROVE  \E s, key, x :
               /\ GoodWrite(r, s, key, x)
               /\ \E p \in Orders : OrderFor(p, r)
               /\ row[r].status = "delegated" => s = "delegated"
  <2>1. o \in Orders /\ o # 0 /\ OrderFor(o, r) /\ o \in Keys
    BY <1>1, <1>2, <1>7, PolledFacts DEF Keys
  <2>2. CASE orders[o].state \in Delivered /\ \E cost \in Named(o) : Book(r, cost)
    <3>1. PICK cost \in Named(o) : Book(r, cost)
      BY <2>2
    <3>2. cost \in Prices
      BY <1>1, <2>1, PriceFacts DEF Named, TypeOK, Placed
    <3>3. Served(r) /\ (cost # 0 => DeliveredAt(r, cost))
      BY <2>1, <2>2 DEF Served, DeliveredAt, Named
    <3>4. GoodWrite(r, "delegated", row[r].key, IF cost > 0 THEN cost ELSE row[r].cost)
      BY <1>1, <3>1, <3>2, <3>3, BookIsGood
    <3> QED
      BY <2>1, <3>4
  <2>3. CASE /\ orders[o].state = "failed" /\ row' = SettleIfCreated(r, "failed")
             /\ priced' = priced
    <3> DEFINE s == IF row[r].status = "created" THEN "failed" ELSE row[r].status
    <3>1. RowWrote(r, s, row[r].key, row[r].cost)
      BY <1>1, <2>3, SettleWrite DEF Statuses
    <3>2. Once(r) => NoLiveOrder(r)
      BY <1>1, <2>1, <2>3 DEF IInv, OnceInv, NoLiveOrder
    <3>3. GoodWrite(r, s, row[r].key, row[r].cost)
      BY <1>1, <1>3, <1>4, <2>3, <3>1, <3>2 DEF GoodWrite, Statuses
    <3>4. row[r].status = "delegated" => s = "delegated"
      OBVIOUS
    <3> HIDE DEF s
    <3> QED
      BY <2>1, <3>3, <3>4
  <2> QED
    BY <1>7, <2>2, <2>3
<1>8. \/ UNCHANGED <<row, priced>>
      \/ row' = SettleIfCreated(r, "abandoned") /\ priced' = priced
      \/ \E o \in Polled(recon[k].prov, r, recon[k].key) :
            \/ orders[o].state \in Delivered /\ \E cost \in Named(o) : Book(r, cost)
            \/ /\ orders[o].state = "failed" /\ row' = SettleIfCreated(r, "failed")
               /\ priced' = priced
  BY DEF SettleRow, Abandon
<1> QED
  BY <1>5, <1>6, <1>7, <1>8

LEMMA SettleRowKeeps ==
  ASSUME IInv, NEW k \in Reconcilers, SettleRow(k)
  PROVE  IInv'
<1> DEFINE r == recon[k].req
<1>1. /\ UNCHANGED <<age, orders, energy, pc, call, used, rise, faults>>
      /\ recon' = [recon EXCEPT ![k] = NoRecon]
  BY DEF SettleRow, world, callers
<1>2. PICK s, key, x :
        /\ GoodWrite(r, s, key, x)
        /\ \/ s = row[r].status
           \/ s = "abandoned" /\ row[r].status = "created"
           \/ \E o \in Orders : OrderFor(o, r)
  BY SettleIsGood
<1>3. RowsKept /\ PaidIsTracked' /\ CostIsCharged'
  BY <1>1, <1>2, GoodWriteKeeps
<1>4. /\ recon' \in [Reconcilers -> Recons]
      /\ \A j \in Reconcilers : recon'[j] # NoRecon => recon'[j] = recon[j]
      /\ \A j \in Reconcilers : recon'[j].key # 0 => recon'[j] = recon[j]
  BY <1>1, DropRecon
<1>5. TypeOK'
  BY <1>1, <1>3, <1>4 DEF IInv, TypeOK, RowsKept
<1>6. UsedInv'
  BY <1>1, <1>3, <1>4 DEF IInv, UsedInv, RowsKept
<1>7. OnceInv'
  BY <1>1, <1>3 DEF IInv, OnceInv, Active, OrderFor, Once, RowsKept
<1>8. KeyInv'
  BY <1>1, <1>3, <1>4 DEF IInv, KeyInv, OrderFor, RowsKept
<1>9. OrderInv'
  <2> SUFFICES ASSUME NEW d \in Callers, pc[d] = "order", Once(call[d].req)
               PROVE  /\ row'[call[d].req].status \in {"created", "abandoned"}
                      /\ \A o \in Orders : ~OrderFor(o, call[d].req)
    BY <1>1 DEF OrderInv, Once, OrderFor
  <2>1. /\ row[call[d].req].status \in {"created", "abandoned"}
        /\ \A o \in Orders : ~OrderFor(o, call[d].req)
        /\ call[d].req \in Requests
    BY DEF IInv, OrderInv, UsedInv
  <2>2. CASE call[d].req = r
    BY <1>2, <2>1, <2>2 DEF GoodWrite, RowWrote
  <2>3. CASE call[d].req # r
    BY <1>2, <2>1, <2>3 DEF GoodWrite, RowWrote
  <2> QED
    BY <2>1, <2>2, <2>3
<1>10. FailInv' /\ MarkInv' /\ RiseInv' /\ ServedIsDelivered'
  BY <1>1 DEF IInv, FailInv, MarkInv, Named, RiseInv, ServedIsDelivered, OrderFor, Once, Enough
<1> QED
  BY <1>3, <1>5, <1>6, <1>7, <1>8, <1>9, <1>10 DEF IInv

LEMMA StutterKeeps ==
  ASSUME IInv, UNCHANGED vars
  PROVE  IInv'
<1>1. UNCHANGED <<row, age, orders, energy, pc, call, used, rise, recon, faults, priced>>
  BY DEF vars, table, world, callers
<1>2. energy' \in Nat /\ rise' \in [Callers -> Nat] /\ RiseInv' /\ ServedIsDelivered'
  BY <1>1 DEF IInv, TypeOK, RiseInv, ServedIsDelivered, Enough
<1> QED
  BY <1>1, <1>2, EnergyFrame

-----------------------------------------------------------------------------
(* Theorems.                                                               *)

LEMMA StepKeeps ==
  ASSUME IInv, [Next]_vars
  PROVE  IInv'
<1>1. ASSUME NEW c \in Callers, NEW r \in Requests, Acquire(c, r) \/ AcquireBurn(c, r)
      PROVE  IInv'
  BY <1>1, AcquireKeeps, AcquireBurnKeeps
<1>2. ASSUME NEW c \in Callers, AcquireStep(c) \/ CrashCaller(c)
      PROVE  IInv'
  BY <1>2, EnsureKeeps, StoreOrderKeeps, FailRowKeeps, WaitPollKeeps, WaitTimeoutKeeps,
     MarkKeeps, CrashCallerKeeps DEF AcquireStep
<1>3. ASSUME NEW k \in Reconcilers, NEW r \in Requests, PickRow(k, r)
      PROVE  IInv'
  BY <1>3, PickRowKeeps
<1>4. ASSUME NEW k \in Reconcilers, SettleRow(k) \/ CrashReconciler(k)
      PROVE  IInv'
  BY <1>4, SettleRowKeeps, CrashReconcilerKeeps
<1>5. ASSUME NEW o \in Orders, Deliver(o)
      PROVE  IInv'
  BY <1>5, DeliverKeeps
<1>6. ASSUME NEW r \in Requests, GrowOlder(r)
      PROVE  IInv'
  BY <1>6, GrowOlderKeeps
<1>7. CASE EnergyDrops \/ EnergyRecovers
  BY <1>7, EnergyDropsKeeps, EnergyRecoversKeeps
<1>8. CASE UNCHANGED vars
  BY <1>8, StutterKeeps
<1> QED
  BY <1>1, <1>2, <1>3, <1>4, <1>5, <1>6, <1>7, <1>8 DEF Next

\* While an id was used once, its row, its order and its caller belong together,
\* in every step of callers, reconcilers, platforms and crashes.
THEOREM Invariance == Spec => []IInv
BY InitIInv, StepKeeps, PTL DEF Spec

\* An order that a platform took and answered for is never written off as failed.
THEOREM PaidOrdersAreTracked == Spec => []PaidIsTracked
<1>1. IInv => PaidIsTracked
  BY DEF IInv
<1> QED
  BY <1>1, Invariance, PTL

\* A rental is booked only for a delivered order, and at the charged price from the
\* first answer on that names it, whatever callers and reconcilers write later.
THEOREM ChargedPriceIsBooked == Spec => []CostIsCharged
<1>1. IInv => CostIsCharged
  BY DEF IInv
<1> QED
  BY <1>1, Invariance, PTL

\* A rental succeeds only after the address gained the energy, for any number of
\* callers that share the address.
THEOREM ServedMeansDelivered == Spec => []ServedIsDelivered
<1>1. IInv => ServedIsDelivered
  BY DEF IInv
<1> QED
  BY <1>1, Invariance, PTL

\* The row stays delegated in one step.
DelegatedStays ==
    \A r \in Requests :
        /\ Once(r)
        /\ row[r].status = "delegated"
        /\ \A o \in Orders : orders[o].req = r => ~orders[o].lost
        => row'[r].status = "delegated"

LEMMA DelegatedStep ==
  ASSUME IInv, [Next]_vars
  PROVE  DelegatedStays
<1> SUFFICES ASSUME NEW r \in Requests, Once(r), row[r].status = "delegated",
                    \A o \in Orders : orders[o].req = r => ~orders[o].lost
             PROVE  row'[r].status = "delegated"
  BY DEF DelegatedStays
<1>1. TypeOK /\ row \in [Requests -> Rows]
  BY DEF IInv, TypeOK
<1>2. ASSUME NEW c \in Callers, NEW q \in Requests, Acquire(c, q) \/ AcquireBurn(c, q)
      PROVE  row'[r].status = "delegated"
  <2>1. row' = row \/ \E p, cost : CreateRow(q, p, cost)
    BY <1>2 DEF Acquire, AcquireBurn, Enter
  <2>2. ASSUME NEW p, NEW cost, CreateRow(q, p, cost)
        PROVE  row'[r] = row[r]
    BY <1>1, <2>2 DEF CreateRow
  <2> QED
    BY <2>1, <2>2
<1>3. ASSUME NEW c \in Callers, StoreOrder(c)
      PROVE  row'[r].status = "delegated"
  BY <1>1, <1>3 DEF StoreOrder, Rows
<1>4. ASSUME NEW c \in Callers, FailRow(c)
      PROVE  row'[r].status = "delegated"
  <2>1. CASE call[c].req # r
    BY <1>1, <1>4, <2>1 DEF FailRow
  <2>2. CASE call[c].req = r
    <3>1. pc[c] = "fail" /\ Active(c, r)
      BY <1>4, <2>2 DEF FailRow, Active
    <3>2. call[c].prov # "trx_burn" /\ row[r].prov = call[c].prov
      BY <3>1 DEF IInv, MarkInv, OnceInv
    <3>3. PICK o \in Orders : orders[o].req = r /\ orders[o].state \in Delivered
      BY <3>2 DEF IInv, CostIsCharged
    <3>4. OrderFor(o, r) /\ orders[o].state # "failed" /\ ~orders[o].lost
      BY <3>3 DEF OrderFor, Delivered
    <3> QED
      BY <2>2, <3>1, <3>4 DEF IInv, FailInv
  <2> QED
    BY <2>1, <2>2
<1>5. ASSUME NEW c \in Callers, Mark(c)
      PROVE  row'[r].status = "delegated"
  BY <1>1, <1>5 DEF Mark, Book, MarkDelegated, Rows
<1>6. ASSUME NEW k \in Reconcilers, SettleRow(k)
      PROVE  row'[r].status = "delegated"
  <2>1. PICK s, key, x : /\ GoodWrite(recon[k].req, s, key, x)
                         /\ row[recon[k].req].status = "delegated" => s = "delegated"
    BY <1>6, SettleIsGood
  <2> QED
    BY <2>1 DEF GoodWrite, RowWrote
<1>7. CASE row' = row
  BY <1>7
<1>8. ASSUME NEW c \in Callers, \/ Ensure(c) \/ WaitPoll(c) \/ WaitTimeout(c) \/ CrashCaller(c)
      PROVE  row' = row
  BY <1>8 DEF Ensure, WaitPoll, WaitTimeout, CrashCaller, table
<1>9. ASSUME NEW k \in Reconcilers, (\E q \in Requests : PickRow(k, q)) \/ CrashReconciler(k)
      PROVE  row' = row
  BY <1>9 DEF PickRow, CrashReconciler, table
<1>10. ASSUME \/ \E o \in Orders : Deliver(o)
              \/ \E q \in Requests : GrowOlder(q)
              \/ EnergyDrops \/ EnergyRecovers \/ UNCHANGED vars
       PROVE  row' = row
  BY <1>10 DEF Deliver, GrowOlder, EnergyDrops, EnergyRecovers, table, vars
<1> QED
  BY <1>2, <1>3, <1>4, <1>5, <1>6, <1>7, <1>8, <1>9, <1>10 DEF Next, AcquireStep

\* No caller and no reconciler takes a rental out of the accounting again.
THEOREM DelegatedStaysDelegated == Spec => DelegatedIsFinal
<1>1. IInv /\ [Next]_vars => [DelegatedStays]_vars
  BY DelegatedStep
<1> QED
  BY <1>1, Invariance, PTL DEF Spec, DelegatedIsFinal, DelegatedStays

=============================================================================
