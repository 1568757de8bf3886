SPECIFICATION FairSpec
CONSTANTS
    Requests = {r1}
    Attempts <- MCAttempts
    Rented = {}
    Callers = {c1}
    Reconcilers = {k1}
    Providers = {"gasstation", "tronenergyrent", "trx_burn"}
    RentalOn = TRUE
    Mode = "cheapest"
    Fixed = "gasstation"
    Costs = {1, 2}
    Need = 20
    MaxEnergy = 30
    MaxOrders = 1
    MaxFaults = 1
INVARIANT PaidIsTracked
INVARIANT CostIsCharged
INVARIANT ServedIsDelivered
INVARIANT IInv
PROPERTY DelegatedIsFinal
PROPERTY OrdersSettle
