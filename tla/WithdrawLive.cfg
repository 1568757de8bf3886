SPECIFICATION FairSpec
CONSTANTS
    w1 = w1
    w2 = w2
    Orders = {1, 2}
    Workers = {w1}
    Txs = {1, 2, 3}
    NoWorker = NoWorker
    Amount <- MCAmount
    DailyMax = 0
    HaltMaxRetries = 2
    CreatedLimit = 1
    ReconcileLimit = 1
    Refused = {}
    Hazards = {"halts"}
    InitialFunds = 0
    RefillUnits = 2
    MaxRefills = 1
    MaxFaults = 1
INVARIANT FailedIsUnpaid
INVARIANT NoOverCommit
PROPERTY AlwaysReported
