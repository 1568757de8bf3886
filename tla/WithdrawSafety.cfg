SPECIFICATION Spec
CONSTANTS
    w1 = w1
    w2 = w2
    Orders = {1}
    Workers = {w1, w2}
    Txs = {1, 2}
    NoWorker = NoWorker
    Amount <- MCAmount
    DailyMax = 1
    HaltMaxRetries = 2
    CreatedLimit = 20
    ReconcileLimit = 100
    Refused = {}
    Hazards = {"lostAnswer", "lateRead", "halts", "risk", "unreadSum"}
    InitialFunds = 2
    RefillUnits = 2
    MaxRefills = 0
    MaxFaults = 2
SYMMETRY MCSymmetry
INVARIANT AtMostOneTransfer
INVARIANT IInv
INVARIANT ConfirmedIsPaid
INVARIANT RefusedNeverSent
INVARIANT ReportMatchesOutcome
INVARIANT HaltLimitKept
PROPERTY SettledIsFinal
PROPERTY ImplementsSettlement
