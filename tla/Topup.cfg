SPECIFICATION FairSpec
CONSTANTS
    Processes = {p1, p2}
    NoProcess = NoProcess
    LowWatermark = 1
    Target = 3
    MaxSingle = 2
    MaxDaily = 3
    MaxDailyCount = 2
    MaxRows = 2
    MaxDays = 2
    MaxFaults = 1
INVARIANT OneTransferAtATime
INVARIANT DailyCapsHold
INVARIANT RecordIsTrue
PROPERTY SettledUnlessSpent
