SPECIFICATION FairSpec
CONSTANTS
    Requests = {q1, q2}
    Accounts = {a1, a2}
    NoAccount = NoAccount
    Foreign <- MCForeign
    Expected = 1
    Batch = 2
    MaxCapacity = 2
    MaxRows = 2
    MaxFaults = 2
PROPERTY NothingForgotten
