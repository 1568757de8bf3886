SPECIFICATION FairSpec
CONSTANTS
    Deposits = {1, 2}
    Internal = {2}
    StartBlock = 1
    Confirmations = 1
    ReorgDepth = 5
    SnapshotsKept = 2
    BatchBlocks = 2
    FirstHeight = 3
    MaxHeight = 6
    MaxFork = 1
    MaxForks = 1
    MaxFaults = 2
INVARIANT IInv
INVARIANT EventPerConfirmed
INVARIANT NothingSkipped
PROPERTY ConfirmedIsFinal
PROPERTY DepositsAreNotified
PROPERTY NotTakenBack
