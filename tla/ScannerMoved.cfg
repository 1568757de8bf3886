SPECIFICATION FairSpec
CONSTANTS
    Deposits = {1}
    Internal = {}
    StartBlock = 1
    Confirmations = 2
    ReorgDepth = 5
    SnapshotsKept = 50
    BatchBlocks = 2
    FirstHeight = 3
    MaxHeight = 7
    MaxFork = 1
    MaxForks = 1
    MaxFaults = 0
PROPERTY MovedAreNotified
