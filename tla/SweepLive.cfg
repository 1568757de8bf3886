SPECIFICATION FairSpec
CONSTANTS
    s1 = s1
    s2 = s2
    r1 = r1
    NoSweeper = NoSweeper
    LastDeposit = 2
    Total <- MCTotal
    Sweepers = {s1}
    Reconcilers = {r1}
    MinUnits = 2
    MaxSkips = 2
    MaxEnergyRetries = 2
    Hazards = {}
    MaxRows = 4
    MaxFaults = 1
PROPERTY SweptInTheEnd
