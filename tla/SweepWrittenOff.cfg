SPECIFICATION Spec
CONSTANTS
    s1 = s1
    s2 = s2
    r1 = r1
    NoSweeper = NoSweeper
    LastDeposit = 3
    Total <- MCTotal
    Sweepers = {s1}
    Reconcilers = {r1}
    MinUnits = 1
    MaxSkips = 2
    MaxEnergyRetries = 1
    Hazards = {}
    MaxRows = 3
    MaxFaults = 0
INVARIANT OnlyCoveredAreSwept
