SPECIFICATION Spec
CONSTANTS
    s1 = s1
    s2 = s2
    r1 = r1
    NoSweeper = NoSweeper
    LastDeposit = 2
    Total <- MCTotal
    Sweepers = {s1, s2}
    Reconcilers = {r1}
    MinUnits = 2
    MaxSkips = 2
    MaxEnergyRetries = 1
    Hazards = {}
    MaxRows = 3
    MaxFaults = 1
SYMMETRY MCSymmetry
INVARIANT IInv
INVARIANT OneLiveSweep
INVARIANT SweptWasMoved
