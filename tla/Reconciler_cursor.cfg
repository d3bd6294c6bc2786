SPECIFICATION Spec
CONSTANTS
    Drives = {d1}
    Activities = {a1}
    Passes = {p1, p2}
    MaxConcurrent = 2
    Grace = 1
    Overlap = 1
    Lookback = 3
    Lag = 1
    MaxTime = 4
    Faults <- AllFaults
    None = None
SYMMETRY Symm
INVARIANTS TypeOK SlotsAccounted  DuplicatesNeedOverlap
