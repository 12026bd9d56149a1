SPECIFICATION Spec
CONSTANTS
    Clients = {c1, c2}
    Ids = {i1, i2}
    Profiles = {p1, p2}
    Missing = Missing
    Damaged = Damaged
    Unseen = Unseen
    MaxCalls = 3
    MaxFaults = 1
    MaxCrashes = 1
SYMMETRY TargetSymmetry
INVARIANTS
    TempsBelongToWrites
PROPERTIES
    ImplementsProfileMap
CHECK_DEADLOCK FALSE
