SPECIFICATION Spec
CONSTANTS
    d1 = d1
    d2 = d2
    None = None
    Deliveries = {d1, d2}
    Flow = "delegated"
    Lifetimes = {3}
    Margin = 2
    MaxTime = 6
    MaxRotations = 3
    MaxStrays = 2
SYMMETRY Symmetry
INVARIANTS
    TypeOK
    ExpiredOnlyIfLate
    RefreshIsNewest
CHECK_DEADLOCK FALSE
