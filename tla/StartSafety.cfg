SPECIFICATION FairSpec
CONSTANTS
    h1 = h1
    h2 = h2
    Missing = Missing
    Partial = Partial
    Hosts = {h1, h2}
    MaxWrites = 3
    MaxFaults = 3
INVARIANTS
    TypeOK
    ServesOneVersion
    PairComplete
PROPERTIES
    ServesAgain
CHECK_DEADLOCK FALSE
