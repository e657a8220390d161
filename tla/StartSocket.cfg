SPECIFICATION Spec
CONSTANTS
    h1 = h1
    h2 = h2
    Missing = Missing
    Partial = Partial
    Hosts = {h1, h2}
    MaxWrites = 1
    MaxFaults = 1
INVARIANTS
    SocketInQueueDirectory
CHECK_DEADLOCK FALSE
