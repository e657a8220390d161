SPECIFICATION Spec
CONSTANTS
    o1 = o1
    o2 = o2
    s1 = s1
    s2 = s2
    q1 = q1
    q2 = q2
    None = None
    Owners = {o1, o2}
    Ids = {1}
    Ports = {1}
    Settings = {s1}
    Keys = {1}
    Mailing = TRUE
    MaxRequests = 6
    Requests = {q1}
SYMMETRY Symmetry
INVARIANTS
    Isolation
CHECK_DEADLOCK FALSE
