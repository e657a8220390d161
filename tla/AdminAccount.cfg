SPECIFICATION FairSpec
CONSTANTS
    q1 = q1
    q2 = q2
    q3 = q3
    None = None
    Requests = {q1, q2, q3}
    MaxSecrets = 3
INVARIANTS
    TypeOK
    EnabledIsProven
PROPERTIES
    EventuallyAllCoded
