SPECIFICATION FairSpec
CONSTANTS
    q1 = q1
    q2 = q2
    None = None
    Requests = {q1, q2}
    BF_MAX = 4
    Outcomes = {"fail", "success", "need_totp"}
    AdminResets = TRUE
    MaxFailures = 11
INVARIANTS
    TypeOK
    WriterInService
    CountIsExact
    FailuresBounded
PROPERTIES
    EventuallyLocked
CHECK_DEADLOCK FALSE
