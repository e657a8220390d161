SPECIFICATION FairSpec
CONSTANTS
    m1 = m1
    m2 = m2
    r1 = r1
    r2 = r2
    Mails <- MCMails
    Recipients <- MCRecipients
    Configs <- AllConfigs
    MaxFaults = 2
INVARIANTS
    TypeOK
    DoneIsLogged
    RowsMatchTransmissions
    PendingExplained
    DuplicatesBounded
PROPERTIES
    RelayRefinement
    EventuallySettled
CHECK_DEADLOCK FALSE
