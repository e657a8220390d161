SPECIFICATION FairSpec
CONSTANTS
    m1 = m1
    m2 = m2
    r1 = r1
    r2 = r2
    Mails <- MCMails
    Recipients <- MCRecipients
    Configs <- AllConfigs
    SoftExits <- Documented
    MaxFaults = 3
INVARIANTS
    TypeOK
    NoSilentLoss
    SuccessRowsTrue
    DuplicatesBounded
PROPERTIES
    FailedAttemptsAreDeferred
    RelayRefinement
    EventuallyDelivered
CHECK_DEADLOCK FALSE
