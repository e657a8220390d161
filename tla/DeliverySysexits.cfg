SPECIFICATION Spec
CONSTANTS
    m1 = m1
    m2 = m2
    r1 = r1
    r2 = r2
    Mails <- MCMails
    Recipients <- MCRecipients
    Configs <- AppOnly
    SoftExits <- Sysexits
    MaxFaults = 1
PROPERTIES
    FailedAttemptsAreDeferred
CHECK_DEADLOCK FALSE
