SPECIFICATION FairSpec
CONSTANTS
    MaxAttempts = 2
    Backoff <- MCBackoff
    RecheckDelays <- MCRecheckDelays
    LoginTimeout = 2
    CheckInterval = 2
INVARIANTS
    ManagerInv
PROPERTIES
    ConnectedIsConfirmed
    LiveLinkKept
    GivesUpOnlyWhenSpent
    OutagesEnd
