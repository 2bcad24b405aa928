SPECIFICATION RSpec
CONSTANTS
    MaxAttempts = 1
    Backoff <- MCBackoff
    RecheckDelays <- MCRecheckDelays
    LoginTimeout = 1
    CheckInterval = 0
    Briefings = 2
    AsksEach = 2
    TimeoutLimit = 2
    EventsInCall = TRUE
INVARIANTS
    LoopsInOrder
PROPERTIES
    WaitEndsUnlessHeld
    RuntimeSettles
