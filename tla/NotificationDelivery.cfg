SPECIFICATION NSpec
CONSTANTS
    Keys <- TwoKeys
    Lasting <- Briefings
    MaxAttempts = 2
    MaxStarts = 2
    MaxRefusals = 1
CHECK_DEADLOCK FALSE
INVARIANTS
    DeliveryOwned
    RecordedNotSent
PROPERTIES
    LeavesForAReason
    Settles
