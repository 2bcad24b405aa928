SPECIFICATION CSpec
CONSTANTS
    N = 3
    Passing <- TwoPass
    Uncounted <- OneShort
    Rowless <- OneRowless
    PilotSize = 3
    MinAttempts = 3
    LimitPercent = 40
    BreakerLimit = 2
    MaxInvocations = 3
    MaxDamages = 1
CHECK_DEADLOCK FALSE
INVARIANTS
    CheckpointHolds
    
    
PROPERTIES
    NothingForgotten
