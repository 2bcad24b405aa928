CONSTANTS
    Types <- MCTypes
    Periods <- MCPeriods
    None = None
    MaxStarts = 1
SPECIFICATION Spec
CHECK_DEADLOCK FALSE
INVARIANTS
    DayInv
PROPERTIES
    FinalKept
    GraceKept
    EveryBriefingComes
