SPECIFICATION Spec
CONSTANTS
    Days = 2
    Sources <- MCSources
    Writers = {w1, w2}
    None = None
    MaxRuns = 3
INVARIANTS
    ReportsWhole
    NotifiedIsStored
    ReadersAgree
PROPERTY
    HistoricalKeepsLatest
CHECK_DEADLOCK FALSE
