SPECIFICATION PSpec
CONSTANTS
    Universe <- FourCodes
    PriceBatchSize = 3
    FlowBatchSize = 1
    FlowLimit = 2
    BreakerLimit = 2
CHECK_DEADLOCK FALSE
INVARIANTS
    BatchesSound
PROPERTIES
    NeverFetchedAgain
