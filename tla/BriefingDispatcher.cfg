SPECIFICATION DSpec
CONSTANTS
    k1 = k1
    k2 = k2
    Keys <- TwoKeys
INVARIANTS
    RunsAccounted
PROPERTIES
    StartsWhenItMay
    WaitingIsRun
