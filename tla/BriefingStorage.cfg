SPECIFICATION SSpec
CONSTANTS
    MaxVersion = 3
    Faults <- AllFaults
CHECK_DEADLOCK FALSE
INVARIANTS
    DiskSound
PROPERTIES
    ImplementsRegister
