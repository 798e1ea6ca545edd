SPECIFICATION Spec
CONSTANTS
    Amounts = {1}
    MaxCalls = 2
    MaxFaults = 1
    Instruments = {asset}
    MaxTyped = 1
    MaxStaged = 1
    MaxEvents = 2
    MaxOthers = 1
INVARIANTS
    TypeOK
PROPERTIES
    SuccessMeansSaved
    ListsCatchUp
    GapsClose
CHECK_DEADLOCK FALSE
