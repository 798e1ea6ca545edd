SPECIFICATION Spec
CONSTANTS
    Amounts = {1, 1000}
    MaxCalls = 2
    MaxFaults = 1


PROPERTIES
    UntypedQuantityKept
CHECK_DEADLOCK FALSE
