SPECIFICATION Spec
CONSTANTS
    Instruments = {asset}
    MaxTyped = 2
    MaxStaged = 1
    MaxEvents = 2
    MaxOthers = 1
PROPERTIES
    AcceptedGapsClose
CHECK_DEADLOCK FALSE
