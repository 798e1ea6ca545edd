SPECIFICATION Spec
CONSTANTS
    Positions = {savings}
    Tabs = {tab1}
    LastDay = 4
    Window = 2
    MaxFaults = 2
    MaxRates = 2
    Starts = {1, 2}
    Ends = {2, 5}
INVARIANTS
    TypeOK
    YieldsOfOkDaysOnly
    OneYieldPerRate
    YieldsCompound
    YieldsKeepTheirRate
PROPERTIES
    EveryDaySettled
CHECK_DEADLOCK FALSE
