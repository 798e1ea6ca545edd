SPECIFICATION Spec
CONSTANTS
    Accounts = {1, 2}
    Banked = {1}
    stock = stock
    fund = fund
    Instruments <- MCInstruments
    Funds = {fund}
    Risky = {stock}
    Costs = {0, 1}
    Prices = {3}
    Opening <- MCOpening
    MaxTrades = 2
    LastDay = 3
    Weekend = {2}
    Manual = {11}
    Requests = {r1, r2}
    Bootstrap = 3
    MaxRestarts = 1
    Symbols = {name}
    Types = {"stock", "cash", "metal"}
    MaxInstruments = 2
SYMMETRY RequestSymmetry
INVARIANTS
    TypeOK
    FiguresAgree
PROPERTIES
    StoredRatesStand
    CreatedMeansPriced
CHECK_DEADLOCK FALSE
