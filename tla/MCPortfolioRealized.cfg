SPECIFICATION Spec
CONSTANTS
    Accounts = {1, 2}
    Banked = {1}
    Instruments = {stock, fund}
    Funds = {fund}
    Risky = {stock}
    Costs = {0, 1}
    Prices = {3}
    Opening <- MCOpening
    MaxTrades = 4
INVARIANTS
    RealizedCountedOnce
CHECK_DEADLOCK FALSE
